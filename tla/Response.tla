------------------------------ MODULE Response ------------------------------
(***************************************************************************)
(* MitigationEngine::execute_response of src/enforcer/MitigationEngine.cpp *)
(* and the calls it makes to the enforcer: what a node does with a round   *)
(* that reached EXECUTED.  It runs in whichever thread completed the       *)
(* round, so two responses may overlap; isolate_target holds the mutex     *)
(* only for its first and its last phase.                                  *)
(*                                                                         *)
(* The evidence is abstracted to the fields the engine extracts.           *)
(***************************************************************************)
EXTENDS PolicyEnforcer

CONSTANTS
    Caller,       \* threads that execute responses
    Evidence,     \* what they are executed with: records [schema, event,
                  \* verdict, pid, src]
    Scene,        \* what may happen during a behaviour: records [evidence,
                  \* targets, moves, safe, exits, backends]
    Pid,          \* process identifiers
    SelfPid,      \* getpid()
    PidWidth,     \* 2^32: a pid of the evidence is cut to it
    MaxResponses  \* bound on the responses of a behaviour

ASSUME ResponseAssumption ==
    /\ MaxResponses \in Nat
    /\ \A s \in Scene :
          /\ s.evidence \subseteq Evidence /\ s.targets \subseteq Target
          /\ s.moves \subseteq Target \X Addr /\ s.exits \subseteq Pid
          /\ s.backends \subseteq {"NFTABLES", "IPTABLES"}

VARIABLES
    processes,  \* the processes that exist
    caller,     \* what each thread is doing
    responses,  \* responses begun
    scene,      \* the element of Scene that this behaviour meets
    lateSafe    \* history: targets safe-listed while or after being isolated

responseVars == <<safe_list, peer_ip, peer_port, isolated, cooling, backends,
                  ebpf, nft, iptables, droppedFor, reopened, processes, caller,
                  responses, scene, lateSafe>>

NoEvidence == [schema |-> FALSE, event |-> "", verdict |-> "", pid |-> 0, src |-> NoAddr]
CallerIdle == [at |-> "idle", ev |-> NoEvidence, target |-> NoTarget,
               goal |-> "block", addr |-> NoAddr, ok |-> FALSE, any |-> FALSE]

ResponseInit ==
    /\ EnforcerInit
    /\ scene \in Scene /\ backends = scene.backends
    /\ processes = Pid
    /\ caller = [c \in Caller |-> CallerIdle]
    /\ responses = 0
    /\ lateSafe = {}

Goes(c, at) == caller' = [caller EXCEPT ![c].at = at]

\* Evidence that fails validate_evidence_schema ends the response.
execute_response(c, ev, t) ==
    /\ caller[c].at = "idle" /\ responses < MaxResponses
    /\ responses' = responses + 1
    /\ caller' = [caller EXCEPT ![c] =
                    [CallerIdle EXCEPT !.ev = ev, !.target = t,
                                       !.at = IF ev.schema THEN "kill" ELSE "done"]]
    /\ UNCHANGED <<enforcerVars, processes, scene, lateSafe>>

validate_pid(pid) == pid > 1 /\ pid # SelfPid /\ pid \in processes

\* A process that is gone when the signal is sent counts as terminated.
terminate_process(pid, ok) ==
    \/ /\ ~validate_pid(pid) /\ ok = FALSE
       /\ UNCHANGED processes
    \/ /\ validate_pid(pid) /\ ok = TRUE
       /\ processes' = processes \ {pid}
    \/ /\ validate_pid(pid) /\ ok = FALSE
       /\ UNCHANGED processes

KillProcess(c) ==
    /\ caller[c].at = "kill"
    /\ LET ev == caller[c].ev IN
       \E ok \in BOOLEAN :
          /\ IF ev.event = "privilege_escalation" /\ ev.pid > 0
             THEN terminate_process(ev.pid % PidWidth, ok)
             ELSE ok = FALSE /\ UNCHANGED processes
          /\ caller' = [caller EXCEPT ![c].at = "block", ![c].any = ok]
    /\ UNCHANGED <<enforcerVars, responses, scene, lateSafe>>

\* The address of the evidence is blocked unless it is safe; a loopback
\* address is refused.
BlockSource(c) ==
    /\ caller[c].at = "block"
    /\ LET ev == caller[c].ev IN
       IF /\ ev.src \in Addr \ Loopback
          /\ ev.event = "lateral_movement" \/ ev.verdict \in {"THREAT", "CRITICAL"}
          /\ ~is_ip_safe(ev.src)
       THEN caller' = [caller EXCEPT ![c].at = "ebpf", ![c].goal = "block",
                                     ![c].addr = ev.src]
       ELSE Goes(c, "isolate")
    /\ UNCHANGED <<enforcerVars, processes, responses, scene, lateSafe>>

-----------------------------------------------------------------------------
\* isolate_target.

Returns(c, ok) ==
    caller' = [caller EXCEPT ![c].at = "done", ![c].any = @ \/ ok]

\* Mutant: a safe-listed target is isolated like any other.
isolate_target_NoSafeList(c) ==
    /\ caller[c].at = "isolate"
    /\ ~(cooling /\ isolated # {})
    /\ LET a == resolve_target(caller[c].target) IN
       IF a \notin Addr \ Loopback THEN Returns(c, FALSE)
       ELSE caller' = [caller EXCEPT ![c].at = "ebpf", ![c].goal = "isolate",
                                     ![c].addr = a, ![c].ok = FALSE]
    /\ UNCHANGED <<enforcerVars, processes, responses, scene, lateSafe>>
\* Phases 1 and 2.  The cooldown does not hold for the first isolation.  A
\* target that is isolated already is refreshed, wherever it is by now.
isolate_target(c) ==
    /\ caller[c].at = "isolate"
    /\ LET t == caller[c].target
           a == resolve_target(t) IN
       IF cooling /\ isolated # {}
       THEN Returns(c, FALSE) /\ UNCHANGED enforcerVars
       ELSE IF t \in isolated
       THEN /\ cooling' = TRUE /\ Returns(c, TRUE)
            /\ UNCHANGED <<safe_list, peer_ip, peer_port, isolated, backends,
                           ruleVars, droppedFor, reopened>>
       ELSE /\ IF is_safe_locked(t) \/ a = NoAddr \/ (a \in Loopback /\ t \notin peer_port)
               THEN Returns(c, FALSE)
               ELSE caller' = [caller EXCEPT
                        ![c].at = IF a \in Loopback THEN "port" ELSE "ebpf",
                        ![c].goal = "isolate", ![c].addr = a, ![c].ok = FALSE]
            /\ UNCHANGED enforcerVars
    /\ UNCHANGED <<processes, responses, scene, lateSafe>>

\* The target a rule is applied for: the source of the evidence is no target.
OnBehalf(c) == IF caller[c].goal = "isolate" THEN caller[c].target ELSE NoTarget

\* The end of a cascade for either goal.
CascadeEnds(c, ok) ==
    caller' = IF caller[c].goal = "isolate"
              THEN [caller EXCEPT ![c].at = "record", ![c].ok = ok]
              ELSE [caller EXCEPT ![c].at = "isolate", ![c].any = @ \/ ok]

otherVars == <<safe_list, peer_ip, peer_port, isolated, cooling, backends,
               processes, responses, scene, lateSafe>>

TryEbpf(c) ==
    /\ caller[c].at = "ebpf"
    /\ \E ok \in BOOLEAN :
          /\ apply_ebpf_drop(OnBehalf(c), caller[c].addr, ok)
          /\ IF ok THEN CascadeEnds(c, TRUE) ELSE Goes(c, "nft")
    /\ UNCHANGED otherVars

TryNftables(c) ==
    /\ caller[c].at = "nft"
    /\ \/ /\ "NFTABLES" \in backends
          /\ \E ok \in BOOLEAN :
                /\ apply_nftables_drop(OnBehalf(c), caller[c].addr, ok)
                /\ IF ok THEN CascadeEnds(c, TRUE) ELSE Goes(c, "iptables")
       \/ /\ "NFTABLES" \notin backends
          /\ Goes(c, "iptables")
          /\ UNCHANGED <<ruleVars, droppedFor, reopened>>
    /\ UNCHANGED otherVars

TryIptables(c) ==
    /\ caller[c].at = "iptables"
    /\ \E ok \in BOOLEAN :
          /\ ok => "IPTABLES" \in backends
          /\ apply_iptables_drop(OnBehalf(c), caller[c].addr, ok)
          /\ CascadeEnds(c, ok)
    /\ UNCHANGED otherVars

DropPort(c) ==
    /\ caller[c].at = "port"
    /\ \E ok \in BOOLEAN :
          /\ IF "NFTABLES" \in backends
             THEN apply_nftables_port_drop(caller[c].target, caller[c].addr, ok)
             ELSE ok = FALSE /\ UNCHANGED <<ruleVars, droppedFor, reopened>>
          /\ CascadeEnds(c, ok)
    /\ UNCHANGED otherVars

\* Mutant: the outcome of the backends is not looked at.
RecordIsolation_Always(c) ==
    /\ caller[c].at = "record"
    /\ Returns(c, TRUE)
    /\ isolated' = isolated \cup {caller[c].target} /\ cooling' = TRUE
    /\ UNCHANGED <<safe_list, peer_ip, peer_port, backends, ruleVars, droppedFor,
                   reopened, processes, responses, scene, lateSafe>>
\* Phase 4.
RecordIsolation(c) ==
    /\ caller[c].at = "record"
    /\ Returns(c, caller[c].ok)
    /\ IF caller[c].ok
       THEN isolated' = isolated \cup {caller[c].target} /\ cooling' = TRUE
       ELSE UNCHANGED <<isolated, cooling>>
    /\ UNCHANGED <<safe_list, peer_ip, peer_port, backends, ruleVars, droppedFor,
                   reopened, processes, responses, scene, lateSafe>>

Finish(c) ==
    /\ caller[c].at = "done"
    /\ caller' = [caller EXCEPT ![c] = CallerIdle]
    /\ UNCHANGED <<enforcerVars, processes, responses, scene, lateSafe>>

-----------------------------------------------------------------------------
\* The other threads that call the enforcer.

PeerAnnounces ==
    /\ \E m \in scene.moves : register_peer_ip(m[1], m[2]) \/ register_peer_port(m[1])
    /\ UNCHANGED <<processes, caller, responses, scene, lateSafe>>

\* A node is isolated, or a thread is past the check of the safe list for it.
BeingIsolated(t) ==
    \/ t \in isolated
    \/ \E c \in Caller : caller[c].target = t /\ caller[c].goal = "isolate"

SafeList(t) ==
    /\ t \in scene.safe
    /\ add_safe_node(t)
    /\ lateSafe' = lateSafe \cup {u \in Target : Upper[u] = Upper[t] /\ BeingIsolated(u)}
    /\ UNCHANGED <<processes, caller, responses, scene>>

Release(t) == release_target(t) /\ UNCHANGED <<processes, caller, responses, scene, lateSafe>>

ProcessExits(pid) ==
    /\ pid \in processes \cap scene.exits
    /\ processes' = processes \ {pid}
    /\ UNCHANGED <<enforcerVars, caller, responses, scene, lateSafe>>

ResponseNext ==
    \/ \E c \in Caller :
          \/ \E ev \in scene.evidence, t \in scene.targets : execute_response(c, ev, t)
          \/ KillProcess(c) \/ BlockSource(c) \/ isolate_target(c) \/ TryEbpf(c)
          \/ TryNftables(c) \/ TryIptables(c) \/ DropPort(c)
          \/ RecordIsolation(c) \/ Finish(c)
    \/ \E t \in Target : SafeList(t) \/ Release(t)
    \/ \E pid \in Pid : ProcessExits(pid)
    \/ PeerAnnounces
    \/ CooldownEnds /\ UNCHANGED <<processes, caller, responses, scene, lateSafe>>

ResponseSpec == ResponseInit /\ [][ResponseNext]_responseVars

-----------------------------------------------------------------------------
\* What a thread can be doing.
CallerState ==
    [at : {"idle", "kill", "block", "isolate", "ebpf", "nft", "iptables", "port",
           "record", "done"},
     ev : Evidence \cup {NoEvidence}, target : Target \cup {NoTarget},
     goal : {"block", "isolate"}, addr : Addr \cup {NoAddr},
     ok : BOOLEAN, any : BOOLEAN]

\* Type invariant.
ResponseTypeOK ==
    /\ safe_list \subseteq {Upper[t] : t \in Target}
    /\ peer_ip \in [Target -> Addr \cup {NoAddr}]
    /\ peer_port \subseteq Target
    /\ isolated \subseteq Target /\ cooling \in BOOLEAN
    /\ backends \subseteq {"NFTABLES", "IPTABLES"}
    /\ ebpf \subseteq Addr /\ nft \subseteq NftRule
    /\ iptables \in [Addr -> 0 .. MaxRules]
    /\ droppedFor \in [Target \cup {NoTarget} -> SUBSET Addr]
    /\ reopened \in [Target \cup {NoTarget} -> SUBSET Addr]
    /\ processes \subseteq Pid
    /\ caller \in [Caller -> CallerState]
    /\ responses \in 0 .. MaxResponses
    /\ scene \in Scene
    /\ lateSafe \subseteq Target

\* Traffic from an address is dropped; on the loopback network, traffic to the
\* port of the target.
Dropped(t, a) ==
    \/ a \in ebpf
    \/ iptables[a] > 0
    \/ \E r \in nft : /\ r.addr = a
                      /\ r.match = "ip" \/ (r.match \in {"tcp", "udp"} /\ r.port = t)

\* A target on the list of isolated nodes is really cut off: a rule that drops
\* it was applied, and still stands unless a release of some target took rules
\* from that address afterwards.
IsolatedIsDropped ==
    \A t \in isolated : \E a \in droppedFor[t] : Dropped(t, a) \/ a \in reopened[t]

\* "Returns true if any enforcement action was taken" (MitigationEngine.hpp):
\* when execute_response returns true the process of the evidence is gone, or
\* its source was dropped, or the target was, however the calls overlap.
TrueMeansActed ==
    \A c \in Caller :
        caller[c].at = "done" /\ caller[c].any
          => \/ caller[c].ev.pid > 0 /\ caller[c].ev.pid % PidWidth \notin processes
             \/ /\ caller[c].ev.src \in Addr
                /\ \/ Dropped(NoTarget, caller[c].ev.src)
                   \/ caller[c].ev.src \in reopened[NoTarget]
             \/ droppedFor[caller[c].target] # {}

\* A safe-listed node is not isolated, in whatever case its name is spelled,
\* unless it was put on the safe list after isolate_target had looked there.
SafeIsNotIsolated ==
    \A t \in isolated : is_safe_locked(t) => t \in lateSafe
=============================================================================
