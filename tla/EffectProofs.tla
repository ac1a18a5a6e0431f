---------------------------- MODULE EffectProofs ----------------------------
(***************************************************************************)
(* Proofs about what a node does outside itself: the isolation of targets  *)
(* under overlapping responses (Response), the telemetry child, which      *)
(* serves only when it is confined and is gone after shutdown(), and the   *)
(* lines piped to it, which are published whole or not at all              *)
(* (TelemetryBridge).                                                      *)
(***************************************************************************)
EXTENDS Response, TelemetryBridge, SequenceTheorems, FiniteSetTheorems, TLAPS

-----------------------------------------------------------------------------
(***************************************************************************)
(* Responses that overlap.                                                 *)
(***************************************************************************)

AnyTarget == Target \cup {NoTarget}
Cascade == {"ebpf", "nft", "iptables"}

\* What holds of a thread by where it is: it has a target once it has begun, a
\* cascade has an address, that of the evidence when it blocks its source, and
\* only an isolation has a port rule and a record.
Placed(r) ==
    /\ r.at # "idle" \/ r.goal = "isolate" => r.target \in Target
    /\ r.at \in Cascade \cup {"port"} => r.addr \in Addr
    /\ r.at \in {"port", "record"} => r.goal = "isolate"
    /\ r.at \in Cascade /\ r.goal = "block" => r.addr = r.ev.src

PlacedInv == ResponseTypeOK /\ \A c \in Caller : Placed(caller[c])

\* The addresses at which a target is still dropped, or that lost rules since.
Kept == [t \in AnyTarget |-> {a \in Addr : Dropped(t, a) \/ a \in reopened[t]}]

\* What the threads did is not undone but by a release that is accounted for.
Lasting ==
    /\ \A t \in AnyTarget : droppedFor[t] \subseteq droppedFor'[t] /\ Kept[t] \subseteq Kept'[t]
    /\ processes' \subseteq processes

RulesTypeOK ==
    /\ ebpf \subseteq Addr /\ nft \subseteq NftRule
    /\ iptables \in [Addr -> 0 .. MaxRules]
    /\ droppedFor \in [AnyTarget -> SUBSET Addr]
    /\ reopened \in [AnyTarget -> SUBSET Addr]

\* The assumptions on the constants, one by one.
LEMMA BoundsAreNat == MaxRules \in Nat /\ MaxResponses \in Nat
BY EnforcerAssumption, ResponseAssumption, Zenon

\* What happens in a scene is about known evidence, targets and addresses.
LEMMA SceneParts ==
  ASSUME NEW s \in Scene
  PROVE  /\ s.evidence \subseteq Evidence /\ s.targets \subseteq Target
         /\ s.moves \subseteq Target \X Addr /\ s.backends \subseteq {"NFTABLES", "IPTABLES"}
BY ResponseAssumption, Zenon

\* The types of the rules are part of the type invariant.
LEMMA RulesTyped == ResponseTypeOK => RulesTypeOK
BY SMTT(30) DEF ResponseTypeOK, RulesTypeOK, AnyTarget

\* A step that adds rules, and serves one target with them, keeps what is dropped.
LEMMA AddingKeeps ==
  ASSUME RulesTypeOK, NEW t \in AnyTarget, NEW a \in Addr,
         ebpf \subseteq ebpf', nft \subseteq nft',
         iptables' \in [Addr -> 0 .. MaxRules], \A b \in Addr : iptables'[b] >= iptables[b],
         \/ Serves(t, a) /\ Dropped(t, a)'
         \/ UNCHANGED <<droppedFor, reopened>>
  PROVE  /\ \A u \in AnyTarget : droppedFor[u] \subseteq droppedFor'[u] /\ Kept[u] \subseteq Kept'[u]
         /\ droppedFor' \in [AnyTarget -> SUBSET Addr] /\ reopened' \in [AnyTarget -> SUBSET Addr]
         /\ Serves(t, a) /\ Dropped(t, a)' => a \in droppedFor'[t] \cap Kept'[t]
<1>1. \A u \in AnyTarget, b \in Addr : Dropped(u, b) => Dropped(u, b)'
  <2>. TAKE u \in AnyTarget, b \in Addr
  <2>1. iptables[b] > 0 => iptables'[b] > 0
    <3>1. iptables'[b] >= iptables[b] /\ iptables'[b] \in 0 .. MaxRules
      OBVIOUS
    <3>2. iptables[b] \in 0 .. MaxRules
      BY Zenon DEF RulesTypeOK
    <3>. QED  BY <3>1, <3>2
  <2>. QED  BY <2>1, Zenon DEF Dropped
<1>2. CASE Serves(t, a) /\ Dropped(t, a)'
  <2>1. \A u \in AnyTarget : /\ droppedFor'[u] = IF u = t THEN droppedFor[u] \cup {a} ELSE droppedFor[u]
                             /\ reopened'[u] = IF u = t THEN reopened[u] \ {a} ELSE reopened[u]
    BY <1>2, Zenon DEF Serves, RulesTypeOK
  <2>2. droppedFor' \in [AnyTarget -> SUBSET Addr] /\ reopened' \in [AnyTarget -> SUBSET Addr]
    BY <1>2, Zenon DEF Serves, RulesTypeOK
  <2>3. \A u \in AnyTarget, b \in Addr : Dropped(u, b) \/ b \in reopened[u]
                                           => Dropped(u, b)' \/ b \in reopened'[u]
    <3>. TAKE u \in AnyTarget, b \in Addr
    <3>1. CASE u = t /\ b = a
      BY <1>2, <3>1, Zenon
    <3>2. CASE ~(u = t /\ b = a)
      BY <1>1, <2>1, <3>2, Zenon
    <3>. QED  BY <3>1, <3>2, Zenon
  <2>4. \A u \in AnyTarget : Kept[u] \subseteq Kept'[u]
    BY <2>3, Zenon DEF Kept
  <2>5. a \in Kept'[t]
    BY <1>2, Zenon DEF Kept
  <2>. QED  BY <2>1, <2>2, <2>4, <2>5, Zenon
<1>3. CASE UNCHANGED <<droppedFor, reopened>>
  <2>1. \A u \in AnyTarget : Kept[u] \subseteq Kept'[u]
    BY <1>1, <1>3, Zenon DEF Kept
  <2>2. Serves(t, a) /\ Dropped(t, a)' => a \in droppedFor'[t] \cap Kept'[t]
    <3>. SUFFICES ASSUME Serves(t, a), Dropped(t, a)' PROVE a \in droppedFor'[t] \cap Kept'[t]
      OBVIOUS
    <3>1. a \in Kept'[t]
      BY Zenon DEF Kept
    <3>2. a \in droppedFor'[t]
      BY Zenon DEF Serves, RulesTypeOK
    <3>. QED  BY <3>1, <3>2, Zenon
  <2>. QED  BY <1>3, <2>1, <2>2, Zenon DEF RulesTypeOK
<1>. QED  BY <1>2, <1>3, Zenon

\* What a backend does: nothing is lost, and success means that the target is
\* dropped at the address.
BackendStep(t, a, ok) ==
    /\ RulesTypeOK'
    /\ \A u \in AnyTarget : droppedFor[u] \subseteq droppedFor'[u] /\ Kept[u] \subseteq Kept'[u]
    /\ ok => a \in droppedFor'[t] \cap Kept'[t]

\* A backend that was not called or that failed.
LEMMA UnchangedRules ==
  ASSUME RulesTypeOK, NEW t \in AnyTarget, NEW a \in Addr,
         UNCHANGED <<ruleVars, droppedFor, reopened>>
  PROVE  BackendStep(t, a, FALSE)
<1>1. Kept' = Kept
  BY Zenon DEF Kept, Dropped, ruleVars
<1>. QED  BY <1>1, Zenon DEF BackendStep, RulesTypeOK, ruleVars

\* The address is in the blocklist map.
LEMMA EbpfStep ==
  ASSUME RulesTypeOK, NEW t \in AnyTarget, NEW a \in Addr, NEW ok \in BOOLEAN,
         apply_ebpf_drop(t, a, ok)
  PROVE  BackendStep(t, a, ok)
<1>1. CASE ok
  <2>1. ebpf' = ebpf \cup {a} /\ Serves(t, a) /\ UNCHANGED <<nft, iptables>>
    BY <1>1, Zenon DEF apply_ebpf_drop
  <2>2. Dropped(t, a)'
    BY <2>1, Zenon DEF Dropped
  <2>3. iptables' \in [Addr -> 0 .. MaxRules] /\ \A b \in Addr : iptables'[b] >= iptables[b]
    BY <2>1 DEF RulesTypeOK
  <2>. QED  BY <2>1, <2>2, <2>3, AddingKeeps, Zenon DEF BackendStep, RulesTypeOK
<1>2. CASE ~ok
  BY <1>2, UnchangedRules, Zenon DEF apply_ebpf_drop
<1>. QED  BY <1>1, <1>2, Zenon

\* The rule for any interface is there if the result is true.
LEMMA NftStep ==
  ASSUME RulesTypeOK, NEW t \in AnyTarget, NEW a \in Addr, NEW ok \in BOOLEAN,
         apply_nftables_drop(t, a, ok)
  PROVE  BackendStep(t, a, ok)
<1>. PICK done \in SUBSET {"ip", "lo"} :
          /\ ok = ("ip" \in done)
          /\ nft' = nft \cup [match : done, addr : {a}, port : {NoPort}]
          /\ IF ok THEN Serves(t, a) ELSE UNCHANGED <<droppedFor, reopened>>
          /\ UNCHANGED <<ebpf, iptables>>
  BY Zenon DEF apply_nftables_drop
<1>1. iptables' \in [Addr -> 0 .. MaxRules] /\ \A b \in Addr : iptables'[b] >= iptables[b]
  BY DEF RulesTypeOK
<1>2. nft' \subseteq NftRule
  BY Zenon DEF RulesTypeOK, NftRule
<1>3. ok => Dropped(t, a)'
  <2>. SUFFICES ASSUME ok PROVE Dropped(t, a)'
    OBVIOUS
  <2>. DEFINE r == [match |-> "ip", addr |-> a, port |-> NoPort]
  <2>1. r \in nft'
    BY Zenon
  <2>. QED  BY <2>1, Zenon DEF Dropped
<1>4. \/ Serves(t, a) /\ Dropped(t, a)'
      \/ UNCHANGED <<droppedFor, reopened>>
  BY <1>3, SMTT(30)
<1>. QED  BY <1>1, <1>2, <1>3, <1>4, AddingKeeps, Zenon DEF BackendStep, RulesTypeOK

\* One of the two rules on the port of the target is there.
LEMMA PortStep ==
  ASSUME RulesTypeOK, NEW t \in Target, NEW a \in Addr, NEW ok \in BOOLEAN,
         apply_nftables_port_drop(t, a, ok)
  PROVE  BackendStep(t, a, ok)
<1>. PICK done \in SUBSET {"tcp", "udp"} :
          /\ ok = (done # {})
          /\ nft' = nft \cup [match : done, addr : {a}, port : {t}]
          /\ IF ok THEN Serves(t, a) ELSE UNCHANGED <<droppedFor, reopened>>
          /\ UNCHANGED <<ebpf, iptables>>
  BY Zenon DEF apply_nftables_port_drop
<1>0. t \in AnyTarget
  BY Zenon DEF AnyTarget
<1>1. iptables' \in [Addr -> 0 .. MaxRules] /\ \A b \in Addr : iptables'[b] >= iptables[b]
  BY DEF RulesTypeOK
<1>2. nft' \subseteq NftRule
  BY Zenon DEF RulesTypeOK, NftRule
<1>3. ok => Dropped(t, a)'
  <2>. SUFFICES ASSUME ok PROVE Dropped(t, a)'
    OBVIOUS
  <2>. PICK m \in done : TRUE
    BY Zenon
  <2>. DEFINE r == [match |-> m, addr |-> a, port |-> t]
  <2>1. r \in nft' /\ m \in {"tcp", "udp"}
    OBVIOUS
  <2>. QED  BY <2>1, Zenon DEF Dropped
<1>4. \/ Serves(t, a) /\ Dropped(t, a)'
      \/ UNCHANGED <<droppedFor, reopened>>
  BY <1>3, Zenon
<1>. QED  BY <1>0, <1>1, <1>2, <1>3, <1>4, AddingKeeps, Zenon DEF BackendStep, RulesTypeOK

\* One more rule on the address.
LEMMA IptablesStep ==
  ASSUME RulesTypeOK, NEW t \in AnyTarget, NEW a \in Addr, NEW ok \in BOOLEAN,
         apply_iptables_drop(t, a, ok)
  PROVE  BackendStep(t, a, ok)
<1>1. CASE ok
  <2>1. /\ iptables[a] < MaxRules /\ iptables' = [iptables EXCEPT ![a] = @ + 1]
        /\ Serves(t, a) /\ UNCHANGED <<ebpf, nft>>
    BY <1>1, Zenon DEF apply_iptables_drop
  <2>2. /\ MaxRules \in Nat /\ iptables[a] + 1 \in 0 .. MaxRules
        /\ iptables[a] \in 0 .. MaxRules
    BY <2>1, BoundsAreNat DEF RulesTypeOK
  <2>3. iptables' \in [Addr -> 0 .. MaxRules] /\ \A b \in Addr : iptables'[b] >= iptables[b]
    BY <2>1, <2>2 DEF RulesTypeOK
  <2>4. Dropped(t, a)'
    <3>1. iptables'[a] > 0
      BY <2>1, <2>2 DEF RulesTypeOK
    <3>. QED  BY <3>1, Zenon DEF Dropped
  <2>. QED  BY <2>1, <2>3, <2>4, AddingKeeps, Zenon DEF BackendStep, RulesTypeOK
<1>2. CASE ~ok
  BY <1>2, UnchangedRules, Zenon DEF apply_iptables_drop
<1>. QED  BY <1>1, <1>2, Zenon

\* A release removes rules, and every address that lost one is in reopened.
LEMMA ReleaseStep ==
  ASSUME RulesTypeOK, peer_ip \in [Target -> Addr \cup {NoAddr}], NEW t \in Target,
         release_target(t)
  PROVE  /\ RulesTypeOK'
         /\ \A u \in AnyTarget : droppedFor[u] \subseteq droppedFor'[u] /\ Kept[u] \subseteq Kept'[u]
<1>. DEFINE a == resolve_target(t)
<1>1. a \in Addr \cup {NoAddr}
  BY Zenon DEF resolve_target
<1>. HIDE DEF a
<1>2. /\ nft' \subseteq nft /\ ebpf' \subseteq ebpf
      /\ \/ iptables' = iptables
         \/ a \in Addr /\ iptables' = [iptables EXCEPT ![a] = IF @ > 0 THEN @ - 1 ELSE 0]
  <2>1. CASE a = NoAddr
    BY <2>1, Zenon DEF release_target, ruleVars, a
  <2>2. CASE a # NoAddr /\ a \in Loopback
    BY <2>2, SMTT(30) DEF release_target, remove_nftables_port_drop,
                         remove_nftables_rules_matching, a
  <2>3. CASE a # NoAddr /\ a \notin Loopback
    BY <1>1, <2>3, Zenon DEF release_target, remove_nftables_drop, remove_nftables_rules_matching,
                      remove_ebpf_drop, remove_iptables_drop, a
  <2>. QED  BY <2>1, <2>2, <2>3, Zenon
<1>3. iptables' \in [Addr -> 0 .. MaxRules]
  <2>1. CASE iptables' = iptables
    BY <2>1, Zenon DEF RulesTypeOK
  <2>2. CASE a \in Addr /\ iptables' = [iptables EXCEPT ![a] = IF @ > 0 THEN @ - 1 ELSE 0]
    <3>1. MaxRules \in Nat /\ iptables[a] \in 0 .. MaxRules
      BY <2>2, BoundsAreNat, Zenon DEF RulesTypeOK
    <3>2. (IF iptables[a] > 0 THEN iptables[a] - 1 ELSE 0) \in 0 .. MaxRules
      BY <3>1
    <3>. QED  BY <2>2, <3>2, Zenon DEF RulesTypeOK
  <2>. QED  BY <1>2, <2>1, <2>2, Zenon
<1>4. LosingRules \subseteq Addr
  BY SMTT(30) DEF LosingRules
<1>5. /\ droppedFor' = droppedFor
      /\ reopened' = [u \in AnyTarget |-> reopened[u] \cup LosingRules]
  BY Zenon DEF release_target, AnyTarget
<1>6. RulesTypeOK'
  BY <1>2, <1>3, <1>4, <1>5, Zenon DEF RulesTypeOK
<1>7. \A u \in AnyTarget, b \in Addr : Dropped(u, b) => Dropped(u, b)' \/ b \in LosingRules
  <2>. SUFFICES ASSUME NEW u \in AnyTarget, NEW b \in Addr, Dropped(u, b), b \notin LosingRules
                PROVE  Dropped(u, b)'
    OBVIOUS
  <2>1. /\ b \notin ebpf \ ebpf' /\ ~(\E r \in nft \ nft' : r.addr = b)
        /\ ~(iptables'[b] < iptables[b])
    BY Zenon DEF LosingRules
  <2>2. iptables[b] > 0 => iptables'[b] > 0
    <3>1. iptables[b] \in 0 .. MaxRules /\ iptables'[b] \in 0 .. MaxRules
      BY <1>3, Zenon DEF RulesTypeOK
    <3>. QED  BY <2>1, <3>1
  <2>. QED  BY <2>1, <2>2, Zenon DEF Dropped
<1>8. \A u \in AnyTarget : Kept[u] \subseteq Kept'[u]
  BY <1>5, <1>7, Zenon DEF Kept
<1>. QED  BY <1>5, <1>6, <1>8, Zenon

MiscTypeOK ==
    /\ safe_list \subseteq {Upper[t] : t \in Target}
    /\ peer_ip \in [Target -> Addr \cup {NoAddr}]
    /\ peer_port \subseteq Target
    /\ isolated \subseteq Target /\ cooling \in BOOLEAN
    /\ backends \subseteq {"NFTABLES", "IPTABLES"}
    /\ processes \subseteq Pid
    /\ responses \in 0 .. MaxResponses
    /\ scene \in Scene
    /\ lateSafe \subseteq Target

\* The type invariant in its three parts.
LEMMA TypeParts ==
  ResponseTypeOK <=> RulesTypeOK /\ MiscTypeOK /\ caller \in [Caller -> CallerState]
BY Zenon DEF ResponseTypeOK, RulesTypeOK, MiscTypeOK, AnyTarget

\* The same in the next state.
LEMMA TypePartsNext ==
  ResponseTypeOK' <=> RulesTypeOK' /\ MiscTypeOK' /\ (caller \in [Caller -> CallerState])'
BY Zenon DEF ResponseTypeOK, RulesTypeOK, MiscTypeOK, AnyTarget

\* One thread moves to a state that suits its place; the others stay.
LEMMA OneMoves ==
  ASSUME PlacedInv, NEW c \in Caller, NEW r \in CallerState, Placed(r),
         caller' = [caller EXCEPT ![c] = r]
  PROVE  /\ caller' \in [Caller -> CallerState]
         /\ \A d \in Caller : Placed(caller'[d])
         /\ caller'[c] = r /\ \A d \in Caller \ {c} : caller'[d] = caller[d]
<1>1. caller \in [Caller -> CallerState]
  BY Zenon DEF PlacedInv, ResponseTypeOK
<1>2. caller'[c] = r /\ \A d \in Caller \ {c} : caller'[d] = caller[d]
  BY <1>1, Zenon
<1>3. \A d \in Caller : Placed(caller'[d])
  <2>. TAKE d \in Caller
  <2>1. CASE d = c
    BY <1>2, <2>1, Zenon
  <2>2. CASE d # c
    <3>1. Placed(caller[d])
      BY SMTT(30) DEF PlacedInv
    <3>. QED  BY <1>2, <2>2, <3>1, Zenon
  <2>. QED  BY <2>1, <2>2, Zenon
<1>. QED  BY <1>1, <1>2, <1>3, Zenon

\* A response begins with evidence and a target of the scene.
LEMMA BeginTypes ==
  ASSUME PlacedInv, NEW c \in Caller, NEW ev \in scene.evidence, NEW t \in scene.targets,
         execute_response(c, ev, t)
  PROVE  PlacedInv'
<1>0. RulesTypeOK /\ MiscTypeOK
  BY TypeParts, Zenon DEF PlacedInv
<1>1. ev \in Evidence /\ t \in Target
  <2>1. scene.evidence \subseteq Evidence /\ scene.targets \subseteq Target
    BY <1>0, SceneParts, Zenon DEF MiscTypeOK
  <2>. QED  BY <2>1, Zenon
<1>2. PICK r : r = [CallerIdle EXCEPT !.ev = ev, !.target = t,
                                      !.at = IF ev.schema THEN "kill" ELSE "done"]
  OBVIOUS
<1>3. r \in CallerState /\ Placed(r)
  BY <1>1, <1>2, Zenon DEF CallerState, CallerIdle, Placed, Cascade
<1>4. (caller \in [Caller -> CallerState])' /\ \A d \in Caller : Placed(caller'[d])
  BY <1>2, <1>3, OneMoves, Zenon DEF execute_response
<1>5. responses' \in 0 .. MaxResponses
  BY <1>0, BoundsAreNat DEF execute_response, MiscTypeOK
<1>6. RulesTypeOK' /\ MiscTypeOK'
  BY <1>0, <1>5, Zenon DEF execute_response, RulesTypeOK, MiscTypeOK, enforcerVars, ruleVars
<1>. QED  BY <1>4, <1>6, TypePartsNext, Zenon DEF PlacedInv

\* terminate_process removes at most a process.
LEMMA KillTypes == ASSUME PlacedInv, NEW c \in Caller, KillProcess(c) PROVE PlacedInv'
<1>0. RulesTypeOK /\ MiscTypeOK /\ caller \in [Caller -> CallerState] /\ Placed(caller[c])
  BY TypeParts, Zenon DEF PlacedInv
<1>1. PICK ok \in BOOLEAN : /\ caller' = [caller EXCEPT ![c].at = "block", ![c].any = ok]
                            /\ processes' \subseteq processes
  <2>. PICK ok \in BOOLEAN :
            /\ IF caller[c].ev.event = "privilege_escalation" /\ caller[c].ev.pid > 0
               THEN terminate_process(caller[c].ev.pid % PidWidth, ok)
               ELSE ok = FALSE /\ UNCHANGED processes
            /\ caller' = [caller EXCEPT ![c].at = "block", ![c].any = ok]
    BY Zenon DEF KillProcess
  <2>1. processes' \subseteq processes
    BY Zenon DEF terminate_process
  <2>. QED  BY <2>1, Zenon
<1>2. PICK r : r = [caller[c] EXCEPT !.at = "block", !.any = ok]
  OBVIOUS
<1>3. r \in CallerState /\ Placed(r) /\ caller' = [caller EXCEPT ![c] = r]
  <2>1. caller' = [caller EXCEPT ![c] = r]
    BY <1>0, <1>1, <1>2, Zenon
  <2>2. r \in CallerState
    BY <1>0, <1>2, Zenon DEF CallerState
  <2>3. Placed(r)
    BY <1>0, <1>2 DEF CallerState, Placed, Cascade, KillProcess
  <2>. QED  BY <2>1, <2>2, <2>3, Zenon
<1>4. (caller \in [Caller -> CallerState])' /\ \A d \in Caller : Placed(caller'[d])
  BY <1>3, OneMoves, Zenon
<1>5. RulesTypeOK' /\ MiscTypeOK'
  BY <1>0, <1>1, Zenon DEF KillProcess, RulesTypeOK, MiscTypeOK, enforcerVars, ruleVars
<1>. QED  BY <1>4, <1>5, TypePartsNext, Zenon DEF PlacedInv

\* The source is blocked only if it is an address.
LEMMA BlockTypes == ASSUME PlacedInv, NEW c \in Caller, BlockSource(c) PROVE PlacedInv'
<1>0. RulesTypeOK /\ MiscTypeOK /\ caller \in [Caller -> CallerState] /\ Placed(caller[c])
  BY TypeParts, Zenon DEF PlacedInv
<1>1. \/ /\ caller[c].ev.src \in Addr
         /\ caller' = [caller EXCEPT ![c].at = "ebpf", ![c].goal = "block",
                                     ![c].addr = caller[c].ev.src]
      \/ caller' = [caller EXCEPT ![c].at = "isolate"]
  BY Zenon DEF BlockSource, Goes
<1>2. PICK r : /\ caller' = [caller EXCEPT ![c] = r]
               /\ \/ /\ caller[c].ev.src \in Addr
                     /\ r = [caller[c] EXCEPT !.at = "ebpf", !.goal = "block",
                                              !.addr = caller[c].ev.src]
                  \/ r = [caller[c] EXCEPT !.at = "isolate"]
  BY <1>0, <1>1, Zenon
<1>3. r \in CallerState /\ Placed(r)
  <2>1. CASE r = [caller[c] EXCEPT !.at = "isolate"]
    BY <1>0, <2>1, Zenon DEF CallerState, Placed, Cascade, BlockSource
  <2>2. CASE /\ caller[c].ev.src \in Addr
             /\ r = [caller[c] EXCEPT !.at = "ebpf", !.goal = "block", !.addr = caller[c].ev.src]
    BY <1>0, <2>2, Zenon DEF CallerState, Placed, Cascade, BlockSource
  <2>. QED  BY <1>2, <2>1, <2>2, Zenon
<1>4. (caller \in [Caller -> CallerState])' /\ \A d \in Caller : Placed(caller'[d])
  BY <1>2, <1>3, OneMoves, Zenon
<1>5. RulesTypeOK' /\ MiscTypeOK'
  BY <1>0, Zenon DEF BlockSource, RulesTypeOK, MiscTypeOK, enforcerVars, ruleVars
<1>. QED  BY <1>4, <1>5, TypePartsNext, Zenon DEF PlacedInv

\* A thread goes on to the rules only with an address.
LEMMA IsolateTypes == ASSUME PlacedInv, NEW c \in Caller, isolate_target(c) PROVE PlacedInv'
<1>0. RulesTypeOK /\ MiscTypeOK /\ caller \in [Caller -> CallerState] /\ Placed(caller[c])
  BY TypeParts, Zenon DEF PlacedInv
<1>1. PICK a : a = resolve_target(caller[c].target)
  OBVIOUS
<1>2. caller[c].target \in Target /\ a \in Addr \cup {NoAddr}
  BY <1>0, <1>1, Zenon DEF isolate_target, Placed, resolve_target, MiscTypeOK
<1>3. PICK r : /\ caller' = [caller EXCEPT ![c] = r]
               /\ \/ \E ok \in BOOLEAN : r = [caller[c] EXCEPT !.at = "done", !.any = @ \/ ok]
                  \/ /\ a # NoAddr
                     /\ r = [caller[c] EXCEPT !.at = IF a \in Loopback THEN "port" ELSE "ebpf",
                                              !.goal = "isolate", !.addr = a, !.ok = FALSE]
  <2>1. CASE \E ok \in BOOLEAN : Returns(c, ok)
    BY <1>0, <2>1, Zenon DEF Returns
  <2>2. CASE /\ a # NoAddr
             /\ caller' = [caller EXCEPT ![c].at = IF a \in Loopback THEN "port" ELSE "ebpf",
                                         ![c].goal = "isolate", ![c].addr = a, ![c].ok = FALSE]
    BY <1>0, <2>2, Zenon
  <2>3. \/ \E ok \in BOOLEAN : Returns(c, ok)
        \/ /\ a # NoAddr
           /\ caller' = [caller EXCEPT ![c].at = IF a \in Loopback THEN "port" ELSE "ebpf",
                                       ![c].goal = "isolate", ![c].addr = a, ![c].ok = FALSE]
    BY <1>1, Zenon DEF isolate_target
  <2>. QED  BY <2>1, <2>2, <2>3, Zenon
<1>4. r \in CallerState /\ Placed(r)
  <2>1. CASE \E ok \in BOOLEAN : r = [caller[c] EXCEPT !.at = "done", !.any = @ \/ ok]
    <3>. PICK ok \in BOOLEAN : r = [caller[c] EXCEPT !.at = "done", !.any = @ \/ ok]
      BY <2>1, Zenon
    <3>1. r \in CallerState
      BY <1>0, Zenon DEF CallerState
    <3>2. Placed(r)
      BY <1>0, <1>2 DEF CallerState, Placed, Cascade
    <3>. QED  BY <3>1, <3>2, Zenon
  <2>2. CASE /\ a # NoAddr
             /\ r = [caller[c] EXCEPT !.at = IF a \in Loopback THEN "port" ELSE "ebpf",
                                      !.goal = "isolate", !.addr = a, !.ok = FALSE]
    <3>1. r \in CallerState
      BY <1>0, <1>2, <2>2, Zenon DEF CallerState
    <3>2. Placed(r)
      BY <1>0, <1>2, <2>2 DEF CallerState, Placed, Cascade
    <3>. QED  BY <3>1, <3>2, Zenon
  <2>. QED  BY <1>3, <2>1, <2>2, Zenon
<1>5. (caller \in [Caller -> CallerState])' /\ \A d \in Caller : Placed(caller'[d])
  BY <1>3, <1>4, OneMoves, Zenon
<1>6. /\ cooling' = cooling \/ cooling' = TRUE
      /\ UNCHANGED <<safe_list, peer_ip, peer_port, isolated, backends, ruleVars, droppedFor,
                     reopened, processes, responses, scene, lateSafe>>
  BY Zenon DEF isolate_target, enforcerVars, ruleVars
<1>7. RulesTypeOK' /\ MiscTypeOK'
  BY <1>0, <1>6, Zenon DEF RulesTypeOK, MiscTypeOK, ruleVars
<1>. QED  BY <1>5, <1>7, TypePartsNext, Zenon DEF PlacedInv

\* The target recorded is one.
LEMMA RecordTypes == ASSUME PlacedInv, NEW c \in Caller, RecordIsolation(c) PROVE PlacedInv'
<1>0. RulesTypeOK /\ MiscTypeOK /\ caller \in [Caller -> CallerState] /\ Placed(caller[c])
  BY TypeParts, Zenon DEF PlacedInv
<1>1. PICK r : /\ caller' = [caller EXCEPT ![c] = r]
               /\ r = [caller[c] EXCEPT !.at = "done", !.any = @ \/ caller[c].ok]
  BY <1>0, Zenon DEF RecordIsolation, Returns
<1>2. r \in CallerState /\ Placed(r)
  BY <1>0, <1>1, Zenon DEF CallerState, Placed, Cascade, RecordIsolation
<1>3. (caller \in [Caller -> CallerState])' /\ \A d \in Caller : Placed(caller'[d])
  BY <1>1, <1>2, OneMoves, Zenon
<1>4. isolated' \subseteq Target /\ cooling' \in BOOLEAN
  BY <1>0, Zenon DEF RecordIsolation, Placed, MiscTypeOK
<1>5. RulesTypeOK' /\ MiscTypeOK'
  BY <1>0, <1>4, Zenon DEF RecordIsolation, RulesTypeOK, MiscTypeOK, ruleVars
<1>. QED  BY <1>3, <1>5, TypePartsNext, Zenon DEF PlacedInv

\* The thread is idle again.
LEMMA FinishTypes == ASSUME PlacedInv, NEW c \in Caller, Finish(c) PROVE PlacedInv'
<1>0. RulesTypeOK /\ MiscTypeOK
  BY TypeParts, Zenon DEF PlacedInv
<1>1. PICK r : r = CallerIdle
  OBVIOUS
<1>2. r \in CallerState /\ Placed(r)
  BY <1>1, Zenon DEF CallerState, CallerIdle, Placed, Cascade
<1>3. (caller \in [Caller -> CallerState])' /\ \A d \in Caller : Placed(caller'[d])
  BY <1>1, <1>2, OneMoves, Zenon DEF Finish
<1>4. RulesTypeOK' /\ MiscTypeOK'
  BY <1>0, Zenon DEF Finish, RulesTypeOK, MiscTypeOK, enforcerVars, ruleVars
<1>. QED  BY <1>3, <1>4, TypePartsNext, Zenon DEF PlacedInv

\* After the last backend a thread records or goes on to the isolation.
LEMMA CascadeMoves ==
  ASSUME PlacedInv, NEW c \in Caller, caller[c].at \in Cascade \cup {"port"},
         NEW ok \in BOOLEAN, CascadeEnds(c, ok)
  PROVE  (caller \in [Caller -> CallerState])' /\ \A d \in Caller : Placed(caller'[d])
<1>0. caller \in [Caller -> CallerState] /\ Placed(caller[c])
  BY TypeParts, Zenon DEF PlacedInv
<1>1. CASE caller[c].goal = "isolate"
  <2>1. PICK r : r = [caller[c] EXCEPT !.at = "record", !.ok = ok]
    OBVIOUS
  <2>2. caller' = [caller EXCEPT ![c] = r]
    BY <1>0, <1>1, <2>1, Zenon DEF CascadeEnds
  <2>3. r \in CallerState
    BY <1>0, <2>1, Zenon DEF CallerState
  <2>4. Placed(r)
    BY <1>0, <1>1, <2>1, Zenon DEF CallerState, Placed, Cascade
  <2>. QED  BY <2>2, <2>3, <2>4, OneMoves, Zenon
<1>2. CASE caller[c].goal # "isolate"
  <2>1. PICK r : r = [caller[c] EXCEPT !.at = "isolate", !.any = @ \/ ok]
    OBVIOUS
  <2>2. caller' = [caller EXCEPT ![c] = r]
    BY <1>0, <1>2, <2>1, Zenon DEF CascadeEnds
  <2>3. r \in CallerState
    BY <1>0, <2>1, Zenon DEF CallerState
  <2>4. Placed(r)
    BY <1>0, <1>2, <2>1 DEF CallerState, Placed, Cascade
  <2>. QED  BY <2>2, <2>3, <2>4, OneMoves, Zenon
<1>. QED  BY <1>1, <1>2, Zenon

\* After a backend that failed it tries the next.
LEMMA GoesOn ==
  ASSUME PlacedInv, NEW c \in Caller, caller[c].at \in Cascade, NEW at \in Cascade, Goes(c, at)
  PROVE  (caller \in [Caller -> CallerState])' /\ \A d \in Caller : Placed(caller'[d])
<1>0. caller \in [Caller -> CallerState] /\ Placed(caller[c])
  BY TypeParts, Zenon DEF PlacedInv
<1>1. PICK r : r = [caller[c] EXCEPT !.at = at]
  BY Zenon
<1>2. caller' = [caller EXCEPT ![c] = r]
  BY <1>0, <1>1, Zenon DEF Goes
<1>3. r \in CallerState
  BY <1>0, <1>1 DEF CallerState, Cascade
<1>4. Placed(r)
  BY <1>0, <1>1 DEF CallerState, Placed, Cascade
<1>. QED  BY <1>2, <1>3, <1>4, OneMoves, Zenon

\* A backend of the cascade: what it does to the rules, and how the thread goes on.
TriesBackend(c, ok) ==
    /\ caller[c].at \in Cascade \cup {"port"}
    /\ BackendStep(OnBehalf(c), caller[c].addr, ok)
    /\ \/ CascadeEnds(c, ok)
       \/ ~ok /\ caller[c].at \in Cascade /\ \E at \in Cascade : Goes(c, at)
    /\ UNCHANGED otherVars

\* The four steps that call a backend have that form.
LEMMA CascadeStep ==
  ASSUME PlacedInv, NEW c \in Caller,
         TryEbpf(c) \/ TryNftables(c) \/ TryIptables(c) \/ DropPort(c)
  PROVE  \E ok \in BOOLEAN : TriesBackend(c, ok)
<1>0. RulesTypeOK /\ caller \in [Caller -> CallerState] /\ Placed(caller[c])
  BY TypeParts, Zenon DEF PlacedInv
<1>1. caller[c].at \in Cascade \cup {"port"}
  BY Zenon DEF TryEbpf, TryNftables, TryIptables, DropPort, Cascade
<1>2. caller[c].target \in Target /\ caller[c].addr \in Addr /\ OnBehalf(c) \in AnyTarget
  BY <1>0, <1>1, Zenon DEF Placed, Cascade, OnBehalf, AnyTarget
<1>3. PICK t \in AnyTarget, a \in Addr : t = OnBehalf(c) /\ a = caller[c].addr
  BY <1>2, Zenon
<1>4. CASE TryEbpf(c)
  <2>1. PICK ok \in BOOLEAN : /\ apply_ebpf_drop(t, a, ok)
                              /\ IF ok THEN CascadeEnds(c, TRUE) ELSE Goes(c, "nft")
    BY <1>3, <1>4, Zenon DEF TryEbpf
  <2>2. BackendStep(t, a, ok)
    BY <1>0, <2>1, EbpfStep, Zenon
  <2>3. CASE ok
    BY <1>1, <1>3, <1>4, <2>1, <2>2, <2>3, Zenon DEF TryEbpf, TriesBackend
  <2>4. CASE ~ok
    BY <1>1, <1>3, <1>4, <2>1, <2>2, <2>4, Zenon DEF TryEbpf, TriesBackend, Cascade
  <2>. QED  BY <2>3, <2>4, Zenon
<1>5. CASE TryNftables(c)
  <2>0. /\ caller[c].at = "nft" /\ UNCHANGED otherVars
        /\ \/ \E ok \in BOOLEAN : /\ apply_nftables_drop(t, a, ok)
                                  /\ IF ok THEN CascadeEnds(c, TRUE) ELSE Goes(c, "iptables")
           \/ Goes(c, "iptables") /\ UNCHANGED <<ruleVars, droppedFor, reopened>>
    BY <1>3, <1>5, Zenon DEF TryNftables
  <2>1. CASE \E ok \in BOOLEAN : /\ apply_nftables_drop(t, a, ok)
                                 /\ IF ok THEN CascadeEnds(c, TRUE) ELSE Goes(c, "iptables")
    <3>1. PICK ok \in BOOLEAN : /\ apply_nftables_drop(t, a, ok)
                                /\ IF ok THEN CascadeEnds(c, TRUE) ELSE Goes(c, "iptables")
      BY <2>1, Zenon
    <3>2. BackendStep(t, a, ok)
      BY <1>0, <3>1, NftStep, Zenon
    <3>3. CASE ok
      BY <1>1, <1>3, <2>0, <3>1, <3>2, <3>3, Zenon DEF TriesBackend
    <3>4. CASE ~ok
      <4>1. caller[c].at \in Cascade /\ \E at \in Cascade : Goes(c, at)
        BY <2>0, <3>1, <3>4, Zenon DEF Cascade
      <4>2. TriesBackend(c, ok)
        BY <1>1, <1>3, <2>0, <3>2, <3>4, <4>1, Zenon DEF TriesBackend
      <4>. QED  BY <4>2, Zenon
    <3>. QED  BY <3>3, <3>4, Zenon
  <2>2. CASE Goes(c, "iptables") /\ UNCHANGED <<ruleVars, droppedFor, reopened>>
    <3>1. BackendStep(t, a, FALSE)
      BY <1>0, <2>2, UnchangedRules, Zenon
    <3>2. caller[c].at \in Cascade /\ \E at \in Cascade : Goes(c, at)
      BY <2>0, <2>2, Zenon DEF Cascade
    <3>3. TriesBackend(c, FALSE)
      BY <1>1, <1>3, <2>0, <3>1, <3>2, Zenon DEF TriesBackend
    <3>. QED  BY <3>3, Zenon
  <2>. QED  BY <2>0, <2>1, <2>2, Zenon
<1>6. CASE TryIptables(c)
  <2>1. PICK ok \in BOOLEAN : apply_iptables_drop(t, a, ok) /\ CascadeEnds(c, ok)
    BY <1>3, <1>6, Zenon DEF TryIptables
  <2>2. BackendStep(t, a, ok)
    BY <1>0, <2>1, IptablesStep, Zenon
  <2>3. UNCHANGED otherVars
    BY <1>6, Zenon DEF TryIptables
  <2>4. TriesBackend(c, ok)
    BY <1>1, <1>3, <2>1, <2>2, <2>3, Zenon DEF TriesBackend
  <2>. QED  BY <2>4, Zenon
<1>7. CASE DropPort(c)
  <2>0. t = caller[c].target /\ t \in Target
    BY <1>0, <1>2, <1>3, <1>7, Zenon DEF DropPort, OnBehalf, Placed
  <2>1. PICK ok \in BOOLEAN :
          /\ \/ apply_nftables_port_drop(t, a, ok)
             \/ ok = FALSE /\ UNCHANGED <<ruleVars, droppedFor, reopened>>
          /\ CascadeEnds(c, ok)
    BY <1>3, <1>7, <2>0, Zenon DEF DropPort
  <2>2. BackendStep(t, a, ok)
    <3>1. CASE apply_nftables_port_drop(t, a, ok)
      BY <1>0, <2>0, <3>1, PortStep, Zenon
    <3>2. CASE ok = FALSE /\ UNCHANGED <<ruleVars, droppedFor, reopened>>
      BY <1>0, <3>2, UnchangedRules, Zenon
    <3>. QED  BY <2>1, <3>1, <3>2, Zenon
  <2>. QED  BY <1>1, <1>3, <1>7, <2>1, <2>2, Zenon DEF DropPort, TriesBackend
<1>. QED  BY <1>4, <1>5, <1>6, <1>7, Zenon

\* Such a step keeps the types.
LEMMA CascadeTypes ==
  ASSUME PlacedInv, NEW c \in Caller, NEW ok \in BOOLEAN, TriesBackend(c, ok)
  PROVE  PlacedInv'
<1>0. MiscTypeOK
  BY TypeParts, Zenon DEF PlacedInv
<1>1. (caller \in [Caller -> CallerState])' /\ \A d \in Caller : Placed(caller'[d])
  BY CascadeMoves, GoesOn, Zenon DEF TriesBackend
<1>2. RulesTypeOK' /\ MiscTypeOK'
  BY <1>0, Zenon DEF TriesBackend, BackendStep, MiscTypeOK, otherVars
<1>. QED  BY <1>1, <1>2, TypePartsNext, Zenon DEF PlacedInv

\* The other threads: none of them moves a thread that executes a response.
OtherNext ==
    \/ \E t \in Target : SafeList(t) \/ Release(t)
    \/ \E pid \in Pid : ProcessExits(pid)
    \/ PeerAnnounces
    \/ CooldownEnds /\ UNCHANGED <<processes, caller, responses, scene, lateSafe>>

\* So do the other threads.
LEMMA OtherTypes == ASSUME PlacedInv, OtherNext PROVE PlacedInv'
<1>0. RulesTypeOK /\ MiscTypeOK /\ caller \in [Caller -> CallerState]
  BY TypeParts, Zenon DEF PlacedInv
<1>. SUFFICES RulesTypeOK' /\ MiscTypeOK' /\ caller' = caller
  BY <1>0, TypePartsNext, Zenon DEF PlacedInv
<1>1. ASSUME NEW t \in Target, SafeList(t) PROVE RulesTypeOK' /\ MiscTypeOK' /\ caller' = caller
  BY <1>0, <1>1, Zenon DEF SafeList, add_safe_node, RulesTypeOK, MiscTypeOK, ruleVars
<1>2. ASSUME NEW t \in Target, Release(t) PROVE RulesTypeOK' /\ MiscTypeOK' /\ caller' = caller
  <2>1. RulesTypeOK'
    BY <1>0, <1>2, ReleaseStep, Zenon DEF Release, MiscTypeOK
  <2>2. MiscTypeOK' /\ caller' = caller
    BY <1>0, <1>2, ZenonT(30) DEF Release, release_target, MiscTypeOK
  <2>. QED  BY <2>1, <2>2, Zenon
<1>3. ASSUME NEW pid \in Pid, ProcessExits(pid) PROVE RulesTypeOK' /\ MiscTypeOK' /\ caller' = caller
  BY <1>0, <1>3, Zenon DEF ProcessExits, RulesTypeOK, MiscTypeOK, enforcerVars, ruleVars
<1>4. CASE PeerAnnounces
  <2>1. PICK m \in scene.moves : register_peer_ip(m[1], m[2]) \/ register_peer_port(m[1])
    BY <1>4, Zenon DEF PeerAnnounces
  <2>2. m[1] \in Target /\ m[2] \in Addr
    <3>1. scene.moves \subseteq Target \X Addr
      BY <1>0, SceneParts, Zenon DEF MiscTypeOK
    <3>2. m \in Target \X Addr
      BY <2>1, <3>1, Zenon
    <3>. QED  BY <3>2, Zenon
  <2>3. peer_ip' \in [Target -> Addr \cup {NoAddr}] /\ peer_port' \subseteq Target
    BY <1>0, <2>1, <2>2, Zenon DEF MiscTypeOK, register_peer_ip, register_peer_port
  <2>4. UNCHANGED <<safe_list, isolated, cooling, backends, ebpf, nft, iptables, droppedFor,
                    reopened, processes, caller, responses, scene, lateSafe>>
    BY <1>4, <2>1, Zenon DEF PeerAnnounces, register_peer_ip, register_peer_port, ruleVars
  <2>. QED  BY <1>0, <2>3, <2>4, Zenon DEF RulesTypeOK, MiscTypeOK
<1>5. CASE CooldownEnds /\ UNCHANGED <<processes, caller, responses, scene, lateSafe>>
  BY <1>0, <1>5, Zenon DEF CooldownEnds, RulesTypeOK, MiscTypeOK, ruleVars
<1>. QED  BY <1>1, <1>2, <1>3, <1>4, <1>5, Zenon DEF OtherNext

\* A step of a thread that touches no rules.
QuietStep(c) ==
    \/ \E ev \in scene.evidence, t \in scene.targets : execute_response(c, ev, t)
    \/ KillProcess(c) \/ BlockSource(c) \/ isolate_target(c) \/ RecordIsolation(c) \/ Finish(c)

\* Every step is of one of three kinds.
LEMMA Steps ==
  ASSUME PlacedInv, ResponseNext
  PROVE  \/ \E c \in Caller : QuietStep(c) \/ \E ok \in BOOLEAN : TriesBackend(c, ok)
         \/ OtherNext
BY CascadeStep, Zenon DEF ResponseNext, QuietStep, OtherNext

\* Type correctness, with what holds of a thread by where it is, is inductive.
LEMMA PlacedInit == ResponseInit => PlacedInv
<1>. SUFFICES ASSUME ResponseInit PROVE PlacedInv
  OBVIOUS
<1>1. CallerIdle \in CallerState /\ Placed(CallerIdle)
  BY Zenon DEF CallerIdle, CallerState, Placed, Cascade
<1>2. caller \in [Caller -> CallerState] /\ \A c \in Caller : Placed(caller[c])
  <2>1. caller = [c \in Caller |-> CallerIdle]
    BY Zenon DEF ResponseInit
  <2>. QED  BY <1>1, <2>1, Zenon
<1>3. RulesTypeOK
  <2>1. /\ ebpf = {} /\ nft = {} /\ iptables = [a \in Addr |-> 0]
        /\ droppedFor = [t \in AnyTarget |-> {}] /\ reopened = [t \in AnyTarget |-> {}]
    BY Zenon DEF ResponseInit, EnforcerInit, AnyTarget
  <2>2. 0 \in 0 .. MaxRules
    BY BoundsAreNat
  <2>. QED  BY <2>1, <2>2, Zenon DEF RulesTypeOK
<1>4. MiscTypeOK
  <2>1. /\ safe_list = {} /\ peer_port = {} /\ isolated = {} /\ cooling = FALSE
        /\ processes = Pid /\ responses = 0 /\ lateSafe = {} /\ scene \in Scene
        /\ peer_ip = [t \in Target |-> NoAddr] /\ backends = scene.backends
    BY Zenon DEF ResponseInit, EnforcerInit
  <2>2. backends \subseteq {"NFTABLES", "IPTABLES"}
    BY <2>1, SceneParts, Zenon
  <2>3. peer_ip \in [Target -> Addr \cup {NoAddr}]
    BY <2>1, Zenon
  <2>4. responses \in 0 .. MaxResponses
    BY <2>1, BoundsAreNat
  <2>. QED  BY <2>1, <2>2, <2>3, <2>4, Zenon DEF MiscTypeOK
<1>. QED  BY <1>2, <1>3, <1>4, TypeParts, Zenon DEF PlacedInv

\* PlacedInv is kept by every step.
LEMMA PlacedStep == PlacedInv /\ [ResponseNext]_responseVars => PlacedInv'
<1>. SUFFICES ASSUME PlacedInv, [ResponseNext]_responseVars PROVE PlacedInv'
  OBVIOUS
<1>1. CASE UNCHANGED responseVars
  <2>1. RulesTypeOK' /\ MiscTypeOK' /\ caller' = caller
    BY <1>1, TypeParts, Zenon DEF PlacedInv, responseVars, RulesTypeOK, MiscTypeOK
  <2>. QED  BY <2>1, TypeParts, TypePartsNext, SMTT(30) DEF PlacedInv
<1>2. CASE OtherNext
  BY <1>2, OtherTypes, Zenon
<1>3. ASSUME NEW c \in Caller, QuietStep(c) PROVE PlacedInv'
  BY <1>3, BeginTypes, KillTypes, BlockTypes, IsolateTypes, RecordTypes, FinishTypes, Zenon
     DEF QuietStep
<1>4. ASSUME NEW c \in Caller, NEW ok \in BOOLEAN, TriesBackend(c, ok) PROVE PlacedInv'
  BY <1>4, CascadeTypes, Zenon
<1>. QED  BY <1>1, <1>2, <1>3, <1>4, Steps, Zenon

\* The enforcer's lists and the threads keep their types whatever overlaps.
THEOREM ResponseTyped == ResponseSpec => []ResponseTypeOK
<1>1. PlacedInv => ResponseTypeOK
  BY Zenon DEF PlacedInv
<1>. QED  BY <1>1, PlacedInit, PlacedStep, PTL DEF ResponseSpec

-----------------------------------------------------------------------------
\* A thread past the safe list has a target that was not on it then.
SafeInv ==
    /\ SafeIsNotIsolated
    /\ \A c \in Caller : caller[c].goal = "isolate" /\ is_safe_locked(caller[c].target)
                           => caller[c].target \in lateSafe

\* A thread's step changes neither list; it comes to isolate a target only when
\* that is not safe-listed, and adds one only that it was isolating.
LEMMA QuietSafe ==
  ASSUME PlacedInv, NEW c \in Caller, QuietStep(c)
  PROVE  /\ UNCHANGED <<safe_list, lateSafe>>
         /\ \A d \in Caller \ {c} : caller'[d] = caller[d]
         /\ caller'[c].goal = "isolate"
              => \/ caller[c].goal = "isolate" /\ caller'[c].target = caller[c].target
                 \/ ~is_safe_locked(caller'[c].target)
         /\ \/ isolated' \subseteq isolated
            \/ isolated' = isolated \cup {caller[c].target} /\ caller[c].goal = "isolate"
<1>0. caller \in [Caller -> CallerState] /\ Placed(caller[c])
  BY TypeParts, Zenon DEF PlacedInv
<1>1. ASSUME NEW ev \in scene.evidence, NEW t \in scene.targets, execute_response(c, ev, t)
      PROVE  /\ UNCHANGED <<safe_list, lateSafe, isolated>>
             /\ \A d \in Caller \ {c} : caller'[d] = caller[d]
             /\ caller'[c].goal = "block"
  BY <1>0, <1>1, Zenon DEF execute_response, enforcerVars, CallerIdle
<1>2. CASE KillProcess(c)
  <2>1. PICK ok : caller' = [caller EXCEPT ![c].at = "block", ![c].any = ok]
    BY <1>2, Zenon DEF KillProcess
  <2>. QED  BY <1>0, <1>2, <2>1 DEF KillProcess, enforcerVars, CallerState
<1>3. CASE BlockSource(c)
  BY <1>0, <1>3, SMTT(30) DEF BlockSource, Goes, enforcerVars, CallerState
<1>4. CASE isolate_target(c)
  <2>1. UNCHANGED <<safe_list, lateSafe, isolated>>
    BY <1>4, Zenon DEF isolate_target, enforcerVars
  <2>2. \/ \E ok \in BOOLEAN : Returns(c, ok)
        \/ /\ ~is_safe_locked(caller[c].target)
           /\ \E at, a : caller' = [caller EXCEPT ![c].at = at, ![c].goal = "isolate",
                                                  ![c].addr = a, ![c].ok = FALSE]
    BY <1>4, Zenon DEF isolate_target
  <2>3. /\ \A d \in Caller \ {c} : caller'[d] = caller[d]
        /\ caller'[c].target = caller[c].target
        /\ caller'[c].goal = caller[c].goal \/ ~is_safe_locked(caller[c].target)
    <3>1. CASE \E ok \in BOOLEAN : Returns(c, ok)
      BY <1>0, <3>1 DEF Returns, CallerState
    <3>2. ASSUME NEW at, NEW a, ~is_safe_locked(caller[c].target),
                 caller' = [caller EXCEPT ![c].at = at, ![c].goal = "isolate",
                                          ![c].addr = a, ![c].ok = FALSE]
          PROVE  /\ \A d \in Caller \ {c} : caller'[d] = caller[d]
                 /\ caller'[c].target = caller[c].target
      BY <1>0, <3>2, SMTT(30) DEF CallerState
    <3>. QED  BY <2>2, <3>1, <3>2, Zenon
  <2>4. caller'[c].goal = "isolate" =>
          \/ caller[c].goal = "isolate" /\ caller'[c].target = caller[c].target
          \/ ~is_safe_locked(caller'[c].target)
    BY <2>3, Zenon DEF is_safe_locked
  <2>. QED  BY <2>1, <2>3, <2>4, Zenon
<1>5. CASE RecordIsolation(c)
  BY <1>0, <1>5, SMTT(30) DEF RecordIsolation, Returns, Placed, CallerState
<1>6. CASE Finish(c)
  BY <1>0, <1>6, Zenon DEF Finish, CallerIdle, enforcerVars
<1>. QED  BY <1>1, <1>2, <1>3, <1>4, <1>5, <1>6, Zenon DEF QuietStep

\* SafeInv is kept by every step: a node that comes on the safe list while it is
\* being isolated is in lateSafe.
LEMMA SafeStep == ASSUME PlacedInv, SafeInv, ResponseNext PROVE SafeInv'
<1>0. caller \in [Caller -> CallerState] /\ MiscTypeOK /\ \A d \in Caller : Placed(caller[d])
  BY TypeParts, Zenon DEF PlacedInv
<1>1. ASSUME NEW c \in Caller, QuietStep(c) PROVE SafeInv'
  BY <1>1, QuietSafe DEF SafeInv, SafeIsNotIsolated, is_safe_locked
<1>2. ASSUME NEW c \in Caller, NEW ok \in BOOLEAN, TriesBackend(c, ok) PROVE SafeInv'
  <2>1. UNCHANGED <<safe_list, lateSafe, isolated>>
    BY <1>2, SMTT(30) DEF TriesBackend, otherVars
  <2>2. \A d \in Caller : caller'[d].goal = caller[d].goal /\ caller'[d].target = caller[d].target
    <3>1. CASE CascadeEnds(c, ok)
      BY <1>0, <3>1 DEF CascadeEnds, CallerState
    <3>2. CASE \E at \in Cascade : Goes(c, at)
      BY <1>0, <3>2 DEF Goes, CallerState
    <3>. QED  BY <1>2, <3>1, <3>2, Zenon DEF TriesBackend
  <2>. QED  BY <2>1, <2>2, Zenon DEF SafeInv, SafeIsNotIsolated, is_safe_locked
<1>3. ASSUME NEW t \in Target, SafeList(t) PROVE SafeInv'
  <2>1. /\ safe_list' = safe_list \cup {Upper[t]} /\ UNCHANGED <<caller, isolated>>
        /\ lateSafe' = lateSafe \cup {u \in Target : Upper[u] = Upper[t] /\ BeingIsolated(u)}
    BY <1>3, Zenon DEF SafeList, add_safe_node
  <2>2. \A u \in Target : BeingIsolated(u) /\ Upper[u] = Upper[t] => u \in lateSafe'
    BY <2>1, SMTT(30)
  <2>3. SafeIsNotIsolated'
    BY <1>0, <2>1, <2>2, Zenon DEF SafeInv, SafeIsNotIsolated, is_safe_locked, BeingIsolated, MiscTypeOK
  <2>4. \A c \in Caller : caller[c].goal = "isolate" => caller[c].target \in Target
    BY <1>0, SMTT(30) DEF Placed
  <2>5. \A c \in Caller : caller'[c].goal = "isolate" /\ Upper[caller'[c].target] \in safe_list'
                            => caller'[c].target \in lateSafe'
    BY <2>1, <2>2, <2>4, SMTT(30) DEF SafeInv, is_safe_locked, BeingIsolated
  <2>. QED  BY <2>3, <2>5, SMTT(30) DEF SafeInv, is_safe_locked
<1>4. CASE OtherNext /\ ~(\E t \in Target : SafeList(t))
  <2>1. UNCHANGED <<safe_list, lateSafe, caller>> /\ isolated' \subseteq isolated
    BY <1>4, Zenon DEF OtherNext, Release, release_target, ProcessExits, PeerAnnounces, CooldownEnds,
                register_peer_ip, register_peer_port, enforcerVars
  <2>. QED  BY <2>1, Zenon DEF SafeInv, SafeIsNotIsolated, is_safe_locked
<1>. QED  BY <1>1, <1>2, <1>3, <1>4, Steps

\* No overlap of responses isolates a node that was on the safe list when
\* isolate_target looked.
THEOREM SafeNodesStay == ResponseSpec => []SafeIsNotIsolated
<1>1. ResponseInit => SafeInv
  <2>1. ResponseInit => isolated = {} /\ caller = [c \in Caller |-> CallerIdle]
    BY Zenon DEF ResponseInit, EnforcerInit
  <2>2. CallerIdle.goal = "block"
    BY Zenon DEF CallerIdle
  <2>. QED  BY <2>1, <2>2, Zenon DEF SafeInv, SafeIsNotIsolated
<1>2. PlacedInv /\ SafeInv /\ [ResponseNext]_responseVars => SafeInv'
  <2>1. PlacedInv /\ SafeInv /\ ResponseNext => SafeInv'
    BY SafeStep, Zenon
  <2>2. SafeInv /\ UNCHANGED responseVars => SafeInv'
    BY Zenon DEF SafeInv, SafeIsNotIsolated, is_safe_locked, responseVars
  <2>. QED  BY <2>1, <2>2, Zenon
<1>3. SafeInv => SafeIsNotIsolated
  BY Zenon DEF SafeInv
<1>. QED  BY <1>1, <1>2, <1>3, PlacedInit, PlacedStep, PTL DEF ResponseSpec

-----------------------------------------------------------------------------
\* A rule was applied for the target, and stands or fell to a release.
Held(t) == \E a \in droppedFor[t] : a \in Kept[t]

\* Something was done for the response.
Acted(r) ==
    \/ r.ev.pid > 0 /\ r.ev.pid % PidWidth \notin processes
    \/ r.ev.src \in Addr /\ r.ev.src \in Kept[NoTarget]
    \/ droppedFor[r.target] # {}

\* A thread that is about to record an isolation has applied a rule for it, and
\* one that will return true has acted.
ActedInv ==
    /\ \A t \in isolated : Held(t)
    /\ \A c \in Caller : caller[c].at = "record" /\ caller[c].ok => Held(caller[c].target)
    /\ \A c \in Caller : caller[c].any => Acted(caller[c])

\* What is kept depends on the rules and on reopened only.
LEMMA SameKept == UNCHANGED <<ebpf, nft, iptables, reopened>> => Kept' = Kept
BY Zenon DEF Kept, Dropped

\* Every step is lasting.
LEMMA QuietLasts == ASSUME NEW c \in Caller, QuietStep(c) PROVE Lasting /\ UNCHANGED droppedFor
<1>1. UNCHANGED <<ebpf, nft, iptables, reopened, droppedFor>>
  BY Zenon DEF QuietStep, execute_response, KillProcess, BlockSource, isolate_target, RecordIsolation,
         Finish, enforcerVars, ruleVars
<1>2. processes' \subseteq processes
  <2>1. CASE KillProcess(c)
    <3>. PICK ok \in BOOLEAN :
              IF caller[c].ev.event = "privilege_escalation" /\ caller[c].ev.pid > 0
              THEN terminate_process(caller[c].ev.pid % PidWidth, ok)
              ELSE ok = FALSE /\ UNCHANGED processes
      BY <2>1, Zenon DEF KillProcess
    <3>. QED  BY Zenon DEF terminate_process
  <2>2. CASE ~KillProcess(c)
    BY <2>2, Zenon DEF QuietStep, execute_response, BlockSource, isolate_target, RecordIsolation, Finish
  <2>. QED  BY <2>1, <2>2, Zenon
<1>. QED  BY <1>1, <1>2, SameKept, Zenon DEF Lasting

\* So is every step of the other threads, a release by reopened.
LEMMA OtherLasts == ASSUME PlacedInv, OtherNext PROVE Lasting
<1>0. RulesTypeOK /\ MiscTypeOK
  BY TypeParts, Zenon DEF PlacedInv
<1>1. ASSUME NEW t \in Target, Release(t) PROVE Lasting
  <2>1. \A u \in AnyTarget : droppedFor[u] \subseteq droppedFor'[u] /\ Kept[u] \subseteq Kept'[u]
    BY <1>0, <1>1, ReleaseStep, Zenon DEF Release, MiscTypeOK
  <2>. QED  BY <1>1, <2>1, Zenon DEF Release, Lasting
<1>2. CASE ~(\E t \in Target : Release(t))
  <2>1. UNCHANGED <<ebpf, nft, iptables, reopened, droppedFor>> /\ processes' \subseteq processes
    BY <1>2, Zenon DEF OtherNext, SafeList, add_safe_node, ProcessExits, PeerAnnounces, CooldownEnds,
                register_peer_ip, register_peer_port, enforcerVars, ruleVars
  <2>. QED  BY <2>1, SameKept, SMTT(30) DEF Lasting
<1>. QED  BY <1>1, <1>2, Zenon

\* What was held stays held.
LEMMA HeldLasts == ASSUME Lasting, NEW t \in AnyTarget, Held(t) PROVE Held(t)'
BY Zenon DEF Held, Lasting

\* What was done for a response stays done.
LEMMA ActedLasts == ASSUME Lasting, NEW r, r.target \in AnyTarget, Acted(r) PROVE Acted(r)'
<1>1. NoTarget \in AnyTarget
  BY SMTT(30) DEF AnyTarget
<1>2. CASE r.ev.pid > 0 /\ r.ev.pid % PidWidth \notin processes
  <2>1. r.ev.pid % PidWidth \notin processes'
    BY <1>2, SMTT(30) DEF Lasting
  <2>. QED  BY <1>2, <2>1, Zenon DEF Acted
<1>3. CASE r.ev.src \in Addr /\ r.ev.src \in Kept[NoTarget]
  <2>1. r.ev.src \in Kept'[NoTarget]
    BY <1>1, <1>3, SMTT(30) DEF Lasting
  <2>. QED  BY <1>3, <2>1, Zenon DEF Acted
<1>4. CASE droppedFor[r.target] # {}
  <2>1. droppedFor'[r.target] # {}
    BY <1>4, Zenon DEF Lasting
  <2>. QED  BY <2>1, Zenon DEF Acted
<1>. QED  BY <1>2, <1>3, <1>4, Zenon DEF Acted

\* What ActedInv asks of one thread.
Fulfils(r) ==
    /\ r.at = "record" /\ r.ok => Held(r.target)
    /\ r.any => Acted(r)

\* A thread that fulfils it goes on to do so.
LEMMA FulfilsLasts ==
  ASSUME Lasting, NEW r \in CallerState, Fulfils(r) PROVE Fulfils(r)'
<1>1. r.target \in AnyTarget
  BY Zenon DEF CallerState, AnyTarget
<1>2. PICK t \in AnyTarget : t = r.target
  BY <1>1, Zenon
<1>3. Held(r.target) => Held(r.target)'
  BY <1>2, HeldLasts, SMTT(30)
<1>. QED  BY <1>1, <1>3, ActedLasts, Zenon DEF Fulfils

\* A step in which one thread comes to a state that fulfils it, and that isolates
\* nothing that is not held.
LEMMA ActedMove ==
  ASSUME PlacedInv, ActedInv, Lasting, NEW c \in Caller, NEW r, Fulfils(r)',
         caller' = [caller EXCEPT ![c] = r],
         \A t \in isolated' : t \in isolated \/ Held(t)'
  PROVE  ActedInv'
<1>0. caller \in [Caller -> CallerState] /\ MiscTypeOK
  BY TypeParts, Zenon DEF PlacedInv
<1>1. \A t \in isolated' : Held(t)'
  <2>. TAKE t \in isolated'
  <2>1. CASE t \in isolated
    BY <1>0, <2>1, HeldLasts DEF ActedInv, MiscTypeOK, AnyTarget
  <2>. QED  BY <2>1, Zenon
<1>2. ASSUME NEW d \in Caller, NEW q, q = caller'[d] PROVE Fulfils(q)'
  <2>1. CASE d = c
    BY <1>0, <1>2, <2>1, Zenon
  <2>2. CASE d # c
    <3>1. q = caller[d] /\ q \in CallerState
      BY <1>0, <1>2, <2>2, SMTT(30)
    <3>2. Fulfils(q)
      BY <3>1, Zenon DEF ActedInv, Fulfils
    <3>. QED  BY <3>1, <3>2, FulfilsLasts, Zenon
  <2>. QED  BY <2>1, <2>2, Zenon
<1>3. ASSUME NEW d \in Caller
      PROVE  /\ caller'[d].at = "record" /\ caller'[d].ok => Held(caller[d].target)'
             /\ caller'[d].any => Acted(caller[d])'
  <2>. PICK q : q = caller'[d]
    OBVIOUS
  <2>1. Fulfils(q)'
    BY <1>2, Zenon
  <2>. QED  BY <2>1, Zenon DEF Fulfils, Held, Acted
<1>. QED  BY <1>1, <1>3, Zenon DEF ActedInv

\* A thread state that neither records nor returns true has nothing to fulfil.
LEMMA NothingToFulfil ==
  ASSUME NEW r, ~(r.at = "record" /\ r.ok), ~r.any PROVE Fulfils(r)'
BY Zenon DEF Fulfils

\* A response begins without a result.
LEMMA BeginActs ==
  ASSUME PlacedInv, ActedInv, NEW c \in Caller, NEW ev \in scene.evidence, NEW t \in scene.targets,
         execute_response(c, ev, t)
  PROVE  ActedInv'
<1>1. PICK r : r = [CallerIdle EXCEPT !.ev = ev, !.target = t,
                                      !.at = IF ev.schema THEN "kill" ELSE "done"]
  OBVIOUS
<1>2. ~r.any /\ r.at # "record"
  BY <1>1, Zenon DEF CallerIdle
<1>3. caller' = [caller EXCEPT ![c] = r] /\ isolated' = isolated
  BY <1>1, Zenon DEF execute_response, enforcerVars
<1>. QED  BY <1>2, <1>3, QuietLasts, NothingToFulfil, ActedMove, Zenon DEF QuietStep

\* The process is gone when the result is true.
LEMMA KillActs == ASSUME PlacedInv, ActedInv, NEW c \in Caller, KillProcess(c) PROVE ActedInv'
<1>0. caller \in [Caller -> CallerState]
  BY TypeParts, Zenon DEF PlacedInv
<1>1. PICK ok \in BOOLEAN :
          /\ IF caller[c].ev.event = "privilege_escalation" /\ caller[c].ev.pid > 0
             THEN terminate_process(caller[c].ev.pid % PidWidth, ok)
             ELSE ok = FALSE /\ UNCHANGED processes
          /\ caller' = [caller EXCEPT ![c].at = "block", ![c].any = ok]
  BY Zenon DEF KillProcess
<1>2. PICK r : r = [caller[c] EXCEPT !.at = "block", !.any = ok]
  OBVIOUS
<1>3. caller' = [caller EXCEPT ![c] = r] /\ isolated' = isolated
  BY <1>0, <1>1, <1>2, Zenon DEF KillProcess, enforcerVars
<1>4. r.at = "block" /\ r.any = ok /\ r.ev = caller[c].ev
  BY <1>0, <1>2 DEF CallerState
<1>5. ok => r.ev.pid > 0 /\ r.ev.pid % PidWidth \notin processes'
  BY <1>1, <1>4, SMTT(30) DEF terminate_process
<1>6. Fulfils(r)'
  BY <1>4, <1>5, Zenon DEF Fulfils, Acted
<1>. QED  BY <1>3, <1>6, QuietLasts, ActedMove, Zenon DEF QuietStep

\* Nothing is done yet for the source.
LEMMA BlockActs == ASSUME PlacedInv, ActedInv, NEW c \in Caller, BlockSource(c) PROVE ActedInv'
<1>0. caller \in [Caller -> CallerState] /\ Lasting
  <2>1. QuietStep(c)
    BY Zenon DEF QuietStep
  <2>2. Lasting /\ droppedFor' = droppedFor
    BY <2>1, QuietLasts, Zenon
  <2>3. caller \in [Caller -> CallerState]
    BY TypeParts, Zenon DEF PlacedInv
  <2>. QED  BY <2>2, <2>3, Zenon
<1>1. PICK r : /\ caller' = [caller EXCEPT ![c] = r]
               /\ r.at \in {"ebpf", "isolate"} /\ r.any = caller[c].any
               /\ r.ev = caller[c].ev /\ r.target = caller[c].target
  <2>1. CASE caller' = [caller EXCEPT ![c].at = "ebpf", ![c].goal = "block",
                                      ![c].addr = caller[c].ev.src]
    <3>1. PICK r : r = [caller[c] EXCEPT !.at = "ebpf", !.goal = "block", !.addr = caller[c].ev.src]
      OBVIOUS
    <3>2. caller' = [caller EXCEPT ![c] = r]
      BY <1>0, <2>1, <3>1, Zenon
    <3>3. /\ r.at = "ebpf" /\ r.any = caller[c].any
          /\ r.ev = caller[c].ev /\ r.target = caller[c].target
      BY <1>0, <3>1 DEF CallerState
    <3>. QED  BY <3>2, <3>3, Zenon
  <2>2. CASE caller' = [caller EXCEPT ![c].at = "isolate"]
    <3>1. PICK r : r = [caller[c] EXCEPT !.at = "isolate"]
      BY Zenon
    <3>2. caller' = [caller EXCEPT ![c] = r]
      BY <1>0, <2>2, <3>1, Zenon
    <3>3. /\ r.at = "isolate" /\ r.any = caller[c].any
          /\ r.ev = caller[c].ev /\ r.target = caller[c].target
      BY <1>0, <3>1, Zenon DEF CallerState
    <3>. QED  BY <3>2, <3>3, Zenon
  <2>. QED  BY <2>1, <2>2, Zenon DEF BlockSource, Goes
<1>2. PICK q : q = caller[c]
  OBVIOUS
<1>3. q \in CallerState /\ Fulfils(q)
  BY <1>0, <1>2, Zenon DEF ActedInv, Fulfils
<1>4. Fulfils(q)'
  BY <1>0, <1>3, FulfilsLasts, Zenon
<1>5. Fulfils(r)'
  BY <1>1, <1>2, <1>4, Zenon DEF Fulfils, Acted
<1>6. isolated' = isolated
  BY Zenon DEF BlockSource, enforcerVars
<1>. QED  BY <1>0, <1>1, <1>5, <1>6, ActedMove, Zenon

\* A target that is isolated already has been dropped.
LEMMA IsolateActs == ASSUME PlacedInv, ActedInv, NEW c \in Caller, isolate_target(c) PROVE ActedInv'
<1>0. caller \in [Caller -> CallerState] /\ Lasting /\ droppedFor' = droppedFor
  <2>1. QuietStep(c)
    BY Zenon DEF QuietStep
  <2>2. Lasting /\ droppedFor' = droppedFor
    BY <2>1, QuietLasts, Zenon
  <2>3. caller \in [Caller -> CallerState]
    BY TypeParts, Zenon DEF PlacedInv
  <2>. QED  BY <2>2, <2>3, Zenon
<1>1. PICK q : q = caller[c]
  OBVIOUS
<1>2. q \in CallerState /\ Fulfils(q)
  BY <1>0, <1>1, Zenon DEF ActedInv, Fulfils
<1>3. Fulfils(q)'
  BY <1>0, <1>2, FulfilsLasts, Zenon
<1>4. isolated' = isolated
  BY Zenon DEF isolate_target, enforcerVars
<1>5. \/ \E ok \in BOOLEAN : Returns(c, ok) /\ (ok => q.target \in isolated)
      \/ \E a :
            caller' = [caller EXCEPT ![c].at = IF a \in Loopback THEN "port" ELSE "ebpf",
                                     ![c].goal = "isolate", ![c].addr = a, ![c].ok = FALSE]
  BY <1>1, Zenon DEF isolate_target
<1>6. ASSUME NEW ok \in BOOLEAN, Returns(c, ok), ok => q.target \in isolated PROVE ActedInv'
  <2>1. PICK r : r = [q EXCEPT !.at = "done", !.any = @ \/ ok]
    OBVIOUS
  <2>2. caller' = [caller EXCEPT ![c] = r]
    BY <1>0, <1>1, <1>6, <2>1, Zenon DEF Returns
  <2>3. r.at = "done" /\ (r.any => q.any \/ ok) /\ r.ev = q.ev /\ r.target = q.target
    BY <1>2, <2>1, SMTT(30) DEF CallerState
  <2>4. ok => droppedFor'[r.target] # {}
    BY <1>0, <1>6, <2>3, Zenon DEF ActedInv, Held
  <2>5. Fulfils(r)'
    BY <1>3, <2>3, <2>4, Zenon DEF Fulfils, Acted
  <2>. QED  BY <1>0, <1>4, <2>2, <2>5, ActedMove, Zenon
<1>7. ASSUME NEW a,
             caller' = [caller EXCEPT ![c].at = IF a \in Loopback THEN "port" ELSE "ebpf",
                                      ![c].goal = "isolate", ![c].addr = a, ![c].ok = FALSE]
      PROVE  ActedInv'
  <2>0. PICK at \in {"port", "ebpf"} : at = IF a \in Loopback THEN "port" ELSE "ebpf"
    OBVIOUS
  <2>1. PICK r : r = [q EXCEPT !.at = at, !.goal = "isolate", !.addr = a, !.ok = FALSE]
    OBVIOUS
  <2>2. caller' = [caller EXCEPT ![c] = r]
    BY <1>0, <1>1, <1>7, <2>0, <2>1, Zenon
  <2>3. r.at = at /\ r.any = q.any /\ r.ev = q.ev /\ r.target = q.target
    BY <1>2, <2>1, SMTT(30) DEF CallerState
  <2>4. Fulfils(r)'
    BY <1>3, <2>3, Zenon DEF Fulfils, Acted
  <2>. QED  BY <1>0, <1>4, <2>2, <2>4, ActedMove, Zenon
<1>. QED  BY <1>5, <1>6, <1>7, Zenon

\* What is recorded was applied.
LEMMA RecordActs == ASSUME PlacedInv, ActedInv, NEW c \in Caller, RecordIsolation(c) PROVE ActedInv'
<1>0. caller \in [Caller -> CallerState] /\ Lasting /\ droppedFor' = droppedFor
  <2>1. QuietStep(c)
    BY Zenon DEF QuietStep
  <2>2. Lasting /\ droppedFor' = droppedFor
    BY <2>1, QuietLasts, Zenon
  <2>3. caller \in [Caller -> CallerState]
    BY TypeParts, Zenon DEF PlacedInv
  <2>. QED  BY <2>2, <2>3, Zenon
<1>1. PICK q : q = caller[c]
  OBVIOUS
<1>2. q \in CallerState /\ Fulfils(q) /\ q.at = "record"
  BY <1>0, <1>1, Zenon DEF ActedInv, Fulfils, RecordIsolation
<1>3. Fulfils(q)'
  BY <1>0, <1>2, FulfilsLasts, Zenon
<1>4. PICK r : r = [q EXCEPT !.at = "done", !.any = @ \/ q.ok]
  OBVIOUS
<1>5. caller' = [caller EXCEPT ![c] = r]
  BY <1>0, <1>1, <1>4, Zenon DEF RecordIsolation, Returns
<1>6. r.at = "done" /\ (r.any => q.any \/ q.ok) /\ r.ev = q.ev /\ r.target = q.target
  BY <1>2, <1>4, Zenon DEF CallerState
<1>7. q.ok => droppedFor'[r.target] # {}
  BY <1>0, <1>2, <1>6, SMTT(30) DEF Fulfils, Held
<1>8. Fulfils(r)'
  BY <1>3, <1>6, <1>7, Zenon DEF Fulfils, Acted
<1>9. \A t \in isolated' : t \in isolated \/ Held(t)'
  <2>1. PICK u : u = q.target
    OBVIOUS
  <2>2. q.ok => Held(u)'
    BY <1>2, <1>3, <2>1, Zenon DEF Fulfils, Held
  <2>3. \A t \in isolated' : t \in isolated \/ (q.ok /\ t = u)
    BY <1>1, <2>1, Zenon DEF RecordIsolation
  <2>. QED  BY <2>2, <2>3, Zenon
<1>. QED  BY <1>0, <1>5, <1>8, <1>9, ActedMove, ZenonT(30)

\* An idle thread has nothing to fulfil.
LEMMA FinishActs == ASSUME PlacedInv, ActedInv, NEW c \in Caller, Finish(c) PROVE ActedInv'
<1>1. PICK r : r = CallerIdle
  OBVIOUS
<1>2. ~r.any /\ r.at # "record"
  BY <1>1, Zenon DEF CallerIdle
<1>3. caller' = [caller EXCEPT ![c] = r] /\ isolated' = isolated
  BY <1>1, Zenon DEF Finish, enforcerVars
<1>. QED  BY <1>2, <1>3, QuietLasts, NothingToFulfil, ActedMove, Zenon DEF QuietStep

\* A backend that succeeds drops the target or the source of the evidence.
LEMMA CascadeActs ==
  ASSUME PlacedInv, ActedInv, NEW c \in Caller, NEW ok \in BOOLEAN, TriesBackend(c, ok)
  PROVE  ActedInv'
<1>0. caller \in [Caller -> CallerState] /\ Placed(caller[c])
  BY TypeParts, Zenon DEF PlacedInv
<1>1. Lasting /\ isolated' = isolated
  BY Zenon DEF TriesBackend, BackendStep, Lasting, otherVars
<1>2. PICK q : q = caller[c]
  OBVIOUS
<1>3. q \in CallerState /\ Fulfils(q) /\ Placed(q) /\ q.at \in Cascade \cup {"port"}
  BY <1>0, <1>2, Zenon DEF ActedInv, Fulfils, TriesBackend
<1>4. Fulfils(q)'
  BY <1>1, <1>3, FulfilsLasts, Zenon
<1>5. CASE CascadeEnds(c, ok) /\ q.goal = "isolate"
  <2>1. PICK r : r = [q EXCEPT !.at = "record", !.ok = ok]
    OBVIOUS
  <2>2. caller' = [caller EXCEPT ![c] = r]
    BY <1>0, <1>2, <1>5, <2>1, Zenon DEF CascadeEnds
  <2>3. r.ok = ok /\ r.any = q.any /\ r.ev = q.ev /\ r.target = q.target
    BY <1>3, <2>1, SMTT(30) DEF CallerState
  <2>4. ok => q.addr \in droppedFor'[q.target] \cap Kept'[q.target]
    BY <1>2, <1>5, Zenon DEF TriesBackend, BackendStep, OnBehalf
  <2>5. Fulfils(r)'
    BY <1>4, <2>3, <2>4, Zenon DEF Fulfils, Acted, Held
  <2>. QED  BY <1>1, <2>2, <2>5, ActedMove, Zenon
<1>6. CASE CascadeEnds(c, ok) /\ q.goal # "isolate"
  <2>1. PICK r : r = [q EXCEPT !.at = "isolate", !.any = @ \/ ok]
    OBVIOUS
  <2>2. caller' = [caller EXCEPT ![c] = r]
    BY <1>0, <1>2, <1>6, <2>1, Zenon DEF CascadeEnds
  <2>3. r.at = "isolate" /\ (r.any => q.any \/ ok) /\ r.ev = q.ev /\ r.target = q.target
    BY <1>3, <2>1, Zenon DEF CallerState
  <2>4. q.goal = "block" /\ q.at \in Cascade /\ q.addr = q.ev.src /\ q.addr \in Addr
    BY <1>3, <1>6, SMTT(30) DEF CallerState, Placed
  <2>5. ok => q.ev.src \in Kept'[NoTarget] /\ q.ev.src \in Addr
    BY <1>2, <1>6, <2>4, Zenon DEF TriesBackend, BackendStep, OnBehalf
  <2>6. Fulfils(r)'
    BY <1>4, <2>3, <2>5, Zenon DEF Fulfils, Acted
  <2>. QED  BY <1>1, <2>2, <2>6, ActedMove, Zenon
<1>7. ASSUME NEW at \in Cascade, Goes(c, at) PROVE ActedInv'
  <2>1. PICK r : r = [q EXCEPT !.at = at]
    BY Zenon
  <2>2. caller' = [caller EXCEPT ![c] = r]
    BY <1>0, <1>2, <1>7, <2>1, Zenon DEF Goes
  <2>3. r.at = at /\ at # "record" /\ r.any = q.any /\ r.ev = q.ev /\ r.target = q.target
    BY <1>3, <2>1, SMTT(30) DEF CallerState, Cascade
  <2>4. Fulfils(r)'
    BY <1>4, <2>3, Zenon DEF Fulfils, Acted
  <2>. QED  BY <1>1, <2>2, <2>4, ActedMove, Zenon
<1>. QED  BY <1>5, <1>6, <1>7, Zenon DEF TriesBackend

\* The other threads isolate nothing.
LEMMA OtherActs == ASSUME PlacedInv, ActedInv, OtherNext PROVE ActedInv'
<1>0. caller \in [Caller -> CallerState] /\ MiscTypeOK /\ Lasting
  BY TypeParts, OtherLasts, Zenon DEF PlacedInv
<1>1. caller' = caller /\ isolated' \subseteq isolated
  BY Zenon DEF OtherNext, SafeList, add_safe_node, Release, release_target, ProcessExits, PeerAnnounces,
         CooldownEnds, register_peer_ip, register_peer_port, enforcerVars
<1>2. \A t \in isolated' : Held(t)'
  <2>. TAKE t \in isolated'
  <2>1. t \in AnyTarget /\ Held(t)
    BY <1>0, <1>1, ZenonT(30) DEF ActedInv, MiscTypeOK, AnyTarget
  <2>. QED  BY <1>0, <2>1, HeldLasts, Zenon
<1>3. ASSUME NEW d \in Caller
      PROVE  /\ caller'[d].at = "record" /\ caller'[d].ok => Held(caller[d].target)'
             /\ caller'[d].any => Acted(caller[d])'
  <2>1. PICK q : q = caller[d]
    OBVIOUS
  <2>2. q \in CallerState /\ Fulfils(q)
    BY <1>0, <2>1, Zenon DEF ActedInv, Fulfils
  <2>3. Fulfils(q)'
    BY <1>0, <2>2, FulfilsLasts, Zenon
  <2>. QED  BY <1>1, <2>1, <2>3, Zenon DEF Fulfils, Held, Acted
<1>. QED  BY <1>2, <1>3, Zenon DEF ActedInv

\* ActedInv is kept by every step.
LEMMA ActedStep == PlacedInv /\ ActedInv /\ [ResponseNext]_responseVars => ActedInv'
<1>. SUFFICES ASSUME PlacedInv, ActedInv, [ResponseNext]_responseVars PROVE ActedInv'
  OBVIOUS
<1>1. CASE UNCHANGED responseVars
  <2>1. UNCHANGED <<Kept, droppedFor, isolated, caller, processes>>
    BY <1>1, SameKept, Zenon DEF responseVars
  <2>. QED  BY <2>1, Zenon DEF ActedInv, Held, Acted
<1>2. CASE OtherNext
  BY <1>2, OtherActs, Zenon
<1>3. ASSUME NEW c \in Caller, QuietStep(c) PROVE ActedInv'
  BY <1>3, BeginActs, KillActs, BlockActs, IsolateActs, RecordActs, FinishActs, Zenon DEF QuietStep
<1>4. ASSUME NEW c \in Caller, NEW ok \in BOOLEAN, TriesBackend(c, ok) PROVE ActedInv'
  BY <1>4, CascadeActs, Zenon
<1>. QED  BY <1>1, <1>2, <1>3, <1>4, Steps, Zenon

\* It holds before any response.
LEMMA ActedInit == ResponseInit => ActedInv
<1>1. ResponseInit => isolated = {} /\ caller = [c \in Caller |-> CallerIdle]
  BY Zenon DEF ResponseInit, EnforcerInit
<1>2. CallerIdle.at = "idle" /\ CallerIdle.any = FALSE
  BY Zenon DEF CallerIdle
<1>. QED  BY <1>1, <1>2, Zenon DEF ActedInv

\* What is kept is dropped or was reopened.
LEMMA KeptMeans ==
  ASSUME PlacedInv, NEW t \in AnyTarget, NEW a \in Kept[t]
  PROVE  Dropped(t, a) \/ a \in reopened[t]
BY Zenon DEF Kept

\* However responses, moves and releases interleave, a target on the list of
\* isolated nodes is cut off, unless a release took rules from its address.
THEOREM IsolationIsReal == ResponseSpec => []IsolatedIsDropped
<1>1. PlacedInv /\ ActedInv => IsolatedIsDropped
  <2>. SUFFICES ASSUME PlacedInv, ActedInv, NEW t \in isolated
                PROVE  \E a \in droppedFor[t] : Dropped(t, a) \/ a \in reopened[t]
    BY Zenon DEF IsolatedIsDropped
  <2>1. t \in AnyTarget
    BY Zenon DEF PlacedInv, ResponseTypeOK, AnyTarget
  <2>2. PICK a \in droppedFor[t] : a \in Kept[t]
    BY Zenon DEF ActedInv, Held
  <2>. QED  BY <2>1, <2>2, KeptMeans, Zenon
<1>. QED  BY <1>1, PlacedInit, PlacedStep, ActedInit, ActedStep, PTL DEF ResponseSpec

\* execute_response returns true only if something was enforced, however the
\* threads overlap.
THEOREM TrueIsEarned == ResponseSpec => []TrueMeansActed
<1>1. PlacedInv /\ ActedInv => TrueMeansActed
  <2>. SUFFICES ASSUME PlacedInv, ActedInv, NEW c \in Caller, caller[c].at = "done", caller[c].any
                PROVE  \/ caller[c].ev.pid > 0 /\ caller[c].ev.pid % PidWidth \notin processes
                       \/ /\ caller[c].ev.src \in Addr
                          /\ \/ Dropped(NoTarget, caller[c].ev.src)
                             \/ caller[c].ev.src \in reopened[NoTarget]
                       \/ droppedFor[caller[c].target] # {}
    BY Zenon DEF TrueMeansActed
  <2>1. NoTarget \in AnyTarget
    BY Zenon DEF AnyTarget
  <2>2. Acted(caller[c])
    BY Zenon DEF ActedInv
  <2>. QED  BY <2>1, <2>2, KeptMeans, Zenon DEF Acted
<1>. QED  BY <1>1, PlacedInit, PlacedStep, ActedInit, ActedStep, PTL DEF ResponseSpec

-----------------------------------------------------------------------------
(***************************************************************************)
(* The telemetry bridge.                                                   *)
(***************************************************************************)

\* The child passes the stages of the sandbox one by one: where it is tells which
\* of them have taken effect.
StagesInv ==
    \/ unsafe
    \/ /\ child = "fs_isolation" => {"no_new_privs"} \subseteq confined
       /\ child = "uid_drop" => {"no_new_privs", "fs_isolation"} \subseteq confined
       /\ child \in {"seccomp", "listen", "serving"}
            => {"no_new_privs", "fs_isolation", "uid_drop"} \subseteq confined

\* The child is known to the node from its start until it is waited for.
ChildInv == StagesInv /\ ShutdownLeavesNoChild /\ child_pid \in BOOLEAN /\ unsafe \in BOOLEAN

\* The stages by name.
LEMMA StageNames ==
  /\ Len(Stage) = 4
  /\ Stage[1] = "no_new_privs" /\ Stage[2] = "fs_isolation"
  /\ Stage[3] = "uid_drop" /\ Stage[4] = "seccomp"
  /\ Range(Stage) = {"no_new_privs", "fs_isolation", "uid_drop", "seccomp"}
<1>1. /\ Len(Stage) = 4 /\ DOMAIN Stage = 1 .. 4
      /\ Stage[1] = "no_new_privs" /\ Stage[2] = "fs_isolation"
      /\ Stage[3] = "uid_drop" /\ Stage[4] = "seccomp"
  BY DEF Stage
<1>2. Range(Stage) = {Stage[1], Stage[2], Stage[3], Stage[4]}
  BY <1>1 DEF Range
<1>. QED  BY <1>1, <1>2, Zenon

\* The bridge starts in the invariant.
LEMMA ChildInitInv == BridgeInit => ChildInv
BY Zenon DEF BridgeInit, ChildInv, StagesInv, ShutdownLeavesNoChild

\* A stage of the sandbox keeps the invariant.
LEMMA StageKeepsChildInv ==
  ASSUME ChildInv, NEW i \in 1 .. Len(Stage), apply_stage(i)
  PROVE  ChildInv'
<1>1. i \in 1 .. 3 /\ child = Stage[i]
  BY StageNames DEF apply_stage
<1>2. UNCHANGED <<child_pid, unsafe>>
  BY Zenon DEF apply_stage
<1>3. \/ child' = "exited" /\ confined' = confined
      \/ child' = Stage[i + 1] /\ confined' = confined \cup {Stage[i]}
  BY Zenon DEF apply_stage, Exit
<1>. QED  BY <1>1, <1>2, <1>3, StageNames DEF ChildInv, StagesInv, ShutdownLeavesNoChild

\* Every step keeps the invariant.
LEMMA ChildNextInv == ChildInv /\ [BridgeNext]_bridgeVars => ChildInv'
<1>. SUFFICES ASSUME ChildInv, [BridgeNext]_bridgeVars PROVE ChildInv'  OBVIOUS
<1>0. ASSUME UNCHANGED <<child_pid, child, unsafe, confined>> PROVE ChildInv'
  BY <1>0, Zenon DEF ChildInv, StagesInv, ShutdownLeavesNoChild
<1>1. CASE UNCHANGED bridgeVars
  BY <1>0, <1>1, Zenon DEF bridgeVars
<1>2. CASE spawn
  BY <1>2, StageNames, Zenon DEF spawn, ChildInv, StagesInv, ShutdownLeavesNoChild
<1>3. ASSUME NEW t \in Pusher, NEW l \in OwnLine, gossip_telemetry(t, l) PROVE ChildInv'
  BY <1>0, <1>3, Zenon DEF gossip_telemetry, push_telemetry
<1>4. ASSUME NEW t \in Pusher, NEW r \in Report, process_telemetry_gossip(t, r) PROVE ChildInv'
  BY <1>0, <1>4, Zenon DEF process_telemetry_gossip, push_telemetry
<1>5. ASSUME NEW t \in Pusher, PushRest(t) PROVE ChildInv'
  BY <1>0, <1>5, Zenon DEF PushRest
<1>6. CASE BeginShutdown
  BY <1>0, <1>6, Zenon DEF BeginShutdown
<1>7. CASE ReapExited \/ KillAndReap
  BY <1>7, Zenon DEF ReapExited, KillAndReap, ChildInv, StagesInv, ShutdownLeavesNoChild
<1>8. CASE NodeDies
  BY <1>0, <1>8, Zenon DEF NodeDies
<1>9. CASE apply_seccomp_filter
  BY <1>9, Zenon DEF apply_seccomp_filter, Exit, ChildInv, StagesInv, ShutdownLeavesNoChild
<1>10. CASE run_event_loop
  BY <1>10, Zenon DEF run_event_loop, Exit, ChildInv, StagesInv, ShutdownLeavesNoChild
<1>11. CASE ReadPipe
  BY <1>0, <1>11, Zenon DEF ReadPipe
<1>12. CASE ReadEof \/ ChildDies
  BY <1>12, StageNames, Zenon
     DEF ReadEof, ChildDies, ChildRunning, Exit, ChildInv, StagesInv, ShutdownLeavesNoChild
<1>. QED
  BY <1>1, <1>2, <1>3, <1>4, <1>5, <1>6, <1>7, <1>8, <1>9, <1>10, <1>11, <1>12,
     StageKeepsChildInv, Zenon DEF BridgeNext, ChildStep

\* The child listens for dashboards only after it has dropped its privileges,
\* isolated its files and given up its user (TelemetryBridge child start), unless
\* the sandbox was disabled.
THEOREM ServesConfined == BridgeSpec => []ConfinedBeforeServing
<1>1. ChildInv => ConfinedBeforeServing
  BY StageNames, Zenon DEF ChildInv, StagesInv, ConfinedBeforeServing
<1>. QED  BY <1>1, ChildInitInv, ChildNextInv, PTL DEF BridgeSpec

\* shutdown() forgets the child only when it is reaped, however exits, kills and
\* deaths interleave.
THEOREM ShutdownReapsChild == BridgeSpec => []ShutdownLeavesNoChild
<1>1. ChildInv => ShutdownLeavesNoChild
  BY Zenon DEF ChildInv
<1>. QED  BY <1>1, ChildInitInv, ChildNextInv, PTL DEF BridgeSpec

-----------------------------------------------------------------------------
(***************************************************************************)
(* The stream of lines.                                                    *)
(***************************************************************************)

\* What lies in buffer and pipe is cut from lines: the unit after the end of a
\* line begins one, any other goes on with its line.
Unit == {u \in Line \X (Nat \ {0}) : u[2] <= Size[u[1]]}
Follows(u, v) == IF EndsLine(u) THEN v[2] = 1 ELSE v = <<u[1], u[2] + 1>>
Chained(s) ==
    /\ s \in Seq(Unit)
    /\ s # <<>> => s[1][2] = 1
    /\ \A i \in 1 .. Len(s) - 1 : Follows(s[i], s[i + 1])

\* The stream from the node to the dashboards, and whether the next line may begin
\* or the rest of l from its unit k is due.
Stream == buffer \o pipe
AtEnd(s) == s = <<>> \/ EndsLine(s[Len(s)])
Due(s, l, k) == s # <<>> /\ s[Len(s)] = <<l, k - 1>>

\* The rest of a line that a thread has still to write.
Rest == {r \in [at : {"rest"}, line : Line, from : Nat \ {0, 1}] : r.from <= Size[r.line]}

\* A thread that has the rest of a line to write has that line at the end of the
\* stream; if there is none, the stream ends with a line.
Awaited(s) ==
    /\ \A t \in Pusher : pusher[t].at = "rest" => Due(s, pusher[t].line, pusher[t].from)
    /\ (\A t \in Pusher : pusher[t].at # "rest") => AtEnd(s)

\* While nothing is torn, the stream is cut from lines and goes on where the
\* threads left off, and what was published are lines.
StreamInv ==
    \/ torn
    \/ /\ buffer \in Seq(Unit) /\ pipe \in Seq(Unit)
       /\ Chained(Stream)
       /\ published \in Seq(Seq(Unit))
       /\ \A i \in 1 .. Len(published) : \E l \in Line : published[i] = Units(l, 1)
       /\ pusher \in [Pusher -> {PusherIdle} \cup Rest]
       /\ node = "up" => Awaited(Stream)

-----------------------------------------------------------------------------
\* A set of naturals that is not empty has a least element.
LEMMA LeastNat ==
  ASSUME NEW T, T \subseteq Nat, T # {}
  PROVE  \E x \in T : \A y \in T : x <= y
<1>1. PICK R : R = OpToRel(<, Nat)
  BY Zenon
<1>2. IsWellFoundedOn(R, Nat)
  BY <1>1, NatLessThanWellFounded, Zenon
<1>3. PICK x \in T : \A y \in T : <<y, x>> \notin R
  BY <1>2, WFMin, Zenon
<1>4. \A y \in Nat : y < x => <<y, x>> \in R
  BY <1>1, Zenon DEF OpToRel
<1>5. ASSUME NEW y \in T PROVE x <= y
  <2>1. ~(y < x)
    BY <1>3, <1>4, Zenon
  <2>. QED  BY <2>1
<1>. QED  BY <1>5, Zenon

\* The largest element of a bounded set of naturals is Max of it.
LEMMA MaxOfNats ==
  ASSUME NEW T, T \subseteq Nat, T # {}, NEW n \in Nat, \A x \in T : x <= n
  PROVE  Max(T) \in T /\ \A y \in T : y <= Max(T)
<1>. DEFINE D == {n - x : x \in T}
<1>1. D \subseteq Nat /\ D # {}
  <2>1. \A x \in T : n - x \in Nat
    OBVIOUS
  <2>. QED  BY <2>1, Zenon
<1>2. PICK d \in D : \A e \in D : d <= e
  <2>. HIDE DEF D
  <2>. QED  BY <1>1, LeastNat, Zenon
<1>3. PICK x \in T : d = n - x
  OBVIOUS
<1>4. \A y \in T : x >= y
  <2>. TAKE y \in T
  <2>1. d <= n - y
    BY <1>2, Zenon
  <2>. QED  BY <2>1, <1>3
<1>5. \E z \in T : \A y \in T : z >= y
  BY <1>4, Zenon
<1>6. Max(T) \in T /\ \A y \in T : Max(T) >= y
  BY <1>5, Zenon DEF Max
<1>. QED  BY <1>6, Zenon

\* The elements of F up to k.
Upto(F, k) == {f \in F : f <= k}

\* They grow by the elements of F one by one.
LEMMA UptoGrows ==
  ASSUME NEW N \in Nat, NEW F \in SUBSET (1 .. N)
  PROVE  /\ Upto(F, 0) = {} /\ Upto(F, N) = F
         /\ \A k \in 1 .. N : k \in F => /\ Upto(F, k) = Upto(F, k - 1) \cup {k}
                                       /\ k \notin Upto(F, k - 1)
         /\ \A k \in 0 .. N : IsFiniteSet(Upto(F, k)) /\ Cardinality(Upto(F, k)) \in Nat
<1>0. \A f \in F : f \in Nat /\ 1 <= f /\ f <= N
  OBVIOUS
<1>1. Upto(F, 0) = {}
  <2>1. \A f \in F : ~(f <= 0)
    BY <1>0
  <2>. QED  BY <2>1, Zenon DEF Upto
<1>2. Upto(F, N) = F
  BY <1>0, Zenon DEF Upto
<1>3. ASSUME NEW k \in 1 .. N, k \in F
      PROVE  Upto(F, k) = Upto(F, k - 1) \cup {k} /\ k \notin Upto(F, k - 1)
  <2>1. \A f \in F : f <= k <=> f <= k - 1 \/ f = k
    BY <1>0
  <2>2. ~(k <= k - 1) /\ k <= k
    OBVIOUS
  <2>. QED  BY <1>3, <2>1, <2>2, Zenon DEF Upto
<1>4. ASSUME NEW k \in 0 .. N
      PROVE  IsFiniteSet(Upto(F, k)) /\ Cardinality(Upto(F, k)) \in Nat
  <2>1. IsFiniteSet(1 .. N)
    BY FS_Interval
  <2>2. Upto(F, k) \subseteq 1 .. N
    BY Zenon DEF Upto
  <2>. QED  BY <2>1, <2>2, FS_Subset, FS_CardinalityType, Zenon
<1>. QED  BY <1>1, <1>2, <1>3, <1>4, Zenon

\* They stay when k is not in F.
LEMMA UptoStays ==
  ASSUME NEW N \in Nat, NEW F \in SUBSET (1 .. N), NEW k \in 1 .. N, k \notin F
  PROVE  Upto(F, k) = Upto(F, k - 1)
<1>1. \A f \in F : f <= k <=> f <= k - 1
  <2>1. \A f \in F : f \in Nat /\ f # k
    OBVIOUS
  <2>. QED  BY <2>1
<1>. QED  BY <1>1, Zenon DEF Upto

\* The bounded set F of naturals has an n-th element, for every n up to its size.
LEMMA NthExists ==
  ASSUME NEW N \in Nat, NEW F \in SUBSET (1 .. N), NEW n \in 1 .. Cardinality(F)
  PROVE  \E e \in F : Cardinality(Upto(F, e)) = n
<1>. DEFINE T == {k \in 0 .. N : Cardinality(Upto(F, k)) >= n}
<1>0. \A k \in 0 .. N : IsFiniteSet(Upto(F, k)) /\ Cardinality(Upto(F, k)) \in Nat
  BY UptoGrows, Zenon
<1>1. Upto(F, 0) = {} /\ Upto(F, N) = F
  BY UptoGrows, Zenon
<1>2. N \in T
  BY <1>0, <1>1
<1>3. PICK e \in T : \A k \in T : e <= k
  <2>1. T \subseteq Nat
    OBVIOUS
  <2>. HIDE DEF T
  <2>. QED  BY <1>2, <2>1, LeastNat, Zenon
<1>4. e \in 0 .. N /\ Cardinality(Upto(F, e)) >= n
  OBVIOUS
<1>5. e \in 1 .. N
  <2>1. Cardinality(Upto(F, 0)) = 0
    BY <1>1, FS_EmptySet, Zenon
  <2>. QED  BY <2>1, <1>4
<1>6. e - 1 \in 0 .. N /\ Cardinality(Upto(F, e - 1)) < n
  <2>1. e - 1 \in 0 .. N
    BY <1>5
  <2>2. ~(Cardinality(Upto(F, e - 1)) >= n)
    BY <1>3, <1>5, <2>1
  <2>. QED  BY <2>1, <2>2, <1>0
<1>7. e \in F
  <2>1. SUFFICES ASSUME e \notin F PROVE FALSE
    OBVIOUS
  <2>2. Upto(F, e) = Upto(F, e - 1)
    BY <2>1, <1>5, UptoStays, Zenon
  <2>. QED  BY <2>2, <1>4, <1>6, <1>0
<1>8. Upto(F, e) = Upto(F, e - 1) \cup {e} /\ e \notin Upto(F, e - 1)
  BY <1>5, <1>7, UptoGrows, Zenon
<1>9. Cardinality(Upto(F, e)) = Cardinality(Upto(F, e - 1)) + 1
  BY <1>0, <1>6, <1>8, FS_AddElement, Zenon
<1>10. Cardinality(Upto(F, e)) = n
  BY <1>0, <1>4, <1>6, <1>9
<1>. QED  BY <1>7, <1>10, Zenon

-----------------------------------------------------------------------------
\* What Units writes: the units of a line from one of them on.
LEMMA UnitsOfLine ==
  ASSUME NEW l \in Line, NEW k \in 1 .. Size[l]
  PROVE  /\ Size[l] \in Nat \ {0}
         /\ Units(l, k) \in Seq(Unit) /\ Len(Units(l, k)) = Size[l] - k + 1
         /\ \A i \in 1 .. Size[l] - k + 1 : Units(l, k)[i] = <<l, k + i - 1>>
<1>1. Size[l] \in Nat \ {0}
  BY BridgeAssumption, Zenon
<1>. DEFINE n == Size[l] - k + 1
<1>2. n \in Nat
  BY <1>1
<1>3. Units(l, k) = [i \in 1 .. n |-> <<l, k + i - 1>>]
  BY Zenon DEF Units
<1>4. \A i \in 1 .. n : <<l, k + i - 1>> \in Unit
  BY <1>1 DEF Unit
<1>5. Units(l, k) \in [1 .. n -> Unit]
  <2>. HIDE DEF n
  <2>. QED  BY <1>2, <1>3, <1>4, Zenon
<1>. HIDE DEF n
<1>6. Units(l, k) \in Seq(Unit) /\ Len(Units(l, k)) = n
  BY <1>2, <1>5
<1>7. \A i \in 1 .. n : Units(l, k)[i] = <<l, k + i - 1>>
  BY <1>3, Zenon
<1>. QED  BY <1>1, <1>6, <1>7, Zenon DEF n

\* A piece of a stream.
LEMMA UnitPiece ==
  ASSUME NEW s \in Seq(Unit), NEW a \in 1 .. Len(s) + 1, NEW b \in 0 .. Len(s)
  PROVE  /\ SubSeq(s, a, b) \in Seq(Unit)
         /\ Len(SubSeq(s, a, b)) = IF a <= b THEN b - a + 1 ELSE 0
         /\ \A i \in 1 .. b - a + 1 : SubSeq(s, a, b)[i] = s[a + i - 1]
<1>1. \A i \in a .. b : s[i] \in Unit
  OBVIOUS
<1>. QED  BY <1>1, SubSeqProperties

\* Three pieces of a stream, one after the other.
LEMMA UnitsJoin ==
  ASSUME NEW s \in Seq(Unit), NEW t \in Seq(Unit), NEW u \in Seq(Unit)
  PROVE  (s \o t) \o u = s \o (t \o u)
BY ConcatAssociative

\* A piece of the stream that begins at its start or after the end of a line is
\* cut from lines as well.
LEMMA ChainedPiece ==
  ASSUME NEW s, Chained(s), NEW a \in 1 .. Len(s) + 1, NEW b \in 0 .. Len(s),
         a = 1 \/ EndsLine(s[a - 1])
  PROVE  Chained(SubSeq(s, a, b))
<1>1. s \in Seq(Unit) /\ Len(s) \in Nat /\ \A i \in 1 .. Len(s) : s[i] \in Unit
  BY DEF Chained
<1>. DEFINE p == SubSeq(s, a, b)
<1>2. /\ p \in Seq(Unit) /\ Len(p) = IF a <= b THEN b - a + 1 ELSE 0
      /\ \A i \in 1 .. b - a + 1 : p[i] = s[a + i - 1]
  <2>1. \A i \in a .. b : s[i] \in Unit
    BY <1>1
  <2>. QED  BY <2>1, SubSeqProperties
<1>. HIDE DEF p
<1>3. CASE a > b
  <2>1. p = <<>>
    BY <1>1, <1>2, <1>3
  <2>. QED  BY <2>1, <1>2 DEF Chained, p
<1>4. CASE a <= b
  <2>1. Len(p) = b - a + 1 /\ p # <<>> /\ s # <<>>
    BY <1>1, <1>2, <1>4
  <2>2. p[1] = s[a]
    BY <1>1, <1>2, <1>4
  <2>3. s[a][2] = 1
    <3>1. CASE a = 1
      BY <2>1, <3>1, Zenon DEF Chained
    <3>2. CASE a # 1
      <4>1. a - 1 \in 1 .. Len(s) - 1 /\ EndsLine(s[a - 1])
        BY <1>1, <1>4, <3>2
      <4>2. Follows(s[a - 1], s[(a - 1) + 1])
        BY <4>1, Zenon DEF Chained
      <4>3. (a - 1) + 1 = a
        BY <1>1
      <4>. QED  BY <4>1, <4>2, <4>3, Zenon DEF Follows
    <3>. QED  BY <3>1, <3>2, Zenon
  <2>4. ASSUME NEW i \in 1 .. Len(p) - 1
        PROVE  Follows(p[i], p[i + 1])
    <3>1. i \in 1 .. b - a + 1 /\ i + 1 \in 1 .. b - a + 1 /\ a + i - 1 \in 1 .. Len(s) - 1
      BY <1>1, <1>4, <2>1
    <3>2. p[i] = s[a + i - 1] /\ p[i + 1] = s[(a + i - 1) + 1]
      <4>1. a + (i + 1) - 1 = (a + i - 1) + 1
        BY <1>1
      <4>. QED  BY <3>1, <4>1, <1>2
    <3>3. Follows(s[a + i - 1], s[(a + i - 1) + 1])
      BY <3>1, Zenon DEF Chained
    <3>. QED  BY <3>2, <3>3, Zenon
  <2>. QED  BY <1>2, <2>1, <2>2, <2>3, <2>4, Zenon DEF Chained, p
<1>. QED  BY <1>1, <1>3, <1>4

\* From one end of a line to the next lies one line.
LEMMA WholeLine ==
  ASSUME NEW s, Chained(s), NEW b \in 1 .. Len(s), NEW a \in 1 .. b,
         a = 1 \/ EndsLine(s[a - 1]), EndsLine(s[b]),
         \A i \in a .. b - 1 : ~EndsLine(s[i])
  PROVE  \E l \in Line : SubSeq(s, a, b) = Units(l, 1)
<1>1. s \in Seq(Unit) /\ Len(s) \in Nat /\ \A i \in 1 .. Len(s) : s[i] \in Unit
  BY DEF Chained
<1>2. PICK l \in Line : l = s[a][1]
  BY <1>1 DEF Unit
<1>. DEFINE p == SubSeq(s, a, b)
            T == {i \in 1 .. b - a + 1 : p[i] # <<l, i>>}
<1>3. /\ p \in Seq(Unit) /\ Len(p) = b - a + 1
      /\ \A i \in 1 .. b - a + 1 : p[i] = s[a + i - 1]
  <2>1. \A i \in a .. b : s[i] \in Unit
    BY <1>1
  <2>. QED  BY <2>1, SubSeqProperties
<1>. HIDE DEF p
<1>4. Chained(p) /\ p # <<>>
  <2>1. a \in 1 .. Len(s) + 1 /\ b \in 0 .. Len(s)
    BY <1>1
  <2>2. Chained(SubSeq(s, a, b))
    BY <2>1, ChainedPiece, Zenon
  <2>3. p # <<>>
    BY <1>3
  <2>. QED  BY <2>2, <2>3, Zenon DEF p
<1>5. p[1] = <<l, 1>>
  <2>1. p[1] = s[a] /\ p[1][2] = 1 /\ p[1] \in Unit
    BY <1>1, <1>3, <1>4 DEF Chained
  <2>. QED  BY <2>1, <1>2 DEF Unit
<1>6. T = {}
  <2>. SUFFICES ASSUME T # {} PROVE FALSE
    OBVIOUS
  <2>1. PICK i \in T : \A j \in T : i <= j
    <3>1. T \subseteq Nat
      OBVIOUS
    <3>. HIDE DEF T
    <3>. QED  BY <3>1, LeastNat, Zenon
  <2>2. i \in 1 .. b - a + 1 /\ p[i] # <<l, i>>
    OBVIOUS
  <2>3. i # 1 /\ i - 1 \in 1 .. Len(p) - 1
    <3>1. i # 1
      BY <2>2, <1>5, Zenon
    <3>. QED  BY <3>1, <2>2, <1>3
  <2>4. p[i - 1] = <<l, i - 1>>
    <3>1. i - 1 \notin T
      BY <2>1, <2>2
    <3>2. i - 1 \in 1 .. b - a + 1
      BY <2>2, <2>3
    <3>. QED  BY <3>1, <3>2, Zenon
  <2>5. ~EndsLine(p[i - 1])
    <3>1. a + (i - 1) - 1 \in a .. b - 1 /\ p[i - 1] = s[a + (i - 1) - 1]
      BY <1>3, <2>2, <2>3
    <3>. QED  BY <3>1, Zenon
  <2>6. Follows(p[i - 1], p[(i - 1) + 1])
    BY <1>4, <2>3, Zenon DEF Chained
  <2>7. p[(i - 1) + 1] = <<l, (i - 1) + 1>>
    BY <2>4, <2>5, <2>6 DEF Follows
  <2>. QED  BY <2>2, <2>7
<1>7. \A i \in 1 .. b - a + 1 : p[i] = <<l, i>>
  BY <1>6, Zenon
<1>8. Size[l] = b - a + 1
  <2>1. p[b - a + 1] = s[b] /\ p[b - a + 1] = <<l, b - a + 1>>
    BY <1>1, <1>3, <1>7
  <2>. QED  BY <2>1 DEF EndsLine
<1>9. p = Units(l, 1)
  <2>1. 1 \in 1 .. Size[l] /\ Size[l] - 1 + 1 = b - a + 1
    BY <1>8
  <2>2. /\ Units(l, 1) \in Seq(Unit) /\ Len(Units(l, 1)) = b - a + 1
        /\ \A i \in 1 .. b - a + 1 : Units(l, 1)[i] = <<l, 1 + i - 1>>
    BY <2>1, UnitsOfLine, Zenon
  <2>3. \A i \in 1 .. Len(p) : p[i] = Units(l, 1)[i]
    <3>1. \A i \in 1 .. b - a + 1 : 1 + i - 1 = i
      OBVIOUS
    <3>2. \A i \in 1 .. b - a + 1 : Units(l, 1)[i] = <<l, i>>
      BY <3>1, <2>2, Zenon
    <3>. QED  BY <3>2, <1>3, <1>7, Zenon
  <2>. QED  BY <1>3, <2>2, <2>3, SeqEqual
<1>. QED  BY <1>9, Zenon DEF p

\* Every line that LinesOf finds is one whole line.
LEMMA LinesWhole ==
  ASSUME NEW s, Chained(s)
  PROVE  /\ LinesOf(s) \in Seq(Seq(Unit))
         /\ \A n \in 1 .. Len(LinesOf(s)) : \E l \in Line : LinesOf(s)[n] = Units(l, 1)
<1>1. s \in Seq(Unit) /\ Len(s) \in Nat
  BY DEF Chained
<1>2. PICK F : F = Finished(s)
  OBVIOUS
<1>3. F \in SUBSET (1 .. Len(s)) /\ \A i \in 1 .. Len(s) : i \in F <=> EndsLine(s[i])
  BY <1>2, Zenon DEF Finished
<1>4. PICK C \in Nat : C = Cardinality(F)
  <2>1. IsFiniteSet(1 .. Len(s))
    BY <1>1, FS_Interval
  <2>. QED  BY <2>1, <1>3, FS_Subset, FS_CardinalityType, Zenon
<1>. DEFINE G(n) == SubSeq(s, Max({f \in F : f < NthEnd(s, n)} \cup {0}) + 1, NthEnd(s, n))
<1>5. ASSUME NEW n \in 1 .. C
      PROVE  \E l \in Line : G(n) = Units(l, 1)
  <2>1. PICK e : e = NthEnd(s, n)
    OBVIOUS
  <2>2. e \in F
    <3>1. \E x \in F : Cardinality(Upto(F, x)) = n
      BY <1>1, <1>3, <1>4, NthExists, Zenon
    <3>2. e = CHOOSE x \in F : Cardinality(Upto(F, x)) = n
      BY <1>2, <2>1, Zenon DEF NthEnd, Upto
    <3>. QED  BY <3>1, <3>2, Zenon
  <2>3. e \in 1 .. Len(s) /\ EndsLine(s[e])
    BY <1>3, <2>2, Zenon
  <2>4. PICK T : T = {f \in F : f < e} \cup {0}
    BY Zenon
  <2>5. T \subseteq Nat /\ T # {} /\ \A x \in T : x <= e
    <3>1. \A f \in F : f \in Nat
      BY <1>3
    <3>2. 0 \in T /\ \A x \in T : x = 0 \/ (x \in F /\ x < e)
      BY <2>4, Zenon
    <3>3. 0 <= e
      BY <2>3
    <3>4. \A x \in T : x \in Nat /\ x <= e
      BY <3>1, <3>2, <3>3, <2>3
    <3>. QED  BY <3>2, <3>4, Zenon
  <2>6. PICK m : m = Max(T)
    OBVIOUS
  <2>7. m \in T /\ \A y \in T : y <= m
    <3>1. e \in Nat
      BY <2>3
    <3>. QED  BY <2>5, <2>6, <3>1, MaxOfNats, Zenon
  <2>8. m \in Nat /\ m < e /\ (m = 0 \/ EndsLine(s[m]))
    <3>1. m = 0 \/ (m \in F /\ m < e)
      BY <2>4, <2>7, Zenon
    <3>2. m \in Nat
      BY <2>5, <2>7, Zenon
    <3>3. 0 < e
      BY <2>3
    <3>4. m \in F => EndsLine(s[m])
      BY <1>3, Zenon
    <3>. QED  BY <3>1, <3>2, <3>3, <3>4, Zenon
  <2>9. m + 1 \in 1 .. e /\ (m + 1) - 1 = m
    BY <2>3, <2>8
  <2>10. m + 1 = 1 \/ EndsLine(s[(m + 1) - 1])
    BY <2>8, <2>9
  <2>11. ASSUME NEW i \in (m + 1) .. e - 1 PROVE ~EndsLine(s[i])
    <3>1. i \in 1 .. Len(s) /\ i < e /\ ~(i <= m)
      BY <2>3, <2>8
    <3>2. i \notin F
      BY <3>1, <2>4, <2>7, Zenon
    <3>. QED  BY <3>1, <3>2, <1>3, Zenon
  <2>12. \E l \in Line : SubSeq(s, m + 1, e) = Units(l, 1)
    BY <2>3, <2>9, <2>10, <2>11, WholeLine, Zenon
  <2>13. G(n) = SubSeq(s, m + 1, e)
    BY <2>1, <2>4, <2>6, Zenon
  <2>. QED  BY <2>12, <2>13, Zenon
<1>6. LinesOf(s) = [n \in 1 .. C |-> G(n)]
  BY <1>2, <1>4, Zenon DEF LinesOf
<1>. HIDE DEF G
<1>7. ASSUME NEW n \in 1 .. C PROVE G(n) \in Seq(Unit)
  <2>1. PICK l \in Line : G(n) = Units(l, 1)
    BY <1>5, Zenon
  <2>2. 1 \in 1 .. Size[l]
    BY BridgeAssumption
  <2>. QED  BY <2>1, <2>2, UnitsOfLine, Zenon
<1>8. LinesOf(s) \in [1 .. C -> Seq(Unit)]
  BY <1>6, <1>7, Zenon
<1>9. LinesOf(s) \in Seq(Seq(Unit)) /\ Len(LinesOf(s)) = C
  BY <1>8
<1>10. \A n \in 1 .. C : LinesOf(s)[n] = G(n)
  BY <1>6, Zenon
<1>. QED  BY <1>5, <1>9, <1>10, Zenon

\* A read takes what is cut from lines apart at the end of a line: what is left of
\* the stream is the stream from there on.
LEMMA ReadCuts ==
  ASSUME NEW b \in Seq(Unit), NEW p \in Seq(Unit), Chained(b \o p), NEW n \in 1 .. Len(p)
  PROVE  /\ Chained(b \o SubSeq(p, 1, n))
         /\ RestOf(b \o SubSeq(p, 1, n)) \in Seq(Unit)
         /\ SubSeq(p, n + 1, Len(p)) \in Seq(Unit)
         /\ \E m \in 0 .. Len(b \o p) :
               /\ m = 0 \/ EndsLine((b \o p)[m])
               /\ RestOf(b \o SubSeq(p, 1, n)) \o SubSeq(p, n + 1, Len(p))
                    = SubSeq(b \o p, m + 1, Len(b \o p))
<1>1. PICK s : s = b \o p
  BY Zenon
<1>2. /\ s \in Seq(Unit) /\ Len(s) = Len(b) + Len(p) /\ Len(b) \in Nat /\ Len(p) \in Nat
      /\ \A i \in 1 .. Len(s) : s[i] = IF i <= Len(b) THEN b[i] ELSE p[i - Len(b)]
  BY <1>1, ConcatProperties
<1>3. PICK c : c = Len(b) + n
  OBVIOUS
<1>4. c \in 1 .. Len(s) /\ \A i \in 1 .. Len(s) : s[i] \in Unit
  BY <1>2, <1>3
<1>5. PICK h : h = SubSeq(p, 1, n)
  BY Zenon
<1>6. h \in Seq(Unit) /\ Len(h) = n /\ \A i \in 1 .. n : h[i] = p[i]
  <2>1. \A i \in 1 .. n : p[i] \in Unit
    OBVIOUS
  <2>2. /\ h \in Seq(Unit) /\ Len(h) = (IF 1 <= n THEN n - 1 + 1 ELSE 0)
        /\ \A i \in 1 .. n - 1 + 1 : h[i] = p[1 + i - 1]
    BY <1>5, <2>1, SubSeqProperties
  <2>3. n - 1 + 1 = n /\ \A i \in 1 .. n : 1 + i - 1 = i
    OBVIOUS
  <2>. QED  BY <2>2, <2>3
<1>7. PICK u : u = b \o h
  BY Zenon
<1>8. /\ u \in Seq(Unit) /\ Len(u) = c
      /\ \A i \in 1 .. c : u[i] = IF i <= Len(b) THEN b[i] ELSE h[i - Len(b)]
  <2>1. /\ u \in Seq(Unit) /\ Len(u) = Len(b) + Len(h)
        /\ \A i \in 1 .. Len(b) + Len(h) : u[i] = IF i <= Len(b) THEN b[i] ELSE h[i - Len(b)]
    BY <1>6, <1>7, ConcatProperties, Zenon
  <2>2. Len(b) + Len(h) = c
    BY <1>3, <1>6, Zenon
  <2>. QED  BY <2>1, <2>2, Zenon
<1>9. ASSUME NEW i \in 1 .. c PROVE u[i] = s[i]
  <2>0. i \in 1 .. Len(s)
    BY <1>4
  <2>1. CASE i <= Len(b)
    BY <2>0, <2>1, <1>2, <1>8, Zenon
  <2>2. CASE ~(i <= Len(b))
    <3>1. i - Len(b) \in 1 .. n
      BY <1>2, <1>3, <2>2
    <3>2. u[i] = h[i - Len(b)] /\ s[i] = p[i - Len(b)]
      BY <2>0, <2>2, <1>2, <1>8, Zenon
    <3>. QED  BY <3>1, <3>2, <1>6, Zenon
  <2>. QED  BY <2>1, <2>2, Zenon
<1>10. u = SubSeq(s, 1, c)
  <2>1. /\ SubSeq(s, 1, c) \in Seq(Unit) /\ Len(SubSeq(s, 1, c)) = c
        /\ \A i \in 1 .. c : SubSeq(s, 1, c)[i] = s[1 + i - 1]
    BY <1>4, SubSeqProperties
  <2>2. \A i \in 1 .. c : 1 + i - 1 = i
    OBVIOUS
  <2>3. \A i \in 1 .. Len(u) : u[i] = SubSeq(s, 1, c)[i]
    BY <1>8, <1>9, <2>1, <2>2, Zenon
  <2>. QED  BY <1>8, <2>1, <2>3, SeqEqual, Zenon
<1>11. Chained(u)
  <2>1. 1 \in 1 .. Len(s) + 1 /\ c \in 0 .. Len(s)
    BY <1>2, <1>4
  <2>2. Chained(SubSeq(s, 1, c))
    BY <1>1, <2>1, ChainedPiece, Zenon
  <2>. QED  BY <1>10, <2>2, Zenon
<1>12. PICK T : T = Finished(u) \cup {0}
  BY Zenon
<1>13. /\ T \subseteq Nat /\ T # {}
       /\ \A x \in T : x <= c /\ (x = 0 \/ EndsLine(u[x]))
  BY <1>4, <1>8, <1>12 DEF Finished
<1>14. PICK m : m = Max(T)
  OBVIOUS
<1>15. m \in T
  <2>1. c \in Nat
    BY <1>4
  <2>. QED  BY <1>13, <1>14, <2>1, MaxOfNats, Zenon
<1>16. m \in 0 .. c /\ (m = 0 \/ EndsLine(s[m]))
  BY <1>9, <1>13, <1>15
<1>17. RestOf(u) = SubSeq(u, m + 1, c)
  BY <1>8, <1>12, <1>14, Zenon DEF RestOf
<1>18. /\ SubSeq(u, m + 1, c) \in Seq(Unit)
       /\ Len(SubSeq(u, m + 1, c)) = (IF m + 1 <= c THEN c - (m + 1) + 1 ELSE 0)
       /\ \A i \in 1 .. c - (m + 1) + 1 : SubSeq(u, m + 1, c)[i] = u[(m + 1) + i - 1]
  <2>1. m + 1 \in 1 .. Len(u) + 1 /\ c \in 0 .. Len(u)
    BY <1>4, <1>8, <1>16
  <2>. QED  BY <1>8, <2>1, UnitPiece, Zenon
<1>19. /\ SubSeq(s, m + 1, c) \in Seq(Unit)
       /\ Len(SubSeq(s, m + 1, c)) = (IF m + 1 <= c THEN c - (m + 1) + 1 ELSE 0)
       /\ \A i \in 1 .. c - (m + 1) + 1 : SubSeq(s, m + 1, c)[i] = s[(m + 1) + i - 1]
  <2>1. m + 1 \in 1 .. Len(s) + 1 /\ c \in 0 .. Len(s)
    BY <1>2, <1>4, <1>16
  <2>. QED  BY <1>2, <2>1, UnitPiece, Zenon
<1>20. SubSeq(u, m + 1, c) = SubSeq(s, m + 1, c)
  <2>1. \A i \in 1 .. Len(SubSeq(u, m + 1, c)) : (m + 1) + i - 1 \in 1 .. c /\ i \in 1 .. c - (m + 1) + 1
    BY <1>4, <1>16, <1>18
  <2>2. \A i \in 1 .. Len(SubSeq(u, m + 1, c)) : SubSeq(u, m + 1, c)[i] = SubSeq(s, m + 1, c)[i]
    BY <1>9, <1>18, <1>19, <2>1, Zenon
  <2>3. Len(SubSeq(u, m + 1, c)) = Len(SubSeq(s, m + 1, c))
    BY <1>18, <1>19
  <2>. QED  BY <1>18, <1>19, <2>2, <2>3, SeqEqual, Zenon
<1>21. PICK q : q = SubSeq(p, n + 1, Len(p))
  BY Zenon
<1>22. /\ q \in Seq(Unit) /\ Len(q) = Len(p) - n
       /\ \A i \in 1 .. Len(p) - n : q[i] = p[n + i]
  <2>1. n + 1 \in 1 .. Len(p) + 1 /\ Len(p) \in 0 .. Len(p)
    BY <1>2
  <2>2. /\ q \in Seq(Unit) /\ Len(q) = (IF n + 1 <= Len(p) THEN Len(p) - (n + 1) + 1 ELSE 0)
        /\ \A i \in 1 .. Len(p) - (n + 1) + 1 : q[i] = p[(n + 1) + i - 1]
    BY <1>21, <2>1, UnitPiece, Zenon
  <2>3. Len(p) - (n + 1) + 1 = Len(p) - n /\ \A i \in 1 .. Len(p) - n : (n + 1) + i - 1 = n + i
    BY <1>2
  <2>4. Len(q) = Len(p) - n
    <3>1. CASE n + 1 <= Len(p)
      BY <3>1, <2>2, <2>3, Zenon
    <3>2. CASE ~(n + 1 <= Len(p))
      <4>1. Len(p) - n = 0
        BY <3>2, <1>2
      <4>. QED  BY <3>2, <2>2, <4>1, Zenon
    <3>. QED  BY <3>1, <3>2, Zenon
  <2>. QED  BY <2>2, <2>3, <2>4, Zenon
<1>23. q = SubSeq(s, c + 1, Len(s))
  <2>1. /\ SubSeq(s, c + 1, Len(s)) \in Seq(Unit)
        /\ Len(SubSeq(s, c + 1, Len(s))) = (IF c + 1 <= Len(s) THEN Len(s) - (c + 1) + 1 ELSE 0)
        /\ \A i \in 1 .. Len(s) - (c + 1) + 1 : SubSeq(s, c + 1, Len(s))[i] = s[(c + 1) + i - 1]
    <3>1. c + 1 \in 1 .. Len(s) + 1 /\ Len(s) \in 0 .. Len(s) /\ s \in Seq(Unit)
      BY <1>2, <1>4
    <3>. QED  BY <3>1, UnitPiece, Zenon
  <2>2. Len(SubSeq(s, c + 1, Len(s))) = Len(p) - n /\ Len(s) - (c + 1) + 1 = Len(p) - n
    BY <1>2, <1>3, <2>1
  <2>3. ASSUME NEW i \in 1 .. Len(p) - n
        PROVE  q[i] = SubSeq(s, c + 1, Len(s))[i]
    <3>1. /\ (c + 1) + i - 1 \in 1 .. Len(s) /\ ~((c + 1) + i - 1 <= Len(b))
          /\ ((c + 1) + i - 1) - Len(b) = n + i
      BY <1>2, <1>3
    <3>2. s[(c + 1) + i - 1] = p[n + i]
      BY <1>2, <3>1, Zenon
    <3>. QED  BY <1>22, <2>1, <2>2, <3>2, Zenon
  <2>. QED  BY <1>22, <2>1, <2>2, <2>3, SeqEqual, Zenon
<1>24. SubSeq(s, m + 1, c) \o SubSeq(s, c + 1, Len(s)) = SubSeq(s, m + 1, Len(s))
  <2>1. /\ m + 1 \in 1 .. Len(s) + 1 /\ c \in (m + 1) - 1 .. Len(s) /\ Len(s) \in c .. Len(s)
    BY <1>2, <1>4, <1>16
  <2>. QED  BY <1>2, <2>1, ConcatAdjacentSubSeq, Zenon
<1>25. m \in 0 .. Len(s)
  BY <1>4, <1>16
<1>. QED  BY <1>1, <1>5, <1>7, <1>11, <1>16, <1>17, <1>18, <1>20, <1>21, <1>22, <1>23, <1>24, <1>25, Zenon

\* Units of a line that come where they are due, at the end of the stream, keep it
\* cut from lines.
LEMMA RunContinues ==
  ASSUME NEW s, Chained(s), NEW l \in Line, NEW k \in 1 .. Size[l],
         NEW n \in 1 .. Size[l] - k + 1,
         (k = 1 /\ AtEnd(s)) \/ (k # 1 /\ Due(s, l, k))
  PROVE  /\ SubSeq(Units(l, k), 1, n) \in Seq(Unit) /\ Len(SubSeq(Units(l, k), 1, n)) = n
         /\ Chained(s \o SubSeq(Units(l, k), 1, n))
         /\ Due(s \o SubSeq(Units(l, k), 1, n), l, k + n)
<1>1. /\ Size[l] \in Nat \ {0}
      /\ Units(l, k) \in Seq(Unit) /\ Len(Units(l, k)) = Size[l] - k + 1
      /\ \A i \in 1 .. Size[l] - k + 1 : Units(l, k)[i] = <<l, k + i - 1>>
  BY UnitsOfLine, Zenon
<1>2. PICK h : h = SubSeq(Units(l, k), 1, n)
  BY Zenon
<1>3. h \in Seq(Unit) /\ Len(h) = n /\ \A i \in 1 .. n : h[i] = <<l, k + i - 1>>
  <2>1. \A i \in 1 .. n : Units(l, k)[i] \in Unit /\ i \in 1 .. Size[l] - k + 1
    BY <1>1
  <2>2. /\ h \in Seq(Unit) /\ Len(h) = (IF 1 <= n THEN n - 1 + 1 ELSE 0)
        /\ \A i \in 1 .. n - 1 + 1 : h[i] = Units(l, k)[1 + i - 1]
    BY <1>2, <2>1, SubSeqProperties
  <2>3. n - 1 + 1 = n /\ 1 <= n /\ \A i \in 1 .. n : 1 + i - 1 = i
    OBVIOUS
  <2>. QED  BY <1>1, <2>1, <2>2, <2>3, Zenon
<1>4. s \in Seq(Unit) /\ Len(s) \in Nat /\ \A i \in 1 .. Len(s) : s[i] \in Unit
  BY DEF Chained
<1>5. PICK x : x = s \o h
  BY Zenon
<1>6. /\ x \in Seq(Unit) /\ Len(x) = Len(s) + n
      /\ \A i \in 1 .. Len(s) + n : x[i] = IF i <= Len(s) THEN s[i] ELSE h[i - Len(s)]
  BY <1>3, <1>4, <1>5, ConcatProperties, Zenon
<1>7. \A i \in 1 .. Len(s) : x[i] = s[i]
  BY <1>4, <1>6
<1>8. ASSUME NEW i \in 1 .. n PROVE x[Len(s) + i] = <<l, k + i - 1>>
  <2>1. Len(s) + i \in 1 .. Len(s) + n /\ ~(Len(s) + i <= Len(s)) /\ (Len(s) + i) - Len(s) = i
    BY <1>4
  <2>2. x[Len(s) + i] = h[(Len(s) + i) - Len(s)]
    BY <1>6, <2>1, Zenon
  <2>. QED  BY <1>3, <2>1, <2>2, Zenon
<1>9. x # <<>> /\ x[Len(x)] = <<l, (k + n) - 1>>
  <2>1. n \in 1 .. n /\ k + n - 1 = (k + n) - 1
    OBVIOUS
  <2>2. x[Len(s) + n] = <<l, k + n - 1>>
    BY <1>8, <2>1, Zenon
  <2>3. x # <<>>
    BY <1>4, <1>6
  <2>. QED  BY <1>6, <2>1, <2>2, <2>3, Zenon
<1>10. x[1][2] = 1
  <2>1. CASE s = <<>>
    <3>1. k = 1 /\ Len(s) = 0
      BY <2>1, Zenon DEF Due
    <3>2. x[Len(s) + 1] = <<l, k + 1 - 1>>
      BY <1>8
    <3>3. Len(s) + 1 = 1 /\ k + 1 - 1 = 1
      BY <3>1
    <3>. QED  BY <3>2, <3>3
  <2>2. CASE s # <<>>
    <3>1. 1 \in 1 .. Len(s) /\ s[1][2] = 1
      BY <2>2, <1>4 DEF Chained
    <3>. QED  BY <3>1, <1>7, Zenon
  <2>. QED  BY <2>1, <2>2, Zenon
<1>11. ASSUME NEW i \in 1 .. Len(x) - 1 PROVE Follows(x[i], x[i + 1])
  <2>1. CASE i < Len(s)
    <3>1. i \in 1 .. Len(s) - 1 /\ i \in 1 .. Len(s) /\ i + 1 \in 1 .. Len(s)
      BY <1>4, <2>1
    <3>2. Follows(s[i], s[i + 1])
      BY <3>1, Zenon DEF Chained
    <3>. QED  BY <1>7, <3>1, <3>2, Zenon
  <2>2. CASE i = Len(s)
    <3>1. i \in 1 .. Len(s) /\ s # <<>> /\ x[i] = s[Len(s)]
      BY <1>4, <1>7, <2>2
    <3>2. x[i + 1] = <<l, k>>
      <4>1. x[Len(s) + 1] = <<l, k + 1 - 1>> /\ k + 1 - 1 = k
        BY <1>8
      <4>. QED  BY <2>2, <4>1, Zenon
    <3>3. CASE k = 1 /\ AtEnd(s)
      <4>1. EndsLine(x[i])
        BY <3>1, <3>3, Zenon DEF AtEnd
      <4>2. x[i + 1][2] = 1
        BY <3>2, <3>3
      <4>. QED  BY <4>1, <4>2, Zenon DEF Follows
    <3>4. CASE k # 1 /\ Due(s, l, k)
      <4>1. x[i] = <<l, k - 1>> /\ (k - 1) + 1 = k /\ k - 1 # Size[l]
        <5>1. x[i] = <<l, k - 1>>
          BY <3>1, <3>4, Zenon DEF Due
        <5>2. (k - 1) + 1 = k /\ k - 1 # Size[l]
          BY <1>1
        <5>. QED  BY <5>1, <5>2, Zenon
      <4>. QED  BY <3>2, <4>1 DEF Follows, EndsLine
    <3>. QED  BY <3>3, <3>4, Zenon
  <2>3. CASE i > Len(s)
    <3>1. PICK j \in 1 .. n - 1 : i = Len(s) + j
      <4>1. i - Len(s) \in 1 .. n - 1 /\ i = Len(s) + (i - Len(s))
        BY <1>4, <1>6, <2>3
      <4>. QED  BY <4>1, Zenon
    <3>2. /\ j \in 1 .. n /\ j + 1 \in 1 .. n /\ i + 1 = Len(s) + (j + 1)
          /\ k + (j + 1) - 1 = (k + j - 1) + 1 /\ k + j - 1 # Size[l]
      <4>1. PICK z \in Nat : z = Size[l]
        BY <1>1, Zenon
      <4>2. k \in 1 .. z /\ n \in 1 .. z - k + 1
        BY <4>1, Zenon
      <4>3. /\ j \in 1 .. n /\ j + 1 \in 1 .. n
            /\ k + (j + 1) - 1 = (k + j - 1) + 1 /\ k + j - 1 # z
        BY <4>2
      <4>4. i + 1 = Len(s) + (j + 1)
        BY <1>4, <3>1
      <4>. QED  BY <4>1, <4>3, <4>4, Zenon
    <3>3. x[i] = <<l, k + j - 1>>
      BY <1>8, <3>1, <3>2, Zenon
    <3>4. x[i + 1] = <<l, (k + j - 1) + 1>>
      BY <1>8, <3>2, Zenon
    <3>. QED  BY <3>2, <3>3, <3>4 DEF Follows, EndsLine
  <2>. QED  BY <1>4, <2>1, <2>2, <2>3
<1>12. Chained(x)
  BY <1>6, <1>10, <1>11, Zenon DEF Chained
<1>. QED  BY <1>2, <1>3, <1>5, <1>9, <1>12, Zenon DEF Due

\* A write puts a first part of the units into the pipe, all of them or fewer.
LEMMA WrittenIsPrefix ==
  ASSUME NEW units \in Seq(Unit), pipe \in Seq(Unit)
  PROVE  \E n \in 0 .. Len(units) : Written(units) = SubSeq(units, 1, n)
<1>1. Len(units) \in Nat /\ Len(pipe) \in Nat /\ PIPE_CAP \in Nat
  BY BridgeAssumption
<1>2. PICK a \in Nat : a = Len(units)
  BY <1>1, Zenon
<1>3. PICK r \in Int : r = Room
  <2>1. Room \in Int
    BY <1>1 DEF Room
  <2>. QED  BY <2>1, Zenon
<1>4. PICK k : k = Min({a, r})
  OBVIOUS
<1>5. k \in {a, r} /\ k <= a
  <2>1. \E z \in {a, r} : \A y \in {a, r} : z <= y
    BY <1>2, <1>3
  <2>2. k \in {a, r} /\ \A y \in {a, r} : k <= y
    BY <2>1, <1>4, Zenon DEF Min
  <2>. QED  BY <2>2, Zenon
<1>6. Written(units) = SubSeq(units, 1, k)
  BY <1>2, <1>3, <1>4, Zenon DEF Written
<1>7. CASE k >= 0
  BY <1>2, <1>3, <1>5, <1>6, <1>7
<1>8. CASE k < 0
  <2>1. SubSeq(units, 1, k) = <<>> /\ SubSeq(units, 1, 0) = <<>>
    BY <1>3, <1>5, <1>8, SubSeqEmpty
  <2>2. 0 \in 0 .. Len(units)
    BY <1>1
  <2>. QED  BY <2>1, <2>2, <1>6, Zenon
<1>. QED  BY <1>2, <1>3, <1>5, <1>7, <1>8

-----------------------------------------------------------------------------
\* The bridge starts in the invariant.
LEMMA StreamInitInv == BridgeInit => StreamInv
<1>. SUFFICES ASSUME BridgeInit PROVE StreamInv
  OBVIOUS
<1>1. /\ buffer = <<>> /\ pipe = <<>> /\ published = <<>>
      /\ pusher = [t \in Pusher |-> PusherIdle]
  BY Zenon DEF BridgeInit
<1>2. Stream = <<>>
  BY <1>1 DEF Stream
<1>3. Chained(Stream)
  BY <1>2 DEF Chained
<1>4. Awaited(Stream)
  BY <1>1, <1>2, Zenon DEF Awaited, AtEnd, PusherIdle
<1>5. pusher \in [Pusher -> {PusherIdle} \cup Rest]
  BY <1>1, Zenon
<1>. QED  BY <1>1, <1>3, <1>4, <1>5 DEF StreamInv

\* A step that leaves the stream and the threads alone keeps the invariant, also
\* when the node goes down.
LEMMA StreamRests ==
  ASSUME StreamInv, UNCHANGED <<buffer, pipe, published, pusher, torn>>,
         node' = node \/ node' # "up"
  PROVE  StreamInv'
<1>1. Stream' = Stream
  BY Zenon DEF Stream
<1>2. Awaited(Stream) => Awaited(Stream)'
  BY <1>1, Zenon DEF Awaited
<1>. QED  BY <1>1, <1>2, Zenon DEF StreamInv

\* push_telemetry keeps the invariant: a line goes to the end of the stream, and
\* what did not fit is awaited there.
LEMMA PushKeepsStream ==
  ASSUME StreamInv, NEW t \in Pusher, NEW l \in Line, push_telemetry(t, l)
  PROVE  StreamInv'
<1>. SUFFICES ASSUME ~torn' PROVE StreamInv'
  BY Zenon DEF StreamInv
<1>1. PICK units : units = Units(l, 1)
  OBVIOUS
<1>2. PICK put : put = IF write_fd /\ ChildRunning THEN Written(units) ELSE <<>>
  OBVIOUS
<1>3. /\ pipe' = pipe \o put /\ ~torn /\ ~Mixes(t, put)
      /\ \/ put = <<>> /\ pusher' = [pusher EXCEPT ![t] = PusherIdle]
         \/ put = units /\ pusher' = [pusher EXCEPT ![t] = PusherIdle]
         \/ /\ put \notin {<<>>, units}
            /\ pusher' = [pusher EXCEPT ![t] = [at |-> "rest", line |-> l, from |-> Len(put) + 1]]
  BY <1>1, <1>2, Zenon DEF push_telemetry, Return
<1>4. node = "up" /\ pusher[t] = PusherIdle /\ UNCHANGED <<node, buffer, published>>
  BY Zenon DEF push_telemetry
<1>5. /\ buffer \in Seq(Unit) /\ pipe \in Seq(Unit) /\ Chained(Stream) /\ Awaited(Stream)
      /\ published \in Seq(Seq(Unit))
      /\ \A i \in 1 .. Len(published) : \E m \in Line : published[i] = Units(m, 1)
      /\ pusher \in [Pusher -> {PusherIdle} \cup Rest]
  BY <1>3, <1>4, Zenon DEF StreamInv
<1>6. PICK z \in Nat \ {0} : z = Size[l]
  BY BridgeAssumption, Zenon
<1>7. /\ 1 \in 1 .. z /\ units \in Seq(Unit) /\ Len(units) = z
  <2>1. 1 \in 1 .. z /\ z - 1 + 1 = z
    OBVIOUS
  <2>. QED  BY <1>1, <1>6, <2>1, UnitsOfLine, Zenon
<1>8. PICK n \in 0 .. z : put = SubSeq(units, 1, n)
  <2>1. CASE put = <<>>
    <3>1. SubSeq(units, 1, 0) = <<>> /\ 0 \in 0 .. z
      BY SubSeqEmpty
    <3>. QED  BY <2>1, <3>1, Zenon
  <2>2. CASE put = Written(units)
    BY <2>2, <1>5, <1>7, WrittenIsPrefix, Zenon
  <2>. QED  BY <1>2, <2>1, <2>2, Zenon
<1>9. Stream' = buffer \o (pipe \o put)
  BY <1>3, <1>4, Zenon DEF Stream
<1>10. CASE n = 0
  <2>1. put = <<>>
    BY <1>8, <1>10, SubSeqEmpty
  <2>2. pipe' = pipe /\ Stream' = Stream
    BY <1>3, <1>5, <1>9, <2>1, ConcatEmptySeq, Zenon DEF Stream
  <2>3. put # units
    BY <1>7, <2>1, Zenon
  <2>4. pusher' = pusher
    BY <1>3, <1>4, <1>5, <2>1, <2>3, Zenon
  <2>5. Awaited(Stream)'
    BY <1>5, <2>2, <2>4, Zenon DEF Awaited
  <2>. QED  BY <1>4, <1>5, <2>2, <2>4, <2>5, Zenon DEF StreamInv
<1>11. CASE n # 0
  <2>1. n \in 1 .. z - 1 + 1
    BY <1>11
  <2>2. put \in Seq(Unit) /\ Len(put) = n /\ put # <<>>
    <3>1. units \in Seq(Unit) /\ 1 \in 1 .. Len(units) + 1 /\ n \in 0 .. Len(units)
      BY <1>7, <1>8, <2>1
    <3>2. put \in Seq(Unit) /\ Len(put) = (IF 1 <= n THEN n - 1 + 1 ELSE 0)
      BY <1>8, <3>1, UnitPiece, Zenon
    <3>. QED  BY <1>11, <3>2
  <2>3. \A u \in Pusher : pusher[u].at # "rest"
    BY <1>3, <1>4, <2>2 DEF Mixes, PusherIdle
  <2>4. AtEnd(Stream)
    BY <1>5, <2>3, Zenon DEF Awaited
  <2>5. Chained(Stream \o put) /\ Due(Stream \o put, l, 1 + n)
    BY <1>1, <1>5, <1>6, <1>7, <1>8, <2>1, <2>4, RunContinues, Zenon
  <2>6. Stream' = Stream \o put /\ pipe' \in Seq(Unit)
    <3>1. (buffer \o pipe) \o put = buffer \o (pipe \o put)
      <4>1. buffer \in Seq(Unit) /\ pipe \in Seq(Unit) /\ put \in Seq(Unit)
        BY <1>5, <2>2, Zenon
      <4>. QED  BY <4>1, UnitsJoin, Zenon
    <3>2. pipe \o put \in Seq(Unit)
      BY <1>5, <2>2, ConcatProperties, Zenon
    <3>. QED  BY <1>3, <1>9, <3>1, <3>2, Zenon DEF Stream
  <2>7. put = units <=> n = z
    <3>1. n = z => put = units
      BY <1>7, <1>8, SubSeqFull, Zenon
    <3>. QED  BY <1>7, <2>2, <3>1, Zenon
  <2>8. CASE n = z
    <3>1. pusher' = pusher
      BY <1>3, <1>4, <1>5, <2>2, <2>7, <2>8, Zenon
    <3>2. AtEnd(Stream')
      <4>1. Stream' # <<>> /\ Stream'[Len(Stream')] = <<l, z>>
        <5>1. (1 + n) - 1 = z
          BY <2>8
        <5>. QED  BY <2>5, <2>6, <5>1, Zenon DEF Due
      <4>. QED  BY <4>1, <1>6 DEF AtEnd, EndsLine
    <3>3. Awaited(Stream)'
      BY <2>3, <3>1, <3>2, Zenon DEF Awaited, AtEnd
    <3>. QED  BY <1>4, <1>5, <2>5, <2>6, <3>1, <3>3, Zenon DEF StreamInv
  <2>9. CASE n # z
    <3>1. PICK r : r = [at |-> "rest", line |-> l, from |-> Len(put) + 1]
      BY Zenon
    <3>2. pusher' = [pusher EXCEPT ![t] = r]
      BY <1>3, <2>2, <2>7, <2>9, <3>1, Zenon
    <3>3. r.at = "rest" /\ r.line = l /\ r.from = 1 + n
      BY <2>2, <3>1
    <3>4. r \in Rest
      <4>1. r \in [at : {"rest"}, line : Line, from : Nat \ {0, 1}]
        <5>1. Len(put) + 1 \in Nat \ {0, 1}
          BY <2>2, <1>11
        <5>. QED  BY <3>1, <5>1, Zenon
      <4>2. r.from <= Size[r.line]
        BY <1>6, <2>9, <3>3
      <4>. QED  BY <4>1, <4>2, Zenon DEF Rest
    <3>5. pusher' \in [Pusher -> {PusherIdle} \cup Rest] /\ pusher'[t] = r
      BY <1>5, <3>2, <3>4, Zenon
    <3>6. \A u \in Pusher : u # t => pusher'[u].at # "rest"
      BY <1>5, <2>3, <3>2, Zenon
    <3>7. Awaited(Stream)'
      <4>1. Due(Stream', l, 1 + n)
        BY <2>5, <2>6, Zenon
      <4>2. \A u \in Pusher : pusher'[u].at = "rest" => Due(Stream', pusher'[u].line, pusher'[u].from)
        BY <3>3, <3>5, <3>6, <4>1, Zenon
      <4>3. pusher'[t].at = "rest"
        BY <3>3, <3>5, Zenon
      <4>. QED  BY <4>2, <4>3, Zenon DEF Awaited, Due
    <3>. QED  BY <1>4, <1>5, <2>5, <2>6, <3>5, <3>7, Zenon DEF StreamInv
  <2>. QED  BY <2>8, <2>9, Zenon
<1>. QED  BY <1>10, <1>11, Zenon

\* The second write keeps the invariant: the rest goes where it is awaited.
LEMMA RestKeepsStream ==
  ASSUME StreamInv, NEW t \in Pusher, PushRest(t)
  PROVE  StreamInv'
<1>. SUFFICES ASSUME ~torn' PROVE StreamInv'
  BY Zenon DEF StreamInv
<1>1. PICK l : l = pusher[t].line
  OBVIOUS
<1>2. PICK k : k = pusher[t].from
  OBVIOUS
<1>3. PICK put : put = Units(l, k)
  OBVIOUS
<1>4. /\ pipe' = pipe \o put /\ ~torn /\ ~Mixes(t, put)
      /\ pusher' = [pusher EXCEPT ![t] = PusherIdle]
  BY <1>1, <1>2, <1>3, Zenon DEF PushRest, Return
<1>5. node = "up" /\ pusher[t].at = "rest" /\ UNCHANGED <<node, buffer, published>>
  BY Zenon DEF PushRest
<1>6. /\ buffer \in Seq(Unit) /\ pipe \in Seq(Unit) /\ Chained(Stream) /\ Awaited(Stream)
      /\ published \in Seq(Seq(Unit))
      /\ \A i \in 1 .. Len(published) : \E m \in Line : published[i] = Units(m, 1)
      /\ pusher \in [Pusher -> {PusherIdle} \cup Rest]
  BY <1>4, <1>5, Zenon DEF StreamInv
<1>7. l \in Line /\ k \in Nat \ {0, 1} /\ k <= Size[l]
  <2>1. pusher[t] \in Rest
    BY <1>5, <1>6 DEF PusherIdle
  <2>. QED  BY <1>1, <1>2, <2>1, Zenon DEF Rest
<1>8. PICK z \in Nat \ {0} : z = Size[l]
  BY <1>7, BridgeAssumption, Zenon
<1>9. k \in 1 .. z /\ k # 1 /\ z - k + 1 \in 1 .. z - k + 1
  BY <1>7, <1>8
<1>10. put \in Seq(Unit) /\ Len(put) = z - k + 1
  BY <1>3, <1>7, <1>8, <1>9, UnitsOfLine, Zenon
<1>11. put = SubSeq(put, 1, z - k + 1) /\ put # <<>>
  BY <1>9, <1>10, SubSeqFull
<1>12. Due(Stream, l, k)
  BY <1>1, <1>2, <1>5, <1>6, Zenon DEF Awaited
<1>13. Chained(Stream \o put) /\ Due(Stream \o put, l, k + (z - k + 1))
  <2>1. PICK n : n = z - k + 1
    OBVIOUS
  <2>2. k \in 1 .. Size[l] /\ n \in 1 .. Size[l] - k + 1 /\ put = SubSeq(Units(l, k), 1, n)
    BY <1>3, <1>8, <1>9, <1>11, <2>1, Zenon
  <2>3. Chained(Stream \o put) /\ Due(Stream \o put, l, k + n)
    BY <1>6, <1>7, <1>9, <1>12, <2>2, RunContinues, Zenon
  <2>. QED  BY <2>1, <2>3, Zenon
<1>14. Stream' = Stream \o put /\ pipe' \in Seq(Unit)
  <2>1. (buffer \o pipe) \o put = buffer \o (pipe \o put)
    <3>1. buffer \in Seq(Unit) /\ pipe \in Seq(Unit) /\ put \in Seq(Unit)
      BY <1>6, <1>10, Zenon
    <3>. QED  BY <3>1, UnitsJoin, Zenon
  <2>2. pipe \o put \in Seq(Unit)
    BY <1>6, <1>10, ConcatProperties, Zenon
  <2>3. Stream' = buffer \o (pipe \o put)
    BY <1>4, <1>5, Zenon DEF Stream
  <2>. QED  BY <1>4, <2>1, <2>2, <2>3, Zenon DEF Stream
<1>15. \A u \in Pusher : pusher'[u].at # "rest"
  <2>1. \A u \in Pusher : u # t => pusher[u].at # "rest"
    BY <1>4, <1>11, Zenon DEF Mixes
  <2>. QED  BY <1>4, <1>6, <2>1, Zenon DEF PusherIdle
<1>16. AtEnd(Stream')
  <2>1. Stream' # <<>> /\ Stream'[Len(Stream')] = <<l, z>>
    <3>1. (k + (z - k + 1)) - 1 = z
      BY <1>9
    <3>. QED  BY <1>13, <1>14, <3>1, Zenon DEF Due
  <2>. QED  BY <2>1, <1>8 DEF AtEnd, EndsLine
<1>17. Awaited(Stream)'
  BY <1>15, <1>16, Zenon DEF Awaited, AtEnd
<1>18. pusher' \in [Pusher -> {PusherIdle} \cup Rest]
  BY <1>4, <1>6, Zenon
<1>. QED  BY <1>5, <1>6, <1>13, <1>14, <1>17, <1>18, Zenon DEF StreamInv

\* What is left of a stream after the end of one of its lines ends as the stream.
LEMMA CutKeepsTip ==
  ASSUME NEW s, Chained(s), NEW m \in 0 .. Len(s), m = 0 \/ EndsLine(s[m])
  PROVE  /\ Chained(SubSeq(s, m + 1, Len(s)))
         /\ AtEnd(s) => AtEnd(SubSeq(s, m + 1, Len(s)))
         /\ \A l \in Line : \A k \in Nat \ {0, 1} :
               k <= Size[l] /\ Due(s, l, k) => Due(SubSeq(s, m + 1, Len(s)), l, k)
<1>1. s \in Seq(Unit) /\ Len(s) \in Nat /\ \A i \in 1 .. Len(s) : s[i] \in Unit
  BY DEF Chained
<1>2. PICK x : x = SubSeq(s, m + 1, Len(s))
  BY Zenon
<1>3. /\ x \in Seq(Unit) /\ Len(x) = (IF m + 1 <= Len(s) THEN Len(s) - (m + 1) + 1 ELSE 0)
      /\ \A i \in 1 .. Len(s) - (m + 1) + 1 : x[i] = s[(m + 1) + i - 1]
  <2>1. \A i \in m + 1 .. Len(s) : s[i] \in Unit
    BY <1>1
  <2>. QED  BY <1>1, <1>2, <2>1, SubSeqProperties
<1>4. Chained(x)
  <2>1. /\ m + 1 \in 1 .. Len(s) + 1 /\ Len(s) \in 0 .. Len(s)
        /\ (m + 1 = 1 \/ EndsLine(s[(m + 1) - 1]))
    <3>1. (m + 1) - 1 = m
      OBVIOUS
    <3>. QED  BY <1>1, <3>1
  <2>. QED  BY <1>2, <2>1, ChainedPiece, Zenon
<1>5. CASE m = Len(s)
  <2>1. x = <<>>
    BY <1>1, <1>3, <1>5
  <2>2. ASSUME NEW l \in Line, NEW k \in Nat \ {0, 1}, k <= Size[l], Due(s, l, k)
        PROVE  FALSE
    <3>1. s[m] = <<l, k - 1>> /\ m # 0
      BY <1>1, <1>5, <2>2 DEF Due
    <3>2. k - 1 = Size[l]
      BY <3>1 DEF EndsLine
    <3>. QED  BY <2>2, <3>2
  <2>. QED  BY <1>2, <1>4, <2>1, <2>2, Zenon DEF AtEnd
<1>6. CASE m < Len(s)
  <2>1. Len(x) = Len(s) - m /\ Len(x) \in 1 .. Len(s) - (m + 1) + 1
    BY <1>1, <1>3, <1>6
  <2>2. (m + 1) + (Len(s) - m) - 1 = Len(s)
    BY <1>1
  <2>3. x # <<>> /\ s # <<>> /\ x[Len(x)] = s[Len(s)]
    BY <1>1, <1>3, <1>6, <2>1, <2>2
  <2>. QED  BY <1>2, <1>4, <2>3, Zenon DEF AtEnd, Due
<1>. QED  BY <1>1, <1>5, <1>6

\* A read of the child keeps the invariant: it publishes whole lines and keeps the
\* rest, which the pipe continues.
LEMMA ReadKeepsStream ==
  ASSUME StreamInv, ReadPipe
  PROVE  StreamInv'
<1>. SUFFICES ASSUME ~torn' PROVE StreamInv'
  BY Zenon DEF StreamInv
<1>1. PICK n \in 1 .. Len(pipe) :
        /\ pipe' = SubSeq(pipe, n + 1, Len(pipe))
        /\ published' = published \o LinesOf(buffer \o SubSeq(pipe, 1, n))
        /\ buffer' = RestOf(buffer \o SubSeq(pipe, 1, n))
        /\ ~torn
  BY Zenon DEF ReadPipe
<1>2. UNCHANGED <<node, pusher>>
  BY Zenon DEF ReadPipe
<1>3. /\ buffer \in Seq(Unit) /\ pipe \in Seq(Unit) /\ Chained(buffer \o pipe)
      /\ published \in Seq(Seq(Unit))
      /\ \A i \in 1 .. Len(published) : \E l \in Line : published[i] = Units(l, 1)
      /\ pusher \in [Pusher -> {PusherIdle} \cup Rest]
      /\ node = "up" => Awaited(Stream)
  BY <1>1, Zenon DEF StreamInv, Stream
<1>4. PICK s : s = buffer \o pipe
  BY Zenon
<1>5. PICK u : u = buffer \o SubSeq(pipe, 1, n)
  BY Zenon
<1>6. Chained(u) /\ buffer' \in Seq(Unit) /\ pipe' \in Seq(Unit)
  BY <1>1, <1>3, <1>5, ReadCuts, Zenon
<1>7. PICK m \in 0 .. Len(s) :
        (m = 0 \/ EndsLine(s[m])) /\ buffer' \o pipe' = SubSeq(s, m + 1, Len(s))
  BY <1>1, <1>3, <1>4, ReadCuts, Zenon
<1>8. PICK x : x = SubSeq(s, m + 1, Len(s))
  BY Zenon
<1>9. /\ Chained(x)
      /\ AtEnd(s) => AtEnd(x)
      /\ \A l \in Line : \A k \in Nat \ {0, 1} : k <= Size[l] /\ Due(s, l, k) => Due(x, l, k)
  BY <1>3, <1>4, <1>7, <1>8, CutKeepsTip, Zenon
<1>10. Stream = s /\ Stream' = x
  BY <1>4, <1>7, <1>8, Zenon DEF Stream
<1>11. Awaited(Stream) => Awaited(Stream)'
  <2>. SUFFICES ASSUME Awaited(Stream) PROVE Awaited(Stream)'
    OBVIOUS
  <2>1. ASSUME NEW t \in Pusher, pusher[t].at = "rest"
        PROVE  Due(x, pusher[t].line, pusher[t].from)
    <3>1. pusher[t] \in Rest
      BY <1>3, <2>1 DEF PusherIdle
    <3>2. Due(s, pusher[t].line, pusher[t].from)
      BY <1>10, <2>1, Zenon DEF Awaited
    <3>3. /\ pusher[t].line \in Line /\ pusher[t].from \in Nat \ {0, 1}
          /\ pusher[t].from <= Size[pusher[t].line]
      BY <3>1, Zenon DEF Rest
    <3>. QED  BY <1>9, <3>2, <3>3, Zenon
  <2>2. (\A t \in Pusher : pusher[t].at # "rest") => AtEnd(x)
    <3>1. (\A t \in Pusher : pusher[t].at # "rest") => AtEnd(s)
      BY <1>10, Zenon DEF Awaited
    <3>. QED  BY <1>9, <3>1, Zenon
  <2>. QED  BY <1>2, <1>10, <2>1, <2>2, Zenon DEF Awaited, Due, AtEnd
<1>12. PICK L : L = LinesOf(u)
  OBVIOUS
<1>13. L \in Seq(Seq(Unit)) /\ \A i \in 1 .. Len(L) : \E l \in Line : L[i] = Units(l, 1)
  BY <1>6, <1>12, LinesWhole, Zenon
<1>14. /\ published' \in Seq(Seq(Unit)) /\ Len(published') = Len(published) + Len(L)
       /\ \A i \in 1 .. Len(published) + Len(L) :
             published'[i] = IF i <= Len(published) THEN published[i] ELSE L[i - Len(published)]
  <2>1. published' = published \o L
    BY <1>1, <1>5, <1>12, Zenon
  <2>. QED  BY <1>3, <1>13, <2>1, ConcatProperties, Zenon
<1>15. ASSUME NEW i \in 1 .. Len(published')
       PROVE  \E l \in Line : published'[i] = Units(l, 1)
  <2>0. Len(published) \in Nat /\ Len(L) \in Nat
    BY <1>3, <1>13
  <2>1. CASE i <= Len(published)
    <3>1. i \in 1 .. Len(published) /\ i \in 1 .. Len(published) + Len(L)
      BY <2>0, <2>1, <1>14
    <3>. QED  BY <2>1, <3>1, <1>3, <1>14, Zenon
  <2>2. CASE ~(i <= Len(published))
    <3>1. i - Len(published) \in 1 .. Len(L)
      BY <2>0, <2>2, <1>14
    <3>2. published'[i] = L[i - Len(published)]
      BY <2>2, <1>14, Zenon
    <3>. QED  BY <3>1, <3>2, <1>13, Zenon
  <2>. QED  BY <2>1, <2>2, Zenon
<1>16. Chained(Stream)'
  BY <1>9, <1>10, Zenon
<1>. QED  BY <1>2, <1>3, <1>6, <1>11, <1>14, <1>15, <1>16, Zenon DEF StreamInv

\* Every step keeps the invariant.
LEMMA StreamNextInv == StreamInv /\ [BridgeNext]_bridgeVars => StreamInv'
<1>. SUFFICES ASSUME StreamInv, [BridgeNext]_bridgeVars PROVE StreamInv'  OBVIOUS
<1>1. CASE UNCHANGED bridgeVars
  BY <1>1, StreamRests, Zenon DEF bridgeVars
<1>2. CASE spawn
  BY <1>2, StreamRests, Zenon DEF spawn
<1>3. ASSUME NEW t \in Pusher, NEW l \in OwnLine, gossip_telemetry(t, l) PROVE StreamInv'
  BY <1>3, PushKeepsStream, Zenon DEF gossip_telemetry, OwnLine
<1>4. ASSUME NEW t \in Pusher, NEW r \in Report, process_telemetry_gossip(t, r) PROVE StreamInv'
  <2>1. r.line \in Line
    BY BridgeAssumption, Zenon
  <2>. QED  BY <1>4, <2>1, PushKeepsStream, Zenon DEF process_telemetry_gossip
<1>5. ASSUME NEW t \in Pusher, PushRest(t) PROVE StreamInv'
  BY <1>5, RestKeepsStream, Zenon
<1>6. CASE BeginShutdown
  BY <1>6, StreamRests, Zenon DEF BeginShutdown
<1>7. CASE ReapExited \/ KillAndReap
  BY <1>7, StreamRests, Zenon DEF ReapExited, KillAndReap
<1>8. CASE NodeDies
  <2>1. /\ node' # "up" /\ pusher' = [t \in Pusher |-> PusherIdle]
        /\ UNCHANGED <<buffer, pipe, published, torn>>
    BY <1>8, Zenon DEF NodeDies
  <2>2. pusher' \in [Pusher -> {PusherIdle} \cup Rest]
    BY <2>1, Zenon
  <2>3. Stream' = Stream
    BY <2>1, Zenon DEF Stream
  <2>. QED  BY <2>1, <2>2, <2>3, Zenon DEF StreamInv
<1>9. ASSUME NEW i \in 1 .. Len(Stage), apply_stage(i) PROVE StreamInv'
  BY <1>9, StreamRests, Zenon DEF apply_stage, Exit
<1>10. CASE apply_seccomp_filter \/ run_event_loop
  BY <1>10, StreamRests, Zenon DEF apply_seccomp_filter, run_event_loop, Exit
<1>11. CASE ReadEof \/ ChildDies
  BY <1>11, StreamRests, Zenon DEF ReadEof, ChildDies, Exit
<1>. QED
  BY <1>1, <1>2, <1>3, <1>4, <1>5, <1>6, <1>7, <1>8, <1>9, <1>10, <1>11,
     ReadKeepsStream, Zenon DEF BridgeNext, ChildStep

\* What the dashboards get are lines that were pushed, whole (push_telemetry, the
\* monitor of the pipe), for every number of threads, length of line and size of
\* pipe, however writes and reads cut them; unless a line was torn.
THEOREM PublishedLinesAreWhole == BridgeSpec => []LinesArriveWhole
<1>1. StreamInv => LinesArriveWhole
  BY Zenon DEF StreamInv, LinesArriveWhole
<1>. QED  BY <1>1, StreamInitInv, StreamNextInv, PTL DEF BridgeSpec
=============================================================================
