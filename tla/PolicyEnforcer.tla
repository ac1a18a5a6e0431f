--------------------------- MODULE PolicyEnforcer ---------------------------
(***************************************************************************)
(* class PolicyEnforcer of src/enforcer/PolicyEnforcer.cpp: which targets  *)
(* are isolated, and the drop rules that the three backends hold.  The     *)
(* kernel's blocklist map, nft and iptables are external: a command may    *)
(* fail, and one that succeeds has the effect of its arguments.            *)
(***************************************************************************)
EXTENDS Naturals, FiniteSets

CONSTANTS
    Target,      \* node identifiers
    Upper,       \* std::toupper on an identifier
    Addr,        \* IP addresses
    Loopback,    \* those of the loopback network
    TextPrefix,  \* the pairs of addresses of which the first is, as text, a
                 \* prefix of the second
    MaxRules     \* bound on the iptables rules of an address

NoTarget == ""
NoAddr == ""
NoPort == ""

ASSUME EnforcerAssumption ==
    /\ NoTarget \notin Target
    /\ NoAddr \notin Addr
    /\ Loopback \subseteq Addr
    /\ TextPrefix \subseteq Addr \X Addr
    /\ \A a \in Addr : <<a, a>> \in TextPrefix
    /\ MaxRules \in Nat

VARIABLES
    safe_list,   \* m_safe_list: upper-cased identifiers
    peer_ip,     \* m_peer_ip_map, NoAddr if none
    peer_port,   \* the targets in m_peer_port_map; each has its own port
    isolated,    \* m_isolated_nodes
    cooling,     \* less than ENFORCE_COOLDOWN_SEC since m_last_enforce_time
    backends,    \* what available_backends found when it first probed
    ebpf,        \* addresses in the kernel's blocklist map
    nft,         \* rules of the nftables chain
    iptables,    \* number of DROP rules of an address
    droppedFor,  \* history: the addresses dropped on behalf of a target
    reopened     \* history: those of them a release took rules from since

ruleVars == <<ebpf, nft, iptables>>
enforcerVars == <<safe_list, peer_ip, peer_port, isolated, cooling, backends,
                  ebpf, nft, iptables, droppedFor, reopened>>

\* A rule on an address, on any interface or on loopback, or on the port of a
\* target there.
NftRule == [match : {"ip", "lo", "tcp", "udp"}, addr : Addr,
            port : Target \cup {NoPort}]

EnforcerInit ==
    /\ safe_list = {}
    /\ peer_ip = [t \in Target |-> NoAddr]
    /\ peer_port = {}
    /\ isolated = {} /\ cooling = FALSE
    /\ backends \in SUBSET {"NFTABLES", "IPTABLES"}
    /\ ebpf = {} /\ nft = {} /\ iptables = [a \in Addr |-> 0]
    /\ droppedFor = [t \in Target \cup {NoTarget} |-> {}]
    /\ reopened = [t \in Target \cup {NoTarget} |-> {}]

\* An identifier that is an address stands for itself.
resolve_target(t) == IF t \in Addr THEN t ELSE peer_ip[t]

is_safe_locked(t) == Upper[t] \in safe_list

\* A safe-listed node is looked up under its upper-cased name in a map whose
\* keys are the names as the peers spell them.
is_ip_safe(a) == \E t \in Target : t \in safe_list /\ peer_ip[t] = a

add_safe_node(t) ==
    /\ safe_list' = safe_list \cup {Upper[t]}
    /\ cooling' = FALSE
    /\ UNCHANGED <<peer_ip, peer_port, isolated, backends, ruleVars, droppedFor,
                   reopened>>

register_peer_ip(t, a) ==
    /\ peer_ip' = [peer_ip EXCEPT ![t] = a]
    /\ UNCHANGED <<safe_list, peer_port, isolated, cooling, backends, ruleVars,
                   droppedFor, reopened>>

register_peer_port(t) ==
    /\ peer_port' = peer_port \cup {t}
    /\ UNCHANGED <<safe_list, peer_ip, isolated, cooling, backends, ruleVars,
                   droppedFor, reopened>>

CooldownEnds ==
    /\ cooling
    /\ cooling' = FALSE
    /\ UNCHANGED <<safe_list, peer_ip, peer_port, isolated, backends, ruleVars,
                   droppedFor, reopened>>

-----------------------------------------------------------------------------
\* The backends.  Each returns whether the address is dropped from now on; a
\* rule serves the target t, or NoTarget.

Serves(t, a) ==
    /\ droppedFor' = [droppedFor EXCEPT ![t] = @ \cup {a}]
    /\ reopened' = [reopened EXCEPT ![t] = @ \ {a}]

apply_ebpf_drop(t, a, ok) ==
    IF ok THEN ebpf' = ebpf \cup {a} /\ Serves(t, a) /\ UNCHANGED <<nft, iptables>>
          ELSE UNCHANGED <<ruleVars, droppedFor, reopened>>

\* Mutant: either of the two rules will do.
apply_nftables_drop_EitherRule(t, a, ok) ==
    \E done \in SUBSET {"ip", "lo"} :
       /\ ok = (done # {})
       /\ nft' = nft \cup [match : done, addr : {a}, port : {NoPort}]
       /\ IF ok THEN Serves(t, a) ELSE UNCHANGED <<droppedFor, reopened>>
       /\ UNCHANGED <<ebpf, iptables>>
\* Two rules are added; the result is that of the first.
apply_nftables_drop(t, a, ok) ==
    \E done \in SUBSET {"ip", "lo"} :
       /\ ok = ("ip" \in done)
       /\ nft' = nft \cup [match : done, addr : {a}, port : {NoPort}]
       /\ IF ok THEN Serves(t, a) ELSE UNCHANGED <<droppedFor, reopened>>
       /\ UNCHANGED <<ebpf, iptables>>

apply_nftables_port_drop(t, a, ok) ==
    \E done \in SUBSET {"tcp", "udp"} :
       /\ ok = (done # {})
       /\ nft' = nft \cup [match : done, addr : {a}, port : {t}]
       /\ IF ok THEN Serves(t, a) ELSE UNCHANGED <<droppedFor, reopened>>
       /\ UNCHANGED <<ebpf, iptables>>

\* iptables -A adds a rule whether or not there is one already.
apply_iptables_drop(t, a, ok) ==
    IF ok THEN /\ iptables[a] < MaxRules
               /\ iptables' = [iptables EXCEPT ![a] = @ + 1]
               /\ Serves(t, a)
               /\ UNCHANGED <<ebpf, nft>>
          ELSE UNCHANGED <<ruleVars, droppedFor, reopened>>

\* The rules whose text contains "ip saddr " and the text of a.
RulesMatching(a) == {r \in nft : <<a, r.addr>> \in TextPrefix}

\* Rules are deleted one by one, and each deletion may fail.
remove_nftables_rules_matching(rules) == \E gone \in SUBSET rules : nft' = nft \ gone

remove_nftables_drop(a) == remove_nftables_rules_matching(RulesMatching(a))

\* A target without a port has no rules of its own.
remove_nftables_port_drop(t, a) ==
    remove_nftables_rules_matching({r \in nft : t \in peer_port /\ r.addr = a /\ r.port = t})

remove_ebpf_drop(a) == ebpf' \in {ebpf, ebpf \ {a}}

\* iptables -D takes one rule away.
remove_iptables_drop(a) ==
    iptables' \in {iptables, [iptables EXCEPT ![a] = IF @ > 0 THEN @ - 1 ELSE 0]}

\* The addresses from which a step takes a rule.
LosingRules ==
    {a \in Addr : \/ a \in ebpf \ ebpf'
                  \/ \E r \in nft \ nft' : r.addr = a
                  \/ iptables'[a] < iptables[a]}

\* The target leaves the list, then the rules of the address it has now are
\* removed: those of its port on the loopback network, and else those of the
\* address from every backend.
release_target(t) ==
    /\ t \in isolated
    /\ isolated' = isolated \ {t}
    /\ LET a == resolve_target(t) IN
       IF a = NoAddr THEN UNCHANGED ruleVars
       ELSE IF a \in Loopback
       THEN remove_nftables_port_drop(t, a) /\ UNCHANGED <<ebpf, iptables>>
       ELSE remove_ebpf_drop(a) /\ remove_nftables_drop(a) /\ remove_iptables_drop(a)
    /\ reopened' = [u \in Target \cup {NoTarget} |-> reopened[u] \cup LosingRules]
    /\ UNCHANGED <<safe_list, peer_ip, peer_port, cooling, backends, droppedFor>>
=============================================================================
