-------------------------------- MODULE PBFT --------------------------------
(***************************************************************************)
(* class PBFTConsensus of src/consensus/PBFT.hpp: the consensus engine     *)
(* that every node of the mesh owns.  A public method takes the engine's   *)
(* one mutex for its whole body, so it is one action here.  The variables  *)
(* are indexed by the nodes whose engine is modelled (Host); an operation  *)
(* of the engine of n takes n as its first parameter, and one that returns *)
(* a value takes the value returned as its last.                           *)
(*                                                                         *)
(* Time is counted in ticks.  What the code stores as a time point is kept *)
(* as an age, which stops growing once it is past every limit the code     *)
(* compares it with.  A hash is the tuple of the fields it is computed     *)
(* from, so two messages have the same hash iff they agree on them.        *)
(***************************************************************************)
EXTENDS QuorumMath, FiniteSets

CONSTANTS
    Node,               \* identities a message may carry
    Host,               \* the nodes whose engine is modelled
    Round,              \* round keys: the pairs (evidence, target)
    kAutoPruneFailures, \* consecutive failures after which a peer is banned
    MAX_SEQUENCE_GAP,   \* how far a sequence number may run ahead
    MAX_MSG_HISTORY,    \* hashes kept for each sender
    MAX_SEEN,           \* hashes kept in the set of seen messages
    RATE_MAX,           \* messages accepted from a sender in one window
    RATE_WINDOW,        \* length of that window, in ticks
    VIEW_CHANGE_TIMEOUT,
    ROUND_TTL

ASSUME HostAssumption == Host \subseteq Node /\ IsFiniteSet(Node)
ASSUME LimitsAssumption ==
    /\ kAutoPruneFailures \in Nat \ {0}
    /\ MAX_SEQUENCE_GAP \in Nat
    /\ MAX_MSG_HISTORY \in Nat \ {0}
    /\ MAX_SEEN \in Nat \ {0}
    /\ RATE_MAX \in Nat \ {0}
    /\ RATE_WINDOW \in Nat \ {0}
    /\ VIEW_CHANGE_TIMEOUT \in Nat
    /\ ROUND_TTL \in Nat

VARIABLES
    total_nodes,   \* m_total_nodes
    current_view,  \* m_current_view
    peer_keys,     \* the senders with a key in m_peer_public_keys
    registered,    \* m_registered_peers
    banned,        \* m_banned_peers
    recent_bans,   \* m_recent_bans
    failures,      \* consecutive_failures of m_node_trust
    equivocators,  \* the keys of m_equivocation_history
    history,       \* m_message_history: sequence number to hash, per sender
    seen,          \* m_seen_messages
    rate,          \* m_rate_limits: ages of the last RATE_MAX acceptances
                   \* of each sender, youngest first, RATE_WINDOW if expired
    votes,         \* m_vote_registry
    rounds         \* m_rounds

memberVars == <<total_nodes, peer_keys, registered, banned, recent_bans>>
trustVars == <<failures, equivocators>>
chainVars == <<history, seen, rate>>
roundVars == <<votes, rounds>>
engineVars == <<memberVars, trustVars, chainVars, roundVars, current_view>>

VoteStage == {"PRE_PREPARE", "PREPARE", "COMMIT", "BAN_PEER"}
PBFTStage == {"IDLE", "PREPARE", "COMMIT", "EXECUTED"}
Age == 0 .. ROUND_TTL + 1

\* A ConsensusRound, or ABSENT for a key that m_rounds does not hold.
\* "idle" is the age of last_activity, "signed" tells whether this node's
\* COMMIT signature is stored.
ConsensusRound == [state : PBFTStage \cup {"ABSENT"}, view : Nat,
                   idle : Age, signed : BOOLEAN]
NoRound == [state |-> "ABSENT", view |-> 0, idle |-> 0, signed |-> FALSE]
NoVotes == [s \in VoteStage |-> {}]
NoHistory == [s \in {} |-> <<>>]
NoRate == [i \in 1 .. RATE_MAX |-> RATE_WINDOW]

\* A P2PMessage.  "round" is the pair (evidence_json, target_id); "sig" tells
\* whether the signature verifies under the key the sender registered with.
IsMessage(m) == /\ m.stage \in VoteStage /\ m.sender \in Node
                /\ m.round \in Round /\ m.seq \in Nat /\ m.view \in Nat

m_genesis_hash == <<"GENESIS">>
compute_message_hash(m) ==
    <<m.stage, m.sender, m.round, m.prev, m.seq, m.view>>

\* An engine that has registered the peers in ps, provisioned or discovered,
\* beside the node itself, and has seen no message yet.
EngineInit(ps) ==
    /\ total_nodes = [n \in Host |-> Cardinality(ps \cup {n})]
    /\ current_view = [n \in Host |-> 0]
    /\ peer_keys = [n \in Host |-> ps \cup {n}]
    /\ registered = [n \in Host |-> ps \cup {n}]
    /\ banned = [n \in Host |-> {}]
    /\ recent_bans = [n \in Host |-> {}]
    /\ failures = [n \in Host |-> [p \in Node |-> 0]]
    /\ equivocators = [n \in Host |-> {}]
    /\ history = [n \in Host |-> [p \in Node |-> NoHistory]]
    /\ seen = [n \in Host |-> {}]
    /\ rate = [n \in Host |-> [p \in Node |-> NoRate]]
    /\ votes = [n \in Host |-> [k \in Round |-> NoVotes]]
    /\ rounds = [n \in Host |-> [k \in Round |-> NoRound]]
-----------------------------------------------------------------------------
(* Membership, views and bans. *)

quorum(n) == QuorumSize(total_nodes[n])
\* Mutant: the count is not clamped.
AtLeastOneUnclamped(i) == i
AtLeastOne(i) == IF i < 1 THEN 1 ELSE i

register_peer_key(n, p) ==
    /\ peer_keys' = [peer_keys EXCEPT ![n] = @ \cup {p}]
    /\ registered' = [registered EXCEPT ![n] = @ \cup {p}]
    /\ failures' = [failures EXCEPT ![n][p] = 0]
    /\ UNCHANGED <<total_nodes, banned, recent_bans, equivocators, chainVars,
                   roundVars, current_view>>

ResizeTo(n, size) ==
    /\ total_nodes' = [total_nodes EXCEPT ![n] = size]
    /\ UNCHANGED <<peer_keys, registered, banned, recent_bans, trustVars,
                   chainVars, roundVars, current_view>>
set_peer_count(n, c) == ResizeTo(n, AtLeastOne(c))
increment_peers(n) == ResizeTo(n, total_nodes[n] + 1)
decrement_peers(n) == ResizeTo(n, AtLeastOne(total_nodes[n] - 1))

try_increment_peers(n, p, ok) ==
    \/ ok = FALSE /\ p \in registered[n] /\ UNCHANGED engineVars
    \/ /\ ok = TRUE /\ p \notin registered[n]
       /\ registered' = [registered EXCEPT ![n] = @ \cup {p}]
       /\ total_nodes' = [total_nodes EXCEPT ![n] = @ + 1]
       /\ UNCHANGED <<peer_keys, banned, recent_bans, trustVars, chainVars,
                      roundVars, current_view>>

\* Mutant: the votes of a pruned peer stay.
WithoutVotesOfKept(v, p) == v

\* The vote registry v without any vote of p.
WithoutVotesOf(v, p) == [k \in Round |-> [s \in VoteStage |-> v[k][s] \ {p}]]

\* prune_peer_locked, on the vote registry v that its caller has reached.
prune_peer_locked(n, p, v) ==
    /\ peer_keys' = [peer_keys EXCEPT ![n] = @ \ {p}]
    /\ failures' = [failures EXCEPT ![n][p] = 0]
    /\ history' = [history EXCEPT ![n][p] = NoHistory]
    /\ registered' = [registered EXCEPT ![n] = @ \ {p}]
    /\ votes' = [votes EXCEPT ![n] = WithoutVotesOf(v, p)]
    /\ total_nodes' = [total_nodes EXCEPT ![n] = AtLeastOne(@ - 1)]

prune_peer(n, p) ==
    /\ prune_peer_locked(n, p, votes[n])
    /\ UNCHANGED <<banned, recent_bans, equivocators, seen, rate, rounds,
                   current_view>>

ban_peer_local(n, p) ==
    /\ banned' = [banned EXCEPT ![n] = @ \cup {p}]
    /\ UNCHANGED <<total_nodes, peer_keys, registered, recent_bans, trustVars,
                   chainVars, roundVars, current_view>>

\* PBFTConsensus::propose_ban: m_my_node_id is n.  The test and the ban each
\* take the mutex; what comes in between can at most ban p as well, and then
\* the ban changes nothing.
propose_ban(n, p, ok) ==
    \/ ok = FALSE /\ (p = n \/ p \in banned[n]) /\ UNCHANGED engineVars
    \/ ok = TRUE /\ p # n /\ p \notin banned[n] /\ ban_peer_local(n, p)

drain_recent_bans(n, bans) ==
    /\ bans = recent_bans[n]
    /\ recent_bans' = [recent_bans EXCEPT ![n] = {}]
    /\ UNCHANGED <<total_nodes, peer_keys, registered, banned, trustVars,
                   chainVars, roundVars, current_view>>

needs_view_change(n, k) ==
    /\ rounds[n][k].state \notin {"ABSENT", "EXECUTED"}
    /\ rounds[n][k].idle > VIEW_CHANGE_TIMEOUT

advance_view(n) ==
    /\ current_view' = [current_view EXCEPT ![n] = @ + 1]
    /\ UNCHANGED <<memberVars, trustVars, chainVars, roundVars>>

\* A round that did not exist is default-constructed: its last_activity is
\* the epoch of the steady clock, the boot of the machine, some time ago.
set_round_commit_sig(n, k) ==
    /\ \E a \in Age :
          rounds' = [rounds EXCEPT ![n][k] =
              IF @.state = "ABSENT"
              THEN [NoRound EXCEPT !.state = "IDLE", !.idle = a, !.signed = TRUE]
              ELSE [@ EXCEPT !.signed = TRUE]]
    /\ UNCHANGED <<memberVars, trustVars, chainVars, votes, current_view>>
-----------------------------------------------------------------------------
(* Verification of a message. *)

\* record_failure, with the vote registry v its caller has reached.
record_failure(n, p, v) ==
    \/ /\ failures[n][p] + 1 < kAutoPruneFailures
       /\ failures' = [failures EXCEPT ![n][p] = @ + 1]
       /\ votes' = [votes EXCEPT ![n] = v]
       /\ UNCHANGED <<memberVars, history>>
    \/ /\ failures[n][p] + 1 >= kAutoPruneFailures
       /\ banned' = [banned EXCEPT ![n] = @ \cup {p}]
       /\ recent_bans' = [recent_bans EXCEPT ![n] = @ \cup {p}]
       /\ prune_peer_locked(n, p, v)

\* Mutant: the oldest hash.
get_first_sent_hash(n) ==
    LET h == history[n][n]
    IN  IF DOMAIN h = {} THEN m_genesis_hash
        ELSE h[CHOOSE s \in DOMAIN h : \A t \in DOMAIN h : s <= t]

\* The most recent hash this node sent, or the genesis hash.
get_last_sent_hash(n) ==
    LET h == history[n][n]
    IN  IF DOMAIN h = {} THEN m_genesis_hash
        ELSE h[CHOOSE s \in DOMAIN h : \A t \in DOMAIN h : t <= s]

\* NoHash is the empty prev_message_hash.
NoHash == <<>>
verify_message_chaining(n, m) ==
    LET h == history[n][m.sender]
    IN  \/ DOMAIN h = {}
        \/ m.seq - 1 \in DOMAIN h /\ h[m.seq - 1] = m.prev
        \/ m.seq - 1 \notin DOMAIN h /\ m.prev \in {NoHash, m_genesis_hash}

verify_sequence_continuity(n, m) ==
    LET h == history[n][m.sender]
    IN  DOMAIN h # {} => \E s \in DOMAIN h : m.seq <= s + MAX_SEQUENCE_GAP

\* Mutant: only the key is looked up.
DroppedUnknown(n, p) == p \notin peer_keys[n]

\* verify_message and advance_state drop what such a sender says.
Dropped(n, p) == p \in banned[n] \/ p \notin peer_keys[n]

Authentic(n, m) == /\ m.sig
                   /\ verify_message_chaining(n, m)
                   /\ verify_sequence_continuity(n, m)

verify_message(n, m, ok) ==
    \/ ok = FALSE /\ Dropped(n, m.sender) /\ UNCHANGED engineVars
    \/ /\ ok = FALSE /\ ~Dropped(n, m.sender) /\ ~Authentic(n, m)
       /\ record_failure(n, m.sender, votes[n])
       /\ UNCHANGED <<equivocators, seen, rate, rounds, current_view>>
    \/ /\ ok = TRUE /\ ~Dropped(n, m.sender) /\ Authentic(n, m)
       /\ failures' = [failures EXCEPT ![n][m.sender] = 0]
       /\ UNCHANGED <<memberVars, equivocators, chainVars, roundVars,
                      current_view>>
-----------------------------------------------------------------------------
(* Advancing a round. *)

\* cleanup_stale_rounds: the rounds and the vote registry that it leaves.
Stale(n) == {k \in Round : /\ rounds[n][k].state # "ABSENT"
                           /\ rounds[n][k].idle > ROUND_TTL}
LiveRounds(n) ==
    [k \in Round |-> IF k \in Stale(n) THEN NoRound ELSE rounds[n][k]]
\* Mutant: an evicted round leaves its votes behind.
LiveVotesAll(n) == votes[n]
LiveVotes(n) ==
    [k \in Round |-> IF k \in Stale(n) THEN NoVotes ELSE votes[n][k]]

\* The window has room iff the oldest of the last RATE_MAX acceptances is out
\* of it; an acceptance then takes the place of that one.
check_rate_limit(n, p) == rate[n][p][RATE_MAX] = RATE_WINDOW
Stamped(ages) == [i \in 1 .. RATE_MAX |-> IF i = 1 THEN 0 ELSE ages[i - 1]]

RateLimited(n, m, r) ==
    /\ r = "IDLE" /\ ~check_rate_limit(n, m.sender)
    /\ rounds' = [rounds EXCEPT ![n] = LiveRounds(n)]
    /\ record_failure(n, m.sender, LiveVotes(n))
    /\ UNCHANGED <<equivocators, seen, rate>>

StampRate(n, m) ==
    /\ check_rate_limit(n, m.sender)
    /\ rate' = [rate EXCEPT ![n][m.sender] = Stamped(@)]

Repeated(n, m, r) ==
    /\ r = "IDLE" /\ compute_message_hash(m) \in seen[n]
    /\ StampRate(n, m)
    /\ rounds' = [rounds EXCEPT ![n] = LiveRounds(n)]
    /\ votes' = [votes EXCEPT ![n] = LiveVotes(n)]
    /\ UNCHANGED <<memberVars, trustVars, history, seen>>

\* Mutant: the hash is not inserted.
RememberSeenNot(n, m) == UNCHANGED seen

\* Above MAX_SEEN, half of the set goes, in the order of an unordered_set.
RememberSeen(n, m) ==
    LET all == seen[n] \cup {compute_message_hash(m)}
        size == Cardinality(all)
    IN  \/ size <= MAX_SEEN /\ seen' = [seen EXCEPT ![n] = all]
        \/ /\ size > MAX_SEEN
           /\ \E kept \in SUBSET all :
                 /\ Cardinality(kept) = size - (size \div 2)
                 /\ seen' = [seen EXCEPT ![n] = kept]

\* Mutant: the hash is stored before the comparison, which then never fails.
detect_equivocation_late(n, m) ==
    LET h == history[n][m.sender]
    IN  /\ history' = [history EXCEPT ![n][m.sender] =
                         [s \in DOMAIN h \cup {m.seq} |->
                             IF s = m.seq THEN compute_message_hash(m) ELSE h[s]]]
        /\ UNCHANGED trustVars

\* A second hash under a sequence number is recorded, and replaces the first.
\* Above MAX_MSG_HISTORY, the entry of the least sequence number goes.
detect_equivocation(n, m) ==
    LET h == history[n][m.sender]
        hash == compute_message_hash(m)
        seqs == DOMAIN h \cup {m.seq}
        kept == IF Cardinality(seqs) <= MAX_MSG_HISTORY THEN seqs
                ELSE {s \in seqs : \E t \in seqs : t < s}
        conflict == m.seq \in DOMAIN h /\ h[m.seq] # hash
    IN  /\ history' = [history EXCEPT ![n][m.sender] =
                         [s \in kept |-> IF s = m.seq THEN hash ELSE h[s]]]
        /\ \/ /\ conflict
              /\ equivocators' = [equivocators EXCEPT ![n] = @ \cup {m.sender}]
              /\ failures' = [failures EXCEPT ![n][m.sender] = @ + 1]
           \/ ~conflict /\ UNCHANGED trustVars

\* Mutant: one common voter is enough.
verify_intersection_any(v, q) ==
    \/ Cardinality(v["PREPARE"]) < q
    \/ v["PREPARE"] \cap v["COMMIT"] # {}

\* verify_quorum_intersection, on the voters of one round.
verify_quorum_intersection(v, q) ==
    \/ Cardinality(v["PREPARE"]) < q
    \/ Cardinality(v["PREPARE"] \cap v["COMMIT"]) >= q

\* The round as the first message after its creation leaves it.
Opened(n, m) ==
    LET round == LiveRounds(n)[m.round]
    IN  IF round.state \in {"ABSENT", "IDLE"}
        THEN [round EXCEPT !.state = "IDLE", !.view = m.view] ELSE round

\* Mutant: one vote less than a quorum is enough.
NextStageEager(state, s, c, q) ==
    CASE s \in {"PRE_PREPARE", "BAN_PEER"} /\ state = "IDLE" -> "PREPARE"
      [] s = "PREPARE" /\ c + 1 >= q /\ state = "PREPARE" -> "COMMIT"
      [] s = "COMMIT" /\ c + 1 >= q /\ state = "COMMIT" -> "EXECUTED"
      [] OTHER -> state

\* Mutant: a quorum is not enough.
NextStageStrict(state, s, c, q) ==
    CASE s \in {"PRE_PREPARE", "BAN_PEER"} /\ state = "IDLE" -> "PREPARE"
      [] s = "PREPARE" /\ c > q /\ state = "PREPARE" -> "COMMIT"
      [] s = "COMMIT" /\ c > q /\ state = "COMMIT" -> "EXECUTED"
      [] OTHER -> state

\* Mutant: a PREPARE quorum sets a round back to COMMIT.
NextStageAnew(state, s, c, q) ==
    CASE s \in {"PRE_PREPARE", "BAN_PEER"} /\ state = "IDLE" -> "PREPARE"
      [] s = "PREPARE" /\ c >= q -> "COMMIT"
      [] s = "COMMIT" /\ c >= q /\ state = "COMMIT" -> "EXECUTED"
      [] OTHER -> state

\* Mutant: a COMMIT quorum executes a round in any state.
NextStageSkip(state, s, c, q) ==
    CASE s \in {"PRE_PREPARE", "BAN_PEER"} /\ state = "IDLE" -> "PREPARE"
      [] s = "PREPARE" /\ c >= q /\ state = "PREPARE" -> "COMMIT"
      [] s = "COMMIT" /\ c >= q -> "EXECUTED"
      [] OTHER -> state

\* The stage that a round in this state moves to on a message of stage s,
\* which makes it c votes of stage s, when the quorum is q.
NextStage(state, s, c, q) ==
    CASE s \in {"PRE_PREPARE", "BAN_PEER"} /\ state = "IDLE" -> "PREPARE"
      [] s = "PREPARE" /\ c >= q /\ state = "PREPARE" -> "COMMIT"
      [] s = "COMMIT" /\ c >= q /\ state = "COMMIT" -> "EXECUTED"
      [] OTHER -> state

\* What advance_state does with the vote of a message it has not seen.
CountVote(n, m, r) ==
    LET v == LiveVotes(n)
        voted == [v EXCEPT ![m.round][m.stage] = @ \cup {m.sender}]
        round == Opened(n, m)
        active == [round EXCEPT !.idle = 0]
        next == NextStage(round.state, m.stage,
                          Cardinality(voted[m.round][m.stage]), quorum(n))
        guarded == next = "EXECUTED" /\ round.state = "COMMIT"
        Leave(newVotes, newRound) ==
            /\ votes' = [votes EXCEPT ![n] = newVotes]
            /\ rounds' = [rounds EXCEPT ![n] =
                             [LiveRounds(n) EXCEPT ![m.round] = newRound]]
    IN  \/ /\ m.sender \in v[m.round][m.stage]
           /\ r = "IDLE" /\ Leave(v, LiveRounds(n)[m.round])
        \/ /\ m.sender \notin v[m.round][m.stage] /\ round.view # m.view
           /\ r = "IDLE" /\ Leave(voted, round)
        \/ /\ m.sender \notin v[m.round][m.stage] /\ round.view = m.view
           /\ guarded /\ ~verify_quorum_intersection(voted[m.round], quorum(n))
           /\ r = "IDLE" /\ Leave(v, active)
        \/ /\ m.sender \notin v[m.round][m.stage] /\ round.view = m.view
           /\ guarded => verify_quorum_intersection(voted[m.round], quorum(n))
           /\ r = IF next = round.state THEN "IDLE" ELSE next
           /\ Leave(voted, [active EXCEPT !.state = next])

Counted(n, m, r) ==
    /\ compute_message_hash(m) \notin seen[n]
    /\ StampRate(n, m)
    /\ RememberSeen(n, m)
    /\ detect_equivocation(n, m)
    /\ CountVote(n, m, r)
    /\ UNCHANGED memberVars

advance_state(n, m, r) ==
    \/ r = "IDLE" /\ Dropped(n, m.sender) /\ UNCHANGED engineVars
    \/ /\ ~Dropped(n, m.sender)
       /\ RateLimited(n, m, r) \/ Repeated(n, m, r) \/ Counted(n, m, r)
       /\ UNCHANGED current_view

\* One tick of the steady clock.
Tick ==
    /\ rounds' = [n \in Host |-> [k \in Round |->
          [rounds[n][k] EXCEPT !.idle =
              IF rounds[n][k].state # "ABSENT" /\ @ <= ROUND_TTL
              THEN @ + 1 ELSE @]]]
    /\ rate' = [n \in Host |-> [p \in Node |-> [i \in 1 .. RATE_MAX |->
          IF rate[n][p][i] < RATE_WINDOW THEN rate[n][p][i] + 1
          ELSE RATE_WINDOW]]]
    /\ UNCHANGED <<memberVars, trustVars, history, seen, votes, current_view>>
-----------------------------------------------------------------------------
\* The types of the members of PBFTConsensus.
EngineTypeOK ==
    /\ total_nodes \in [Host -> Nat \ {0}]
    /\ current_view \in [Host -> Nat]
    /\ peer_keys \in [Host -> SUBSET Node]
    /\ registered \in [Host -> SUBSET Node]
    /\ banned \in [Host -> SUBSET Node]
    /\ recent_bans \in [Host -> SUBSET Node]
    /\ failures \in [Host -> [Node -> Nat]]
    /\ equivocators \in [Host -> SUBSET Node]
    /\ DOMAIN history = Host
    /\ \A n \in Host : /\ DOMAIN history[n] = Node
                       /\ \A p \in Node : DOMAIN history[n][p] \subseteq Nat
    /\ DOMAIN seen = Host
    /\ rate \in [Host -> [Node -> [1 .. RATE_MAX -> 0 .. RATE_WINDOW]]]
    /\ votes \in [Host -> [Round -> [VoteStage -> SUBSET Node]]]
    /\ rounds \in [Host -> [Round -> ConsensusRound]]

\* A vote in m_vote_registry is of a peer whose key is registered: whatever
\* removes the key of a peer (prune_peer, the auto-ban of record_failure, also
\* in the middle of verify_message or advance_state) removes its votes.
VotesHaveKeys ==
    \A n \in Host, k \in Round, s \in VoteStage :
        votes[n][k][s] \subseteq peer_keys[n]

\* Votes are never held for a key that m_rounds does not hold: such votes
\* would outlive every cleanup_stale_rounds, which only visits m_rounds, and
\* would count in a later round of the same evidence and target.
VotesHaveRounds ==
    \A n \in Host, k \in Round :
        rounds[n][k].state = "ABSENT" => votes[n][k] = NoVotes
=============================================================================
