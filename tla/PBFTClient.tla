----------------------------- MODULE PBFTClient -----------------------------
(***************************************************************************)
(* One engine and the threads of its node that call it.  Between the       *)
(* verify_message and the advance_state of a message (MeshNode.cpp, the    *)
(* VOTE branch of process_message and the end of broadcast_pbft_stage) the *)
(* engine's mutex is free, so the calls of the node's other threads can    *)
(* come in between: liveness_monitor, discovery_beacon_loop, the loops of  *)
(* main.cpp that start consensus.                                          *)
(***************************************************************************)
EXTENDS PBFT

CONSTANTS
    Message,       \* the messages that may reach the node, any number of times
    Threads,       \* how many threads of the node call the engine
    Churn,         \* the peers that discovery, pruning and bans may touch
    LivenessRound, \* the rounds that liveness_monitor looks at
    MaxNodes,      \* bound on total_nodes
    MaxView,       \* bound on current_view
    MaxFailed      \* bound on the consecutive failures of a sender

ASSUME MessageAssumption == \A m \in Message : IsMessage(m)
ASSUME BoundsAssumption == /\ Churn \subseteq Node /\ LivenessRound \subseteq Round
                           /\ Threads \in Nat \ {0} /\ MaxFailed \in Nat
                           /\ MaxNodes \in Nat \ {0} /\ MaxView \in Nat

VARIABLES
    pending,  \* messages that passed verify_message and whose caller has not
              \* yet called advance_state
    joining,  \* peers whose key is registered and who are not yet counted
    stalled   \* whether liveness_monitor has found a stalled round
callerVars == <<pending, joining, stalled>>
clientVars == <<engineVars, callerVars>>

ClientInit == /\ EngineInit(Node)
              /\ pending = [n \in Host |-> {}]
              /\ joining = [n \in Host |-> {}]
              /\ stalled = [n \in Host |-> FALSE]

\* p2p_listener_loop, the one thread that takes what other nodes send, is
\* neither between verify_message and advance_state nor registering a peer.
Listening(n) == joining[n] = {} /\ \A m \in pending[n] : m.sender = n

Verify(n, m) ==
    /\ m.sender # n => Listening(n)
    /\ \/ /\ failures[n][m.sender] < MaxFailed
          /\ verify_message(n, m, FALSE) /\ UNCHANGED pending
       \/ /\ Cardinality(pending[n]) < Threads
          /\ verify_message(n, m, TRUE)
          /\ pending' = [pending EXCEPT ![n] = @ \cup {m}]
    /\ UNCHANGED <<joining, stalled>>

Advance(n, m) ==
    /\ m \in pending[n]
    /\ \E r \in PBFTStage : advance_state(n, m, r)
    /\ pending' = [pending EXCEPT ![n] = @ \ {m}]
    /\ UNCHANGED <<joining, stalled>>

\* Registration of a peer that both discovery paths confirmed.
RegisterPeer(n, p) ==
    /\ Listening(n) /\ p # n /\ p \notin registered[n] /\ total_nodes[n] < MaxNodes
    /\ register_peer_key(n, p)
    /\ joining' = [joining EXCEPT ![n] = @ \cup {p}]
    /\ UNCHANGED <<pending, stalled>>
CountPeer(n, p) ==
    /\ p \in joining[n] /\ increment_peers(n)
    /\ joining' = [joining EXCEPT ![n] = @ \ {p}]
    /\ UNCHANGED <<pending, stalled>>

PrunePeer(n, p) == p # n /\ prune_peer(n, p) /\ UNCHANGED callerVars
BanPeer(n, p) == ban_peer_local(n, p) /\ UNCHANGED callerVars
DrainBans(n) == drain_recent_bans(n, recent_bans[n]) /\ UNCHANGED callerVars
StoreCommitSig(n, k) == set_round_commit_sig(n, k) /\ UNCHANGED callerVars

FindStall(n) ==
    /\ current_view[n] < MaxView
    /\ \E k \in LivenessRound : needs_view_change(n, k)
    /\ stalled' = [stalled EXCEPT ![n] = TRUE]
    /\ UNCHANGED <<engineVars, pending, joining>>
ChangeView(n) ==
    /\ stalled[n] /\ advance_view(n)
    /\ stalled' = [stalled EXCEPT ![n] = FALSE]
    /\ UNCHANGED <<pending, joining>>
ClientTick == Tick /\ UNCHANGED callerVars

\* The calls that MeshNode makes.
Called(n) ==
    \/ \E m \in Message : Verify(n, m) \/ Advance(n, m)
    \/ \E p \in Churn : \/ RegisterPeer(n, p) \/ CountPeer(n, p)
                        \/ PrunePeer(n, p) \/ BanPeer(n, p)
    \/ DrainBans(n) \/ FindStall(n) \/ ChangeView(n)
    \/ \E k \in Round : StoreCommitSig(n, k)

\* The methods that the class offers beside them.
RegisterAgain(n, p) == register_peer_key(n, p) /\ UNCHANGED callerVars
TryCountPeer(n, p) ==
    /\ total_nodes[n] < MaxNodes
    /\ \E ok \in BOOLEAN : try_increment_peers(n, p, ok)
    /\ UNCHANGED callerVars
UncountPeer(n) == decrement_peers(n) /\ UNCHANGED callerVars
SetCount(n, c) == set_peer_count(n, c) /\ UNCHANGED callerVars
ProposeBan(n, p) == /\ \E ok \in BOOLEAN : propose_ban(n, p, ok)
                    /\ UNCHANGED callerVars
Offered(n) ==
    \/ \E p \in Churn : \/ RegisterAgain(n, p) \/ TryCountPeer(n, p)
                        \/ ProposeBan(n, p)
    \/ UncountPeer(n)
    \/ \E c \in 0 .. MaxNodes : SetCount(n, c)

ClientNext == (\E n \in Host : Called(n)) \/ ClientTick
ApiNext == ClientNext \/ \E n \in Host : Offered(n)

\* Within one tick of the clock: nothing expires.
UntimedNext == \E n \in Host : Called(n)

\* Nobody joins and nobody is pruned.
SteadyNext == ApiNext /\ UNCHANGED <<total_nodes, peer_keys>>

ClientSpec == ClientInit /\ [][ClientNext]_clientVars
UntimedSpec == ClientInit /\ [][UntimedNext]_clientVars
ApiSpec == ClientInit /\ [][ApiNext]_clientVars
SteadySpec == ClientInit /\ [][SteadyNext]_clientVars
-----------------------------------------------------------------------------
\* The types of the engine's members, m_total_nodes never below 1, and of what
\* its callers hold.
ClientTypeOK == /\ EngineTypeOK
                /\ pending \in [Host -> SUBSET Message]
                /\ joining \in [Host -> SUBSET Churn]
                /\ stalled \in [Host -> BOOLEAN]

\* advance_state moves a round by one stage, IDLE to PREPARE to COMMIT to
\* EXECUTED; a round only goes back by being evicted after ROUND_TTL.
StageOrder == <<"IDLE", "PREPARE", "COMMIT", "EXECUTED">>
RoundMoves(old, new) ==
    \/ new.state = old.state
    \/ old.state = "ABSENT" /\ new.state \in {"IDLE", "PREPARE"}
    \/ old.idle > ROUND_TTL
    \/ \E i \in 1 .. 3 : old.state = StageOrder[i] /\ new.state = StageOrder[i + 1]
ForwardStep ==
    \A n \in Host, k \in Round : RoundMoves(rounds[n][k], rounds'[n][k])
RoundsMoveForward == [][ForwardStep]_clientVars

\* A vote is only gained from a message that was not yet recorded for its
\* sender: a message delivered again never counts again, not even in a later
\* round with the same key.
NoRecount ==
    [][\A n \in Host, k \in Round, s \in VoteStage, p \in Node :
         p \in votes'[n][k][s] \ votes[n][k][s]
             => history'[n][p] # history[n][p]]_clientVars

\* When two different messages with one sequence number of a peer have both
\* been processed, the peer is in m_equivocation_history, unless it has been
\* auto-banned, which forgets its messages (as prune_peer does: a peer that is
\* pruned between the two is not caught).
EquivocationRecorded ==
    \A n \in Host : \A g, h \in seen[n] :
        /\ g # h /\ g[2] = h[2] /\ g[5] = h[5]
        /\ g[2] \notin banned[n]
        => g[2] \in equivocators[n]

\* A banned peer gains no vote, also when its message passed verify_message
\* before the ban and reaches advance_state after it.
NoBannedGain ==
    \A n \in Host, k \in Round, s \in VoteStage :
        votes'[n][k][s] \cap banned[n] \subseteq votes[n][k][s]
BannedGainNoVote == [][NoBannedGain]_clientVars

\* The step executes round k in the engine of n.
Executes(n, k) ==
    rounds[n][k].state # "EXECUTED" /\ rounds'[n][k].state = "EXECUTED"

\* A round is executed on a COMMIT quorum that overlaps its PREPARE quorum in
\* at least a quorum of peers (PBFT.hpp:294-298, "the meaningful invariant -
\* that the PREPARE and COMMIT quorums must overlap").
OverlapStep ==
    \A n \in Host, k \in Round :
        Executes(n, k) =>
            Cardinality(votes'[n][k]["PREPARE"] \cap votes'[n][k]["COMMIT"])
                >= quorum(n)
QuorumsOverlap == [][OverlapStep]_clientVars

\* A round is never executed on a PREPARE and a COMMIT quorum without a common
\* peer (PBFT.hpp:296-298, "Without this guard, a partition attacker can drive
\* a round to EXECUTED with disjoint PREPARE/COMMIT quorums").
QuorumsMeet ==
    [][\A n \in Host, k \in Round :
         Executes(n, k) =>
            votes'[n][k]["PREPARE"] \cap votes'[n][k]["COMMIT"] # {}]_clientVars

\* A COMMIT message of p for round k that the engine of n has processed.
Processed(n, p, k) == \E h \in seen[n] : h[1] = "COMMIT" /\ h[2] = p /\ h[3] = k

\* Once the COMMITs of a quorum of peers whose PREPARE votes are registered
\* have all been processed, the round is executed: a COMMIT that was rolled
\* back does not keep it from its quorum (PBFT.hpp:301-304, "Roll back the
\* just-inserted vote to keep the registry clean for the next attempt at the
\* same evidence (surgical fix for liveness...").
RollbackKeepsProgress ==
    \A n \in Host, k \in Round :
        rounds[n][k].state = "COMMIT"
            => Cardinality({p \in votes[n][k]["PREPARE"] : Processed(n, p, k)})
                   < quorum(n)
=============================================================================
