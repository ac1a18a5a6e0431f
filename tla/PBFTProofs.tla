----------------------------- MODULE PBFTProofs -----------------------------
(***************************************************************************)
(* Proofs about the engine under a caller that uses every method of the    *)
(* class in any order (ApiSpec), from the lemmas of EngineProofs on the    *)
(* single operations.                                                      *)
(***************************************************************************)
EXTENDS PBFTClient, EngineProofs
-----------------------------------------------------------------------------
(* Every call in every order. *)

LEMMA InitClient == ClientInit => EngineInv
BY InitEngine, Zenon DEF ClientInit

LEMMA CalledInv ==
    ASSUME EngineInv, NEW n \in Host, Called(n)
    PROVE  EngineInv'
<1>1. ASSUME NEW m \in Message, Verify(n, m) PROVE EngineInv'
  BY <1>1, VerifyInv, MessageAssumption, Zenon DEF Verify
<1>2. ASSUME NEW m \in Message, Advance(n, m) PROVE EngineInv'
  BY <1>2, AdvanceStateInv, MessageAssumption, Zenon DEF Advance
<1>3. ASSUME NEW p \in Churn, RegisterPeer(n, p) PROVE EngineInv'
  BY <1>3, RegisterInv, BoundsAssumption, Zenon DEF RegisterPeer
<1>4. ASSUME NEW p \in Churn, CountPeer(n, p) PROVE EngineInv'
  <2>1. total_nodes[n] + 1 \in Nat \ {0}
    BY DEF EngineInv, EngineTypeOK
  <2> QED
    BY <1>4, <2>1, ResizeInv, Zenon DEF CountPeer, increment_peers
<1>5. ASSUME NEW p \in Churn, PrunePeer(n, p) PROVE EngineInv'
  BY <1>5, PruneInv, BoundsAssumption, Zenon DEF PrunePeer
<1>6. ASSUME NEW p \in Churn, BanPeer(n, p) PROVE EngineInv'
  BY <1>6, BanInv, BoundsAssumption, Zenon DEF BanPeer
<1>7. CASE DrainBans(n)
  BY <1>7, DrainInv, Zenon DEF DrainBans
<1>8. CASE FindStall(n)
  BY <1>8, StutterInv, Zenon DEF FindStall
<1>9. CASE ChangeView(n)
  BY <1>9, AdvanceViewInv, Zenon DEF ChangeView
<1>10. ASSUME NEW k \in Round, StoreCommitSig(n, k) PROVE EngineInv'
  BY <1>10, CommitSigInv, Zenon DEF StoreCommitSig
<1> QED
  BY <1>1, <1>2, <1>3, <1>4, <1>5, <1>6, <1>7, <1>8, <1>9, <1>10 DEF Called

LEMMA OfferedInv ==
    ASSUME EngineInv, NEW n \in Host, Offered(n)
    PROVE  EngineInv'
<1>1. ASSUME NEW p \in Churn, RegisterAgain(n, p) PROVE EngineInv'
  BY <1>1, RegisterInv, BoundsAssumption, Zenon DEF RegisterAgain
<1>2. ASSUME NEW p \in Churn, TryCountPeer(n, p) PROVE EngineInv'
  BY <1>2, TryIncrementInv, BoundsAssumption, Zenon DEF TryCountPeer
<1>3. ASSUME NEW p \in Churn, ProposeBan(n, p) PROVE EngineInv'
  BY <1>3, BanInv, StutterInv, BoundsAssumption, Zenon DEF ProposeBan, propose_ban
<1>4. CASE UncountPeer(n)
  <2>1. AtLeastOne(total_nodes[n] - 1) \in Nat \ {0}
    BY AtLeastOneType DEF EngineInv, EngineTypeOK
  <2> QED
    BY <1>4, <2>1, ResizeInv, Zenon DEF UncountPeer, decrement_peers
<1>5. ASSUME NEW c \in 0 .. MaxNodes, SetCount(n, c) PROVE EngineInv'
  <2>1. AtLeastOne(c) \in Nat \ {0}
    BY AtLeastOneType, BoundsAssumption
  <2> QED
    BY <1>5, <2>1, ResizeInv, Zenon DEF SetCount, set_peer_count
<1> QED
  BY <1>1, <1>2, <1>3, <1>4, <1>5, Zenon DEF Offered

LEMMA StepInv == EngineInv /\ [ApiNext]_clientVars => EngineInv'
<1> SUFFICES ASSUME EngineInv, [ApiNext]_clientVars PROVE EngineInv'
  OBVIOUS
<1>1. CASE UNCHANGED clientVars
  BY <1>1, StutterInv, Zenon DEF clientVars
<1>2. CASE ClientTick
  BY <1>2, TickInv, Zenon DEF ClientTick
<1>3. ASSUME NEW n \in Host, Called(n) PROVE EngineInv'
  BY <1>3, CalledInv, Zenon
<1>4. ASSUME NEW n \in Host, Offered(n) PROVE EngineInv'
  BY <1>4, OfferedInv, Zenon
<1> QED
  BY <1>1, <1>2, <1>3, <1>4, Zenon DEF ApiNext, ClientNext

\* What the callers hold keeps its type.
CallerTypeOK == /\ pending \in [Host -> SUBSET Message]
                /\ joining \in [Host -> SUBSET Churn]
                /\ stalled \in [Host -> BOOLEAN]

LEMMA CallerStep ==
    ASSUME CallerTypeOK, [ApiNext]_clientVars
    PROVE  CallerTypeOK'
<1> USE DEF CallerTypeOK
<1>1. CASE UNCHANGED callerVars
  BY <1>1, Zenon DEF callerVars
<1>2. CASE UNCHANGED clientVars
  BY <1>1, <1>2, Zenon DEF clientVars
<1>3. CASE ClientTick
  BY <1>1, <1>3, Zenon DEF ClientTick
<1>4. ASSUME NEW n \in Host, Called(n) PROVE CallerTypeOK'
  <2>1. ASSUME NEW m \in Message, Verify(n, m) \/ Advance(n, m)
        PROVE  CallerTypeOK'
    BY <2>1, Zenon DEF Verify, Advance
  <2>2. ASSUME NEW p \in Churn, RegisterPeer(n, p) \/ CountPeer(n, p)
        PROVE  CallerTypeOK'
    BY <2>2, Zenon DEF RegisterPeer, CountPeer
  <2>3. CASE FindStall(n) \/ ChangeView(n)
    BY <2>3, Zenon DEF FindStall, ChangeView
  <2>4. \/ \E m \in Message : Verify(n, m) \/ Advance(n, m)
        \/ \E p \in Churn : RegisterPeer(n, p) \/ CountPeer(n, p)
        \/ FindStall(n) \/ ChangeView(n)
        \/ UNCHANGED callerVars
    BY <1>4, Zenon DEF Called, PrunePeer, BanPeer, DrainBans, StoreCommitSig
  <2> QED
    BY <1>1, <2>1, <2>2, <2>3, <2>4, Zenon
<1>5. ASSUME NEW n \in Host, Offered(n) PROVE CallerTypeOK'
  BY <1>1, <1>5, Zenon DEF Offered, RegisterAgain, TryCountPeer, UncountPeer, SetCount,
                    ProposeBan
<1> QED
  BY <1>2, <1>3, <1>4, <1>5, Zenon DEF ApiNext, ClientNext

\* Every call keeps the types of PBFTConsensus, m_total_nodes at least 1 in
\* particular, so that the quorum is never computed from an empty mesh.
THEOREM ClientTypes == ApiSpec => []ClientTypeOK
<1>1. ClientInit => CallerTypeOK
  BY Zenon DEF ClientInit, CallerTypeOK
<1>2. EngineInv /\ CallerTypeOK => ClientTypeOK
  BY Zenon DEF EngineInv, CallerTypeOK, ClientTypeOK
<1> QED
  BY <1>1, <1>2, CallerStep, InitClient, StepInv, PTL DEF ApiSpec

\* No interleaving of calls leaves a vote of a peer without a key in
\* m_vote_registry: prune_peer and the auto-ban in the middle of a message
\* remove votes together with the key.
THEOREM VotesOnlyOfPeers == ApiSpec => []VotesHaveKeys
<1>1. EngineInv => VotesHaveKeys
  BY Zenon DEF EngineInv
<1> QED
  BY <1>1, InitClient, StepInv, PTL DEF ApiSpec

\* m_vote_registry never holds votes for a round that m_rounds does not hold, so
\* cleanup_stale_rounds, which visits m_rounds, can always find them.
THEOREM VotesOnlyOfRounds == ApiSpec => []VotesHaveRounds
<1>1. EngineInv => VotesHaveRounds
  BY Zenon DEF EngineInv
<1> QED
  BY <1>1, InitClient, StepInv, PTL DEF ApiSpec
-----------------------------------------------------------------------------
(* What a step may do to the votes and to the rounds. *)

LEMMA UnbannedGain ==
    ASSUME NEW n \in Host, NEW k, NEW s, NEW p, p \notin banned[n],
           GainsOnly(n, k, s, {p})
    PROVE  NoBannedGain
BY Zenon DEF GainsOnly, NoBannedGain

LEMMA AdvanceGain ==
    ASSUME EngineInv, NEW n \in Host, NEW m \in Message, NEW r \in PBFTStage,
           advance_state(n, m, r)
    PROVE  NoBannedGain
<1>1. GainsOnly(n, m.round, m.stage, {m.sender})
  BY MessageAssumption, AdvanceVotes, Zenon
<1>2. UNCHANGED votes \/ m.sender \notin banned[n]
  BY Zenon DEF advance_state, Dropped, engineVars, roundVars
<1>3. CASE UNCHANGED votes
  BY <1>3, Zenon DEF NoBannedGain
<1> QED
  BY <1>1, <1>2, <1>3, UnbannedGain, Zenon

LEMMA StepGain == EngineInv /\ [ApiNext]_clientVars => [NoBannedGain]_clientVars
<1> SUFFICES ASSUME EngineInv, ApiNext PROVE NoBannedGain
  OBVIOUS
<1>1. CASE UNCHANGED votes
  BY <1>1, Zenon DEF NoBannedGain
<1>2. CASE ClientTick
  BY <1>1, <1>2, Zenon DEF ClientTick, Tick
<1>3. ASSUME NEW n \in Host, NEW m \in Message, Verify(n, m) PROVE NoBannedGain
  <2>1. GainsOnly(n, m.round, m.stage, {})
    BY <1>3, MessageAssumption, VerifyVotes, Zenon DEF Verify, EngineInv
  <2> QED
    BY <2>1, Zenon DEF GainsOnly, NoBannedGain
<1>4. ASSUME NEW n \in Host, NEW m \in Message, Advance(n, m) PROVE NoBannedGain
  BY <1>4, AdvanceGain, Zenon DEF Advance
<1>5. ASSUME NEW n \in Host, NEW p \in Churn, PrunePeer(n, p) PROVE NoBannedGain
  <2>1. votes' = [votes EXCEPT ![n] = WithoutVotesOf(votes[n], p)]
    BY <1>5, Zenon DEF PrunePeer, prune_peer, prune_peer_locked
  <2>2. votes[n] \in VoteRegistry /\ p \in Node
    BY BoundsAssumption, Zenon DEF EngineInv, EngineTypeOK, VoteRegistry
  <2>3. votes'[n] = WithoutVotesOf(votes[n], p)
        /\ \A q \in Host \ {n} : votes'[q] = votes[q]
    BY <2>1, Zenon DEF EngineInv, EngineTypeOK
  <2> QED
    BY <2>2, <2>3, WithoutVotesType DEF NoBannedGain
<1>6. ASSUME NEW n \in Host, Called(n) PROVE NoBannedGain
  <2>1. \/ \E m \in Message : Verify(n, m) \/ Advance(n, m)
        \/ \E p \in Churn : PrunePeer(n, p)
        \/ UNCHANGED votes
    BY <1>6, Zenon DEF Called, RegisterPeer, register_peer_key, CountPeer, increment_peers,
                ResizeTo, BanPeer, ban_peer_local, DrainBans, drain_recent_bans,
                FindStall, engineVars, roundVars, ChangeView, advance_view,
                StoreCommitSig, set_round_commit_sig
  <2> QED
    BY <1>1, <1>3, <1>4, <1>5, <2>1, Zenon
<1>7. ASSUME NEW n \in Host, Offered(n) PROVE NoBannedGain
  BY <1>1, <1>7, Zenon
     DEF Offered, RegisterAgain, register_peer_key, TryCountPeer, try_increment_peers,
         engineVars, roundVars, UncountPeer, decrement_peers, SetCount,
         set_peer_count, ResizeTo, ProposeBan, propose_ban, ban_peer_local
<1> QED
  BY <1>2, <1>6, <1>7, Zenon DEF ApiNext, ClientNext

\* A message of a peer that was banned after its verify_message is not counted
\* by advance_state: no call gives a banned peer a vote it did not have.
THEOREM BannedPeersGainNoVote == ApiSpec => BannedGainNoVote
BY InitClient, StepInv, StepGain, PTL DEF ApiSpec, BannedGainNoVote

\* The rounds of n become x, each of them by a move.
LEMMA MovesOfOne ==
    ASSUME EngineTypeOK, NEW n \in Host, NEW x, rounds' = [rounds EXCEPT ![n] = x],
           \A k \in Round : RoundMoves(rounds[n][k], x[k])
    PROVE  ForwardStep
<1>1. rounds'[n] = x /\ \A q \in Host \ {n} : rounds'[q] = rounds[q]
  BY Zenon DEF EngineTypeOK
<1> QED
  BY <1>1 DEF ForwardStep, RoundMoves

LEMMA LiveMoves ==
    ASSUME NEW n \in Host
    PROVE  \A k \in Round : \/ LiveRounds(n)[k] = rounds[n][k]
                            \/ rounds[n][k].idle > ROUND_TTL
BY Zenon DEF LiveRounds, Stale

LEMMA CountMoves ==
    ASSUME EngineInv, NEW n \in Host, NEW m \in Message, NEW r,
           CountVote(n, m, r)
    PROVE  ForwardStep
<1> DEFINE v == LiveVotes(n)
           voted == [v EXCEPT ![m.round][m.stage] = @ \cup {m.sender}]
           live == LiveRounds(n)[m.round]
           round == Opened(n, m)
           active == [round EXCEPT !.idle = 0]
           next == NextStage(round.state, m.stage,
                             Cardinality(voted[m.round][m.stage]), quorum(n))
           moved == [active EXCEPT !.state = next]
           after(y) == [LiveRounds(n) EXCEPT ![m.round] = y]
<1>1. m.round \in Round /\ EngineTypeOK
  BY MessageAssumption, Zenon DEF IsMessage, EngineInv
<1>2. LiveRounds(n) \in [Round -> ConsensusRound]
  BY LiveFacts, Zenon
<1>3. round \in ConsensusRound /\ round.state \in PBFTStage
  BY OpenedFacts, MessageAssumption, Zenon
<1>4. PICK y \in {live, round, active, moved} :
         rounds' = [rounds EXCEPT ![n] = after(y)]
  BY Zenon DEF CountVote
<1>5. live \in ConsensusRound
  BY <1>1, <1>2, Zenon
<1>6. \/ round.state = live.state
      \/ live.state = "ABSENT" /\ round.state = "IDLE"
  BY <1>5, Zenon DEF Opened, ConsensusRound
<1>7. active.state = round.state /\ moved.state = next
  BY <1>3, Zenon DEF ConsensusRound
<1>8. \/ next = round.state
      \/ round.state = "IDLE" /\ next = "PREPARE"
      \/ round.state = "PREPARE" /\ next = "COMMIT"
      \/ round.state = "COMMIT" /\ next = "EXECUTED"
  <2>1. PICK c : next = NextStage(round.state, m.stage, c, quorum(n))
    OBVIOUS
  <2> HIDE DEF next, round
  <2> QED
    BY <1>3, <2>1, NextStageMoves
<1>9. y.state \in {live.state, round.state, next}
  BY <1>4, <1>7, Zenon
<1> HIDE DEF live, round, active, next, moved
<1>10. RoundMoves(live, y)
  BY <1>6, <1>8, <1>9 DEF RoundMoves, StageOrder
<1>11. \A k \in Round : RoundMoves(rounds[n][k], after(y)[k])
  <2>1. after(y)[m.round] = y
    BY <1>1, <1>2, Zenon
  <2>2. \A k \in Round \ {m.round} : after(y)[k] = LiveRounds(n)[k]
    BY <1>2, Zenon
  <2>3. \A k \in Round : \/ LiveRounds(n)[k] = rounds[n][k]
                         \/ rounds[n][k].idle > ROUND_TTL
    BY LiveMoves, Zenon
  <2> HIDE DEF after
  <2>4. RoundMoves(rounds[n][m.round], y)
    BY <1>1, <1>10, <2>3, Zenon DEF live, RoundMoves
  <2> QED
    BY <2>1, <2>2, <2>3, <2>4 DEF RoundMoves
<1> QED
  BY <1>1, <1>4, <1>11, MovesOfOne, Zenon

LEMMA AdvanceMoves ==
    ASSUME EngineInv, NEW n \in Host, NEW m \in Message, NEW r \in PBFTStage,
           advance_state(n, m, r)
    PROVE  ForwardStep
<1>1. CASE UNCHANGED engineVars
  BY <1>1, Zenon DEF ForwardStep, RoundMoves, engineVars, roundVars
<1>2. CASE rounds' = [rounds EXCEPT ![n] = LiveRounds(n)]
  <2>1. \A k \in Round : RoundMoves(rounds[n][k], LiveRounds(n)[k])
    BY LiveMoves, Zenon DEF RoundMoves
  <2> QED
    BY <1>2, <2>1, MovesOfOne, Zenon DEF EngineInv
<1>3. CASE Counted(n, m, r)
  BY <1>3, CountMoves, Zenon DEF Counted
<1> QED
  BY <1>1, <1>2, <1>3, Zenon DEF advance_state, RateLimited, Repeated

LEMMA CommitSigStates ==
    ASSUME EngineInv, NEW n \in Host, NEW k \in Round, set_round_commit_sig(n, k)
    PROVE  \A q \in Host, j \in Round :
              \/ rounds'[q][j].state = rounds[q][j].state
              \/ rounds[q][j].state = "ABSENT" /\ rounds'[q][j].state = "IDLE"
<1> DEFINE old == rounds[n][k]
           fresh(a) == [NoRound EXCEPT !.state = "IDLE", !.idle = a, !.signed = TRUE]
           new(a) == IF old.state = "ABSENT" THEN fresh(a)
                     ELSE [old EXCEPT !.signed = TRUE]
<1>1. PICK a \in Age : rounds' = [rounds EXCEPT ![n][k] = new(a)]
  BY Zenon DEF set_round_commit_sig
<1>2. old \in ConsensusRound
  BY DEF EngineInv, EngineTypeOK
<1>3. \/ new(a).state = old.state
      \/ old.state = "ABSENT" /\ new(a).state = "IDLE"
  BY <1>2, Zenon DEF ConsensusRound, NoRound
<1> HIDE DEF new, old
<1>4. /\ rounds'[n][k] = new(a)
      /\ \A q \in Host, j \in Round :
             q # n \/ j # k => rounds'[q][j] = rounds[q][j]
  BY <1>1, Zenon DEF EngineInv, EngineTypeOK
<1> QED
  BY <1>3, <1>4, Zenon DEF old

LEMMA StepMoves == EngineInv /\ [ApiNext]_clientVars => [ForwardStep]_clientVars
<1> SUFFICES ASSUME EngineInv, ApiNext PROVE ForwardStep
  BY Zenon
<1>1. CASE UNCHANGED rounds
  BY <1>1, Zenon DEF ForwardStep, RoundMoves
<1>2. CASE ClientTick
  BY <1>2, TickStates, Zenon DEF ClientTick, ForwardStep, RoundMoves
<1>3. ASSUME NEW n \in Host, Called(n) PROVE ForwardStep
  <2>1. \/ \E m \in Message : Advance(n, m)
        \/ \E k \in Round : StoreCommitSig(n, k)
        \/ UNCHANGED rounds
    BY <1>3, Zenon DEF Called, Verify, verify_message, RegisterPeer, register_peer_key,
                CountPeer, increment_peers, ResizeTo, PrunePeer, prune_peer,
                BanPeer, ban_peer_local, DrainBans, drain_recent_bans,
                FindStall, engineVars, roundVars, ChangeView, advance_view
  <2> QED
    BY <1>1, <2>1, AdvanceMoves, CommitSigStates
       DEF Advance, StoreCommitSig, ForwardStep, RoundMoves
<1>4. ASSUME NEW n \in Host, Offered(n) PROVE ForwardStep
  BY <1>1, <1>4, Zenon
     DEF Offered, RegisterAgain, register_peer_key, TryCountPeer, try_increment_peers,
         engineVars, roundVars, UncountPeer, decrement_peers, SetCount,
         set_peer_count, ResizeTo, ProposeBan, propose_ban, ban_peer_local
<1> QED
  BY <1>2, <1>3, <1>4, Zenon DEF ApiNext, ClientNext

\* advance_state never skips a stage of a round nor takes one back: a round
\* leaves EXECUTED only by being evicted after ROUND_TTL.
THEOREM RoundsOnlyMoveForward == ApiSpec => RoundsMoveForward
BY InitClient, StepInv, StepMoves, PTL DEF ApiSpec, RoundsMoveForward
-----------------------------------------------------------------------------
(* Overlapping quorums, while nobody joins and nobody is pruned. *)

\* A round in COMMIT has a quorum of PREPARE votes: what makes the check of
\* verify_quorum_intersection more than vacuous.
CommitBacked ==
    \A n \in Host, k \in Round :
        rounds[n][k].state = "COMMIT"
            => Cardinality(votes[n][k]["PREPARE"]) >= quorum(n)

\* A step of a steady mesh loses no vote, except by evicting the round, and
\* moves a round to COMMIT only with a quorum of PREPARE votes.
BackedStep ==
    \A n \in Host, k \in Round :
        rounds'[n][k].state = "COMMIT" =>
            \/ /\ rounds[n][k].state = "COMMIT"
               /\ votes[n][k]["PREPARE"] \subseteq votes'[n][k]["PREPARE"]
            \/ Cardinality(votes'[n][k]["PREPARE"]) >= quorum(n)

\* Both, for a step of advance_state.
LEMMA CountBacked ==
    ASSUME EngineInv, CommitBacked, NEW n \in Host, NEW m \in Message, NEW r,
           m.sender \in peer_keys[n], CountVote(n, m, r)
    PROVE  BackedStep /\ OverlapStep
<1> DEFINE v == LiveVotes(n)
           k == m.round
           voted == [v EXCEPT ![m.round][m.stage] = @ \cup {m.sender}]
           live == LiveRounds(n)[m.round]
           round == Opened(n, m)
           active == [round EXCEPT !.idle = 0]
           next == NextStage(round.state, m.stage,
                             Cardinality(voted[m.round][m.stage]), quorum(n))
           moved == [active EXCEPT !.state = next]
           after(y) == [LiveRounds(n) EXCEPT ![m.round] = y]
           Left(w, y) == /\ votes' = [votes EXCEPT ![n] = w]
                         /\ rounds' = [rounds EXCEPT ![n] = after(y)]
           met == /\ next = "EXECUTED" /\ round.state = "COMMIT"
                  => verify_quorum_intersection(voted[m.round], quorum(n))
<1>1. k \in Round /\ m.stage \in VoteStage /\ m.sender \in Node /\ EngineTypeOK
  BY MessageAssumption, Zenon DEF IsMessage, EngineInv
<1>2. v \in VoteRegistry /\ LiveRounds(n) \in [Round -> ConsensusRound]
  BY LiveFacts, Zenon
<1>3. voted \in VoteRegistry /\ \A j \in Round \ {k} : voted[j] = v[j]
  BY VoteAdded, MessageAssumption, Zenon
<1>4. round \in ConsensusRound /\ round.state \in PBFTStage
  BY OpenedFacts, MessageAssumption, Zenon
<1>5. active.state = round.state /\ moved.state = next
  BY <1>4, Zenon DEF ConsensusRound
<1>6. \/ Left(v, live)
      \/ Left(voted, round)
      \/ Left(v, active)
      \/ Left(voted, moved) /\ met
  BY Zenon DEF CountVote
<1>7. \A j \in Round : LiveRounds(n)[j].state # "ABSENT"
                        => LiveRounds(n)[j] = rounds[n][j] /\ v[j] = votes[n][j]
  BY Zenon DEF LiveRounds, LiveVotes, NoRound
<1>8. round.state # "IDLE" => round = live /\ live = rounds[n][k] /\ v[k] = votes[n][k]
  BY <1>1, <1>2, <1>7, Zenon DEF Opened, ConsensusRound
<1>9. v[k]["PREPARE"] \subseteq voted[k]["PREPARE"]
  BY <1>1, <1>2, Zenon DEF VoteRegistry, VoteStage
<1>10. /\ next = "COMMIT" /\ round.state # "COMMIT"
             => Cardinality(voted[k]["PREPARE"]) >= quorum(n)
       /\ next = "EXECUTED" /\ round.state # "EXECUTED" => round.state = "COMMIT"
  BY <1>4, NextStageCause
<1>11. next = "EXECUTED" /\ round.state # "EXECUTED" /\ met
          => Cardinality(voted[k]["PREPARE"] \cap voted[k]["COMMIT"]) >= quorum(n)
  <2> SUFFICES ASSUME next = "EXECUTED", round.state # "EXECUTED", met
               PROVE  Cardinality(voted[k]["PREPARE"] \cap voted[k]["COMMIT"])
                         >= quorum(n)
    BY Zenon
  <2>1. round.state = "COMMIT" /\ rounds[n][k].state = "COMMIT" /\ v[k] = votes[n][k]
    BY <1>8, <1>10, Zenon
  <2>2. Cardinality(v[k]["PREPARE"]) >= quorum(n)
    BY <1>1, <2>1, Zenon DEF CommitBacked
  <2>3. v[k]["PREPARE"] \in SUBSET Node /\ voted[k]["PREPARE"] \in SUBSET Node
    BY <1>1, <1>2, <1>3 DEF VoteRegistry, VoteStage
  <2>4. /\ Cardinality(v[k]["PREPARE"]) \in Nat
        /\ Cardinality(voted[k]["PREPARE"]) \in Nat
        /\ Cardinality(v[k]["PREPARE"]) <= Cardinality(voted[k]["PREPARE"])
    BY <1>9, <2>3, VotersFinite, Zenon
  <2>5. verify_quorum_intersection(voted[k], quorum(n))
    BY <2>1, Zenon
  <2>6. quorum(n) \in Nat
    BY <1>1, QuorumType, Zenon
  <2> HIDE DEF v, voted, met, k
  <2> QED
    BY <2>2, <2>4, <2>5, <2>6 DEF verify_quorum_intersection
<1> HIDE DEF voted, live, round, active, next, moved, met
<1> DEFINE Backs(w, y) ==
              /\ y.state = "COMMIT" =>
                    \/ /\ rounds[n][k].state = "COMMIT"
                       /\ votes[n][k]["PREPARE"] \subseteq w["PREPARE"]
                    \/ Cardinality(w["PREPARE"]) >= quorum(n)
              /\ y.state = "EXECUTED" /\ rounds[n][k].state # "EXECUTED"
                    => Cardinality(w["PREPARE"] \cap w["COMMIT"]) >= quorum(n)
<1>12. PICK w, y : /\ w \in VoteRegistry /\ Left(w, y) /\ Backs(w[k], y)
                   /\ \A j \in Round \ {k} : w[j] = v[j]
  <2>1. CASE Left(v, live)
    <3>1. Backs(v[k], live)
      BY <1>1, <1>7, Zenon DEF live
    <3> QED
      BY <1>2, <2>1, <3>1, Zenon
  <2>2. CASE Left(voted, round)
    <3>1. Backs(voted[k], round)
      BY <1>8, <1>9, Zenon
    <3> QED
      BY <1>3, <2>2, <3>1, Zenon
  <2>3. CASE Left(v, active)
    <3>1. Backs(v[k], active)
      BY <1>5, <1>8, Zenon
    <3> QED
      BY <1>2, <2>3, <3>1, Zenon
  <2>4. CASE Left(voted, moved) /\ met
    <3>1. Backs(voted[k], moved)
      BY <1>5, <1>8, <1>9, <1>10, <1>11, <2>4, Zenon
    <3> QED
      BY <1>3, <2>4, <3>1, Zenon
  <2> QED
    BY <1>6, <2>1, <2>2, <2>3, <2>4, Zenon
<1>13. /\ votes'[n] = w /\ rounds'[n] = after(y)
       /\ \A q \in Host \ {n} : votes'[q] = votes[q] /\ rounds'[q] = rounds[q]
  BY <1>1, <1>12, Zenon DEF EngineTypeOK
<1>14. after(y)[k] = y /\ \A j \in Round \ {k} : after(y)[j] = LiveRounds(n)[j]
  BY <1>1, <1>2, Zenon
<1> HIDE DEF after
<1>15. \A j \in Round \ {k} :
          \/ rounds'[n][j].state = "ABSENT"
          \/ rounds'[n][j] = rounds[n][j] /\ votes'[n][j] = votes[n][j]
  BY <1>7, <1>12, <1>13, <1>14
<1>16. BackedStep
  BY <1>12, <1>13, <1>14, <1>15 DEF BackedStep
<1>17. OverlapStep
  <2> SUFFICES ASSUME NEW q \in Host, NEW j \in Round, Executes(q, j)
               PROVE  Cardinality(votes'[q][j]["PREPARE"] \cap votes'[q][j]["COMMIT"])
                         >= quorum(q)
    BY Zenon DEF OverlapStep
  <2>1. q = n /\ j = k
    BY <1>13, <1>15, Zenon DEF Executes
  <2>2. /\ votes'[q][j] = w[k] /\ y.state = "EXECUTED"
        /\ rounds[n][k].state # "EXECUTED"
    BY <1>13, <1>14, <2>1, Zenon DEF Executes
  <2>3. Backs(w[k], y)
    BY <1>12, Zenon
  <2> QED
    BY <2>1, <2>2, <2>3, Zenon
<1> QED
  BY <1>16, <1>17, Zenon

\* record_failure of a peer with a key either leaves the keys or the registry.
LEMMA UnprunedFailure ==
    ASSUME EngineInv, SteadyNext, NEW n \in Host, NEW p \in peer_keys[n], NEW v,
           record_failure(n, p, v)
    PROVE  votes' = [votes EXCEPT ![n] = v]
<1>1. ~prune_peer_locked(n, p, v)
  <2> SUFFICES ASSUME prune_peer_locked(n, p, v) PROVE FALSE
    BY Zenon
  <2>1. peer_keys'[n] = peer_keys[n] \ {p}
    BY Zenon DEF prune_peer_locked, EngineInv, EngineTypeOK
  <2> QED
    BY <2>1, Zenon DEF SteadyNext
<1> QED
  BY <1>1, Zenon DEF record_failure

\* cleanup_stale_rounds alone.
LEMMA LiveBacked ==
    ASSUME EngineInv, NEW n \in Host,
           votes' = [votes EXCEPT ![n] = LiveVotes(n)],
           rounds' = [rounds EXCEPT ![n] = LiveRounds(n)]
    PROVE  BackedStep /\ OverlapStep
<1>1. /\ votes'[n] = LiveVotes(n) /\ rounds'[n] = LiveRounds(n)
      /\ \A q \in Host \ {n} : votes'[q] = votes[q] /\ rounds'[q] = rounds[q]
  BY Zenon DEF EngineInv, EngineTypeOK
<1>2. \A j \in Round :
         \/ LiveRounds(n)[j].state = "ABSENT"
         \/ LiveRounds(n)[j] = rounds[n][j] /\ LiveVotes(n)[j] = votes[n][j]
  BY Zenon DEF LiveRounds, LiveVotes, NoRound
<1> QED
  BY <1>1, <1>2 DEF BackedStep, OverlapStep, Executes

\* The same for every step of a steady mesh.
LEMMA SteadyBacked ==
    ASSUME EngineInv, CommitBacked, SteadyNext
    PROVE  BackedStep /\ OverlapStep
<1>1. CASE UNCHANGED <<votes, rounds>>
  BY <1>1, Zenon DEF BackedStep, OverlapStep, Executes
<1>2. CASE ClientTick
  <2>1. \A n \in Host, k \in Round : rounds'[n][k].state = rounds[n][k].state
    BY <1>2, TickStates, Zenon DEF ClientTick
  <2>2. UNCHANGED votes
    BY <1>2, Zenon DEF ClientTick, Tick
  <2> QED
    BY <2>1, <2>2, Zenon DEF BackedStep, OverlapStep, Executes
<1>3. ASSUME NEW n \in Host, NEW m \in Message, Advance(n, m)
      PROVE  BackedStep /\ OverlapStep
  <2>1. PICK r \in PBFTStage : advance_state(n, m, r)
    BY <1>3, Zenon DEF Advance
  <2>2. CASE UNCHANGED engineVars
    BY <1>1, <2>2, Zenon DEF engineVars, roundVars
  <2>3. CASE ~Dropped(n, m.sender) /\ RateLimited(n, m, r)
    <3>1. m.sender \in peer_keys[n] /\ record_failure(n, m.sender, LiveVotes(n))
      BY <2>3, Zenon DEF Dropped, RateLimited
    <3>2. votes' = [votes EXCEPT ![n] = LiveVotes(n)]
      BY <3>1, UnprunedFailure, Zenon
    <3>3. rounds' = [rounds EXCEPT ![n] = LiveRounds(n)]
      BY <2>3, Zenon DEF RateLimited
    <3> QED
      BY <3>2, <3>3, LiveBacked, Zenon
  <2>4. CASE Repeated(n, m, r)
    BY <2>4, LiveBacked, Zenon DEF Repeated
  <2>5. CASE ~Dropped(n, m.sender) /\ Counted(n, m, r)
    BY <2>5, CountBacked, Zenon DEF Dropped, Counted
  <2> QED
    BY <2>1, <2>2, <2>3, <2>4, <2>5, Zenon DEF advance_state
<1>4. ASSUME NEW n \in Host, NEW m \in Message, Verify(n, m)
      PROVE  BackedStep /\ OverlapStep
  <2>1. UNCHANGED rounds
    BY <1>4, Zenon DEF Verify, verify_message, engineVars, roundVars
  <2>2. CASE UNCHANGED votes
    BY <1>1, <2>1, <2>2, Zenon
  <2>3. CASE ~Dropped(n, m.sender) /\ record_failure(n, m.sender, votes[n])
    <3>1. votes' = [votes EXCEPT ![n] = votes[n]]
      BY <2>3, UnprunedFailure, Zenon DEF Dropped
    <3> QED
      BY <1>1, <2>1, <3>1, Zenon DEF EngineInv, EngineTypeOK
  <2> QED
    BY <1>4, <2>2, <2>3, Zenon DEF Verify, verify_message, engineVars, roundVars
<1>5. ASSUME NEW n \in Host, NEW p \in Churn, PrunePeer(n, p)
      PROVE  BackedStep /\ OverlapStep
  <2>1. prune_peer_locked(n, p, votes[n]) /\ UNCHANGED rounds
    BY <1>5, Zenon DEF PrunePeer, prune_peer
  <2>2. votes[n] \in VoteRegistry /\ p \in Node
    BY BoundsAssumption, Zenon DEF EngineInv, EngineTypeOK, VoteRegistry
  <2>3. p \notin peer_keys[n]
    BY <2>1, <2>2, PruneFacts, Zenon DEF SteadyNext, EngineInv
  <2>4. votes' = [votes EXCEPT ![n] = WithoutVotesOf(votes[n], p)]
    BY <2>1, Zenon DEF prune_peer_locked
  <2>5. \A k \in Round, s \in VoteStage :
           WithoutVotesOf(votes[n], p)[k][s] = votes[n][k][s]
    <3> SUFFICES ASSUME NEW k \in Round, NEW s \in VoteStage
                 PROVE  WithoutVotesOf(votes[n], p)[k][s] = votes[n][k][s]
      BY Zenon
    <3>1. WithoutVotesOf(votes[n], p)[k][s] = votes[n][k][s] \ {p}
      BY <2>2, WithoutVotesType
    <3>2. p \notin votes[n][k][s]
      BY <2>3, Zenon DEF EngineInv, VotesHaveKeys
    <3>3. votes[n][k][s] \ {p} = votes[n][k][s]
      BY <3>2, Zenon
    <3> QED
      BY <3>1, <3>3, Zenon
  <2>6. /\ votes'[n] = WithoutVotesOf(votes[n], p)
        /\ \A q \in Host \ {n} : votes'[q] = votes[q]
    BY <2>4, Zenon DEF EngineInv, EngineTypeOK
  <2>7. \A q \in Host, k \in Round, s \in VoteStage : votes'[q][k][s] = votes[q][k][s]
    <3> SUFFICES ASSUME NEW q \in Host, NEW k \in Round, NEW s \in VoteStage
                 PROVE  votes'[q][k][s] = votes[q][k][s]
      OBVIOUS
    <3>1. CASE q = n
      BY <2>5, <2>6, <3>1, Zenon
    <3>2. CASE q # n
      BY <2>6, <3>2, Zenon
    <3> QED
      BY <3>1, <3>2, Zenon
  <2> QED
    BY <2>1, <2>7, Zenon DEF BackedStep, OverlapStep, Executes, VoteStage
<1>6. ASSUME NEW n \in Host, NEW k \in Round, StoreCommitSig(n, k)
      PROVE  BackedStep /\ OverlapStep
  <2>1. UNCHANGED votes
    BY <1>6, Zenon DEF StoreCommitSig, set_round_commit_sig
  <2>2. \A q \in Host, j \in Round :
           \/ rounds'[q][j].state = rounds[q][j].state
           \/ rounds'[q][j].state = "IDLE"
    BY <1>6, CommitSigStates, Zenon DEF StoreCommitSig
  <2> QED
    BY <2>1, <2>2, Zenon DEF BackedStep, OverlapStep, Executes
<1>7. ASSUME NEW n \in Host, Called(n) PROVE BackedStep /\ OverlapStep
  <2>1. \/ \E m \in Message : Verify(n, m) \/ Advance(n, m)
        \/ \E p \in Churn : PrunePeer(n, p)
        \/ \E k \in Round : StoreCommitSig(n, k)
        \/ UNCHANGED <<votes, rounds>>
    BY <1>7, Zenon DEF Called, RegisterPeer, register_peer_key, CountPeer, increment_peers,
                ResizeTo, BanPeer, ban_peer_local, DrainBans, drain_recent_bans,
                FindStall, engineVars, roundVars, ChangeView, advance_view
  <2> QED
    BY <1>1, <1>3, <1>4, <1>5, <1>6, <2>1
<1>8. ASSUME NEW n \in Host, Offered(n) PROVE BackedStep /\ OverlapStep
  <2>1. UNCHANGED <<votes, rounds>>
    BY <1>8, Zenon
       DEF Offered, RegisterAgain, register_peer_key, TryCountPeer,
           try_increment_peers, engineVars, roundVars, UncountPeer,
           decrement_peers, SetCount, set_peer_count, ResizeTo, ProposeBan,
           propose_ban, ban_peer_local
  <2> QED
    BY <1>1, <2>1, Zenon
<1> QED
  BY <1>2, <1>7, <1>8, Zenon DEF SteadyNext, ApiNext, ClientNext

LEMMA SteadyStep ==
    EngineInv /\ CommitBacked /\ [SteadyNext]_clientVars
        => CommitBacked' /\ [OverlapStep]_clientVars
<1> SUFFICES ASSUME EngineInv, CommitBacked, [SteadyNext]_clientVars
             PROVE  CommitBacked' /\ [OverlapStep]_clientVars
  OBVIOUS
<1>1. CASE UNCHANGED clientVars
  BY <1>1, Zenon DEF CommitBacked, quorum, clientVars, engineVars, memberVars, roundVars
<1>2. CASE SteadyNext
  <2>1. BackedStep /\ OverlapStep
    BY <1>2, SteadyBacked, Zenon
  <2>2. EngineInv'
    BY <1>2, StepInv, Zenon DEF SteadyNext
  <2>3. CommitBacked'
    <3> SUFFICES ASSUME NEW n \in Host, NEW k \in Round,
                        rounds'[n][k].state = "COMMIT"
                 PROVE  Cardinality(votes'[n][k]["PREPARE"]) >= quorum(n)'
      BY Zenon DEF CommitBacked
    <3>1. quorum(n)' = quorum(n) /\ quorum(n) \in Nat
      BY <1>2, QuorumType, Zenon DEF SteadyNext, quorum, EngineInv
    <3>2. /\ votes[n][k]["PREPARE"] \in SUBSET Node
          /\ votes'[n][k]["PREPARE"] \in SUBSET Node
      BY <2>2 DEF EngineInv, EngineTypeOK, VoteStage
    <3>3. CASE /\ rounds[n][k].state = "COMMIT"
               /\ votes[n][k]["PREPARE"] \subseteq votes'[n][k]["PREPARE"]
      <4>1. Cardinality(votes[n][k]["PREPARE"]) >= quorum(n)
        BY <3>3, Zenon DEF CommitBacked
      <4>2. /\ Cardinality(votes[n][k]["PREPARE"]) \in Nat
            /\ Cardinality(votes'[n][k]["PREPARE"]) \in Nat
            /\ Cardinality(votes[n][k]["PREPARE"])
                  <= Cardinality(votes'[n][k]["PREPARE"])
        BY <3>2, <3>3, VotersFinite, Zenon
      <4> QED
        BY <3>1, <4>1, <4>2
    <3> QED
      BY <2>1, <3>1, <3>3, Zenon DEF BackedStep
  <2> QED
    BY <2>1, <2>3, Zenon
<1> QED
  BY <1>1, <1>2, Zenon

\* As long as nobody joins and nobody is pruned, a round is only executed on a
\* quorum of peers that voted both PREPARE and COMMIT, in whatever order the
\* messages come and however often: the guard at the COMMIT to EXECUTED
\* transition of advance_state does what its comment says.
THEOREM SteadyQuorumsOverlap == SteadySpec => QuorumsOverlap
<1>1. ClientInit => CommitBacked
  <2> SUFFICES ASSUME ClientInit PROVE CommitBacked
    OBVIOUS
  <2>1. \A n \in Host, k \in Round : rounds[n][k] = NoRound
    BY Zenon DEF ClientInit, EngineInit
  <2>2. NoRound.state # "COMMIT"
    BY Zenon DEF NoRound
  <2> QED
    BY <2>1, <2>2, Zenon DEF CommitBacked
<1>2. EngineInv /\ [SteadyNext]_clientVars => EngineInv'
  BY StepInv, Zenon DEF SteadyNext
<1> QED
  BY <1>1, <1>2, InitClient, SteadyStep, PTL DEF SteadySpec, QuorumsOverlap
-----------------------------------------------------------------------------
(* What the engine remembers of the messages it has counted. *)

Sequence == {m.seq : m \in Message}
Hash == {compute_message_hash(m) : m \in Message}

\* The limits are not reached: the history of a sender has room for every
\* sequence number, and m_seen_messages for every message.
HistoryFits == IsFiniteSet(Sequence) /\ Cardinality(Sequence) <= MAX_MSG_HISTORY
SeenFits == IsFiniteSet(Hash) /\ Cardinality(Hash) <= MAX_SEEN

\* The engine of n counts m, which it has not seen.
Remembers(n, m) == /\ compute_message_hash(m) \notin seen[n]
                   /\ ~Dropped(n, m.sender)
                   /\ RememberSeen(n, m) /\ detect_equivocation(n, m)
                   /\ UNCHANGED memberVars
\* It forgets the messages of p.
Forgets(n, p) == /\ history' = [history EXCEPT ![n][p] = NoHistory]
                 /\ peer_keys' = [peer_keys EXCEPT ![n] = @ \ {p}]
                 /\ UNCHANGED <<seen, equivocators>>
                 /\ \/ UNCHANGED banned
                    \/ banned' = [banned EXCEPT ![n] = @ \cup {p}]
\* It remembers what it did; keys and bans may be added.
Keeps == /\ UNCHANGED <<history, seen, equivocators>>
         /\ \A n \in Host : /\ peer_keys[n] \subseteq peer_keys'[n]
                            /\ banned[n] \subseteq banned'[n]
RecordStep == \/ Keeps
              \/ \E n \in Host, p \in Node : Forgets(n, p)
              \/ \E n \in Host, m \in Message : Remembers(n, m)

LEMMA FailureRecords ==
    ASSUME NEW n \in Host, NEW p \in Node, NEW v, record_failure(n, p, v),
           UNCHANGED <<equivocators, seen>>
    PROVE  RecordStep
<1>1. CASE UNCHANGED <<memberVars, history>>
  BY <1>1, Zenon DEF RecordStep, Keeps, memberVars
<1>2. CASE /\ banned' = [banned EXCEPT ![n] = @ \cup {p}]
           /\ prune_peer_locked(n, p, v)
  <2>1. Forgets(n, p)
    BY <1>2, Zenon DEF Forgets, prune_peer_locked
  <2> QED
    BY <2>1, Zenon DEF RecordStep
<1> QED
  BY <1>1, <1>2, Zenon DEF record_failure

LEMMA AdvanceRecords ==
    ASSUME NEW n \in Host, NEW m \in Message, NEW r, advance_state(n, m, r)
    PROVE  RecordStep
<1>1. m.sender \in Node
  BY MessageAssumption, Zenon DEF IsMessage
<1>2. CASE UNCHANGED engineVars
  BY <1>2, Zenon DEF RecordStep, Keeps, engineVars, memberVars, trustVars, chainVars
<1>3. CASE RateLimited(n, m, r)
  BY <1>1, <1>3, FailureRecords, Zenon DEF RateLimited
<1>4. CASE Repeated(n, m, r)
  BY <1>4, Zenon DEF Repeated, RecordStep, Keeps, memberVars, trustVars
<1>5. CASE ~Dropped(n, m.sender) /\ Counted(n, m, r)
  <2>1. Remembers(n, m)
    BY <1>5, Zenon DEF Remembers, Counted
  <2> QED
    BY <2>1, Zenon DEF RecordStep
<1> QED
  BY <1>2, <1>3, <1>4, <1>5, Zenon DEF advance_state

LEMMA VerifyRecords ==
    ASSUME NEW n \in Host, NEW m \in Message, NEW ok, verify_message(n, m, ok)
    PROVE  RecordStep
<1>1. m.sender \in Node
  BY MessageAssumption, Zenon DEF IsMessage
<1>2. CASE UNCHANGED engineVars
  BY <1>2, Zenon DEF RecordStep, Keeps, engineVars, memberVars, trustVars, chainVars
<1>3. CASE UNCHANGED <<memberVars, equivocators, chainVars>>
  BY <1>3, Zenon DEF RecordStep, Keeps, memberVars, chainVars
<1>4. CASE /\ record_failure(n, m.sender, votes[n])
           /\ UNCHANGED <<equivocators, seen, rate, rounds, current_view>>
  BY <1>1, <1>4, FailureRecords, Zenon
<1> QED
  BY <1>2, <1>3, <1>4, Zenon DEF verify_message

\* What adds a key or a ban and leaves the messages alone.
LEMMA AddsRecords ==
    ASSUME EngineInv, NEW n \in Host, NEW p,
           UNCHANGED <<history, seen, equivocators>>,
           UNCHANGED peer_keys \/ peer_keys' = [peer_keys EXCEPT ![n] = @ \cup {p}],
           UNCHANGED banned \/ banned' = [banned EXCEPT ![n] = @ \cup {p}]
    PROVE  RecordStep
<1>1. DOMAIN peer_keys = Host /\ DOMAIN banned = Host
  BY Zenon DEF EngineInv, EngineTypeOK
<1>2. \A q \in Host : peer_keys[q] \subseteq peer_keys'[q]
  BY <1>1, Zenon
<1>3. \A q \in Host : banned[q] \subseteq banned'[q]
  BY <1>1, Zenon
<1> QED
  BY <1>2, <1>3, Zenon DEF RecordStep, Keeps

LEMMA StepRecords == EngineInv /\ [ApiNext]_clientVars => RecordStep
<1> SUFFICES ASSUME EngineInv, [ApiNext]_clientVars PROVE RecordStep
  OBVIOUS
<1>1. CASE UNCHANGED <<history, seen, equivocators, peer_keys, banned>>
  BY <1>1, Zenon DEF RecordStep, Keeps
<1>2. CASE UNCHANGED clientVars
  BY <1>1, <1>2, Zenon DEF clientVars, engineVars, memberVars, trustVars, chainVars
<1>3. CASE ClientTick
  BY <1>1, <1>3, Zenon DEF ClientTick, Tick, memberVars, trustVars
<1>4. ASSUME NEW n \in Host, NEW p \in Churn, RegisterPeer(n, p) \/ RegisterAgain(n, p)
      PROVE  RecordStep
  BY <1>4, AddsRecords, Zenon DEF RegisterPeer, RegisterAgain, register_peer_key, chainVars
<1>5. ASSUME NEW n \in Host, NEW p \in Churn, BanPeer(n, p) PROVE RecordStep
  BY <1>5, AddsRecords, Zenon DEF BanPeer, ban_peer_local, trustVars, chainVars
<1>6. ASSUME NEW n \in Host, NEW p \in Churn, ProposeBan(n, p) PROVE RecordStep
  <2>1. CASE UNCHANGED engineVars
    BY <1>1, <2>1, Zenon DEF engineVars, memberVars, trustVars, chainVars
  <2>2. CASE ban_peer_local(n, p)
    BY <2>2, AddsRecords, Zenon DEF ban_peer_local, trustVars, chainVars
  <2> QED
    BY <1>6, <2>1, <2>2, Zenon DEF ProposeBan, propose_ban
<1>7. ASSUME NEW n \in Host, NEW p \in Churn, PrunePeer(n, p) PROVE RecordStep
  <2>1. Forgets(n, p) /\ p \in Node
    BY <1>7, BoundsAssumption, Zenon DEF PrunePeer, prune_peer, prune_peer_locked, Forgets
  <2> QED
    BY <2>1, Zenon DEF RecordStep
<1>8. ASSUME NEW n \in Host, Called(n) PROVE RecordStep
  <2>1. \/ \E m \in Message : Verify(n, m) \/ Advance(n, m)
        \/ \E p \in Churn : RegisterPeer(n, p) \/ PrunePeer(n, p) \/ BanPeer(n, p)
        \/ UNCHANGED <<history, seen, equivocators, peer_keys, banned>>
    BY <1>8, Zenon DEF Called, CountPeer, increment_peers, ResizeTo, DrainBans,
                drain_recent_bans, FindStall, ChangeView, advance_view,
                StoreCommitSig, set_round_commit_sig,
                engineVars, memberVars, trustVars, chainVars
  <2>2. ASSUME NEW m \in Message, Verify(n, m) \/ Advance(n, m) PROVE RecordStep
    BY <2>2, VerifyRecords, AdvanceRecords, Zenon DEF Verify, Advance
  <2> QED
    BY <1>1, <1>4, <1>5, <1>7, <2>1, <2>2, Zenon
<1>9. ASSUME NEW n \in Host, Offered(n) PROVE RecordStep
  <2>1. \/ \E p \in Churn : RegisterAgain(n, p) \/ ProposeBan(n, p)
        \/ UNCHANGED <<history, seen, equivocators, peer_keys, banned>>
    BY <1>9, Zenon DEF Offered, TryCountPeer, try_increment_peers, UncountPeer,
                decrement_peers, SetCount, set_peer_count, ResizeTo,
                engineVars, memberVars, trustVars, chainVars
  <2> QED
    BY <1>1, <1>4, <1>6, <2>1, Zenon
<1> QED
  BY <1>2, <1>3, <1>8, <1>9, Zenon DEF ApiNext, ClientNext

\* The history that detect_equivocation leaves when it drops nothing.
LEMMA DetectStores ==
    ASSUME EngineInv, HistoryFits, NEW n \in Host, NEW m \in Message,
           detect_equivocation(n, m),
           DOMAIN history[n][m.sender] \subseteq Sequence
    PROVE  LET h == history[n][m.sender]
               new == history'[n][m.sender]
               hash == compute_message_hash(m)
           IN  /\ DOMAIN new = DOMAIN h \cup {m.seq}
               /\ new[m.seq] = hash
               /\ \A s \in DOMAIN h \ {m.seq} : new[s] = h[s]
               /\ \A q \in Host, p \in Node :
                     q # n \/ p # m.sender => history'[q][p] = history[q][p]
               /\ \A q \in Host : equivocators[q] \subseteq equivocators'[q]
               /\ m.seq \in DOMAIN h /\ h[m.seq] # hash => m.sender \in equivocators'[n]
<1> DEFINE h == history[n][m.sender]
           hash == compute_message_hash(m)
           seqs == DOMAIN h \cup {m.seq}
           kept == IF Cardinality(seqs) <= MAX_MSG_HISTORY THEN seqs
                   ELSE {s \in seqs : \E t \in seqs : t < s}
           conflict == m.seq \in DOMAIN h /\ h[m.seq] # hash
           stored == [s \in kept |-> IF s = m.seq THEN hash ELSE h[s]]
<1>1. m.sender \in Node /\ m.seq \in Sequence
  BY MessageAssumption, Zenon DEF IsMessage, Sequence
<1>2. seqs \subseteq Sequence
  BY <1>1, Zenon
<1>3. Cardinality(seqs) <= MAX_MSG_HISTORY
  <2>1. IsFiniteSet(seqs) /\ Cardinality(seqs) <= Cardinality(Sequence)
    BY <1>2, FS_Subset, Zenon DEF HistoryFits
  <2>2. Cardinality(seqs) \in Nat /\ Cardinality(Sequence) \in Nat
    BY <2>1, FS_CardinalityType, Zenon DEF HistoryFits
  <2> QED
    BY <2>1, <2>2, LimitsAssumption DEF HistoryFits
<1>4. kept = seqs
  BY <1>3, Zenon
<1>5. /\ history' = [history EXCEPT ![n][m.sender] = stored]
      /\ \/ /\ conflict
            /\ equivocators' = [equivocators EXCEPT ![n] = @ \cup {m.sender}]
         \/ ~conflict /\ UNCHANGED trustVars
  BY Zenon DEF detect_equivocation
<1>6. /\ DOMAIN history = Host /\ \A q \in Host : DOMAIN history[q] = Node
      /\ DOMAIN equivocators = Host
  BY Zenon DEF EngineInv, EngineTypeOK
<1>7. /\ DOMAIN stored = DOMAIN h \cup {m.seq}
      /\ stored[m.seq] = hash
      /\ \A s \in DOMAIN h \ {m.seq} : stored[s] = h[s]
  BY <1>4, Zenon
<1> HIDE DEF stored
<1>8. /\ history'[n][m.sender] = stored
      /\ \A q \in Host, p \in Node :
            q # n \/ p # m.sender => history'[q][p] = history[q][p]
  BY <1>1, <1>5, <1>6, Zenon
<1>9. /\ \A q \in Host : equivocators[q] \subseteq equivocators'[q]
      /\ conflict => m.sender \in equivocators'[n]
  BY <1>5, <1>6, Zenon DEF trustVars
<1> QED
  BY <1>7, <1>8, <1>9, Zenon

\* What RememberSeen leaves of the other engines, and of its own.
LEMMA RememberAdds ==
    ASSUME EngineInv, NEW n \in Host, NEW m \in Message, RememberSeen(n, m)
    PROVE  /\ seen'[n] \subseteq seen[n] \cup {compute_message_hash(m)}
           /\ \A q \in Host \ {n} : seen'[q] = seen[q]
<1> DEFINE all == seen[n] \cup {compute_message_hash(m)}
<1>1. \E x \in SUBSET all : seen' = [seen EXCEPT ![n] = x]
  BY Zenon DEF RememberSeen
<1>2. DOMAIN seen = Host
  BY Zenon DEF EngineInv, EngineTypeOK
<1> QED
  BY <1>1, <1>2, Zenon
-----------------------------------------------------------------------------
(* A message counts once. *)

\* The inductive invariant: every hash in the history of a sender is among the
\* messages seen, so a message not seen differs from all that is recorded.
EngineRecords(hist, sn) ==
    /\ sn \subseteq Hash
    /\ \A p \in Node : /\ DOMAIN hist[p] \subseteq Sequence
                       /\ \A s \in DOMAIN hist[p] : hist[p][s] \in sn
RecordInv == \A n \in Host : EngineRecords(history[n], seen[n])

LEMMA RememberAll ==
    ASSUME EngineInv, SeenFits, NEW n \in Host, NEW m \in Message, RememberSeen(n, m),
           seen[n] \subseteq Hash
    PROVE  /\ seen'[n] = seen[n] \cup {compute_message_hash(m)}
           /\ \A q \in Host \ {n} : seen'[q] = seen[q]
<1> DEFINE all == seen[n] \cup {compute_message_hash(m)}
<1>1. all \subseteq Hash
  BY Zenon DEF Hash
<1>2. IsFiniteSet(all) /\ Cardinality(all) <= Cardinality(Hash)
  BY <1>1, FS_Subset, Zenon DEF SeenFits
<1>3. Cardinality(all) \in Nat /\ Cardinality(Hash) \in Nat
  BY <1>2, FS_CardinalityType, Zenon DEF SeenFits
<1>4. ~(Cardinality(all) > MAX_SEEN)
  BY <1>2, <1>3, LimitsAssumption DEF SeenFits
<1>5. seen' = [seen EXCEPT ![n] = all]
  BY <1>4, Zenon DEF RememberSeen
<1>6. DOMAIN seen = Host
  BY Zenon DEF EngineInv, EngineTypeOK
<1> QED
  BY <1>5, <1>6, Zenon

LEMMA RecordsStep ==
    ASSUME HistoryFits, SeenFits, EngineInv, RecordInv, RecordStep
    PROVE  RecordInv'
<1> SUFFICES ASSUME NEW q \in Host PROVE EngineRecords(history'[q], seen'[q])
  BY Zenon DEF RecordInv
<1>1. EngineRecords(history[q], seen[q])
  BY Zenon DEF RecordInv
<1>2. CASE Keeps
  BY <1>1, <1>2, Zenon DEF Keeps
<1>3. ASSUME NEW n \in Host, NEW p \in Node, Forgets(n, p)
      PROVE  EngineRecords(history'[q], seen'[q])
  <2>1. seen' = seen /\ \A o \in Node : \/ history'[q][o] = history[q][o]
                                        \/ history'[q][o] = NoHistory
    BY <1>3, Zenon DEF Forgets, EngineInv, EngineTypeOK
  <2>2. DOMAIN NoHistory = {}
    BY Zenon DEF NoHistory
  <2> QED
    BY <1>1, <2>1, <2>2, Zenon DEF EngineRecords
<1>4. ASSUME NEW n \in Host, NEW m \in Message, Remembers(n, m)
      PROVE  EngineRecords(history'[q], seen'[q])
  <2> DEFINE h == history[n][m.sender]
             new == history'[n][m.sender]
             hash == compute_message_hash(m)
  <2>1. m.sender \in Node /\ m.seq \in Sequence /\ hash \in Hash
    BY MessageAssumption, Zenon DEF IsMessage, Sequence, Hash
  <2>2. EngineRecords(history[n], seen[n])
    BY Zenon DEF RecordInv
  <2>3. DOMAIN h \subseteq Sequence /\ seen[n] \subseteq Hash
        /\ \A s \in DOMAIN h : h[s] \in seen[n]
    BY <2>1, <2>2, Zenon DEF EngineRecords
  <2>4. /\ DOMAIN new = DOMAIN h \cup {m.seq} /\ new[m.seq] = hash
        /\ \A s \in DOMAIN h \ {m.seq} : new[s] = h[s]
        /\ \A o \in Host, p \in Node :
              o # n \/ p # m.sender => history'[o][p] = history[o][p]
    BY <1>4, <2>3, DetectStores, Zenon DEF Remembers
  <2>5. /\ seen'[n] = seen[n] \cup {hash}
        /\ \A o \in Host \ {n} : seen'[o] = seen[o]
    BY <1>4, <2>3, RememberAll, Zenon DEF Remembers
  <2> HIDE DEF h, new, hash
  <2>6. CASE q # n
    BY <1>1, <2>4, <2>5, <2>6 DEF EngineRecords
  <2>7. CASE q = n
    <3>1. seen'[n] \subseteq Hash /\ seen[n] \subseteq seen'[n] /\ hash \in seen'[n]
      BY <2>1, <2>3, <2>5, Zenon
    <3>2. /\ DOMAIN new \subseteq Sequence
          /\ \A s \in DOMAIN new : new[s] \in seen'[n]
      BY <2>1, <2>3, <2>4, <3>1, Zenon
    <3>3. \A p \in Node \ {m.sender} :
             /\ DOMAIN history'[n][p] \subseteq Sequence
             /\ \A s \in DOMAIN history'[n][p] : history'[n][p][s] \in seen'[n]
      BY <2>2, <2>4, <3>1 DEF EngineRecords
    <3> QED
      BY <2>7, <3>1, <3>2, <3>3 DEF EngineRecords, new
  <2> QED
    BY <2>6, <2>7, Zenon
<1> QED
  BY <1>2, <1>3, <1>4, Zenon DEF RecordStep

\* The only step that gains a vote counts a message that was not seen.
LEMMA GainRemembers ==
    ASSUME EngineInv, ApiNext, NEW q \in Host, NEW k \in Round, NEW s \in VoteStage,
           NEW p \in votes'[q][k][s] \ votes[q][k][s]
    PROVE  \E m \in Message : m.sender = p /\ Remembers(q, m)
<1>1. ~ (UNCHANGED votes)
  OBVIOUS
<1>2. \A n, j, u : ~ GainsOnly(n, j, u, {})
  BY Zenon DEF GainsOnly
<1>3. ~ ClientTick
  BY <1>1, Zenon DEF ClientTick, Tick
<1>4. \A n \in Host, m \in Message : ~ Verify(n, m)
  <2> SUFFICES ASSUME NEW n \in Host, NEW m \in Message, Verify(n, m) PROVE FALSE
    OBVIOUS
  <2>1. GainsOnly(n, m.round, m.stage, {})
    BY MessageAssumption, VerifyVotes, Zenon DEF Verify, EngineInv
  <2> QED
    BY <1>2, <2>1, Zenon
<1>5. \A n \in Host, o \in Churn : ~ PrunePeer(n, o)
  <2> SUFFICES ASSUME NEW n \in Host, NEW o \in Churn, PrunePeer(n, o) PROVE FALSE
    OBVIOUS
  <2>1. votes' = [votes EXCEPT ![n] = WithoutVotesOf(votes[n], o)]
    BY Zenon DEF PrunePeer, prune_peer, prune_peer_locked
  <2>2. votes[n] \in VoteRegistry /\ o \in Node
    BY BoundsAssumption, Zenon DEF EngineInv, EngineTypeOK, VoteRegistry
  <2>3. \A j \in Round, u \in VoteStage :
           WithoutVotesOf(votes[n], o)[j][u] \subseteq votes[n][j][u]
    <3> SUFFICES ASSUME NEW j \in Round, NEW u \in VoteStage
                 PROVE  WithoutVotesOf(votes[n], o)[j][u] \subseteq votes[n][j][u]
      OBVIOUS
    <3>1. WithoutVotesOf(votes[n], o)[j][u] = votes[n][j][u] \ {o}
      BY <2>2, WithoutVotesType
    <3> QED
      BY <3>1, Zenon
  <2>4. GainsOnly(n, k, s, {})
    BY <2>1, <2>3, NoGain, Zenon DEF EngineInv
  <2> QED
    BY <1>2, <2>4, Zenon
<1>6. \A n \in Host : ~ Offered(n)
  BY <1>1 DEF Offered, RegisterAgain, register_peer_key, TryCountPeer,
              try_increment_peers, engineVars, roundVars, UncountPeer,
              decrement_peers, SetCount, set_peer_count, ResizeTo, ProposeBan,
              propose_ban, ban_peer_local
<1>7. PICK n \in Host : Called(n)
  BY <1>3, <1>6, Zenon DEF ApiNext, ClientNext
<1>8. PICK m \in Message : Advance(n, m)
  <2>1. \/ \E m \in Message : Verify(n, m) \/ Advance(n, m)
        \/ \E o \in Churn : PrunePeer(n, o)
        \/ UNCHANGED votes
    BY <1>7, Zenon DEF Called, RegisterPeer, register_peer_key, CountPeer, increment_peers,
                ResizeTo, BanPeer, ban_peer_local, DrainBans, drain_recent_bans,
                FindStall, engineVars, roundVars, ChangeView, advance_view,
                StoreCommitSig, set_round_commit_sig
  <2> QED
    BY <1>1, <1>4, <1>5, <2>1, Zenon
<1>9. PICK r \in PBFTStage : advance_state(n, m, r)
  BY <1>8, Zenon DEF Advance
<1>10. IsMessage(m) /\ m.sender \in Node
  BY MessageAssumption, Zenon DEF IsMessage
<1>11. q = n /\ p = m.sender
  <2>1. GainsOnly(n, m.round, m.stage, {m.sender})
    BY <1>9, <1>10, AdvanceVotes, Zenon
  <2> QED
    BY <2>1 DEF GainsOnly
<1>12. ASSUME RateLimited(n, m, r) PROVE FALSE
  <2>1. record_failure(n, m.sender, LiveVotes(n)) /\ LiveVotes(n) \in VoteRegistry
    BY <1>12, LiveFacts, Zenon DEF RateLimited
  <2>2. GainsOnly(n, k, s, {})
    BY <1>10, <2>1, LiveVotesShrink, FailureVotes, Zenon DEF EngineInv
  <2> QED
    BY <1>2, <2>2, Zenon
<1>13. ASSUME Repeated(n, m, r) PROVE FALSE
  <2>1. votes' = [votes EXCEPT ![n] = LiveVotes(n)]
    BY <1>13, Zenon DEF Repeated
  <2>2. GainsOnly(n, k, s, {})
    BY <2>1, LiveVotesShrink, NoGain, Zenon DEF EngineInv
  <2> QED
    BY <1>2, <2>2, Zenon
<1>14. ~Dropped(n, m.sender) /\ Counted(n, m, r)
  BY <1>1, <1>9, <1>12, <1>13, Zenon DEF advance_state, engineVars, roundVars
<1>15. Remembers(n, m)
  BY <1>14, Zenon DEF Remembers, Counted
<1> QED
  BY <1>11, <1>15, Zenon

\* The step that NoRecount allows.
CountsAnew ==
    \A n \in Host, k \in Round, s \in VoteStage, p \in Node :
        p \in votes'[n][k][s] \ votes[n][k][s] => history'[n][p] # history[n][p]

LEMMA AnewStep ==
    ASSUME HistoryFits, EngineInv, RecordInv, ApiNext
    PROVE  CountsAnew
<1> SUFFICES ASSUME NEW n \in Host, NEW k \in Round, NEW s \in VoteStage, NEW p \in Node,
                    p \in votes'[n][k][s] \ votes[n][k][s]
             PROVE  history'[n][p] # history[n][p]
  BY Zenon DEF CountsAnew
<1>1. PICK m \in Message : m.sender = p /\ Remembers(n, m)
  BY GainRemembers
<1>2. /\ DOMAIN history[n][p] \subseteq Sequence
      /\ \A i \in DOMAIN history[n][p] : history[n][p][i] \in seen[n]
  BY Zenon DEF RecordInv, EngineRecords
<1>3. /\ DOMAIN history'[n][p] = DOMAIN history[n][p] \cup {m.seq}
      /\ history'[n][p][m.seq] = compute_message_hash(m)
  BY <1>1, <1>2, DetectStores, Zenon DEF Remembers
<1>4. compute_message_hash(m) \notin seen[n]
  BY <1>1, Zenon DEF Remembers
<1> QED
  BY <1>2, <1>3, <1>4, Zenon

LEMMA RecordsInit == ClientInit => RecordInv
BY DEF ClientInit, EngineInit, RecordInv, EngineRecords, NoHistory

\* As long as the limits on what is remembered are not reached, a message that
\* is delivered again never counts again, in any order of calls: not after its
\* round was evicted, nor after its sender was pruned and registered anew.
THEOREM MessagesCountOnce == HistoryFits /\ SeenFits /\ ApiSpec => NoRecount
<1>1. HistoryFits /\ SeenFits => (HistoryFits /\ SeenFits)'
  BY Zenon DEF HistoryFits, SeenFits, Sequence, Hash, compute_message_hash
<1>2. HistoryFits /\ SeenFits /\ EngineInv /\ RecordInv /\ [ApiNext]_clientVars => RecordInv'
  BY StepRecords, RecordsStep, Zenon
<1>3. HistoryFits /\ EngineInv /\ RecordInv /\ [ApiNext]_clientVars => [CountsAnew]_clientVars
  BY AnewStep, Zenon
<1> QED
  BY <1>1, <1>2, <1>3, InitClient, StepInv, RecordsInit, PTL
     DEF ApiSpec, NoRecount, CountsAnew
-----------------------------------------------------------------------------
(* Equivocation is recorded. *)

\* Nobody loses its key but by a ban.
KeptNext == ApiNext /\ \A n \in Host : peer_keys[n] \ peer_keys'[n] \subseteq banned'[n]
KeptSpec == ClientInit /\ [][KeptNext]_clientVars

\* The inductive invariant: of a sender that is not banned, the history has
\* every message seen, or another one with its number, and then the sender is
\* known for it.  b, ks, hist, sn and eq are the bans, the keys, the histories,
\* the messages seen and the equivocators of an engine.
Recalled(h, hist, eq) ==
    /\ h[5] \in DOMAIN hist[h[2]]
    /\ hist[h[2]][h[5]] = h \/ h[2] \in eq
EngineRecalls(b, ks, hist, sn, eq) ==
    /\ \A p \in Node : p \in ks \/ p \in b
    /\ sn \subseteq Hash
    /\ \A p \in Node : DOMAIN hist[p] \subseteq Sequence
    /\ \A h \in sn : h[2] \in b \/ Recalled(h, hist, eq)
RecallInv ==
    \A n \in Host :
        EngineRecalls(banned[n], peer_keys[n], history[n], seen[n], equivocators[n])

LEMMA HashParts ==
    /\ \A m : compute_message_hash(m)[2] = m.sender /\ compute_message_hash(m)[5] = m.seq
    /\ \A h \in Hash : h[2] \in Node
<1>1. \A m : compute_message_hash(m)[2] = m.sender /\ compute_message_hash(m)[5] = m.seq
  BY Zenon DEF compute_message_hash
<1> QED
  BY <1>1, MessageAssumption, Zenon DEF Hash, IsMessage

LEMMA KeepsRecall ==
    ASSUME RecallInv, Keeps
    PROVE  RecallInv'
<1> SUFFICES ASSUME NEW n \in Host
             PROVE  EngineRecalls(banned'[n], peer_keys'[n], history'[n], seen'[n],
                                  equivocators'[n])
  BY Zenon DEF RecallInv
<1> QED
  BY Zenon DEF RecallInv, EngineRecalls, Keeps

LEMMA ForgetsRecall ==
    ASSUME EngineInv, RecallInv, NEW n \in Host, NEW p \in Node, Forgets(n, p),
           peer_keys[n] \ peer_keys'[n] \subseteq banned'[n]
    PROVE  RecallInv'
<1> SUFFICES ASSUME NEW q \in Host
             PROVE  EngineRecalls(banned'[q], peer_keys'[q], history'[q], seen'[q],
                                  equivocators'[q])
  BY Zenon DEF RecallInv
<1> USE DEF Forgets
<1>1. EngineRecalls(banned[q], peer_keys[q], history[q], seen[q], equivocators[q])
  BY Zenon DEF RecallInv
<1>2. /\ seen'[q] = seen[q] /\ equivocators'[q] = equivocators[q]
      /\ banned[q] \subseteq banned'[q]
  BY DEF EngineInv, EngineTypeOK
<1>3. \A o \in Node : q # n \/ o # p => history'[q][o] = history[q][o]
  BY Zenon DEF EngineInv, EngineTypeOK
<1>4. /\ q # n => peer_keys'[q] = peer_keys[q]
      /\ peer_keys'[n] = peer_keys[n] \ {p} /\ history'[n][p] = NoHistory
  BY Zenon DEF EngineInv, EngineTypeOK
<1>5. CASE q # n
  <2>1. \A o \in Node : history'[q][o] = history[q][o]
    BY <1>3, <1>5, Zenon
  <2>2. \A h \in seen[q] : h[2] \in Node
    BY <1>1, HashParts, Zenon DEF EngineRecalls
  <2> QED
    BY <1>1, <1>2, <1>4, <1>5, <2>1, <2>2, Zenon DEF EngineRecalls, Recalled
<1>6. CASE q = n
  <2>1. p \in banned'[n]
    BY <1>1, <1>2, <1>4, <1>6, Zenon DEF EngineRecalls
  <2>2. \A o \in Node : o \in peer_keys'[n] \/ o \in banned'[n]
    BY <1>1, <1>2, <1>4, <1>6, <2>1, Zenon DEF EngineRecalls
  <2>3. \A o \in Node : DOMAIN history'[n][o] \subseteq Sequence
    BY <1>1, <1>3, <1>4, <1>6, Zenon DEF EngineRecalls, NoHistory
  <2>4. \A h \in seen[n] : h[2] \in Node
    BY <1>1, <1>6, HashParts, Zenon DEF EngineRecalls
  <2>5. \A h \in seen'[n] : h[2] \in banned'[n]
                            \/ Recalled(h, history'[n], equivocators'[n])
    BY <1>1, <1>2, <1>3, <1>6, <2>1, <2>4 DEF EngineRecalls, Recalled
  <2> QED
    BY <1>1, <1>2, <1>6, <2>2, <2>3, <2>5, Zenon DEF EngineRecalls
<1> QED
  BY <1>5, <1>6, Zenon

LEMMA RemembersRecall ==
    ASSUME HistoryFits, EngineInv, RecallInv, NEW n \in Host, NEW m \in Message,
           Remembers(n, m)
    PROVE  RecallInv'
<1> SUFFICES ASSUME NEW q \in Host
             PROVE  EngineRecalls(banned'[q], peer_keys'[q], history'[q], seen'[q],
                                  equivocators'[q])
  BY Zenon DEF RecallInv
<1> DEFINE h == history[n][m.sender]
           new == history'[n][m.sender]
           hash == compute_message_hash(m)
<1>1. EngineRecalls(banned[q], peer_keys[q], history[q], seen[q], equivocators[q])
  BY Zenon DEF RecallInv
<1>2. EngineRecalls(banned[n], peer_keys[n], history[n], seen[n], equivocators[n])
  BY Zenon DEF RecallInv
<1>3. m.sender \in Node /\ m.seq \in Sequence /\ hash \in Hash
  BY MessageAssumption, Zenon DEF IsMessage, Sequence, Hash
<1>4. UNCHANGED <<banned, peer_keys>> /\ hash \notin seen[n]
  BY Zenon DEF Remembers, memberVars
<1>5. DOMAIN h \subseteq Sequence
  BY <1>2, <1>3, Zenon DEF EngineRecalls
<1>6. /\ DOMAIN new = DOMAIN h \cup {m.seq} /\ new[m.seq] = hash
      /\ \A s \in DOMAIN h \ {m.seq} : new[s] = h[s]
      /\ \A o \in Host, p \in Node :
            o # n \/ p # m.sender => history'[o][p] = history[o][p]
      /\ \A o \in Host : equivocators[o] \subseteq equivocators'[o]
      /\ m.seq \in DOMAIN h /\ h[m.seq] # hash => m.sender \in equivocators'[n]
  BY <1>5, DetectStores, Zenon DEF Remembers
<1>7. /\ seen'[n] \subseteq seen[n] \cup {hash}
      /\ \A o \in Host \ {n} : seen'[o] = seen[o]
  BY RememberAdds, Zenon DEF Remembers
<1>8. hash[2] = m.sender /\ hash[5] = m.seq
  BY HashParts, Zenon
<1>9. \A g \in seen[q] : g[2] \in Node
  BY <1>1, HashParts, Zenon DEF EngineRecalls
<1> HIDE DEF h, new, hash
<1>10. CASE q # n
  <2>1. \A o \in Node : history'[q][o] = history[q][o]
    BY <1>6, <1>10, Zenon
  <2>2. seen'[q] = seen[q] /\ equivocators[q] \subseteq equivocators'[q]
    BY <1>6, <1>7, <1>10, Zenon
  <2>3. \A g \in seen[q] : g[2] \in banned[q] \/ Recalled(g, history'[q], equivocators'[q])
    BY <1>1, <1>9, <2>1, <2>2, Zenon DEF EngineRecalls, Recalled
  <2> QED
    BY <1>1, <1>4, <2>1, <2>2, <2>3, Zenon DEF EngineRecalls
<1>11. CASE q = n
  <2>1. \A o \in Node : DOMAIN history'[n][o] \subseteq Sequence
    BY <1>2, <1>3, <1>5, <1>6 DEF EngineRecalls, new
  <2>2. seen'[n] \subseteq Hash
    BY <1>2, <1>3, <1>7, Zenon DEF EngineRecalls
  <2>3. Recalled(hash, history'[n], equivocators'[n])
    BY <1>6, <1>8, Zenon DEF Recalled, new
  <2>4. ASSUME NEW g \in seen[n], g[2] \notin banned[n]
        PROVE  Recalled(g, history'[n], equivocators'[n])
    <3>1. Recalled(g, history[n], equivocators[n]) /\ g[2] \in Node
      BY <1>2, <1>9, <1>11, <2>4, Zenon DEF EngineRecalls
    <3>2. equivocators[n] \subseteq equivocators'[n]
      BY <1>6, Zenon
    <3>3. CASE g[2] # m.sender
      <4>1. history'[n][g[2]] = history[n][g[2]]
        BY <1>6, <3>1, <3>3, Zenon
      <4> QED
        BY <3>1, <3>2, <4>1, Zenon DEF Recalled
    <3>4. CASE g[2] = m.sender /\ g[5] # m.seq
      <4>1. g[5] \in DOMAIN h /\ (h[g[5]] = g \/ g[2] \in equivocators[n])
        BY <3>1, <3>4, Zenon DEF Recalled, h
      <4>2. g[5] \in DOMAIN new /\ new[g[5]] = h[g[5]]
        BY <1>6, <3>4, <4>1, Zenon
      <4> QED
        BY <3>2, <3>4, <4>1, <4>2, Zenon DEF Recalled, new
    <3>5. CASE g[2] = m.sender /\ g[5] = m.seq
      <4>1. m.seq \in DOMAIN h /\ (h[m.seq] = g \/ m.sender \in equivocators[n])
        BY <3>1, <3>5, Zenon DEF Recalled, h
      <4>2. g # hash
        BY <1>4, Zenon
      <4>3. m.sender \in equivocators'[n]
        BY <1>6, <3>2, <4>1, <4>2, Zenon
      <4>4. m.seq \in DOMAIN new
        BY <1>6, Zenon
      <4> QED
        BY <3>5, <4>3, <4>4, Zenon DEF Recalled, new
    <3> QED
      BY <3>3, <3>4, <3>5, Zenon
  <2>5. \A g \in seen'[n] : g[2] \in banned[n]
                            \/ Recalled(g, history'[n], equivocators'[n])
    BY <1>7, <2>3, <2>4, Zenon
  <2> QED
    BY <1>2, <1>4, <1>11, <2>1, <2>2, <2>5, Zenon DEF EngineRecalls
<1> QED
  BY <1>10, <1>11, Zenon

LEMMA RecallStep ==
    HistoryFits /\ EngineInv /\ RecallInv /\ [KeptNext]_clientVars => RecallInv'
<1> SUFFICES ASSUME HistoryFits, EngineInv, RecallInv, [KeptNext]_clientVars
             PROVE  RecallInv'
  BY Zenon
<1>1. RecordStep
  BY StepRecords, Zenon DEF KeptNext
<1>2. \A n \in Host : peer_keys[n] \ peer_keys'[n] \subseteq banned'[n]
  BY Zenon DEF KeptNext, clientVars, engineVars, memberVars
<1> QED
  BY <1>1, <1>2, KeepsRecall, ForgetsRecall, RemembersRecall, Zenon DEF RecordStep

LEMMA RecallInit == ClientInit => RecallInv
<1> SUFFICES ASSUME ClientInit, NEW n \in Host
             PROVE  EngineRecalls(banned[n], peer_keys[n], history[n], seen[n],
                                  equivocators[n])
  BY Zenon DEF RecallInv
<1>1. /\ peer_keys[n] = Node \cup {n} /\ seen[n] = {}
      /\ \A p \in Node : history[n][p] = NoHistory
  BY Zenon DEF ClientInit, EngineInit
<1>2. DOMAIN NoHistory = {}
  BY Zenon DEF NoHistory
<1> QED
  BY <1>1, <1>2, Zenon DEF EngineRecalls

LEMMA RecallRecords == RecallInv => EquivocationRecorded
<1> SUFFICES ASSUME RecallInv, NEW n \in Host, NEW g \in seen[n], NEW h \in seen[n],
                    g # h, g[2] = h[2], g[5] = h[5], g[2] \notin banned[n]
             PROVE  g[2] \in equivocators[n]
  BY Zenon DEF EquivocationRecorded
<1>1. /\ Recalled(g, history[n], equivocators[n])
      /\ Recalled(h, history[n], equivocators[n])
  BY Zenon DEF RecallInv, EngineRecalls
<1> QED
  BY <1>1, Zenon DEF Recalled

\* As long as nobody loses its key but by a ban and the history has room, two
\* messages of a peer with one sequence number never both pass unnoticed: in
\* whatever order, however far apart and with whatever calls in between they
\* come, the peer is in m_equivocation_history or banned.
THEOREM EquivocatorsAreCaught == HistoryFits /\ KeptSpec => []EquivocationRecorded
<1>1. HistoryFits => HistoryFits'
  BY Zenon DEF HistoryFits, Sequence
<1>2. [KeptNext]_clientVars => [ApiNext]_clientVars
  BY Zenon DEF KeptNext
<1> QED
  BY <1>1, <1>2, InitClient, StepInv, RecallInit, RecallStep, RecallRecords, PTL
     DEF KeptSpec
=============================================================================
