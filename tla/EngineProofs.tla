---------------------------- MODULE EngineProofs ----------------------------
(***************************************************************************)
(* Every operation of the engine keeps its inductive invariant, for every  *)
(* set of nodes and rounds, every message and every value of the limits;   *)
(* and the arithmetic of its quorums.                                      *)
(***************************************************************************)
EXTENDS PBFT, FiniteSetTheorems, TLAPS

\* The inductive invariant: the types, and that votes belong to registered
\* peers and to rounds that exist.
EngineInv == EngineTypeOK /\ VotesHaveKeys /\ VotesHaveRounds

\* The stage that advance_state computes is the round's own or the next one.
LEMMA NextStageMoves ==
    ASSUME NEW state \in PBFTStage, NEW s, NEW c, NEW q, NEW next,
           next = NextStage(state, s, c, q)
    PROVE  \/ next = state
           \/ state = "IDLE" /\ next = "PREPARE"
           \/ state = "PREPARE" /\ next = "COMMIT"
           \/ state = "COMMIT" /\ next = "EXECUTED"
BY Zenon DEF NextStage, PBFTStage

\* A fresh engine satisfies it.
LEMMA InitEngine == EngineInit(Node) => EngineInv
<1> SUFFICES ASSUME EngineInit(Node) PROVE EngineInv
  OBVIOUS
<1> USE DEF EngineInit
<1>1. \A n \in Host : Cardinality(Node \cup {n}) \in Nat \ {0}
  <2> SUFFICES ASSUME NEW n \in Host PROVE Cardinality(Node \cup {n}) \in Nat \ {0}
    OBVIOUS
  <2>1. Node \cup {n} = Node /\ Node # {}
    BY HostAssumption, Zenon
  <2> QED
    BY <2>1, HostAssumption, FS_CardinalityType, FS_EmptySet, Zenon
<1>2. EngineTypeOK
  <2>1. NoRound \in ConsensusRound
    BY LimitsAssumption DEF NoRound, ConsensusRound, Age
  <2>2. NoRate \in [1 .. RATE_MAX -> 0 .. RATE_WINDOW]
    BY LimitsAssumption DEF NoRate
  <2>3. NoVotes \in [VoteStage -> SUBSET Node]
    BY Zenon DEF NoVotes
  <2>4. DOMAIN NoHistory \subseteq Nat
    BY Zenon DEF NoHistory
  <2> QED
    BY <1>1, <2>1, <2>2, <2>3, <2>4, HostAssumption, Zenon DEF EngineTypeOK
<1>3. VotesHaveKeys
  BY Zenon DEF VotesHaveKeys, NoVotes
<1>4. VotesHaveRounds
  BY Zenon DEF VotesHaveRounds
<1> QED
  BY <1>2, <1>3, <1>4, Zenon DEF EngineInv
-----------------------------------------------------------------------------
(* Membership, views and bans. *)

LEMMA AtLeastOneType == \A i \in Int : AtLeastOne(i) \in Nat \ {0}
BY DEF AtLeastOne

\* What leaves keys, votes and rounds as they are keeps the two relations.
LEMMA SameVotes ==
    ASSUME VotesHaveKeys, VotesHaveRounds,
           \A n \in Host : peer_keys[n] \subseteq peer_keys'[n],
           UNCHANGED <<votes, rounds>>
    PROVE  VotesHaveKeys' /\ VotesHaveRounds'
BY Zenon DEF VotesHaveKeys, VotesHaveRounds

LEMMA RegisterInv ==
    ASSUME EngineInv, NEW n \in Host, NEW p \in Node, register_peer_key(n, p)
    PROVE  EngineInv'
<1> USE DEF register_peer_key, chainVars, roundVars
<1>1. EngineTypeOK'
  BY DEF EngineInv, EngineTypeOK
<1>2. \A q \in Host : peer_keys[q] \subseteq peer_keys'[q]
  BY Zenon DEF EngineInv, EngineTypeOK
<1> QED
  BY <1>1, <1>2, SameVotes, Zenon DEF EngineInv

LEMMA ResizeInv ==
    ASSUME EngineInv, NEW n \in Host, NEW c \in Nat \ {0}, ResizeTo(n, c)
    PROVE  EngineInv'
<1> USE DEF ResizeTo, trustVars, chainVars, roundVars
<1>1. EngineTypeOK'
  BY Zenon DEF EngineInv, EngineTypeOK
<1> QED
  BY <1>1, SameVotes, Zenon DEF EngineInv

LEMMA TryIncrementInv ==
    ASSUME EngineInv, NEW n \in Host, NEW p \in Node, NEW ok \in BOOLEAN,
           try_increment_peers(n, p, ok)
    PROVE  EngineInv'
<1>1. CASE UNCHANGED engineVars
  BY <1>1, Zenon DEF EngineInv, EngineTypeOK, VotesHaveKeys, VotesHaveRounds,
              engineVars, memberVars, trustVars, chainVars, roundVars
<1>2. CASE /\ registered' = [registered EXCEPT ![n] = @ \cup {p}]
           /\ total_nodes' = [total_nodes EXCEPT ![n] = @ + 1]
           /\ UNCHANGED <<peer_keys, banned, recent_bans, trustVars, chainVars,
                          roundVars, current_view>>
  <2>1. EngineTypeOK'
    BY <1>2 DEF EngineInv, EngineTypeOK, trustVars, chainVars, roundVars
  <2> QED
    BY <1>2, <2>1, SameVotes, Zenon DEF EngineInv, roundVars
<1> QED
  BY <1>1, <1>2, Zenon DEF try_increment_peers

LEMMA BanInv ==
    ASSUME EngineInv, NEW n \in Host, NEW p \in Node, ban_peer_local(n, p)
    PROVE  EngineInv'
<1> USE DEF ban_peer_local, trustVars, chainVars, roundVars
<1>1. EngineTypeOK'
  BY Zenon DEF EngineInv, EngineTypeOK
<1> QED
  BY <1>1, SameVotes, Zenon DEF EngineInv

LEMMA DrainInv ==
    ASSUME EngineInv, NEW n \in Host, NEW bans, drain_recent_bans(n, bans)
    PROVE  EngineInv'
<1> USE DEF drain_recent_bans, trustVars, chainVars, roundVars
<1>1. EngineTypeOK'
  BY Zenon DEF EngineInv, EngineTypeOK
<1> QED
  BY <1>1, SameVotes, Zenon DEF EngineInv

LEMMA AdvanceViewInv ==
    ASSUME EngineInv, NEW n \in Host, advance_view(n)
    PROVE  EngineInv'
<1> USE DEF advance_view, memberVars, trustVars, chainVars, roundVars
<1>1. EngineTypeOK'
  BY DEF EngineInv, EngineTypeOK
<1> QED
  BY <1>1, SameVotes, Zenon DEF EngineInv

LEMMA CommitSigInv ==
    ASSUME EngineInv, NEW n \in Host, NEW k \in Round, set_round_commit_sig(n, k)
    PROVE  EngineInv'
<1> DEFINE old == rounds[n][k]
           fresh(a) == [NoRound EXCEPT !.state = "IDLE", !.idle = a, !.signed = TRUE]
           new(a) == IF old.state = "ABSENT" THEN fresh(a)
                     ELSE [old EXCEPT !.signed = TRUE]
<1>1. PICK a \in Age : rounds' = [rounds EXCEPT ![n][k] = new(a)]
  BY Zenon DEF set_round_commit_sig
<1>2. old \in ConsensusRound /\ rounds \in [Host -> [Round -> ConsensusRound]]
  BY DEF EngineInv, EngineTypeOK
<1>3. fresh(a) \in ConsensusRound /\ fresh(a).state = "IDLE"
  BY Zenon DEF NoRound, ConsensusRound, PBFTStage
<1>4. /\ [old EXCEPT !.signed = TRUE] \in ConsensusRound
      /\ [old EXCEPT !.signed = TRUE].state = old.state
  BY <1>2, Zenon DEF ConsensusRound
<1>5. new(a) \in ConsensusRound /\ new(a).state # "ABSENT"
  BY <1>3, <1>4, Zenon
<1> HIDE DEF new, fresh, old
<1>6. /\ rounds' \in [Host -> [Round -> ConsensusRound]]
      /\ rounds'[n][k] = new(a)
      /\ \A q \in Host, j \in Round :
             q # n \/ j # k => rounds'[q][j] = rounds[q][j]
  BY <1>1, <1>2, <1>5, Zenon
<1>7. UNCHANGED <<memberVars, trustVars, chainVars, votes, current_view>>
  BY Zenon DEF set_round_commit_sig
<1>8. EngineTypeOK'
  BY <1>6, <1>7, Zenon DEF EngineInv, EngineTypeOK, memberVars, trustVars, chainVars
<1>9. VotesHaveKeys'
  BY <1>7, Zenon DEF EngineInv, VotesHaveKeys, memberVars
<1>10. VotesHaveRounds'
  BY <1>5, <1>6, <1>7 DEF EngineInv, VotesHaveRounds
<1> QED
  BY <1>8, <1>9, <1>10, Zenon DEF EngineInv
-----------------------------------------------------------------------------
(* Pruning, failures and verification. *)

VoteRegistry == [Round -> [VoteStage -> SUBSET Node]]

\* The registry v and the rounds r are fit for the engine of n.
FitVotes(n, v) == \A k \in Round, s \in VoteStage : v[k][s] \subseteq peer_keys[n]
FitRounds(r, v) == \A k \in Round : r[k].state = "ABSENT" => v[k] = NoVotes

LEMMA WithoutVotesType ==
    ASSUME NEW v \in VoteRegistry, NEW p \in Node
    PROVE  /\ WithoutVotesOf(v, p) \in VoteRegistry
           /\ \A k \in Round, s \in VoteStage :
                 WithoutVotesOf(v, p)[k][s] = v[k][s] \ {p}
           /\ \A k \in Round : v[k] = NoVotes => WithoutVotesOf(v, p)[k] = NoVotes
BY Zenon DEF VoteRegistry, WithoutVotesOf, NoVotes

\* When the engine of n ends an operation with the registry v and the rounds r,
\* which fit the keys it ends with, the two relations hold again.
LEMMA NewVotes ==
    ASSUME EngineTypeOK, VotesHaveKeys, VotesHaveRounds, NEW n \in Host,
           NEW v \in VoteRegistry, NEW r \in [Round -> ConsensusRound],
           votes' = [votes EXCEPT ![n] = v],
           rounds' = [rounds EXCEPT ![n] = r],
           \A k \in Round, s \in VoteStage : v[k][s] \subseteq peer_keys'[n],
           \A q \in Host \ {n} : peer_keys'[q] = peer_keys[q],
           FitRounds(r, v)
    PROVE  VotesHaveKeys' /\ VotesHaveRounds'
<1>1. /\ votes'[n] = v /\ rounds'[n] = r
      /\ \A q \in Host \ {n} : votes'[q] = votes[q] /\ rounds'[q] = rounds[q]
  BY Zenon DEF EngineTypeOK
<1>2. VotesHaveKeys'
  BY <1>1 DEF VotesHaveKeys
<1>3. VotesHaveRounds'
  BY <1>1 DEF VotesHaveRounds, FitRounds
<1> QED
  BY <1>2, <1>3, Zenon

LEMMA PruneFacts ==
    ASSUME EngineTypeOK, NEW n \in Host, NEW p \in Node, NEW v \in VoteRegistry,
           prune_peer_locked(n, p, v)
    PROVE  /\ total_nodes' \in [Host -> Nat \ {0}]
           /\ peer_keys' \in [Host -> SUBSET Node]
           /\ registered' \in [Host -> SUBSET Node]
           /\ failures' \in [Host -> [Node -> Nat]]
           /\ DOMAIN history' = Host
           /\ \A q \in Host : /\ DOMAIN history'[q] = Node
                             /\ \A s \in Node : DOMAIN history'[q][s] \subseteq Nat
           /\ votes' \in [Host -> VoteRegistry]
           /\ peer_keys'[n] = peer_keys[n] \ {p}
           /\ \A q \in Host \ {n} : peer_keys'[q] = peer_keys[q]
<1> USE DEF prune_peer_locked
<1>1. total_nodes' \in [Host -> Nat \ {0}]
  BY AtLeastOneType DEF EngineTypeOK
<1>2. failures' \in [Host -> [Node -> Nat]]
  BY Zenon DEF EngineTypeOK
<1>3. /\ DOMAIN history' = Host
      /\ \A q \in Host : /\ DOMAIN history'[q] = Node
                        /\ \A s \in Node : DOMAIN history'[q][s] \subseteq Nat
  <2>1. DOMAIN NoHistory \subseteq Nat
    BY Zenon DEF NoHistory
  <2> QED
    BY <2>1 DEF EngineTypeOK
<1>4. votes' \in [Host -> VoteRegistry]
  BY WithoutVotesType, Zenon DEF EngineTypeOK, VoteRegistry
<1> QED
  BY <1>1, <1>2, <1>3, <1>4 DEF EngineTypeOK

LEMMA PruneInv ==
    ASSUME EngineInv, NEW n \in Host, NEW p \in Node, prune_peer(n, p)
    PROVE  EngineInv'
<1>1. prune_peer_locked(n, p, votes[n])
  BY Zenon DEF prune_peer
<1>2. votes[n] \in VoteRegistry /\ rounds[n] \in [Round -> ConsensusRound]
  BY Zenon DEF EngineInv, EngineTypeOK, VoteRegistry
<1>3. EngineTypeOK'
  BY <1>1, <1>2, PruneFacts, Zenon DEF prune_peer, EngineInv, EngineTypeOK, VoteRegistry
<1>4. /\ votes' = [votes EXCEPT ![n] = WithoutVotesOf(votes[n], p)]
      /\ rounds' = [rounds EXCEPT ![n] = rounds[n]]
  BY Zenon DEF prune_peer, prune_peer_locked, EngineInv, EngineTypeOK
<1>5. /\ peer_keys'[n] = peer_keys[n] \ {p}
      /\ \A q \in Host \ {n} : peer_keys'[q] = peer_keys[q]
  BY <1>1, <1>2, PruneFacts, Zenon DEF EngineInv
<1>6. WithoutVotesOf(votes[n], p) \in VoteRegistry
  BY <1>2, WithoutVotesType, Zenon
<1>7. \A k \in Round, s \in VoteStage :
         WithoutVotesOf(votes[n], p)[k][s] \subseteq peer_keys'[n]
  BY <1>2, <1>5, WithoutVotesType DEF EngineInv, VotesHaveKeys
<1>8. FitRounds(rounds[n], WithoutVotesOf(votes[n], p))
  BY <1>2, WithoutVotesType DEF EngineInv, VotesHaveRounds, FitRounds
<1>9. EngineTypeOK /\ VotesHaveKeys /\ VotesHaveRounds
  BY Zenon DEF EngineInv
<1>10. VotesHaveKeys' /\ VotesHaveRounds'
  BY <1>2, <1>4, <1>5, <1>6, <1>7, <1>8, <1>9, NewVotes, Zenon
<1> QED
  BY <1>3, <1>10, Zenon DEF EngineInv

\* record_failure, on a registry and rounds that fit, whatever its caller does
\* to the rest of the chain state.
LEMMA FailureInv ==
    ASSUME EngineInv, NEW n \in Host, NEW p \in Node,
           NEW v \in VoteRegistry, NEW r \in [Round -> ConsensusRound],
           FitVotes(n, v), FitRounds(r, v),
           record_failure(n, p, v),
           rounds' = [rounds EXCEPT ![n] = r],
           UNCHANGED <<equivocators, seen, rate, current_view>>
    PROVE  EngineInv'
<1>1. EngineTypeOK /\ VotesHaveKeys /\ VotesHaveRounds
  BY Zenon DEF EngineInv
<1>2. rounds' \in [Host -> [Round -> ConsensusRound]]
  BY <1>1, Zenon DEF EngineTypeOK
<1>3. CASE /\ failures' = [failures EXCEPT ![n][p] = @ + 1]
           /\ votes' = [votes EXCEPT ![n] = v]
           /\ UNCHANGED <<memberVars, history>>
  <2>1. EngineTypeOK'
    BY <1>1, <1>2, <1>3 DEF EngineTypeOK, memberVars, VoteRegistry
  <2>2. UNCHANGED peer_keys
    BY <1>3, Zenon DEF memberVars
  <2>3. VotesHaveKeys' /\ VotesHaveRounds'
    BY <1>1, <1>3, <2>2, NewVotes, Zenon DEF FitVotes
  <2> QED
    BY <2>1, <2>3, Zenon DEF EngineInv
<1>4. CASE /\ banned' = [banned EXCEPT ![n] = @ \cup {p}]
           /\ recent_bans' = [recent_bans EXCEPT ![n] = @ \cup {p}]
           /\ prune_peer_locked(n, p, v)
  <2>1. EngineTypeOK'
    <3>1. banned' \in [Host -> SUBSET Node] /\ recent_bans' \in [Host -> SUBSET Node]
      BY <1>1, <1>4 DEF EngineTypeOK
    <3> QED
      BY <1>1, <1>2, <1>4, <3>1, PruneFacts, Zenon DEF EngineTypeOK, VoteRegistry
  <2>2. /\ peer_keys'[n] = peer_keys[n] \ {p}
        /\ \A q \in Host \ {n} : peer_keys'[q] = peer_keys[q]
    BY <1>1, <1>4, PruneFacts, Zenon
  <2>3. votes' = [votes EXCEPT ![n] = WithoutVotesOf(v, p)]
    BY <1>4, Zenon DEF prune_peer_locked
  <2>4. WithoutVotesOf(v, p) \in VoteRegistry
    BY WithoutVotesType, Zenon
  <2>5. \A k \in Round, s \in VoteStage :
           WithoutVotesOf(v, p)[k][s] \subseteq peer_keys'[n]
    BY <2>2, WithoutVotesType DEF FitVotes
  <2>6. FitRounds(r, WithoutVotesOf(v, p))
    BY WithoutVotesType DEF FitRounds
  <2>7. VotesHaveKeys' /\ VotesHaveRounds'
    BY <1>1, <2>2, <2>3, <2>4, <2>5, <2>6, NewVotes, Zenon
  <2> QED
    BY <2>1, <2>7, Zenon DEF EngineInv
<1> QED
  BY <1>3, <1>4, Zenon DEF record_failure

LEMMA VerifyInv ==
    ASSUME EngineInv, NEW n \in Host, NEW m, IsMessage(m), NEW ok \in BOOLEAN,
           verify_message(n, m, ok)
    PROVE  EngineInv'
<1>1. m.sender \in Node
  BY Zenon DEF IsMessage
<1>2. CASE UNCHANGED engineVars
  BY <1>2, Zenon DEF EngineInv, EngineTypeOK, VotesHaveKeys, VotesHaveRounds,
              engineVars, memberVars, trustVars, chainVars, roundVars
<1>3. CASE /\ record_failure(n, m.sender, votes[n])
           /\ UNCHANGED <<equivocators, seen, rate, rounds, current_view>>
  <2>1. votes[n] \in VoteRegistry /\ rounds[n] \in [Round -> ConsensusRound]
    BY Zenon DEF EngineInv, EngineTypeOK, VoteRegistry
  <2>2. FitVotes(n, votes[n]) /\ FitRounds(rounds[n], votes[n])
    BY Zenon DEF EngineInv, VotesHaveKeys, VotesHaveRounds, FitVotes, FitRounds
  <2>3. rounds' = [rounds EXCEPT ![n] = rounds[n]]
    BY <1>3, Zenon DEF EngineInv, EngineTypeOK
  <2> QED
    BY <1>1, <1>3, <2>1, <2>2, <2>3, FailureInv, Zenon
<1>4. CASE /\ failures' = [failures EXCEPT ![n][m.sender] = 0]
           /\ UNCHANGED <<memberVars, equivocators, chainVars, roundVars,
                          current_view>>
  <2>1. EngineTypeOK'
    BY <1>1, <1>4, Zenon DEF EngineInv, EngineTypeOK, memberVars, chainVars, roundVars
  <2> QED
    BY <1>4, <2>1, SameVotes, Zenon DEF EngineInv, memberVars, roundVars
<1> QED
  BY <1>2, <1>3, <1>4, Zenon DEF verify_message

LEMMA TickStates ==
    ASSUME EngineInv, Tick
    PROVE  \A n \in Host, k \in Round : rounds'[n][k].state = rounds[n][k].state
<1> SUFFICES ASSUME NEW n \in Host, NEW k \in Round
             PROVE  rounds'[n][k].state = rounds[n][k].state
  OBVIOUS
<1>1. rounds[n][k] \in ConsensusRound
  BY DEF EngineInv, EngineTypeOK
<1>2. rounds'[n][k] = [rounds[n][k] EXCEPT !.idle =
                          IF rounds[n][k].state # "ABSENT" /\ @ <= ROUND_TTL
                          THEN @ + 1 ELSE @]
  BY Zenon DEF Tick
<1> QED
  BY <1>1, <1>2, Zenon DEF ConsensusRound

LEMMA TickInv ==
    ASSUME EngineInv, Tick
    PROVE  EngineInv'
<1>1. rounds' \in [Host -> [Round -> ConsensusRound]]
  <2> SUFFICES ASSUME NEW n \in Host, NEW k \in Round
               PROVE  [rounds[n][k] EXCEPT !.idle =
                          IF rounds[n][k].state # "ABSENT" /\ @ <= ROUND_TTL
                          THEN @ + 1 ELSE @] \in ConsensusRound
    BY Zenon DEF Tick
  <2>1. rounds[n][k] \in ConsensusRound
    BY DEF EngineInv, EngineTypeOK
  <2> QED
    BY <2>1, LimitsAssumption DEF ConsensusRound, Age
<1>2. rate' \in [Host -> [Node -> [1 .. RATE_MAX -> 0 .. RATE_WINDOW]]]
  <2> SUFFICES ASSUME NEW n \in Host, NEW p \in Node, NEW i \in 1 .. RATE_MAX
               PROVE  (IF rate[n][p][i] < RATE_WINDOW THEN rate[n][p][i] + 1
                       ELSE RATE_WINDOW) \in 0 .. RATE_WINDOW
    BY DEF Tick
  <2>1. rate \in [Host -> [Node -> [1 .. RATE_MAX -> 0 .. RATE_WINDOW]]]
    BY Zenon DEF EngineInv, EngineTypeOK
  <2>2. rate[n][p] \in [1 .. RATE_MAX -> 0 .. RATE_WINDOW]
    BY <2>1, Zenon
  <2>3. rate[n][p][i] \in 0 .. RATE_WINDOW
    BY <2>2, Zenon
  <2> QED
    BY <2>3, LimitsAssumption
<1>3. EngineTypeOK'
  BY <1>1, <1>2, Zenon DEF Tick, EngineInv, EngineTypeOK, memberVars, trustVars
<1>4. \A n \in Host, k \in Round : rounds'[n][k].state = rounds[n][k].state
  BY TickStates, Zenon
<1>5. VotesHaveKeys'
  BY Zenon DEF Tick, EngineInv, VotesHaveKeys, memberVars
<1>6. VotesHaveRounds'
  BY <1>4, Zenon DEF Tick, EngineInv, VotesHaveRounds
<1> QED
  BY <1>3, <1>5, <1>6, Zenon DEF EngineInv
-----------------------------------------------------------------------------
(* Advancing a round. *)

LEMMA LiveFacts ==
    ASSUME EngineInv, NEW n \in Host
    PROVE  /\ LiveVotes(n) \in VoteRegistry
           /\ LiveRounds(n) \in [Round -> ConsensusRound]
           /\ FitVotes(n, LiveVotes(n))
           /\ FitRounds(LiveRounds(n), LiveVotes(n))
<1>1. NoRound \in ConsensusRound
  BY LimitsAssumption DEF NoRound, ConsensusRound, Age
<1>2. NoVotes \in [VoteStage -> SUBSET Node]
  BY Zenon DEF NoVotes
<1>3. LiveVotes(n) \in VoteRegistry
  BY <1>2 DEF LiveVotes, VoteRegistry, EngineInv, EngineTypeOK
<1>4. LiveRounds(n) \in [Round -> ConsensusRound]
  BY <1>1 DEF LiveRounds, EngineInv, EngineTypeOK
<1>5. FitVotes(n, LiveVotes(n))
  BY Zenon DEF LiveVotes, NoVotes, FitVotes, EngineInv, VotesHaveKeys
<1>6. FitRounds(LiveRounds(n), LiveVotes(n))
  BY Zenon DEF LiveVotes, LiveRounds, FitRounds, EngineInv, VotesHaveRounds
<1> QED
  BY <1>3, <1>4, <1>5, <1>6, Zenon

LEMMA NextStageType ==
    ASSUME NEW state \in PBFTStage, NEW s, NEW c, NEW q
    PROVE  NextStage(state, s, c, q) \in PBFTStage
BY Zenon DEF NextStage, PBFTStage

LEMMA OpenedFacts ==
    ASSUME EngineInv, NEW n \in Host, NEW m, IsMessage(m)
    PROVE  Opened(n, m) \in ConsensusRound /\ Opened(n, m).state \in PBFTStage
<1>1. m.round \in Round /\ m.view \in Nat
  BY Zenon DEF IsMessage
<1>2. LiveRounds(n)[m.round] \in ConsensusRound
  BY <1>1, LiveFacts, Zenon
<1> QED
  BY <1>1, <1>2, Zenon DEF Opened, ConsensusRound, PBFTStage

\* The registry and the round that counting a vote leaves still fit.
LEMMA VoteAdded ==
    ASSUME EngineInv, NEW n \in Host, NEW m, IsMessage(m),
           m.sender \in peer_keys[n]
    PROVE  LET v == LiveVotes(n)
               voted == [v EXCEPT ![m.round][m.stage] = @ \cup {m.sender}]
           IN  /\ voted \in VoteRegistry
               /\ FitVotes(n, voted)
               /\ \A k \in Round \ {m.round} : voted[k] = v[k]
<1>1. m.round \in Round /\ m.stage \in VoteStage /\ m.sender \in Node
  BY Zenon DEF IsMessage
<1>2. LiveVotes(n) \in VoteRegistry /\ FitVotes(n, LiveVotes(n))
  BY LiveFacts, Zenon
<1> QED
  BY <1>1, <1>2, Zenon DEF VoteRegistry, FitVotes

LEMMA CountVoteFacts ==
    ASSUME EngineInv, NEW n \in Host, NEW m, IsMessage(m), NEW r,
           m.sender \in peer_keys[n], CountVote(n, m, r)
    PROVE  \E v \in VoteRegistry, x \in [Round -> ConsensusRound] :
              /\ votes' = [votes EXCEPT ![n] = v]
              /\ rounds' = [rounds EXCEPT ![n] = x]
              /\ FitVotes(n, v) /\ FitRounds(x, v)
<1> DEFINE v == LiveVotes(n)
           voted == [v EXCEPT ![m.round][m.stage] = @ \cup {m.sender}]
           round == Opened(n, m)
           active == [round EXCEPT !.idle = 0]
           next == NextStage(round.state, m.stage,
                             Cardinality(voted[m.round][m.stage]), quorum(n))
           moved == [active EXCEPT !.state = next]
           after(y) == [LiveRounds(n) EXCEPT ![m.round] = y]
           Left(w, y) == /\ votes' = [votes EXCEPT ![n] = w]
                         /\ rounds' = [rounds EXCEPT ![n] = after(y)]
<1>1. m.round \in Round /\ m.stage \in VoteStage /\ m.sender \in Node
  BY Zenon DEF IsMessage
<1>2. /\ v \in VoteRegistry /\ FitVotes(n, v) /\ FitRounds(LiveRounds(n), v)
      /\ LiveRounds(n) \in [Round -> ConsensusRound]
  BY LiveFacts, Zenon
<1>3. /\ voted \in VoteRegistry /\ FitVotes(n, voted)
      /\ \A k \in Round \ {m.round} : voted[k] = v[k]
  BY VoteAdded, Zenon
<1>4. round \in ConsensusRound /\ round.state \in PBFTStage
  BY OpenedFacts, Zenon
<1>5. active \in ConsensusRound /\ active.state \in PBFTStage
  BY <1>4, LimitsAssumption DEF ConsensusRound, Age
<1>6. moved \in ConsensusRound /\ moved.state \in PBFTStage
  <2>1. next \in PBFTStage
    BY <1>4, NextStageType, Zenon
  <2> QED
    BY <1>5, <2>1, Zenon DEF ConsensusRound
<1>7. \A y \in ConsensusRound : y.state \in PBFTStage =>
         /\ after(y) \in [Round -> ConsensusRound]
         /\ FitRounds(after(y), v) /\ FitRounds(after(y), voted)
  BY <1>1, <1>2, <1>3, Zenon DEF FitRounds, PBFTStage
<1>8. CASE Left(v, LiveRounds(n)[m.round])
  <2>1. after(LiveRounds(n)[m.round]) = LiveRounds(n)
    BY <1>1, <1>2, Zenon
  <2> QED
    BY <1>2, <1>8, <2>1, Zenon
<1>9. CASE Left(voted, round)
  BY <1>3, <1>4, <1>7, <1>9, Zenon
<1>10. CASE Left(v, active)
  BY <1>2, <1>5, <1>7, <1>10, Zenon
<1>11. CASE Left(voted, moved)
  BY <1>3, <1>6, <1>7, <1>11, Zenon
<1> QED
  BY <1>8, <1>9, <1>10, <1>11, Zenon DEF CountVote

LEMMA StampRateType ==
    ASSUME EngineTypeOK, NEW n \in Host, NEW m, IsMessage(m), StampRate(n, m)
    PROVE  rate' \in [Host -> [Node -> [1 .. RATE_MAX -> 0 .. RATE_WINDOW]]]
<1>1. m.sender \in Node
  BY Zenon DEF IsMessage
<1>2. Stamped(rate[n][m.sender]) \in [1 .. RATE_MAX -> 0 .. RATE_WINDOW]
  BY <1>1, LimitsAssumption DEF Stamped, EngineTypeOK
<1> QED
  BY <1>1, <1>2, Zenon DEF StampRate, EngineTypeOK

LEMMA DetectType ==
    ASSUME EngineTypeOK, NEW n \in Host, NEW m, IsMessage(m),
           detect_equivocation(n, m)
    PROVE  /\ equivocators' \in [Host -> SUBSET Node]
           /\ failures' \in [Host -> [Node -> Nat]]
           /\ DOMAIN history' = Host
           /\ \A q \in Host : /\ DOMAIN history'[q] = Node
                             /\ \A s \in Node : DOMAIN history'[q][s] \subseteq Nat
<1> DEFINE h == history[n][m.sender]
           seqs == DOMAIN h \cup {m.seq}
           kept == IF Cardinality(seqs) <= MAX_MSG_HISTORY THEN seqs
                   ELSE {s \in seqs : \E t \in seqs : t < s}
           stored == [s \in kept |-> IF s = m.seq THEN compute_message_hash(m)
                                     ELSE h[s]]
<1>1. m.sender \in Node /\ m.seq \in Nat
  BY Zenon DEF IsMessage
<1>2. equivocators' \in [Host -> SUBSET Node] /\ failures' \in [Host -> [Node -> Nat]]
  <2>1. \/ /\ equivocators' = [equivocators EXCEPT ![n] = @ \cup {m.sender}]
           /\ failures' = [failures EXCEPT ![n][m.sender] = @ + 1]
        \/ UNCHANGED trustVars
    BY Zenon DEF detect_equivocation
  <2>2. CASE UNCHANGED trustVars
    BY <2>2, Zenon DEF EngineTypeOK, trustVars
  <2>3. CASE /\ equivocators' = [equivocators EXCEPT ![n] = @ \cup {m.sender}]
             /\ failures' = [failures EXCEPT ![n][m.sender] = @ + 1]
    BY <1>1, <2>3 DEF EngineTypeOK
  <2> QED
    BY <2>1, <2>2, <2>3, Zenon
<1>3. DOMAIN stored \subseteq Nat
  BY <1>1, Zenon DEF EngineTypeOK
<1>4. history' = [history EXCEPT ![n][m.sender] = stored]
  BY Zenon DEF detect_equivocation
<1> HIDE DEF stored
<1> QED
  BY <1>1, <1>2, <1>3, <1>4 DEF EngineTypeOK

LEMMA RememberSeenDomain ==
    ASSUME EngineTypeOK, NEW n \in Host, NEW m, IsMessage(m), RememberSeen(n, m)
    PROVE  DOMAIN seen' = Host
<1>1. \E x : seen' = [seen EXCEPT ![n] = x]
  BY Zenon DEF RememberSeen
<1> QED
  BY <1>1, Zenon DEF EngineTypeOK

LEMMA AdvanceStateInv ==
    ASSUME EngineInv, NEW n \in Host, NEW m, IsMessage(m), NEW r \in PBFTStage,
           advance_state(n, m, r)
    PROVE  EngineInv'
<1>1. m.sender \in Node /\ EngineTypeOK /\ VotesHaveKeys /\ VotesHaveRounds
  BY Zenon DEF IsMessage, EngineInv
<1>2. CASE UNCHANGED engineVars
  BY <1>2, Zenon DEF EngineInv, EngineTypeOK, VotesHaveKeys, VotesHaveRounds,
              engineVars, memberVars, trustVars, chainVars, roundVars
<1>3. CASE RateLimited(n, m, r) /\ UNCHANGED current_view
  BY <1>1, <1>3, LiveFacts, FailureInv, Zenon DEF RateLimited
<1>4. CASE Repeated(n, m, r) /\ UNCHANGED current_view
  <2>1. /\ votes' = [votes EXCEPT ![n] = LiveVotes(n)]
        /\ rounds' = [rounds EXCEPT ![n] = LiveRounds(n)]
        /\ UNCHANGED peer_keys
    BY <1>4, Zenon DEF Repeated, memberVars
  <2>2. /\ LiveVotes(n) \in VoteRegistry
        /\ LiveRounds(n) \in [Round -> ConsensusRound]
        /\ FitVotes(n, LiveVotes(n)) /\ FitRounds(LiveRounds(n), LiveVotes(n))
    BY LiveFacts, Zenon
  <2>3. rate' \in [Host -> [Node -> [1 .. RATE_MAX -> 0 .. RATE_WINDOW]]]
    BY <1>1, <1>4, StampRateType, Zenon DEF Repeated
  <2>4. /\ votes' \in [Host -> VoteRegistry]
        /\ rounds' \in [Host -> [Round -> ConsensusRound]]
    BY <1>1, <2>1, <2>2, Zenon DEF EngineTypeOK, VoteRegistry
  <2>5. EngineTypeOK'
    BY <1>1, <1>4, <2>3, <2>4, Zenon
       DEF Repeated, EngineTypeOK, memberVars, trustVars, VoteRegistry
  <2>6. VotesHaveKeys' /\ VotesHaveRounds'
    BY <1>1, <2>1, <2>2, NewVotes, Zenon DEF FitVotes
  <2> QED
    BY <2>5, <2>6, Zenon DEF EngineInv
<1>5. CASE ~Dropped(n, m.sender) /\ Counted(n, m, r) /\ UNCHANGED current_view
  <2>1. PICK v \in VoteRegistry, x \in [Round -> ConsensusRound] :
           /\ votes' = [votes EXCEPT ![n] = v]
           /\ rounds' = [rounds EXCEPT ![n] = x]
           /\ FitVotes(n, v) /\ FitRounds(x, v)
    BY <1>5, CountVoteFacts, Zenon DEF Counted, Dropped
  <2>2. UNCHANGED memberVars
    BY <1>5, Zenon DEF Counted
  <2>3. rate' \in [Host -> [Node -> [1 .. RATE_MAX -> 0 .. RATE_WINDOW]]]
    BY <1>1, <1>5, StampRateType, Zenon DEF Counted
  <2>4. DOMAIN seen' = Host
    BY <1>1, <1>5, RememberSeenDomain, Zenon DEF Counted
  <2>5. /\ equivocators' \in [Host -> SUBSET Node]
        /\ failures' \in [Host -> [Node -> Nat]]
        /\ DOMAIN history' = Host
        /\ \A q \in Host : /\ DOMAIN history'[q] = Node
                          /\ \A s \in Node : DOMAIN history'[q][s] \subseteq Nat
    BY <1>1, <1>5, DetectType, Zenon DEF Counted
  <2>6. /\ votes' \in [Host -> VoteRegistry]
        /\ rounds' \in [Host -> [Round -> ConsensusRound]]
    BY <1>1, <2>1, Zenon DEF EngineTypeOK, VoteRegistry
  <2>7. EngineTypeOK'
    BY <1>1, <1>5, <2>2, <2>3, <2>4, <2>5, <2>6, Zenon
       DEF EngineTypeOK, memberVars, VoteRegistry
  <2>8. VotesHaveKeys' /\ VotesHaveRounds'
    BY <1>1, <2>1, <2>2, NewVotes, Zenon DEF FitVotes, memberVars
  <2> QED
    BY <2>7, <2>8, Zenon DEF EngineInv
<1> QED
  BY <1>2, <1>3, <1>4, <1>5, Zenon DEF advance_state

LEMMA StutterInv ==
    ASSUME EngineInv, UNCHANGED engineVars
    PROVE  EngineInv'
BY Zenon DEF EngineInv, EngineTypeOK, VotesHaveKeys, VotesHaveRounds,
       engineVars, memberVars, trustVars, chainVars, roundVars
-----------------------------------------------------------------------------
(* Votes and quorums. *)

LEMMA VotersFinite ==
    ASSUME NEW A \in SUBSET Node, NEW B \in SUBSET Node, A \subseteq B
    PROVE  /\ Cardinality(A) \in Nat /\ Cardinality(B) \in Nat
           /\ Cardinality(A) <= Cardinality(B)
<1>1. IsFiniteSet(B)
  BY HostAssumption, FS_Subset, Zenon
<1> QED
  BY <1>1, FS_Subset, FS_CardinalityType, Zenon

LEMMA QuorumType ==
    ASSUME EngineTypeOK, NEW n \in Host
    PROVE  quorum(n) \in Nat \ {0}
BY DEF EngineTypeOK, quorum, QuorumSize, MaxFaulty

LEMMA LiveVotesShrink ==
    ASSUME EngineInv, NEW n \in Host
    PROVE  \A k \in Round, s \in VoteStage : LiveVotes(n)[k][s] \subseteq votes[n][k][s]
BY Zenon DEF LiveVotes, NoVotes

\* What moves a round to each stage.
LEMMA NextStageCause ==
    ASSUME NEW state \in PBFTStage, NEW s, NEW c, NEW q
    PROVE  LET next == NextStage(state, s, c, q)
           IN  /\ next = "PREPARE" /\ state # "PREPARE"
                     => s \in {"PRE_PREPARE", "BAN_PEER"}
               /\ next = "COMMIT" /\ state # "COMMIT" => s = "PREPARE" /\ c >= q
               /\ next = "EXECUTED" /\ state # "EXECUTED"
                     => state = "COMMIT" /\ s = "COMMIT" /\ c >= q
BY Zenon DEF NextStage, PBFTStage

\* A step gains no votes but, on n, those of A for the round k and the stage s.
GainsOnly(n, k, s, A) ==
    \A q \in Host, j \in Round, u \in VoteStage :
        \/ votes'[q][j][u] \subseteq votes[q][j][u]
        \/ q = n /\ j = k /\ u = s /\ votes'[q][j][u] \subseteq votes[q][j][u] \cup A

LEMMA NoGain ==
    ASSUME EngineTypeOK, NEW n \in Host, NEW v, NEW k, NEW s, NEW A,
           votes' = [votes EXCEPT ![n] = v],
           \A j \in Round, u \in VoteStage :
              \/ v[j][u] \subseteq votes[n][j][u]
              \/ j = k /\ u = s /\ v[j][u] \subseteq votes[n][j][u] \cup A
    PROVE  GainsOnly(n, k, s, A)
<1>1. votes'[n] = v /\ \A q \in Host \ {n} : votes'[q] = votes[q]
  BY Zenon DEF EngineTypeOK
<1> QED
  BY <1>1 DEF GainsOnly

LEMMA FailureVotes ==
    ASSUME EngineTypeOK, NEW n \in Host, NEW p \in Node, NEW v \in VoteRegistry,
           \A k \in Round, s \in VoteStage : v[k][s] \subseteq votes[n][k][s],
           record_failure(n, p, v), NEW j, NEW u, NEW A
    PROVE  GainsOnly(n, j, u, A)
<1>1. CASE votes' = [votes EXCEPT ![n] = v]
  BY <1>1, NoGain, Zenon
<1>2. CASE prune_peer_locked(n, p, v)
  <2>1. votes' = [votes EXCEPT ![n] = WithoutVotesOf(v, p)]
    BY <1>2, Zenon DEF prune_peer_locked
  <2>2. \A k \in Round, s \in VoteStage :
           WithoutVotesOf(v, p)[k][s] \subseteq votes[n][k][s]
    BY WithoutVotesType
  <2> QED
    BY <2>1, <2>2, NoGain, Zenon
<1> QED
  BY <1>1, <1>2, Zenon DEF record_failure

LEMMA VerifyVotes ==
    ASSUME EngineTypeOK, NEW n \in Host, NEW m, IsMessage(m), NEW ok,
           verify_message(n, m, ok), NEW j, NEW u, NEW A
    PROVE  GainsOnly(n, j, u, A)
<1>1. m.sender \in Node /\ votes[n] \in VoteRegistry
  BY Zenon DEF IsMessage, EngineTypeOK, VoteRegistry
<1>2. UNCHANGED votes \/ record_failure(n, m.sender, votes[n])
  BY Zenon DEF verify_message, engineVars, roundVars
<1>3. CASE UNCHANGED votes
  BY <1>3, Zenon DEF GainsOnly
<1>4. CASE record_failure(n, m.sender, votes[n])
  BY <1>1, <1>4, FailureVotes, Zenon
<1> QED
  BY <1>2, <1>3, <1>4, Zenon

\* advance_state counts the vote that the message is, or none; it moves the
\* round on only with the message that this takes and, beyond PREPARE, with a
\* quorum of votes of the stage of the message.
LEMMA AdvanceVotes ==
    ASSUME EngineInv, NEW n \in Host, NEW m, IsMessage(m), NEW r,
           advance_state(n, m, r)
    PROVE  /\ GainsOnly(n, m.round, m.stage, {m.sender})
           /\ r = "PREPARE" => m.stage \in {"PRE_PREPARE", "BAN_PEER"}
           /\ r = "COMMIT" => m.stage = "PREPARE"
           /\ r = "EXECUTED" => m.stage = "COMMIT"
           /\ r \in {"COMMIT", "EXECUTED"}
                 => Cardinality(votes'[n][m.round][m.stage]) >= quorum(n)
<1>1. m.sender \in Node /\ m.round \in Round /\ m.stage \in VoteStage /\ EngineTypeOK
  BY Zenon DEF IsMessage, EngineInv
<1>2. LiveVotes(n) \in VoteRegistry
  BY LiveFacts, Zenon
<1>3. CASE r = "IDLE" /\ UNCHANGED engineVars
  BY <1>3, Zenon DEF GainsOnly, engineVars, roundVars
<1>4. CASE RateLimited(n, m, r)
  <2>1. r = "IDLE" /\ record_failure(n, m.sender, LiveVotes(n))
    BY <1>4, Zenon DEF RateLimited
  <2>2. GainsOnly(n, m.round, m.stage, {m.sender})
    BY <1>1, <1>2, <2>1, LiveVotesShrink, FailureVotes, Zenon
  <2> QED
    BY <2>1, <2>2, Zenon
<1>5. CASE Repeated(n, m, r)
  <2>1. r = "IDLE" /\ votes' = [votes EXCEPT ![n] = LiveVotes(n)]
    BY <1>5, Zenon DEF Repeated
  <2>2. GainsOnly(n, m.round, m.stage, {m.sender})
    BY <1>1, <2>1, LiveVotesShrink, NoGain, Zenon
  <2> QED
    BY <2>1, <2>2, Zenon
<1>6. CASE ~Dropped(n, m.sender) /\ Counted(n, m, r)
  <2> DEFINE v == LiveVotes(n)
             voted == [v EXCEPT ![m.round][m.stage] = @ \cup {m.sender}]
             state == Opened(n, m).state
             next == NextStage(state, m.stage,
                               Cardinality(voted[m.round][m.stage]), quorum(n))
  <2>1. CountVote(n, m, r)
    BY <1>6, Zenon DEF Counted
  <2>2. \/ r = "IDLE" /\ votes' = [votes EXCEPT ![n] = v]
        \/ r = "IDLE" /\ votes' = [votes EXCEPT ![n] = voted]
        \/ /\ r = IF next = state THEN "IDLE" ELSE next
           /\ votes' = [votes EXCEPT ![n] = voted]
    BY <2>1, Zenon DEF CountVote
  <2>3. state \in PBFTStage
    BY OpenedFacts, Zenon
  <2>4. \A j \in Round, u \in VoteStage : v[j][u] \subseteq votes[n][j][u]
    BY LiveVotesShrink, Zenon
  <2>5. \A j \in Round, u \in VoteStage :
           \/ voted[j][u] \subseteq votes[n][j][u]
           \/ /\ j = m.round /\ u = m.stage
              /\ voted[j][u] \subseteq votes[n][j][u] \cup {m.sender}
    BY <1>1, <1>2, <2>4, Zenon DEF VoteRegistry
  <2>6. /\ next = "PREPARE" /\ state # "PREPARE" => m.stage \in {"PRE_PREPARE", "BAN_PEER"}
        /\ next = "COMMIT" /\ state # "COMMIT" =>
              /\ m.stage = "PREPARE"
              /\ Cardinality(voted[m.round][m.stage]) >= quorum(n)
        /\ next = "EXECUTED" /\ state # "EXECUTED" =>
              /\ m.stage = "COMMIT"
              /\ Cardinality(voted[m.round][m.stage]) >= quorum(n)
    BY <2>3, NextStageCause
  <2> HIDE DEF v, voted, state, next
  <2>7. GainsOnly(n, m.round, m.stage, {m.sender})
    BY <1>1, <2>2, <2>4, <2>5, NoGain, Zenon
  <2>8. votes' = [votes EXCEPT ![n] = voted]
          => votes'[n][m.round][m.stage] = voted[m.round][m.stage]
    BY <1>1, Zenon DEF EngineTypeOK
  <2> QED
    BY <2>2, <2>6, <2>7, <2>8, Zenon
<1> QED
  BY <1>3, <1>4, <1>5, <1>6, Zenon DEF advance_state

-----------------------------------------------------------------------------
(***************************************************************************)
(* What the dynamic quorum guarantees for every size of the mesh.          *)
(***************************************************************************)

\* quorum_size never asks for no vote, nor for more votes than there are nodes.
THEOREM QuorumFits ==
    ASSUME NEW n \in Nat \ {0}
    PROVE  QuorumSize(n) \in 1 .. n
BY DEF QuorumSize, MaxFaulty

\* A larger mesh never has a smaller quorum.
THEOREM QuorumGrows ==
    ASSUME NEW n \in Nat, NEW k \in Nat, n <= k
    PROVE  QuorumSize(n) <= QuorumSize(k)
BY DEF QuorumSize, MaxFaulty

\* Inclusion and exclusion: what two subsets of S share.
LEMMA SharedMembers ==
    ASSUME NEW S, IsFiniteSet(S), NEW P \in SUBSET S, NEW Q \in SUBSET S
    PROVE  /\ Cardinality(P \cap Q) \in Nat
           /\ Cardinality(P) + Cardinality(Q) - Cardinality(P \cap Q)
                 <= Cardinality(S)
<1>1. IsFiniteSet(P) /\ IsFiniteSet(Q)
  BY FS_Subset, Zenon
<1>2. /\ IsFiniteSet(P \cup Q)
      /\ Cardinality(P \cup Q) =
            Cardinality(P) + Cardinality(Q) - Cardinality(P \cap Q)
  BY <1>1, FS_Union, Zenon
<1>3. Cardinality(P \cup Q) <= Cardinality(S)
  BY FS_Subset, Zenon
<1>4. IsFiniteSet(P \cap Q)
  BY <1>1, FS_Subset, Zenon
<1> QED
  BY <1>2, <1>3, <1>4, FS_CardinalityType, Zenon

\* Two quorums of a mesh of 3f + 1 nodes share at least f + 1 nodes, so at
\* least one that is not faulty: what docs/adr/0001 chooses 2f + 1 for.
THEOREM QuorumsShareCorrectNode ==
    ASSUME NEW S, IsFiniteSet(S), NEW f \in Nat, Cardinality(S) = 3 * f + 1,
           NEW P \in SUBSET S, NEW Q \in SUBSET S,
           Cardinality(P) >= QuorumSize(3 * f + 1),
           Cardinality(Q) >= QuorumSize(3 * f + 1)
    PROVE  Cardinality(P \cap Q) >= f + 1
<1>1. QuorumSize(3 * f + 1) = 2 * f + 1
  BY DEF QuorumSize, MaxFaulty
<1>2. Cardinality(P) \in Nat /\ Cardinality(Q) \in Nat
  BY FS_Subset, FS_CardinalityType, Zenon
<1> QED
  BY <1>1, <1>2, SharedMembers

\* quorum_size is a majority, except of 2, 3 or 6 nodes.
LEMMA QuorumIsMajority ==
    ASSUME NEW n \in Nat, n \notin {0, 2, 3, 6}
    PROVE  QuorumSize(n) \in Nat /\ 2 * QuorumSize(n) > n
BY DEF QuorumSize, MaxFaulty

\* Two quorums of the same mesh meet, unless it has 2, 3 or 6 nodes: the sizes
\* for which quorum_size is not a majority.
THEOREM QuorumsMeetExcept ==
    ASSUME NEW S, IsFiniteSet(S), Cardinality(S) \notin {0, 2, 3, 6},
           NEW P \in SUBSET S, NEW Q \in SUBSET S,
           Cardinality(P) >= QuorumSize(Cardinality(S)),
           Cardinality(Q) >= QuorumSize(Cardinality(S))
    PROVE  P \cap Q # {}
<1>1. Cardinality(S) \in Nat /\ Cardinality(P) \in Nat /\ Cardinality(Q) \in Nat
  BY FS_Subset, FS_CardinalityType, Zenon
<1>2. /\ QuorumSize(Cardinality(S)) \in Nat
      /\ 2 * QuorumSize(Cardinality(S)) > Cardinality(S)
  BY <1>1, QuorumIsMajority, Zenon
<1>3. Cardinality(P \cap Q) # 0
  BY <1>1, <1>2, SharedMembers
<1> QED
  BY <1>3, FS_EmptySet, Zenon
=============================================================================
