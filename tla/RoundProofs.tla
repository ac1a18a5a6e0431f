---------------------------- MODULE RoundProofs -----------------------------
(***************************************************************************)
(* What the rounds of a mesh lead to: the votes that are counted were      *)
(* cast, the mesh implements quorum voting, and a node carries a round out *)
(* once, for every set of nodes, threads and rounds, under loss,           *)
(* repetition and every order of the datagrams.                            *)
(***************************************************************************)
EXTENDS MeshProofs
-----------------------------------------------------------------------------
(* Votes that are counted were cast. *)

CastIn(S, stage, k) ==
    {p \in Host : \E m \in S : m.sender = p /\ m.stage = stage /\ m.round = k}

LEMMA CastIs ==
    /\ \A stage, k : Cast(stage, k) = CastIn(sent, stage, k)
    /\ \A stage, k : Cast(stage, k)' = CastIn(sent', stage, k)
BY Zenon DEF Cast, CastIn

LEMMA CastKeeps ==
    ASSUME NEW S, NEW T, S \subseteq T, NEW stage, NEW k
    PROVE  CastIn(S, stage, k) \subseteq CastIn(T, stage, k)
BY Zenon DEF CastIn

\* A step of the mesh takes back no message, and counts no vote but that of a
\* message which was sent.
CountsSent ==
    \/ UNCHANGED votes
    \/ \E n \in Host, m \in sent : GainsOnly(n, m.round, m.stage, {m.sender})

LEMMA StepCounts == MeshInv /\ [MeshNext]_meshVars => sent \subseteq sent' /\ CountsSent
<1> SUFFICES ASSUME MeshInv, [MeshNext]_meshVars PROVE sent \subseteq sent' /\ CountsSent
  OBVIOUS
<1>1. CASE UNCHANGED <<votes, sent>>
  BY <1>1, Zenon DEF CountsSent
<1>2. CASE UNCHANGED meshVars
  BY <1>1, <1>2, Zenon DEF meshVars, engineVars, roundVars
<1>3. ASSUME NEW n \in Host, Starting(n) PROVE UNCHANGED <<votes, sent>>
  BY <1>3, Zenon DEF Starting, SetCooldown, CheckCooldown, DrainBans, drain_recent_bans,
              ProposeBan, engineVars, roundVars
<1>4. ASSUME NEW n \in Host, NEW t \in Thread, TakeSequence(n, t) \/ Execute(n, t)
      PROVE  UNCHANGED <<votes, sent>>
  BY <1>4, Zenon DEF TakeSequence, Execute, ban_peer_local, engineVars, roundVars
<1>5. ASSUME NEW n \in Host, NEW t \in Thread, SendVote(n, t)
      PROVE  sent \subseteq sent' /\ UNCHANGED votes
  BY <1>5, Zenon DEF SendVote, set_round_commit_sig, engineVars, roundVars
<1>6. ASSUME NEW n \in Host, NEW t \in Thread, VerifyOwn(n, t)
      PROVE  UNCHANGED sent /\ CountsSent
  <2> DEFINE m == thr[n][t].msg
  <2>1. m \in sent /\ IsMessage(m)
    BY <1>6, MessageInHand, Zenon DEF VerifyOwn
  <2>2. \E ok \in BOOLEAN : verify_message(n, m, ok)
    BY <1>6, Zenon DEF VerifyOwn
  <2>3. UNCHANGED sent
    BY <1>6, Zenon DEF VerifyOwn
  <2> HIDE DEF m
  <2>4. GainsOnly(n, m.round, m.stage, {m.sender})
    BY <2>1, <2>2, VerifyVotes, Zenon DEF MeshInv, EngineInv
  <2> QED
    BY <2>1, <2>3, <2>4, Zenon DEF CountsSent
<1>7. ASSUME NEW n \in Host, NEW m \in net[n], Receive(n, m)
      PROVE  UNCHANGED sent /\ CountsSent
  <2>1. m \in sent /\ IsMessage(m)
    BY Zenon DEF MeshInv, NodesTyped, SentTyped
  <2>2. UNCHANGED sent /\ \E ok \in BOOLEAN : verify_message(n, m, ok)
    BY <1>7, Zenon DEF Receive
  <2>3. GainsOnly(n, m.round, m.stage, {m.sender})
    BY <2>1, <2>2, VerifyVotes, Zenon DEF MeshInv, EngineInv
  <2> QED
    BY <2>1, <2>2, <2>3, Zenon DEF CountsSent
<1>8. ASSUME NEW n \in Host, NEW t \in Thread, Advance(n, t)
      PROVE  UNCHANGED sent /\ CountsSent
  <2> DEFINE m == thr[n][t].msg
  <2>1. m \in sent /\ IsMessage(m)
    BY <1>8, MessageInHand, AdvanceFacts, Zenon
  <2>2. UNCHANGED sent /\ \E r \in PBFTStage : advance_state(n, m, r)
    BY <1>8, AdvanceFacts, Zenon DEF AdvanceWith
  <2> HIDE DEF m
  <2>3. GainsOnly(n, m.round, m.stage, {m.sender})
    BY <2>1, <2>2, AdvanceVotes, Zenon DEF MeshInv
  <2> QED
    BY <2>1, <2>2, <2>3, Zenon DEF CountsSent
<1>9. ASSUME NEW n \in Host, NEW t \in Thread, Broadcasting(n, t)
      PROVE  sent \subseteq sent' /\ CountsSent
  BY <1>1, <1>4, <1>5, <1>6, <1>8, <1>9, Zenon DEF Broadcasting, CountsSent
<1> QED
  BY <1>1, <1>2, <1>3, <1>7, <1>9 DEF MeshNext

LEMMA VotesStep ==
    ASSUME MeshInv, VotesWereCast, [MeshNext]_meshVars
    PROVE  VotesWereCast'
<1>1. sent \subseteq sent' /\ CountsSent
  BY StepCounts, Zenon
<1> SUFFICES ASSUME NEW n \in Host, NEW k \in Round, NEW s \in VoteStage
             PROVE  votes'[n][k][s] \subseteq CastIn(sent', s, k)
  BY CastIs, Zenon DEF VotesWereCast
<1>2. votes[n][k][s] \subseteq CastIn(sent', s, k)
  BY <1>1, CastIs, CastKeeps, Zenon DEF VotesWereCast
<1>3. CASE UNCHANGED votes
  BY <1>2, <1>3, Zenon
<1>4. ASSUME NEW q \in Host, NEW m \in sent, GainsOnly(q, m.round, m.stage, {m.sender})
      PROVE  votes'[n][k][s] \subseteq CastIn(sent', s, k)
  <2>1. m.sender \in CastIn(sent', m.stage, m.round)
    BY <1>1, Zenon DEF CastIn, MeshInv, SentTyped
  <2>2. \/ votes'[n][k][s] \subseteq votes[n][k][s]
        \/ /\ k = m.round /\ s = m.stage
           /\ votes'[n][k][s] \subseteq votes[n][k][s] \cup {m.sender}
    BY <1>4, Zenon DEF GainsOnly
  <2> QED
    BY <1>2, <2>1, <2>2, Zenon
<1> QED
  BY <1>1, <1>3, <1>4, Zenon DEF CountsSent

LEMMA VotesInit == MeshInit => VotesWereCast
BY DEF MeshInit, EngineInit, NoVotes, VotesWereCast

\* Whatever the network does and however the threads of a node interleave, a
\* vote in the registry of a node is one that its sender broadcast for that
\* round and stage.
THEOREM CountedVotesWereCast == MeshSpec => []VotesWereCast
<1>1. MeshInit => MeshInv /\ VotesWereCast
  BY InitMesh, VotesInit, Zenon
<1>2. MeshInv /\ VotesWereCast /\ [MeshNext]_meshVars => MeshInv' /\ VotesWereCast'
  BY MeshStep, VotesStep, Zenon
<1> QED
  BY <1>1, <1>2, PTL DEF MeshSpec
-----------------------------------------------------------------------------
(* The mesh implements quorum voting. *)

Enough(A) == Cardinality(A) >= QuorumSize(Cardinality(Node))

\* A thread at pc with m, when the messages in S have been sent: what it is
\* about to vote for or to carry out has the votes it takes.
Backed(pc, m, S) ==
    /\ pc \in {"cool", "broadcast", "chain"} =>
          /\ m.stage = "PREPARE" => CastIn(S, "PRE_PREPARE", m.round) # {}
          /\ m.stage = "COMMIT" => Enough(CastIn(S, "PREPARE", m.round))
    /\ pc = "execute" => Enough(CastIn(S, "COMMIT", m.round))
ThreadsBacked ==
    \A n \in Host, t \in Thread : Backed(thr[n][t].pc, thr[n][t].msg, sent)
SteadyInv == /\ MeshInv /\ VotesWereCast /\ ThreadsBacked
             /\ total_nodes = [n \in Host |-> Cardinality(Node)]

LEMMA EnoughKeeps ==
    ASSUME NEW A, NEW B, B \subseteq Host, A \subseteq B, Enough(A)
    PROVE  Enough(B)
<1>1. A \in SUBSET Node /\ B \in SUBSET Node
  BY HostAssumption, Zenon
<1>2. /\ Cardinality(A) \in Nat /\ Cardinality(B) \in Nat
      /\ Cardinality(A) <= Cardinality(B)
  BY <1>1, VotersFinite, Zenon
<1>3. QuorumSize(Cardinality(Node)) \in Int
  BY HostAssumption, FS_CardinalityType DEF QuorumSize, MaxFaulty
<1> QED
  BY <1>2, <1>3 DEF Enough

LEMMA BackedKeeps ==
    ASSUME NEW S, NEW T, S \subseteq T, NEW pc, NEW m, Backed(pc, m, S)
    PROVE  Backed(pc, m, T)
<1>1. \A stage, k : CastIn(S, stage, k) \subseteq CastIn(T, stage, k)
  BY CastKeeps, Zenon
<1>2. \A stage, k : Enough(CastIn(S, stage, k)) => Enough(CastIn(T, stage, k))
  <2> SUFFICES ASSUME NEW stage, NEW k, Enough(CastIn(S, stage, k))
               PROVE  Enough(CastIn(T, stage, k))
    OBVIOUS
  <2>1. CastIn(T, stage, k) \subseteq Host
    BY Zenon DEF CastIn
  <2> QED
    BY <1>1, <2>1, EnoughKeeps, Zenon
<1>3. \A k : CastIn(S, "PRE_PREPARE", k) # {} => CastIn(T, "PRE_PREPARE", k) # {}
  <2> SUFFICES ASSUME NEW k, CastIn(S, "PRE_PREPARE", k) # {}
               PROVE  CastIn(T, "PRE_PREPARE", k) # {}
    OBVIOUS
  <2>1. CastIn(S, "PRE_PREPARE", k) \subseteq CastIn(T, "PRE_PREPARE", k)
    BY <1>1, Zenon
  <2> QED
    BY <2>1, Zenon
<1> QED
  BY <1>2, <1>3, Zenon DEF Backed

LEMMA BackedStay ==
    ASSUME ThreadsBacked, sent \subseteq sent', UNCHANGED thr
    PROVE  ThreadsBacked'
<1> SUFFICES ASSUME NEW n \in Host, NEW t \in Thread
             PROVE  Backed(thr[n][t].pc, thr[n][t].msg, sent')
  BY Zenon DEF ThreadsBacked
<1> QED
  BY BackedKeeps DEF ThreadsBacked

LEMMA BackedMoves ==
    ASSUME ThreadsTyped, ThreadsBacked, sent \subseteq sent',
           NEW n \in Host, NEW t \in Thread, NEW x,
           thr' = [thr EXCEPT ![n][t] = x], Backed(x.pc, x.msg, sent')
    PROVE  ThreadsBacked'
<1> SUFFICES ASSUME NEW q \in Host, NEW u \in Thread
             PROVE  Backed(thr'[q][u].pc, thr'[q][u].msg, sent')
  BY Zenon DEF ThreadsBacked
<1>1. Backed(thr[q][u].pc, thr[q][u].msg, sent')
  BY BackedKeeps DEF ThreadsBacked
<1>2. thr'[q][u] = x \/ thr'[q][u] = thr[q][u]
  BY Zenon DEF ThreadsTyped
<1> QED
  BY <1>1, <1>2, Zenon

LEMMA BackedAt ==
    ASSUME ThreadsTyped, ThreadsBacked, sent \subseteq sent',
           NEW n \in Host, NEW t \in Thread, NEW pc, NEW m,
           At(n, t, pc, m), Backed(pc, m, sent')
    PROVE  ThreadsBacked'
<1>1. PICK x : thr' = [thr EXCEPT ![n][t] = x] /\ x.pc = pc /\ x.msg = m
  BY AtMoves
<1> QED
  BY <1>1, BackedMoves, Zenon

LEMMA BackedReturn ==
    ASSUME ThreadsTyped, ThreadsBacked, sent \subseteq sent',
           NEW n \in Host, NEW t \in Thread, Return(n, t)
    PROVE  ThreadsBacked'
<1>1. PICK x : thr' = [thr EXCEPT ![n][t] = x] /\ x.pc \in {"rest", "propose"}
  BY ReturnMoves, Zenon
<1>2. Backed(x.pc, x.msg, sent')
  BY <1>1, Zenon DEF Backed
<1> QED
  BY <1>1, <1>2, BackedMoves, Zenon

LEMMA StartingBacked ==
    ASSUME MeshInv, ThreadsBacked, NEW n \in Host, Starting(n)
    PROVE  ThreadsBacked'
<1> USE DEF MeshInv
<1>1. ASSUME NEW t \in Callers, SetCooldown(n, t) PROVE ThreadsBacked'
  <2>1. /\ thr[n][t].pc = "cool" /\ At(n, t, "broadcast", thr[n][t].msg)
        /\ t \in Thread /\ sent' = sent
    BY <1>1, Zenon DEF SetCooldown, Thread
  <2>2. Backed("broadcast", thr[n][t].msg, sent')
    BY <2>1, Zenon DEF ThreadsBacked, Backed
  <2> QED
    BY <2>1, <2>2, BackedAt
<1>2. ASSUME NEW t \in Callers, NEW k \in Round, CheckCooldown(n, t, k) PROVE ThreadsBacked'
  <2> DEFINE m == [stage |-> "PRE_PREPARE", round |-> k]
  <2>1. At(n, t, "cool", m) /\ t \in Thread /\ sent' = sent
    BY <1>2, Zenon DEF CheckCooldown, Thread
  <2>2. Backed("cool", m, sent')
    BY Zenon DEF Backed
  <2> HIDE DEF m
  <2> QED
    BY <2>1, <2>2, BackedAt, Zenon
<1>3. CASE DrainBans(n)
  <2> DEFINE x == [Resting EXCEPT !.pc = "propose", !.bans = recent_bans[n]]
  <2>1. thr' = [thr EXCEPT ![n]["beacon"] = x] /\ "beacon" \in Thread /\ sent' = sent
    BY <1>3, Zenon DEF DrainBans, Thread
  <2>2. Backed(x.pc, x.msg, sent')
    BY Zenon DEF Backed, Resting
  <2> HIDE DEF x
  <2> QED
    BY <2>1, <2>2, BackedMoves, Zenon
<1>4. ASSUME NEW p \in DOMAIN BanOf, ProposeBan(n, p) PROVE ThreadsBacked'
  <2> DEFINE more == thr[n]["beacon"].bans \ {p}
             x == [pc |-> "broadcast", bans |-> more,
                   msg |-> [stage |-> "PRE_PREPARE", round |-> BanOf[p]]]
             y == [thr[n]["beacon"] EXCEPT !.bans = more]
  <2>1. "beacon" \in Thread /\ sent' = sent
    BY <1>4, Zenon DEF ProposeBan, Thread
  <2>2. \/ thr' = [thr EXCEPT ![n]["beacon"] = x]
        \/ thr' = [thr EXCEPT ![n]["beacon"] = y]
        \/ thr' = [thr EXCEPT ![n]["beacon"] = Resting]
    BY <1>4, Zenon DEF ProposeBan
  <2>3. Backed(x.pc, x.msg, sent') /\ Backed(Resting.pc, Resting.msg, sent')
    BY Zenon DEF Backed, Resting
  <2>4. y.pc = "propose"
    BY <1>4, <2>1 DEF ProposeBan, ThreadsTyped, ThreadTyped
  <2>5. Backed(y.pc, y.msg, sent')
    BY <2>4, Zenon DEF Backed
  <2> HIDE DEF x, y
  <2> QED
    BY <2>1, <2>2, <2>3, <2>5, BackedMoves
<1> QED
  BY <1>1, <1>2, <1>3, <1>4 DEF Starting

LEMMA AdvanceBacked ==
    ASSUME SteadyInv, NEW n \in Host, NEW t \in Thread, Advance(n, t),
           MeshInv', VotesWereCast', UNCHANGED total_nodes
    PROVE  ThreadsBacked'
<1> USE DEF SteadyInv
<1> DEFINE m == thr[n][t].msg
<1>1. m \in sent /\ IsMessage(m) /\ m.stage \in CastStage
  BY MessageInHand, AdvanceFacts, Zenon
<1>2. PICK r \in PBFTStage : AdvanceWith(n, t, m, r)
  BY AdvanceFacts, Zenon
<1>3. sent' = sent
  BY AdvanceFacts, Zenon
<1> HIDE DEF m
<1>4. /\ r = "PREPARE" => m.stage \in {"PRE_PREPARE", "BAN_PEER"}
      /\ r = "COMMIT" => m.stage = "PREPARE"
      /\ r = "EXECUTED" => m.stage = "COMMIT"
      /\ r \in {"COMMIT", "EXECUTED"}
            => Cardinality(votes'[n][m.round][m.stage]) >= quorum(n)
  BY <1>1, <1>2, AdvanceVotes, Zenon DEF AdvanceWith, MeshInv
<1>5. quorum(n) = QuorumSize(Cardinality(Node))
  BY Zenon DEF quorum
<1>6. r \in {"COMMIT", "EXECUTED"} => Enough(CastIn(sent', m.stage, m.round))
  <2> SUFFICES ASSUME r \in {"COMMIT", "EXECUTED"}
               PROVE  Enough(CastIn(sent', m.stage, m.round))
    OBVIOUS
  <2>1. Enough(votes'[n][m.round][m.stage])
    BY <1>4, <1>5, Zenon DEF Enough
  <2>2. m.round \in Round /\ m.stage \in VoteStage
    BY <1>1, Zenon DEF IsMessage
  <2>3. votes'[n][m.round][m.stage] \subseteq CastIn(sent', m.stage, m.round)
    BY <2>2, CastIs, Zenon DEF VotesWereCast
  <2>4. CastIn(sent', m.stage, m.round) \subseteq Host
    BY Zenon DEF CastIn
  <2> QED
    BY <2>1, <2>3, <2>4, EnoughKeeps, Zenon
<1>7. CASE r = "IDLE"
  BY <1>2, <1>3, <1>7, BackedReturn, Zenon DEF AdvanceWith, MeshInv
<1>8. CASE r \in {"PREPARE", "COMMIT"}
  <2> DEFINE b == [stage |-> r, round |-> m.round]
  <2>1. At(n, t, "broadcast", b)
    BY <1>2, <1>8, Zenon DEF AdvanceWith
  <2>2. b.stage = r /\ b.round = m.round
    OBVIOUS
  <2> HIDE DEF b
  <2>3. r = "PREPARE" => m.sender \in CastIn(sent', "PRE_PREPARE", m.round)
    BY <1>1, <1>3, <1>4, Zenon DEF CastStage, CastIn, MeshInv, SentTyped
  <2>4. Backed("broadcast", b, sent')
    BY <1>4, <1>6, <1>8, <2>2, <2>3, Zenon DEF Backed
  <2> QED
    BY <1>3, <2>1, <2>4, BackedAt, Zenon DEF MeshInv
<1>9. CASE r = "EXECUTED"
  <2>1. At(n, t, "execute", m)
    BY <1>2, <1>9, Zenon DEF AdvanceWith
  <2>2. Backed("execute", m, sent')
    BY <1>4, <1>6, <1>9, Zenon DEF Backed
  <2> QED
    BY <1>3, <2>1, <2>2, BackedAt, Zenon DEF MeshInv
<1> QED
  BY <1>7, <1>8, <1>9 DEF PBFTStage

LEMMA SteadyMeshStep == SteadyInv /\ [SteadyMeshNext]_meshVars => SteadyInv'
<1> SUFFICES ASSUME SteadyInv, [SteadyMeshNext]_meshVars PROVE SteadyInv'
  OBVIOUS
<1> USE DEF SteadyInv
<1>1. [MeshNext]_meshVars /\ UNCHANGED total_nodes
  BY Zenon DEF SteadyMeshNext, meshVars, engineVars, memberVars
<1>2. MeshInv' /\ VotesWereCast' /\ sent \subseteq sent'
  BY <1>1, MeshStep, VotesStep, StepCounts, Zenon
<1>3. CASE UNCHANGED meshVars
  BY <1>2, <1>3, BackedStay, <1>1 DEF meshVars
<1>4. ASSUME NEW n \in Host, NEW t \in Thread, TakeSequence(n, t) PROVE ThreadsBacked'
  <2> DEFINE b == thr[n][t].msg
             m == [stage |-> b.stage, round |-> b.round,
                   seq |-> seq[n] + 1, view |-> current_view[n]]
  <2>1. thr[n][t].pc = "broadcast" /\ At(n, t, "chain", m) /\ sent' = sent
    BY <1>4, Zenon DEF TakeSequence
  <2>2. m.stage = b.stage /\ m.round = b.round
    OBVIOUS
  <2> HIDE DEF m
  <2>3. Backed("chain", m, sent')
    BY <2>1, <2>2, Zenon DEF ThreadsBacked, Backed
  <2> QED
    BY <2>1, <2>3, BackedAt, Zenon DEF MeshInv
<1>5. ASSUME NEW n \in Host, NEW t \in Thread,
             SendVote(n, t) \/ VerifyOwn(n, t) \/ Execute(n, t)
      PROVE  ThreadsBacked'
  <2>1. \/ Return(n, t)
        \/ \E m : At(n, t, "verify", m) \/ At(n, t, "advance", m)
    BY <1>5, Zenon DEF SendVote, VerifyOwn, Execute
  <2>2. \A m : Backed("verify", m, sent') /\ Backed("advance", m, sent')
    BY Zenon DEF Backed
  <2> QED
    BY <1>2, <2>1, <2>2, BackedAt, BackedReturn DEF MeshInv
<1>6. ASSUME NEW n \in Host, NEW m \in net[n], Receive(n, m) PROVE ThreadsBacked'
  <2>1. At(n, "listener", "advance", m) \/ UNCHANGED thr
    BY <1>6, Zenon DEF Receive
  <2>2. Backed("advance", m, sent') /\ "listener" \in Thread
    BY Zenon DEF Backed, Thread
  <2> QED
    BY <1>2, <2>1, <2>2, BackedAt, BackedStay, Zenon DEF MeshInv
<1>7. ASSUME NEW n \in Host, NEW t \in Thread, Broadcasting(n, t) PROVE ThreadsBacked'
  <2>1. CASE Advance(n, t)
    BY <1>1, <1>2, <2>1, AdvanceBacked, Zenon
  <2> QED
    BY <1>4, <1>5, <1>7, <2>1, Zenon DEF Broadcasting
<1>8. ASSUME MeshNext PROVE ThreadsBacked'
  BY <1>6, <1>7, <1>8, StartingBacked, Zenon DEF MeshNext
<1> QED
  BY <1>1, <1>2, <1>3, <1>8, Zenon

LEMMA SteadyMeshInit == MeshInit => SteadyInv
<1> SUFFICES ASSUME MeshInit PROVE SteadyInv
  OBVIOUS
<1>1. ThreadsBacked
  BY Zenon DEF MeshInit, ThreadsBacked, Backed, Resting
<1>2. \A n \in Host : Node \cup {n} = Node
  BY HostAssumption, Zenon
<1>3. total_nodes = [n \in Host |-> Cardinality(Node)]
  BY <1>2, Zenon DEF MeshInit, EngineInit
<1> QED
  BY <1>1, <1>3, InitMesh, VotesInit, Zenon DEF SteadyInv

\* The abstract specification counts as this one does.
LEMMA SameCardinality == \A A : Voting!Cardinality(A) = Cardinality(A)
BY Zenon DEF Voting!Cardinality, Cardinality

\* The image of a step that votes: one vote more, of n, for the stage and the
\* round of the message.
LEMMA CastMore ==
    ASSUME NEW m, NEW n \in Host, m.sender = n, sent' = sent \cup {m}
    PROVE  \A stage, k :
              Cast(stage, k)' = IF stage = m.stage /\ k = m.round
                                THEN Cast(stage, k) \cup {n} ELSE Cast(stage, k)
BY Zenon DEF Cast

LEMMA CarriedSame ==
    ASSUME UNCHANGED journal PROVE \A k : Carried(k)' = Carried(k)
BY Zenon DEF Carried, Logged

LEMMA VoteMaps ==
    ASSUME SteadyInv, NEW n \in Host, NEW t \in Thread, SendVote(n, t)
    PROVE  Voting!VotingNext
<1> USE DEF SteadyInv
<1>1. PICK m : /\ IsMessage(m) /\ m.stage \in CastStage /\ m.sender = n
               /\ m.stage = thr[n][t].msg.stage /\ m.round = thr[n][t].msg.round
               /\ sent' = sent \cup {m}
               /\ UNCHANGED journal
  BY SendVoteFacts, Zenon
<1>2. thr[n][t].pc = "chain" /\ m.round \in Round
  BY <1>1, Zenon DEF SendVote, IsMessage
<1>3. Backed("chain", thr[n][t].msg, sent)
  BY <1>2, Zenon DEF ThreadsBacked
<1>4. \A stage, k :
         Cast(stage, k)' = IF stage = m.stage /\ k = m.round
                           THEN Cast(stage, k) \cup {n} ELSE Cast(stage, k)
  BY <1>1, CastMore, Zenon
<1>5. \A k : Carried(k)' = Carried(k)
  BY <1>1, CarriedSame, Zenon
<1>6. CASE m.stage = "PRE_PREPARE"
  <2>1. Voting!Propose(m.round)
    BY <1>2, <1>4, <1>5, <1>6 DEF Voting!Propose
  <2> QED
    BY <1>2, <2>1, Zenon DEF Voting!VotingNext
<1>7. CASE m.stage = "PREPARE"
  <2>1. Cast("PRE_PREPARE", m.round) # {}
    BY <1>1, <1>3, <1>7, CastIs, Zenon DEF Backed
  <2>2. Voting!Prepare(n, m.round)
    BY <1>2, <1>4, <1>5, <1>7, <2>1, Zenon DEF Voting!Prepare
  <2> QED
    BY <1>2, <2>2, Zenon DEF Voting!VotingNext
<1>8. CASE m.stage = "COMMIT"
  <2>1. Enough(Cast("PREPARE", m.round))
    BY <1>1, <1>3, <1>8, CastIs, Zenon DEF Backed
  <2>2. [k \in Round |-> Cast("PREPARE", k)][m.round] = Cast("PREPARE", m.round)
    BY <1>2, Zenon
  <2>3. Cardinality([k \in Round |-> Cast("PREPARE", k)][m.round])
           >= QuorumSize(Cardinality(Node))
    BY <2>1, <2>2, Zenon DEF Enough
  <2>4. Voting!Commit(n, m.round)
    BY <1>2, <1>4, <1>5, <1>8, <2>3, SameCardinality, Zenon DEF Voting!Commit
  <2> QED
    BY <1>2, <2>4, Zenon DEF Voting!VotingNext
<1> QED
  BY <1>1, <1>6, <1>7, <1>8 DEF CastStage

LEMMA ExecuteMaps ==
    ASSUME SteadyInv, NEW n \in Host, NEW t \in Thread, Execute(n, t)
    PROVE  Voting!VotingNext
<1> USE DEF SteadyInv
<1> DEFINE k == thr[n][t].msg.round
<1>1. thr[n][t].pc = "execute" /\ sent' = sent
  BY Zenon DEF Execute
<1>2. k \in Round
  BY <1>1, MessageInHand, Zenon DEF IsMessage
<1>3. Enough(Cast("COMMIT", k))
  BY <1>1, CastIs, Zenon DEF ThreadsBacked, Backed
<1>4. Log(n, "BAN_PEER_EXECUTED", k) \/ Log(n, "EXECUTED", k)
  BY Zenon DEF Execute
<1> HIDE DEF k
<1>5. \A j \in Round : Carried(j)' = IF j = k THEN Carried(j) \cup {n} ELSE Carried(j)
  <2>1. PICK what \in {"BAN_PEER_EXECUTED", "EXECUTED"} : Log(n, what, k)
    BY <1>4, Zenon
  <2>2. \A q \in Host : \A w, j : Logged(q, w, j)' <=>
           Logged(q, w, j) \/ (q = n /\ w = what /\ j = k)
    BY <1>2, <2>1, LogTyped DEF MeshInv, NodesTyped
  <2> QED
    BY <2>2, Zenon DEF Carried
<1>6. \A stage, j : Cast(stage, j)' = Cast(stage, j)
  BY <1>1, Zenon DEF Cast
<1>7. [j \in Round |-> Cast("COMMIT", j)][k] = Cast("COMMIT", k)
  BY <1>2, Zenon
<1>8. Cardinality([j \in Round |-> Cast("COMMIT", j)][k])
         >= QuorumSize(Cardinality(Node))
  BY <1>3, <1>7, Zenon DEF Enough
<1>9. Voting!Execute(n, k)
  BY <1>2, <1>5, <1>6, <1>8, SameCardinality, Zenon DEF Voting!Execute
<1> QED
  BY <1>2, <1>9, Zenon DEF Voting!VotingNext

LEMMA StepMaps == SteadyInv /\ [MeshNext]_meshVars => [Voting!VotingNext]_(Voting!votingVars)
<1> SUFFICES ASSUME SteadyInv, [MeshNext]_meshVars
             PROVE  Voting!VotingNext \/ UNCHANGED Voting!votingVars
  OBVIOUS
<1> USE DEF SteadyInv
<1>1. ASSUME UNCHANGED sent, \A k \in Round : Carried(k)' = Carried(k)
      PROVE  UNCHANGED Voting!votingVars
  <2>1. \A stage, k : Cast(stage, k)' = Cast(stage, k)
    BY <1>1, Zenon DEF Cast
  <2> QED
    BY <1>1, <2>1, Zenon DEF Voting!votingVars
<1>2. CASE UNCHANGED <<sent, journal>>
  BY <1>1, <1>2, CarriedSame, Zenon
<1>3. CASE UNCHANGED meshVars
  BY <1>2, <1>3, Zenon DEF meshVars
<1>4. ASSUME NEW n \in Host, Starting(n) PROVE UNCHANGED <<sent, journal>>
  BY <1>4, Zenon DEF Starting, SetCooldown, CheckCooldown, DrainBans, ProposeBan
<1>5. ASSUME NEW n \in Host, NEW t \in Thread, TakeSequence(n, t) \/ VerifyOwn(n, t)
      PROVE  UNCHANGED <<sent, journal>>
  BY <1>5, Zenon DEF TakeSequence, VerifyOwn
<1>6. ASSUME NEW n \in Host, NEW m \in net[n], Receive(n, m)
      PROVE  UNCHANGED <<sent, journal>>
  BY <1>6, Zenon DEF Receive
<1>7. ASSUME NEW n \in Host, NEW t \in Thread, Advance(n, t)
      PROVE  UNCHANGED Voting!votingVars
  <2> DEFINE k == thr[n][t].msg.round
  <2>1. k \in Round
    BY <1>7, AdvanceFacts, MessageInHand, Zenon DEF IsMessage
  <2>2. UNCHANGED sent /\ (UNCHANGED journal \/ Log(n, "COMMIT", k))
    BY <1>7, AdvanceFacts, Zenon
  <2> HIDE DEF k
  <2>3. CASE Log(n, "COMMIT", k)
    <3>1. \A q \in Host : \A w, j : Logged(q, w, j)' <=>
             Logged(q, w, j) \/ (q = n /\ w = "COMMIT" /\ j = k)
      BY <2>1, <2>3, LogTyped DEF MeshInv, NodesTyped
    <3>2. \A j \in Round : Carried(j)' = Carried(j)
      BY <3>1 DEF Carried
    <3> QED
      BY <1>1, <2>2, <3>2, Zenon
  <2> QED
    BY <1>2, <2>2, <2>3, CarriedSame, <1>1
<1>8. ASSUME NEW n \in Host, NEW t \in Thread, Broadcasting(n, t)
      PROVE  Voting!VotingNext \/ UNCHANGED Voting!votingVars
  BY <1>2, <1>5, <1>7, <1>8, VoteMaps, ExecuteMaps DEF Broadcasting
<1> QED
  BY <1>2, <1>3, <1>4, <1>6, <1>8, Zenon DEF MeshNext

\* As long as no engine resizes its mesh, nobody votes COMMIT before a quorum
\* of nodes has voted PREPARE, and nobody carries a round out before a quorum
\* has voted COMMIT: for any number of nodes, threads and rounds, and whatever
\* is lost or reordered.
THEOREM MeshImplementsVoting == SteadyMeshSpec => ImplementsVoting
<1>1. MeshInit => Voting!VotingInit
  BY DEF MeshInit, Voting!VotingInit, Cast, Carried, Logged
<1>2. SteadyInv /\ [SteadyMeshNext]_meshVars => [Voting!VotingNext]_(Voting!votingVars)
  BY StepMaps, Zenon DEF SteadyMeshNext
<1> QED
  BY <1>1, <1>2, SteadyMeshInit, SteadyMeshStep, PTL
     DEF SteadyMeshSpec, ImplementsVoting, Voting!VotingSpec
-----------------------------------------------------------------------------
(* Rounds are carried out once. *)

\* A step of a round from the state old to the state new, where advance_state
\* returns r.
StageTo(old, new, r) ==
    \/ r = "IDLE" /\ (new = old \/ (old = "ABSENT" /\ new = "IDLE"))
    \/ r = "PREPARE" /\ old \in {"ABSENT", "IDLE"} /\ new = "PREPARE"
    \/ r = "COMMIT" /\ old = "PREPARE" /\ new = "COMMIT"
    \/ r = "EXECUTED" /\ old = "COMMIT" /\ new = "EXECUTED"

\* The rounds of an engine go from r to x when advance_state is called for a
\* message of round k and returns res; none of them is ever idle.
RoundsTo(r, x, k, res) ==
    /\ \A j \in Round : x[j].idle = 0
    /\ \A j \in Round \ {k} : x[j].state = r[j].state
    /\ StageTo(r[k].state, x[k].state, res)

LEMMA FreshLive ==
    ASSUME EngineInv, NEW n \in Host, \A k \in Round : rounds[n][k].idle = 0
    PROVE  LiveRounds(n) = rounds[n]
<1>1. Stale(n) = {}
  BY LimitsAssumption DEF Stale
<1>2. rounds[n] \in [Round -> ConsensusRound]
  BY Zenon DEF EngineInv, EngineTypeOK
<1> QED
  BY <1>1, <1>2, Zenon DEF LiveRounds

LEMMA CountVoteRounds ==
    ASSUME EngineInv, NEW n \in Host, NEW m, IsMessage(m), NEW res, CountVote(n, m, res),
           \A k \in Round : rounds[n][k].idle = 0
    PROVE  \E x : /\ rounds' = [rounds EXCEPT ![n] = x]
                  /\ RoundsTo(rounds[n], x, m.round, res)
<1> DEFINE v == LiveVotes(n)
           voted == [v EXCEPT ![m.round][m.stage] = @ \cup {m.sender}]
           old == rounds[n][m.round]
           round == Opened(n, m)
           active == [round EXCEPT !.idle = 0]
           next == NextStage(round.state, m.stage,
                             Cardinality(voted[m.round][m.stage]), quorum(n))
           moved == [active EXCEPT !.state = next]
           after(y) == [rounds[n] EXCEPT ![m.round] = y]
<1>1. m.round \in Round /\ rounds[n] \in [Round -> ConsensusRound]
  BY Zenon DEF IsMessage, EngineInv, EngineTypeOK
<1>2. LiveRounds(n) = rounds[n]
  BY FreshLive, Zenon
<1>3. round \in ConsensusRound /\ round.state \in PBFTStage
  BY OpenedFacts, Zenon
<1>4. old \in ConsensusRound /\ old.idle = 0
  BY <1>1, Zenon
<1>5. /\ round.idle = 0
      /\ \/ round.state = old.state
         \/ old.state = "ABSENT" /\ round.state = "IDLE"
  BY <1>2, <1>4, Zenon DEF Opened, ConsensusRound
<1>6. active.idle = 0 /\ active.state = round.state
  BY <1>3, Zenon DEF ConsensusRound
<1>7. moved.idle = 0 /\ moved.state = next
  BY <1>3, Zenon DEF ConsensusRound
<1>8. \/ next = round.state
      \/ round.state = "IDLE" /\ next = "PREPARE"
      \/ round.state = "PREPARE" /\ next = "COMMIT"
      \/ round.state = "COMMIT" /\ next = "EXECUTED"
  <2>1. PICK c : next = NextStage(round.state, m.stage, c, quorum(n))
    OBVIOUS
  <2> HIDE DEF next, round
  <2> QED
    BY <1>3, <2>1, NextStageMoves
<1>9. \E y \in {old, round, active, moved} :
         /\ rounds' = [rounds EXCEPT ![n] = after(y)]
         /\ \/ res = "IDLE" /\ y \in {old, round, active}
            \/ y = moved /\ res = IF next = round.state THEN "IDLE" ELSE next
  BY <1>2, Zenon DEF CountVote
<1> HIDE DEF old, round, active, next, moved
<1>10. PICK y \in {old, round, active, moved} :
         /\ rounds' = [rounds EXCEPT ![n] = after(y)]
         /\ \/ res = "IDLE" /\ y \in {old, round, active}
            \/ y = moved /\ res = IF next = round.state THEN "IDLE" ELSE next
  BY <1>9, Zenon
<1>11. y.idle = 0
  BY <1>4, <1>5, <1>6, <1>7, <1>10
<1>12. StageTo(old.state, y.state, res)
  <2>1. CASE res = "IDLE" /\ y \in {old, round, active}
    BY <1>5, <1>6, <2>1, Zenon DEF StageTo
  <2>2. CASE y = moved /\ res = IF next = round.state THEN "IDLE" ELSE next
    BY <1>5, <1>7, <1>8, <2>2 DEF StageTo
  <2> QED
    BY <1>10, <2>1, <2>2, Zenon
<1>13. RoundsTo(rounds[n], after(y), m.round, res)
  BY <1>1, <1>11, <1>12, Zenon DEF RoundsTo, old
<1> QED
  BY <1>10, <1>13, Zenon

LEMMA AdvanceRounds ==
    ASSUME EngineInv, NEW n \in Host, NEW m, IsMessage(m), NEW res \in PBFTStage,
           advance_state(n, m, res), \A k \in Round : rounds[n][k].idle = 0
    PROVE  \E x : /\ rounds' = [rounds EXCEPT ![n] = x]
                  /\ RoundsTo(rounds[n], x, m.round, res)
<1>1. RoundsTo(rounds[n], rounds[n], m.round, "IDLE")
  BY Zenon DEF RoundsTo, StageTo, IsMessage
<1>2. rounds = [rounds EXCEPT ![n] = rounds[n]]
  BY Zenon DEF EngineInv, EngineTypeOK
<1>3. CASE res = "IDLE" /\ UNCHANGED engineVars
  BY <1>1, <1>2, <1>3, Zenon DEF engineVars, roundVars
<1>4. CASE res = "IDLE" /\ rounds' = [rounds EXCEPT ![n] = LiveRounds(n)]
  BY <1>1, <1>4, FreshLive, Zenon
<1>5. CASE CountVote(n, m, res)
  BY <1>5, CountVoteRounds, Zenon
<1> QED
  BY <1>3, <1>4, <1>5, Zenon DEF advance_state, RateLimited, Repeated, Counted

\* What holds of the threads f, the journal j and the rounds r of a node.  A
\* thread that is about to vote COMMIT has moved its round there; one that is
\* about to carry a round out has executed it in the engine, alone, and the
\* journal does not have it yet; what the journal has, the engine has reached.
InLog(j, what, k) == \E i \in DOMAIN j : j[i] = <<what, k>>
InLogDone(j, k) == InLog(j, "EXECUTED", k) \/ InLog(j, "BAN_PEER_EXECUTED", k)
Late == {"COMMIT", "EXECUTED"}
Pursued(x, r) ==
    /\ x.pc \in {"cool", "broadcast", "chain"} /\ x.msg.stage = "COMMIT"
          => r[x.msg.round].state \in Late
    /\ x.pc = "execute" => r[x.msg.round].state = "EXECUTED"
AllPursued(f, r) == \A t \in Thread : Pursued(f[t], r)
Outstanding(f, j) ==
    \A t \in Thread : f[t].pc = "execute" => ~InLogDone(j, f[t].msg.round)
Alone(f) ==
    \A t, u \in Thread : f[t].pc = "execute" /\ f[u].pc = "execute"
                            /\ f[t].msg.round = f[u].msg.round => t = u
Reached(j, r) ==
    \A k \in Round : /\ InLog(j, "COMMIT", k) => r[k].state \in Late
                     /\ InLogDone(j, k) => r[k].state = "EXECUTED"
NoneTwice(j) == \A i, k \in DOMAIN j : j[i] = j[k] => i = k
NodeOnce(f, j, r) ==
    /\ AllPursued(f, r) /\ Outstanding(f, j) /\ Alone(f)
    /\ Reached(j, r) /\ NoneTwice(j)
    /\ \A k \in Round : r[k].idle = 0
OnceInv == \A n \in Host : NodeOnce(thr[n], journal[n], rounds[n])

\* A step of node n leaves the others as they are.
LEMMA OnceOfOne ==
    ASSUME OnceInv, NEW n \in Host,
           \A q \in Host \ {n} : /\ thr'[q] = thr[q] /\ journal'[q] = journal[q]
                                 /\ rounds'[q] = rounds[q],
           NodeOnce(thr'[n], journal'[n], rounds'[n])
    PROVE  OnceInv'
<1> SUFFICES ASSUME NEW q \in Host PROVE NodeOnce(thr'[q], journal'[q], rounds'[q])
  BY Zenon DEF OnceInv
<1> QED
  BY Zenon DEF OnceInv

\* A thread that moves to a state x in which it does not carry a round out.
LEMMA OnceMoves ==
    ASSUME NEW f, NEW j, NEW r, NodeOnce(f, j, r), DOMAIN f = Thread, NEW t \in Thread, NEW x,
           x.pc # "execute", Pursued(x, r)
    PROVE  NodeOnce([f EXCEPT ![t] = x], j, r)
<1> DEFINE g == [f EXCEPT ![t] = x]
<1>1. g[t] = x /\ \A u \in Thread \ {t} : g[u] = f[u]
  OBVIOUS
<1> HIDE DEF g
<1>2. AllPursued(g, r)
  BY <1>1, Zenon DEF NodeOnce, AllPursued
<1>3. Outstanding(g, j)
  BY <1>1, Zenon DEF NodeOnce, Outstanding
<1>4. Alone(g)
  <2>1. Alone(f)
    BY Zenon DEF NodeOnce
  <2> SUFFICES ASSUME NEW u \in Thread, NEW v \in Thread, g[u].pc = "execute",
                      g[v].pc = "execute", g[u].msg.round = g[v].msg.round
               PROVE  u = v
    BY Zenon DEF Alone
  <2>2. g[u] = f[u] /\ g[v] = f[v]
    BY <1>1, Zenon
  <2>3. f[u].pc = "execute" /\ f[v].pc = "execute" /\ f[u].msg.round = f[v].msg.round
    BY <2>2, Zenon
  <2> QED
    BY <2>1, <2>3, Zenon DEF Alone
<1>5. NodeOnce(g, j, r)
  BY <1>2, <1>3, <1>4, Zenon DEF NodeOnce
<1> QED
  BY <1>5, Zenon DEF g

\* Rounds that go on: what was COMMIT or EXECUTED is not lost.
LEMMA OnceAdvances ==
    ASSUME NEW f, NEW j, NEW r, NodeOnce(f, j, r), NEW x, NEW k \in Round, NEW res,
           RoundsTo(r, x, k, res),
           \A t \in Thread : f[t].pc \in {"cool", "broadcast", "chain", "execute"}
                                => f[t].msg.round \in Round
    PROVE  NodeOnce(f, j, x)
<1>1. \A i \in Round : /\ r[i].state \in Late => x[i].state \in Late
                       /\ r[i].state = "EXECUTED" => x[i].state = "EXECUTED"
  BY Zenon DEF RoundsTo, StageTo, Late
<1>2. AllPursued(f, x)
  BY <1>1, Zenon DEF NodeOnce, AllPursued, Pursued
<1>3. Reached(j, x)
  BY <1>1, Zenon DEF NodeOnce, Reached
<1> QED
  BY <1>2, <1>3, Zenon DEF NodeOnce, RoundsTo

\* A thread that takes up the execution of a round that was not yet executed.
LEMMA OnceExecutes ==
    ASSUME NEW f, NEW j, NEW r, NodeOnce(f, j, r), DOMAIN f = Thread,
           NEW x, NEW k \in Round, RoundsTo(r, x, k, "EXECUTED"),
           \A u \in Thread : f[u].pc \in {"cool", "broadcast", "chain", "execute"}
                                => f[u].msg.round \in Round,
           NEW t \in Thread, NEW y, y.pc = "execute", y.msg.round = k
    PROVE  NodeOnce([f EXCEPT ![t] = y], j, x)
<1> DEFINE g == [f EXCEPT ![t] = y]
<1>1. g[t] = y /\ \A u \in Thread \ {t} : g[u] = f[u]
  OBVIOUS
<1> HIDE DEF g
<1>2. r[k].state = "COMMIT" /\ x[k].state = "EXECUTED"
  BY Zenon DEF RoundsTo, StageTo
<1>3. NodeOnce(f, j, x)
  BY OnceAdvances, Zenon
<1>4. Pursued(y, x)
  BY <1>2, Zenon DEF Pursued
<1>5. AllPursued(g, x)
  BY <1>1, <1>3, <1>4, Zenon DEF NodeOnce, AllPursued
<1>6. ~InLogDone(j, k)
  BY <1>2, Zenon DEF NodeOnce, Reached
<1>7. Outstanding(g, j)
  BY <1>1, <1>6, Zenon DEF NodeOnce, Outstanding
<1>8. \A u \in Thread : f[u].pc = "execute" => f[u].msg.round # k
  BY <1>2, Zenon DEF NodeOnce, AllPursued, Pursued
<1>9. Alone(g)
  <2> SUFFICES ASSUME NEW u \in Thread, NEW w \in Thread, u # w,
                      g[u].pc = "execute", g[w].pc = "execute"
               PROVE  g[u].msg.round # g[w].msg.round
    BY Zenon DEF Alone
  <2>1. Alone(f)
    BY Zenon DEF NodeOnce
  <2>2. CASE u = t
    BY <1>1, <1>8, <2>2, Zenon
  <2>3. CASE w = t
    BY <1>1, <1>8, <2>3, Zenon
  <2>4. CASE u # t /\ w # t
    BY <1>1, <2>1, <2>4, Zenon DEF Alone
  <2> QED
    BY <2>2, <2>3, <2>4
<1>10. NodeOnce(g, j, x)
  BY <1>3, <1>5, <1>7, <1>9, Zenon DEF NodeOnce
<1> QED
  BY <1>10, Zenon DEF g

\* An entry that the journal does not have yet.
LEMMA AppendOnce ==
    ASSUME NEW j \in Seq(Entry), NEW what, NEW k, <<what, k>> \in Entry,
           NoneTwice(j), ~InLog(j, what, k)
    PROVE  /\ NoneTwice(Append(j, <<what, k>>))
           /\ \A w, i : InLog(Append(j, <<what, k>>), w, i)
                           <=> InLog(j, w, i) \/ (w = what /\ i = k)
<1> DEFINE e == <<what, k>>
           l == Append(j, e)
<1>1. \A w, i : <<w, i>> = e <=> w = what /\ i = k
  OBVIOUS
<1>2. \A i \in DOMAIN j : j[i] # e
  BY Zenon DEF InLog
<1>3. e \in Entry
  OBVIOUS
<1> HIDE DEF e
<1>4. /\ DOMAIN l = DOMAIN j \cup {Len(j) + 1}
      /\ l[Len(j) + 1] = e
      /\ \A i \in DOMAIN j : l[i] = j[i]
  BY <1>3
<1> HIDE DEF l
<1>5. NoneTwice(l)
  BY <1>2, <1>4 DEF NoneTwice
<1>6. \A w, i : InLog(l, w, i) <=> InLog(j, w, i) \/ (w = what /\ i = k)
  BY <1>1, <1>4, Zenon DEF InLog
<1> QED
  BY <1>5, <1>6, Zenon DEF l, e

\* A thread with something in hand has it for a round.
LEMMA InHandRound ==
    ASSUME MeshInv, NEW n \in Host
    PROVE  /\ DOMAIN thr[n] = Thread
           /\ \A t \in Thread : thr[n][t].pc \in {"cool", "broadcast", "chain", "execute"}
                                   => thr[n][t].msg.round \in Round
<1>1. DOMAIN thr[n] = Thread
  BY Zenon DEF MeshInv, ThreadsTyped
<1>2. ASSUME NEW t \in Thread, thr[n][t].pc \in {"cool", "broadcast", "chain", "execute"}
      PROVE  thr[n][t].msg.round \in Round
  <2>1. ThreadTyped(thr[n][t], sent)
    BY Zenon DEF MeshInv, ThreadsTyped
  <2>2. CASE thr[n][t].pc \in {"cool", "broadcast", "chain"}
    BY <2>1, <2>2, Zenon DEF ThreadTyped, Planned
  <2>3. CASE thr[n][t].pc = "execute"
    BY <2>3, MessageInHand, Zenon DEF IsMessage
  <2> QED
    BY <1>2, <2>2, <2>3, Zenon
<1> QED
  BY <1>1, <1>2, Zenon

\* A step that moves one thread, not to an execution, and neither logs anything
\* nor changes a round.
LEMMA OnceThread ==
    ASSUME MeshInv, OnceInv, NEW n \in Host, NEW t \in Thread, NEW x,
           thr' = [thr EXCEPT ![n][t] = x], x.pc # "execute", Pursued(x, rounds[n]),
           UNCHANGED <<journal, rounds>>
    PROVE  OnceInv'
<1>1. DOMAIN thr[n] = Thread /\ DOMAIN thr = Host
  BY Zenon DEF MeshInv, ThreadsTyped
<1>2. thr'[n] = [thr[n] EXCEPT ![t] = x] /\ \A q \in Host \ {n} : thr'[q] = thr[q]
  BY <1>1, Zenon
<1>3. NodeOnce(thr[n], journal[n], rounds[n])
  BY Zenon DEF OnceInv
<1>4. NodeOnce([thr[n] EXCEPT ![t] = x], journal[n], rounds[n])
  BY <1>1, <1>3, OnceMoves, Zenon
<1> QED
  BY <1>2, <1>4, OnceOfOne, Zenon

LEMMA OnceAt ==
    ASSUME MeshInv, OnceInv, NEW n \in Host, NEW t \in Thread, NEW pc, NEW m,
           At(n, t, pc, m), pc # "execute",
           pc \in {"cool", "broadcast", "chain"} /\ m.stage = "COMMIT"
              => rounds[n][m.round].state \in Late,
           UNCHANGED <<journal, rounds>>
    PROVE  OnceInv'
<1>1. PICK x : thr' = [thr EXCEPT ![n][t] = x] /\ x.pc = pc /\ x.msg = m
  BY AtMoves DEF MeshInv
<1>2. Pursued(x, rounds[n])
  BY <1>1, Zenon DEF Pursued
<1> QED
  BY <1>1, <1>2, OnceThread, Zenon

LEMMA OnceReturn ==
    ASSUME MeshInv, OnceInv, NEW n \in Host, NEW t \in Thread, Return(n, t),
           UNCHANGED <<journal, rounds>>
    PROVE  OnceInv'
<1>1. PICK x : thr' = [thr EXCEPT ![n][t] = x] /\ x.pc \in {"rest", "propose"}
  BY ReturnMoves, Zenon DEF MeshInv
<1>2. Pursued(x, rounds[n])
  BY <1>1, Zenon DEF Pursued
<1> QED
  BY <1>1, <1>2, OnceThread, Zenon

LEMMA OnceStays ==
    ASSUME OnceInv, UNCHANGED <<thr, journal, rounds>>
    PROVE  OnceInv'
BY Zenon DEF OnceInv

\* What a thread that is about to vote COMMIT knows of its round.
LEMMA CommitReached ==
    ASSUME OnceInv, NEW n \in Host, NEW t \in Thread,
           thr[n][t].pc \in {"cool", "broadcast", "chain"}, thr[n][t].msg.stage = "COMMIT"
    PROVE  rounds[n][thr[n][t].msg.round].state \in Late
<1>1. Pursued(thr[n][t], rounds[n])
  BY Zenon DEF OnceInv, NodeOnce, AllPursued
<1> QED
  BY <1>1, Zenon DEF Pursued

LEMMA StartingOnce ==
    ASSUME MeshInv, OnceInv, NEW n \in Host, Starting(n)
    PROVE  OnceInv'
<1>1. ASSUME NEW t \in Callers, SetCooldown(n, t) PROVE OnceInv'
  <2>1. /\ thr[n][t].pc = "cool" /\ At(n, t, "broadcast", thr[n][t].msg)
        /\ t \in Thread /\ UNCHANGED <<journal, rounds>>
    BY <1>1, Zenon DEF SetCooldown, Thread, engineVars, roundVars
  <2>2. thr[n][t].msg.stage = "COMMIT" => rounds[n][thr[n][t].msg.round].state \in Late
    BY <2>1, CommitReached, Zenon
  <2> QED
    BY <2>1, <2>2, OnceAt, Zenon
<1>2. ASSUME NEW t \in Callers, NEW k \in Round, CheckCooldown(n, t, k) PROVE OnceInv'
  <2> DEFINE m == [stage |-> "PRE_PREPARE", round |-> k]
  <2>1. At(n, t, "cool", m) /\ t \in Thread /\ UNCHANGED <<journal, rounds>>
    BY <1>2, Zenon DEF CheckCooldown, Thread, engineVars, roundVars
  <2>2. m.stage # "COMMIT"
    OBVIOUS
  <2> HIDE DEF m
  <2> QED
    BY <2>1, <2>2, OnceAt, Zenon
<1>3. CASE DrainBans(n)
  <2> DEFINE x == [Resting EXCEPT !.pc = "propose", !.bans = recent_bans[n]]
  <2>1. /\ thr' = [thr EXCEPT ![n]["beacon"] = x] /\ "beacon" \in Thread
        /\ UNCHANGED <<journal, rounds>>
    BY <1>3, Zenon DEF DrainBans, Thread, drain_recent_bans, roundVars
  <2>2. x.pc = "propose"
    BY Zenon DEF Resting
  <2> HIDE DEF x
  <2>3. Pursued(x, rounds[n])
    BY <2>2, Zenon DEF Pursued
  <2> QED
    BY <2>1, <2>2, <2>3, OnceThread, Zenon
<1>4. ASSUME NEW p \in DOMAIN BanOf, ProposeBan(n, p) PROVE OnceInv'
  <2> DEFINE more == thr[n]["beacon"].bans \ {p}
             x == [pc |-> "broadcast", bans |-> more,
                   msg |-> [stage |-> "PRE_PREPARE", round |-> BanOf[p]]]
             y == [thr[n]["beacon"] EXCEPT !.bans = more]
  <2>1. "beacon" \in Thread /\ UNCHANGED <<journal, rounds>>
    BY <1>4, Zenon DEF ProposeBan, Thread, engineVars, roundVars
  <2>2. \/ thr' = [thr EXCEPT ![n]["beacon"] = x]
        \/ thr' = [thr EXCEPT ![n]["beacon"] = y]
        \/ thr' = [thr EXCEPT ![n]["beacon"] = Resting]
    BY <1>4, Zenon DEF ProposeBan
  <2>3. x.pc = "broadcast" /\ x.msg.stage # "COMMIT" /\ Resting.pc = "rest"
    BY Zenon DEF Resting
  <2>4. y.pc = "propose"
    BY <1>4, <2>1 DEF ProposeBan, MeshInv, ThreadsTyped, ThreadTyped
  <2> HIDE DEF x, y
  <2>5. Pursued(x, rounds[n]) /\ Pursued(y, rounds[n]) /\ Pursued(Resting, rounds[n])
    BY <2>3, <2>4, Zenon DEF Pursued
  <2> QED
    <3>1. PICK t \in Thread, z \in {x, y, Resting} : thr' = [thr EXCEPT ![n][t] = z]
      BY <2>1, <2>2, Zenon
    <3>2. z.pc # "execute" /\ Pursued(z, rounds[n])
      BY <2>3, <2>4, <2>5, Zenon
    <3> QED
      BY <2>1, <3>1, <3>2, OnceThread, Zenon
<1> QED
  BY <1>1, <1>2, <1>3, <1>4 DEF Starting

\* The COMMIT signature is stored in a round that exists.
LEMMA SendVoteOnce ==
    ASSUME MeshInv, OnceInv, NEW n \in Host, NEW t \in Thread, SendVote(n, t)
    PROVE  OnceInv'
<1>1. PICK m : /\ IsMessage(m) /\ m.stage = thr[n][t].msg.stage
               /\ m.round = thr[n][t].msg.round
               /\ \/ m.stage = "COMMIT" /\ set_round_commit_sig(n, m.round)
                  \/ UNCHANGED engineVars
               /\ At(n, t, "verify", m) /\ UNCHANGED journal
  BY SendVoteFacts, Zenon
<1>2. thr[n][t].pc = "chain" /\ m.round \in Round
  BY <1>1, Zenon DEF SendVote, IsMessage
<1>3. CASE UNCHANGED engineVars
  BY <1>1, <1>3, OnceAt, Zenon DEF engineVars, roundVars
<1>4. CASE m.stage = "COMMIT" /\ set_round_commit_sig(n, m.round)
  <2> DEFINE old == rounds[n][m.round]
             new == [old EXCEPT !.signed = TRUE]
             r == [rounds[n] EXCEPT ![m.round] = new]
  <2>1. old.state \in Late
    BY <1>1, <1>2, <1>4, CommitReached, Zenon
  <2>2. old.state # "ABSENT"
    BY <2>1, Zenon DEF Late
  <2>3. rounds[n] \in [Round -> ConsensusRound] /\ DOMAIN rounds = Host
    BY Zenon DEF MeshInv, EngineInv, EngineTypeOK
  <2>4. rounds' = [rounds EXCEPT ![n][m.round] = new]
    BY <1>4, <2>2, Zenon DEF set_round_commit_sig
  <2>5. old \in ConsensusRound
    BY <1>2, <2>3, Zenon
  <2>6. new.state = old.state /\ new.idle = old.idle
    BY <2>5, Zenon DEF ConsensusRound
  <2> HIDE DEF new
  <2>7. rounds'[n] = r /\ \A q \in Host \ {n} : rounds'[q] = rounds[q]
    BY <2>3, <2>4, Zenon
  <2>8. NodeOnce(thr[n], journal[n], rounds[n])
    BY Zenon DEF OnceInv
  <2>9. RoundsTo(rounds[n], r, m.round, "IDLE")
    BY <1>2, <2>3, <2>6, <2>8, Zenon DEF RoundsTo, StageTo, NodeOnce
  <2> HIDE DEF r
  <2>10. NodeOnce(thr[n], journal[n], r)
    BY <1>2, <2>8, <2>9, InHandRound, OnceAdvances, Zenon
  <2>11. PICK x : thr' = [thr EXCEPT ![n][t] = x] /\ x.pc = "verify"
    BY <1>1, AtMoves DEF MeshInv
  <2>12. /\ DOMAIN thr[n] = Thread
         /\ thr'[n] = [thr[n] EXCEPT ![t] = x] /\ \A q \in Host \ {n} : thr'[q] = thr[q]
    BY <2>11, Zenon DEF MeshInv, ThreadsTyped
  <2>13. Pursued(x, r)
    BY <2>11, Zenon DEF Pursued
  <2>14. NodeOnce([thr[n] EXCEPT ![t] = x], journal[n], r)
    <3>1. x.pc # "execute"
      BY <2>11, Zenon
    <3> QED
      BY <2>10, <2>12, <2>13, <3>1, OnceMoves, Zenon
  <2> QED
    BY <1>1, <2>7, <2>12, <2>14, OnceOfOne, Zenon
<1> QED
  BY <1>1, <1>3, <1>4, Zenon

LEMMA AdvanceOnce ==
    ASSUME MeshInv, OnceInv, NEW n \in Host, NEW t \in Thread, Advance(n, t)
    PROVE  OnceInv'
<1> DEFINE m == thr[n][t].msg
<1>1. IsMessage(m)
  BY MessageInHand, AdvanceFacts, Zenon
<1>2. PICK res \in PBFTStage : AdvanceWith(n, t, m, res)
  BY AdvanceFacts, Zenon
<1> HIDE DEF m
<1>3. m.round \in Round
  BY <1>1, Zenon DEF IsMessage
<1>4. NodeOnce(thr[n], journal[n], rounds[n])
  BY Zenon DEF OnceInv
<1>5. PICK r : /\ rounds' = [rounds EXCEPT ![n] = r]
               /\ RoundsTo(rounds[n], r, m.round, res)
  <2>1. \A k \in Round : rounds[n][k].idle = 0
    BY <1>4, Zenon DEF NodeOnce
  <2>2. advance_state(n, m, res)
    BY <1>2, Zenon DEF AdvanceWith
  <2> QED
    BY <1>1, <2>1, <2>2, AdvanceRounds DEF MeshInv
<1>6. rounds'[n] = r /\ \A q \in Host \ {n} : rounds'[q] = rounds[q]
  BY <1>5, Zenon DEF MeshInv, EngineInv, EngineTypeOK
<1>7. NodeOnce(thr[n], journal[n], r)
  BY <1>3, <1>4, <1>5, InHandRound, OnceAdvances, Zenon
<1>8. ASSUME NEW x, thr' = [thr EXCEPT ![n][t] = x]
      PROVE  /\ DOMAIN thr[n] = Thread
             /\ thr'[n] = [thr[n] EXCEPT ![t] = x]
             /\ \A q \in Host \ {n} : thr'[q] = thr[q]
  BY <1>8, Zenon DEF MeshInv, ThreadsTyped
<1>9. CASE res = "IDLE"
  <2>1. Return(n, t) /\ UNCHANGED journal
    BY <1>2, <1>9, Zenon DEF AdvanceWith
  <2>2. PICK x : thr' = [thr EXCEPT ![n][t] = x] /\ x.pc \in {"rest", "propose"}
    BY <2>1, ReturnMoves, Zenon DEF MeshInv
  <2>3. Pursued(x, r)
    BY <2>2, Zenon DEF Pursued
  <2>4. NodeOnce([thr[n] EXCEPT ![t] = x], journal[n], r)
    BY <1>7, <1>8, <2>2, <2>3, OnceMoves, Zenon
  <2> QED
    BY <1>6, <1>8, <2>1, <2>2, <2>4, OnceOfOne, Zenon
<1>10. CASE res = "EXECUTED"
  <2>1. At(n, t, "execute", m) /\ UNCHANGED journal
    BY <1>2, <1>10, Zenon DEF AdvanceWith
  <2>2. PICK x : thr' = [thr EXCEPT ![n][t] = x] /\ x.pc = "execute" /\ x.msg = m
    BY <2>1, AtMoves DEF MeshInv
  <2>3. NodeOnce([thr[n] EXCEPT ![t] = x], journal[n], r)
    <3>1. RoundsTo(rounds[n], r, m.round, "EXECUTED") /\ x.msg.round = m.round
      BY <1>5, <1>10, <2>2, Zenon
    <3> QED
      BY <1>3, <1>4, <2>2, <3>1, InHandRound, OnceExecutes, Zenon
  <2> QED
    BY <1>6, <1>8, <2>1, <2>2, <2>3, OnceOfOne, Zenon
<1>11. CASE res \in {"PREPARE", "COMMIT"}
  <2> DEFINE b == [stage |-> res, round |-> m.round]
  <2>1. At(n, t, "broadcast", b)
    BY <1>2, <1>11, Zenon DEF AdvanceWith
  <2>2. b.stage = res /\ b.round = m.round
    OBVIOUS
  <2> HIDE DEF b
  <2>3. PICK x : thr' = [thr EXCEPT ![n][t] = x] /\ x.pc = "broadcast" /\ x.msg = b
    BY <2>1, AtMoves DEF MeshInv
  <2>4. Pursued(x, r)
    BY <1>5, <1>11, <2>2, <2>3, Zenon DEF Pursued, RoundsTo, StageTo, Late
  <2>5. NodeOnce([thr[n] EXCEPT ![t] = x], journal[n], r)
    BY <1>7, <1>8, <2>3, <2>4, OnceMoves, Zenon
  <2>6. CASE res = "PREPARE"
    <3>1. UNCHANGED journal
      BY <1>2, <2>6, Zenon DEF AdvanceWith
    <3> QED
      BY <1>6, <1>8, <2>3, <2>5, <3>1, OnceOfOne, Zenon
  <2>7. CASE res = "COMMIT"
    <3> DEFINE f == [thr[n] EXCEPT ![t] = x]
               j == journal[n]
               l == Append(j, <<"COMMIT", m.round>>)
    <3>1. journal \in [Host -> Seq(Entry)] /\ <<"COMMIT", m.round>> \in Entry
      BY <1>3, Zenon DEF MeshInv, NodesTyped, Entry
    <3>2. journal' = [journal EXCEPT ![n] = l]
      BY <1>2, <2>7, Zenon DEF AdvanceWith, Log
    <3>3. journal'[n] = l /\ \A q \in Host \ {n} : journal'[q] = journal[q]
      BY <3>1, <3>2, Zenon
    <3>4. rounds[n][m.round].state = "PREPARE" /\ r[m.round].state = "COMMIT"
      BY <1>5, <2>7, Zenon DEF RoundsTo, StageTo
    <3>5. ~InLog(j, "COMMIT", m.round)
      BY <1>3, <1>4, <3>4, Zenon DEF NodeOnce, Reached, Late
    <3>6. j \in Seq(Entry) /\ NoneTwice(j)
      BY <3>1, <1>4, Zenon DEF NodeOnce
    <3>7. /\ NoneTwice(l)
          /\ \A w, i : InLog(l, w, i) <=> InLog(j, w, i) \/ (w = "COMMIT" /\ i = m.round)
      BY <3>1, <3>5, <3>6, AppendOnce
    <3>8. NodeOnce(f, j, r)
      BY <2>5, Zenon
    <3> HIDE DEF f, j, l
    <3>9. \A k : InLogDone(l, k) <=> InLogDone(j, k)
      BY <3>7 DEF InLogDone
    <3>10. Reached(l, r)
      BY <3>4, <3>7, <3>8, <3>9, Zenon DEF NodeOnce, Reached, Late
    <3>11. Outstanding(f, l)
      BY <3>8, <3>9, Zenon DEF NodeOnce, Outstanding
    <3>12. NodeOnce(f, l, r)
      BY <3>7, <3>8, <3>10, <3>11, Zenon DEF NodeOnce
    <3>13. thr'[n] = f /\ rounds'[n] = r
      BY <1>6, <1>8, <2>3, Zenon DEF f
    <3>14. NodeOnce(thr'[n], journal'[n], rounds'[n])
      BY <3>3, <3>12, <3>13, Zenon
    <3>15. \A q \in Host \ {n} : /\ thr'[q] = thr[q] /\ journal'[q] = journal[q]
                                 /\ rounds'[q] = rounds[q]
      BY <1>6, <1>8, <2>3, <3>3, Zenon
    <3> QED
      BY <3>14, <3>15, OnceOfOne, Zenon
  <2> QED
    BY <1>11, <2>6, <2>7
<1> QED
  BY <1>9, <1>10, <1>11, Zenon DEF PBFTStage

LEMMA ExecuteOnce ==
    ASSUME MeshInv, OnceInv, NEW n \in Host, NEW t \in Thread, Execute(n, t)
    PROVE  OnceInv'
<1> DEFINE k == thr[n][t].msg.round
<1>1. thr[n][t].pc = "execute" /\ Return(n, t) /\ UNCHANGED rounds
  BY Zenon DEF Execute, ban_peer_local, engineVars, roundVars
<1>2. k \in Round
  BY <1>1, MessageInHand, Zenon DEF IsMessage
<1>3. PICK what \in {"EXECUTED", "BAN_PEER_EXECUTED"} : Log(n, what, k)
  BY Zenon DEF Execute
<1>4. NodeOnce(thr[n], journal[n], rounds[n])
  BY Zenon DEF OnceInv
<1>5. PICK x : thr' = [thr EXCEPT ![n][t] = x] /\ x.pc \in {"rest", "propose"}
  BY <1>1, ReturnMoves, Zenon DEF MeshInv
<1>6. /\ DOMAIN thr[n] = Thread /\ thr'[n] = [thr[n] EXCEPT ![t] = x]
      /\ \A q \in Host \ {n} : thr'[q] = thr[q]
  BY <1>5, Zenon DEF MeshInv, ThreadsTyped
<1> DEFINE f == thr[n]
           g == [f EXCEPT ![t] = x]
           j == journal[n]
           r == rounds[n]
           l == Append(j, <<what, k>>)
<1>7. journal \in [Host -> Seq(Entry)] /\ <<what, k>> \in Entry
  BY <1>2, Zenon DEF MeshInv, NodesTyped, Entry
<1>8. journal'[n] = l /\ \A q \in Host \ {n} : journal'[q] = journal[q]
  BY <1>3, <1>7, Zenon DEF Log
<1>9. ~InLogDone(j, k)
  BY <1>1, <1>4, Zenon DEF NodeOnce, Outstanding
<1>10. j \in Seq(Entry) /\ NoneTwice(j) /\ ~InLog(j, what, k)
  BY <1>4, <1>7, <1>9, Zenon DEF NodeOnce, InLogDone
<1>11. /\ NoneTwice(l)
       /\ \A w, i : InLog(l, w, i) <=> InLog(j, w, i) \/ (w = what /\ i = k)
  BY <1>7, <1>10, AppendOnce
<1>12. Pursued(x, r)
  BY <1>5, Zenon DEF Pursued
<1>13. NodeOnce(g, j, r)
  <2>1. x.pc # "execute"
    BY <1>5, Zenon
  <2> QED
    BY <1>4, <1>6, <1>12, <2>1, OnceMoves, Zenon
<1>14. r[k].state = "EXECUTED"
  BY <1>1, <1>4, Zenon DEF NodeOnce, AllPursued, Pursued
<1>15. \A u \in Thread : g[u].pc = "execute" => g[u].msg.round # k
  <2>1. g[t] = x /\ \A u \in Thread \ {t} : g[u] = f[u]
    BY <1>6, Zenon
  <2> HIDE DEF g
  <2> QED
    BY <1>1, <1>4, <1>5, <2>1 DEF NodeOnce, Alone
<1> HIDE DEF f, g, j, r, l, k
<1>16. \A i : InLogDone(l, i) <=> InLogDone(j, i) \/ i = k
  BY <1>3, <1>11 DEF InLogDone
<1>17. \A i : InLog(l, "COMMIT", i) <=> InLog(j, "COMMIT", i)
  BY <1>3, <1>11
<1>18. Reached(l, r)
  BY <1>13, <1>14, <1>16, <1>17, Zenon DEF NodeOnce, Reached
<1>19. Outstanding(g, l)
  BY <1>13, <1>15, <1>16, Zenon DEF NodeOnce, Outstanding
<1>20. NodeOnce(g, l, r)
  BY <1>11, <1>13, <1>18, <1>19, Zenon DEF NodeOnce
<1> QED
  <2>1. NodeOnce(thr'[n], journal'[n], rounds'[n])
    BY <1>1, <1>6, <1>8, <1>20, Zenon DEF f, g, r
  <2>2. \A q \in Host \ {n} : /\ thr'[q] = thr[q] /\ journal'[q] = journal[q]
                               /\ rounds'[q] = rounds[q]
    BY <1>1, <1>6, <1>8, Zenon
  <2> QED
    BY <2>1, <2>2, OnceOfOne, Zenon

LEMMA VerifyRounds ==
    ASSUME NEW n \in Host, NEW m, NEW ok, verify_message(n, m, ok)
    PROVE  UNCHANGED rounds
BY Zenon DEF verify_message, engineVars, roundVars

LEMMA OnceStep == MeshInv /\ OnceInv /\ [MeshNext]_meshVars => OnceInv'
<1> SUFFICES ASSUME MeshInv, OnceInv, [MeshNext]_meshVars PROVE OnceInv'
  OBVIOUS
<1>1. CASE UNCHANGED meshVars
  BY <1>1, OnceStays, Zenon DEF meshVars, engineVars, roundVars
<1>2. ASSUME NEW n \in Host, NEW t \in Thread, TakeSequence(n, t) PROVE OnceInv'
  <2> DEFINE b == thr[n][t].msg
             m == [stage |-> b.stage, round |-> b.round,
                   seq |-> seq[n] + 1, view |-> current_view[n]]
  <2>1. /\ thr[n][t].pc = "broadcast" /\ At(n, t, "chain", m)
        /\ UNCHANGED <<journal, rounds>>
    BY <1>2, Zenon DEF TakeSequence, engineVars, roundVars
  <2>2. m.stage = b.stage /\ m.round = b.round
    BY Zenon
  <2>3. b.stage = "COMMIT" => rounds[n][b.round].state \in Late
    BY <2>1, CommitReached, Zenon
  <2> HIDE DEF m
  <2> QED
    BY <2>1, <2>2, <2>3, OnceAt, Zenon
<1>3. ASSUME NEW n \in Host, NEW t \in Thread, VerifyOwn(n, t) PROVE OnceInv'
  <2> DEFINE m == thr[n][t].msg
  <2>1. /\ At(n, t, "advance", m) \/ Return(n, t)
        /\ UNCHANGED journal
    BY <1>3, Zenon DEF VerifyOwn
  <2>2. UNCHANGED rounds
    BY <1>3, VerifyRounds, Zenon DEF VerifyOwn
  <2> HIDE DEF m
  <2> QED
    BY <2>1, <2>2, OnceAt, OnceReturn, Zenon
<1>4. ASSUME NEW n \in Host, NEW m \in net[n], Receive(n, m) PROVE OnceInv'
  <2>1. /\ At(n, "listener", "advance", m) \/ UNCHANGED thr
        /\ UNCHANGED journal /\ "listener" \in Thread
    BY <1>4, Zenon DEF Receive, Thread
  <2>2. UNCHANGED rounds
    BY <1>4, VerifyRounds, Zenon DEF Receive
  <2> QED
    <3>1. CASE UNCHANGED thr
      BY <2>1, <2>2, <3>1, OnceStays, Zenon
    <3>2. CASE At(n, "listener", "advance", m)
      <4>1. PICK t, pc : t \in Thread /\ pc = "advance" /\ At(n, t, pc, m)
        BY <2>1, <3>2, Zenon
      <4>2. pc # "execute" /\ pc \notin {"cool", "broadcast", "chain"}
        BY <4>1, Zenon
      <4> QED
        BY <2>1, <2>2, <4>1, <4>2, OnceAt, Zenon
    <3> QED
      BY <2>1, <3>1, <3>2, Zenon
<1>5. ASSUME NEW n \in Host, NEW t \in Thread, Broadcasting(n, t) PROVE OnceInv'
  <2>1. CASE SendVote(n, t)
    BY <2>1, SendVoteOnce, Zenon
  <2>2. CASE Advance(n, t)
    BY <2>2, AdvanceOnce, Zenon
  <2>3. CASE Execute(n, t)
    BY <2>3, ExecuteOnce, Zenon
  <2> QED
    BY <1>2, <1>3, <1>5, <2>1, <2>2, <2>3, Zenon DEF Broadcasting
<1>6. ASSUME NEW n \in Host, Starting(n) PROVE OnceInv'
  BY <1>6, StartingOnce, Zenon
<1> QED
  BY <1>1, <1>4, <1>5, <1>6, Zenon DEF MeshNext

LEMMA OnceInit == MeshInit => OnceInv
<1> SUFFICES ASSUME MeshInit, NEW n \in Host
             PROVE  NodeOnce(thr[n], journal[n], rounds[n])
  BY Zenon DEF OnceInv
<1>1. /\ \A t \in Thread : thr[n][t].pc = "rest"
      /\ journal[n] = <<>> /\ \A k \in Round : rounds[n][k].idle = 0
  BY Zenon DEF MeshInit, EngineInit, NoRound, Resting
<1>2. AllPursued(thr[n], rounds[n]) /\ Alone(thr[n]) /\ Outstanding(thr[n], journal[n])
  BY <1>1, Zenon DEF AllPursued, Pursued, Alone, Outstanding
<1>3. DOMAIN journal[n] = {}
  BY <1>1
<1>4. Reached(journal[n], rounds[n]) /\ NoneTwice(journal[n])
  BY <1>3, Zenon DEF Reached, NoneTwice, InLog, InLogDone
<1> QED
  BY <1>1, <1>2, <1>4, Zenon DEF NodeOnce

\* However the threads of a node interleave and whatever is lost, reordered or
\* banned on the way, a node logs each step of a round at most once: it votes
\* COMMIT once and hands the round to the MitigationEngine once.
THEOREM RoundsExecuteOnce == MeshSpec => []ExecutesOnce
<1>1. OnceInv => ExecutesOnce
  BY Zenon DEF OnceInv, NodeOnce, NoneTwice, ExecutesOnce
<1> QED
  BY <1>1, OnceStep, MeshStep, InitMesh, OnceInit, PTL DEF MeshSpec
=============================================================================
