----------------------------- MODULE MeshProofs -----------------------------
(***************************************************************************)
(* Proofs about the mesh, for every set of nodes, of which any number may  *)
(* be down, every set of rounds and of calling threads, and a network that *)
(* loses and reorders datagrams as it likes.                               *)
(***************************************************************************)
EXTENDS Mesh, EngineProofs

\* The stages that a node broadcasts; BAN_PEER is only ever received from
\* older versions of the program.
CastStage == {"PRE_PREPARE", "PREPARE", "COMMIT"}

\* A thread in state x when the messages in S have been sent.
Planned(m) == m.stage \in CastStage /\ m.round \in Round
ThreadTyped(x, S) ==
    /\ DOMAIN x = {"pc", "msg", "bans"} /\ x.bans \in SUBSET Node
    /\ \/ x.pc \in {"rest", "propose"}
       \/ x.pc \in {"cool", "broadcast"} /\ Planned(x.msg)
       \/ x.pc = "chain" /\ Planned(x.msg) /\ x.msg.seq \in Nat /\ x.msg.view \in Nat
       \/ x.pc \in {"verify", "advance", "execute"} /\ x.msg \in S
ThreadsTyped ==
    /\ DOMAIN thr = Host
    /\ \A n \in Host : /\ DOMAIN thr[n] = Thread
                       /\ \A t \in Thread : ThreadTyped(thr[n][t], sent)

SentTyped == \A m \in sent : IsMessage(m) /\ m.stage \in CastStage /\ m.sender \in Host
Entry == {"COMMIT", "EXECUTED", "BAN_PEER_EXECUTED"} \X Round
NodesTyped == /\ seq \in [Host -> 0 .. MaxSeq]
              /\ net \in [Host -> SUBSET sent]
              /\ cooldown \in [Host -> SUBSET Node]
              /\ targeted \in [Host -> BOOLEAN]
              /\ journal \in [Host -> Seq(Entry)]

\* The inductive invariant: the types, with what a thread knows at each point.
MeshInv == EngineInv /\ ThreadsTyped /\ SentTyped /\ NodesTyped

LEMMA InitMesh == MeshInit => MeshInv
<1> SUFFICES ASSUME MeshInit PROVE MeshInv
  OBVIOUS
<1> USE DEF MeshInit
<1>1. EngineInv
  BY InitEngine, Zenon
<1>2. ThreadsTyped
  BY Zenon DEF ThreadsTyped, ThreadTyped, Resting
<1>3. SentTyped /\ NodesTyped
  BY MeshAssumption DEF SentTyped, NodesTyped
<1> QED
  BY <1>1, <1>2, <1>3, Zenon DEF MeshInv

\* A step that moves one thread, to a state that has its type.
LEMMA ThreadMoves ==
    ASSUME ThreadsTyped, sent \subseteq sent', NEW n \in Host, NEW t \in Thread, NEW x,
           thr' = [thr EXCEPT ![n][t] = x], ThreadTyped(x, sent')
    PROVE  ThreadsTyped'
<1>1. DOMAIN thr' = Host /\ \A q \in Host : DOMAIN thr'[q] = Thread
  BY Zenon DEF ThreadsTyped
<1>2. ASSUME NEW q \in Host, NEW u \in Thread PROVE ThreadTyped(thr'[q][u], sent')
  <2>1. ThreadTyped(thr[q][u], sent)
    BY Zenon DEF ThreadsTyped
  <2>2. ThreadTyped(thr[q][u], sent')
    BY <2>1, Zenon DEF ThreadTyped
  <2>3. thr'[q][u] = x \/ thr'[q][u] = thr[q][u]
    BY Zenon DEF ThreadsTyped
  <2> QED
    BY <2>2, <2>3, Zenon
<1> QED
  BY <1>1, <1>2, Zenon DEF ThreadsTyped

LEMMA ThreadsStay ==
    ASSUME ThreadsTyped, sent \subseteq sent', UNCHANGED thr
    PROVE  ThreadsTyped'
BY DEF ThreadsTyped, ThreadTyped

LEMMA AtMoves ==
    ASSUME ThreadsTyped, NEW n \in Host, NEW t \in Thread, NEW pc, NEW m,
           At(n, t, pc, m)
    PROVE  \E x : /\ thr' = [thr EXCEPT ![n][t] = x]
                  /\ DOMAIN x = {"pc", "msg", "bans"}
                  /\ x.pc = pc /\ x.msg = m /\ x.bans = thr[n][t].bans
                  /\ x.bans \in SUBSET Node
<1> DEFINE x == [thr[n][t] EXCEPT !.pc = pc, !.msg = m]
<1>1. DOMAIN thr[n][t] = {"pc", "msg", "bans"} /\ thr[n][t].bans \in SUBSET Node
  BY Zenon DEF ThreadsTyped, ThreadTyped
<1>2. thr' = [thr EXCEPT ![n][t] = x]
  BY Zenon DEF At
<1>3. /\ DOMAIN x = {"pc", "msg", "bans"}
      /\ x.pc = pc /\ x.msg = m /\ x.bans = thr[n][t].bans
  BY <1>1, Zenon
<1> QED
  BY <1>1, <1>2, <1>3, Zenon

LEMMA ReturnMoves ==
    ASSUME ThreadsTyped, NEW n \in Host, NEW t \in Thread, Return(n, t)
    PROVE  \E x : /\ thr' = [thr EXCEPT ![n][t] = x]
                  /\ DOMAIN x = {"pc", "msg", "bans"}
                  /\ x.pc \in {"rest", "propose"}
                  /\ x.bans \in SUBSET Node
<1>1. DOMAIN thr[n][t] = {"pc", "msg", "bans"} /\ thr[n][t].bans \in SUBSET Node
  BY Zenon DEF ThreadsTyped, ThreadTyped
<1> DEFINE y == [thr[n][t] EXCEPT !.pc = "propose", !.msg = <<>>]
<1>2. \/ thr' = [thr EXCEPT ![n][t] = Resting]
      \/ thr' = [thr EXCEPT ![n][t] = y]
  BY Zenon DEF Return
<1>3. /\ DOMAIN Resting = {"pc", "msg", "bans"} /\ Resting.pc = "rest"
      /\ Resting.bans \in SUBSET Node
  BY Zenon DEF Resting
<1>4. /\ DOMAIN y = {"pc", "msg", "bans"} /\ y.pc = "propose"
      /\ y.bans = thr[n][t].bans
  BY <1>1, Zenon
<1> QED
  BY <1>1, <1>2, <1>3, <1>4, Zenon

\* A thread that returns, or goes on to a message it has every right to.
LEMMA MovesTyped ==
    ASSUME ThreadsTyped, sent \subseteq sent', NEW n \in Host, NEW t \in Thread,
           \/ Return(n, t)
           \/ \E m \in sent' : \E pc \in {"verify", "advance", "execute"} :
                 At(n, t, pc, m)
           \/ \E m : \/ At(n, t, "broadcast", m) /\ Planned(m)
                     \/ At(n, t, "cool", m) /\ Planned(m)
                     \/ /\ At(n, t, "chain", m) /\ Planned(m)
                        /\ m.seq \in Nat /\ m.view \in Nat
    PROVE  ThreadsTyped'
<1>1. CASE Return(n, t)
  <2>1. PICK x : /\ thr' = [thr EXCEPT ![n][t] = x]
                 /\ DOMAIN x = {"pc", "msg", "bans"}
                 /\ x.pc \in {"rest", "propose"}
                 /\ x.bans \in SUBSET Node
    BY <1>1, ReturnMoves, Zenon
  <2>2. ThreadTyped(x, sent')
    BY <2>1, Zenon DEF ThreadTyped
  <2> QED
    BY <2>1, <2>2, ThreadMoves, Zenon
<1>2. ASSUME NEW m, NEW pc, At(n, t, pc, m),
             \/ pc \in {"verify", "advance", "execute"} /\ m \in sent'
             \/ pc \in {"cool", "broadcast"} /\ Planned(m)
             \/ pc = "chain" /\ Planned(m) /\ m.seq \in Nat /\ m.view \in Nat
      PROVE  ThreadsTyped'
  <2>1. PICK x : /\ thr' = [thr EXCEPT ![n][t] = x]
                 /\ DOMAIN x = {"pc", "msg", "bans"}
                 /\ x.pc = pc /\ x.msg = m /\ x.bans = thr[n][t].bans
                 /\ x.bans \in SUBSET Node
    BY <1>2, AtMoves
  <2>2. ThreadTyped(x, sent')
    BY <1>2, <2>1, Zenon DEF ThreadTyped
  <2> QED
    BY <2>1, <2>2, ThreadMoves, Zenon
<1> QED
  BY <1>1, <1>2, Zenon
-----------------------------------------------------------------------------
(* The invariant holds. *)

LEMMA LogTyped ==
    ASSUME journal \in [Host -> Seq(Entry)], NEW n \in Host, NEW what, NEW k \in Round,
           what \in {"COMMIT", "EXECUTED", "BAN_PEER_EXECUTED"}, Log(n, what, k)
    PROVE  /\ journal' \in [Host -> Seq(Entry)]
           /\ \A q \in Host : \A w, j : Logged(q, w, j)' <=>
                 Logged(q, w, j) \/ (q = n /\ w = what /\ j = k)
<1> DEFINE e == <<what, k>>
           old == journal[n]
<1>1. e \in Entry /\ old \in Seq(Entry)
  BY Zenon DEF Entry
<1>2. /\ journal' = [journal EXCEPT ![n] = Append(old, e)]
      /\ \A w, j : <<w, j>> = e <=> w = what /\ j = k
  BY Zenon DEF Log
<1> HIDE DEF e, old
<1>3. /\ Append(old, e) \in Seq(Entry)
      /\ DOMAIN Append(old, e) = DOMAIN old \cup {Len(old) + 1}
      /\ Append(old, e)[Len(old) + 1] = e
      /\ \A i \in DOMAIN old : Append(old, e)[i] = old[i]
  BY <1>1
<1>4. journal'[n] = Append(old, e) /\ \A q \in Host \ {n} : journal'[q] = journal[q]
  BY <1>2, Zenon
<1>5. ASSUME NEW w, NEW j
      PROVE  Logged(n, w, j)' <=> Logged(n, w, j) \/ (w = what /\ j = k)
  <2>1. Logged(n, w, j) <=> \E i \in DOMAIN old : old[i] = <<w, j>>
    BY Zenon DEF Logged, old
  <2>2. Logged(n, w, j)' <=>
           \E i \in DOMAIN Append(old, e) : Append(old, e)[i] = <<w, j>>
    BY <1>4, Zenon DEF Logged
  <2> QED
    BY <1>2, <1>3, <2>1, <2>2, Zenon
<1>6. \A q \in Host \ {n} : \A w, j : Logged(q, w, j)' <=> Logged(q, w, j)
  BY <1>4, Zenon DEF Logged
<1>7. journal' \in [Host -> Seq(Entry)]
  BY <1>2, <1>3, Zenon
<1> QED
  BY <1>5, <1>6, <1>7, Zenon

LEMMA StartingInv ==
    ASSUME MeshInv, NEW n \in Host, Starting(n)
    PROVE  MeshInv'
<1> USE DEF MeshInv
<1>1. ASSUME NEW t \in Callers, SetCooldown(n, t) PROVE MeshInv'
  <2> USE <1>1 DEF SetCooldown
  <2>1. t \in Thread /\ ThreadTyped(thr[n][t], sent)
    BY Zenon DEF Thread, ThreadsTyped
  <2>2. Planned(thr[n][t].msg)
    BY <2>1, Zenon DEF ThreadTyped
  <2>3. ThreadsTyped'
    BY <2>1, <2>2, MovesTyped, Zenon
  <2>4. Target[thr[n][t].msg.round] \in Node
    BY <2>2, MeshAssumption, Zenon DEF Planned
  <2>5. SentTyped' /\ NodesTyped'
    BY <2>4, Zenon DEF SentTyped, NodesTyped
  <2> QED
    BY <2>3, <2>5, StutterInv, Zenon
<1>2. ASSUME NEW t \in Callers, NEW k \in Round, CheckCooldown(n, t, k) PROVE MeshInv'
  <2> USE <1>2 DEF CheckCooldown
  <2>1. t \in Thread
    BY Zenon DEF Thread
  <2>2. Planned([stage |-> "PRE_PREPARE", round |-> k])
    BY Zenon DEF Planned, CastStage
  <2>3. At(n, t, "cool", [stage |-> "PRE_PREPARE", round |-> k]) /\ sent \subseteq sent'
    OBVIOUS
  <2>4. ThreadsTyped'
    BY <2>1, <2>2, <2>3, MovesTyped, Zenon
  <2>5. SentTyped' /\ NodesTyped'
    BY Zenon DEF SentTyped, NodesTyped
  <2> QED
    BY <2>4, <2>5, StutterInv, Zenon
<1>3. CASE DrainBans(n)
  <2> USE <1>3 DEF DrainBans
  <2> DEFINE x == [Resting EXCEPT !.pc = "propose", !.bans = recent_bans[n]]
  <2>1. "beacon" \in Thread /\ recent_bans[n] \in SUBSET Node
    BY Zenon DEF Thread, EngineInv, EngineTypeOK
  <2>2. ThreadTyped(x, sent')
    BY <2>1, Zenon DEF ThreadTyped, Resting
  <2>3. thr' = [thr EXCEPT ![n]["beacon"] = x] /\ sent \subseteq sent'
    OBVIOUS
  <2> HIDE DEF x
  <2>4. ThreadsTyped'
    BY <2>1, <2>2, <2>3, ThreadMoves, Zenon
  <2>5. SentTyped' /\ NodesTyped'
    BY Zenon DEF SentTyped, NodesTyped
  <2> QED
    BY <2>4, <2>5, DrainInv, Zenon
<1>4. ASSUME NEW p \in DOMAIN BanOf, ProposeBan(n, p) PROVE MeshInv'
  <2> DEFINE more == thr[n]["beacon"].bans \ {p}
             x == [pc |-> "broadcast", bans |-> more,
                   msg |-> [stage |-> "PRE_PREPARE", round |-> BanOf[p]]]
             y == [thr[n]["beacon"] EXCEPT !.bans = more]
  <2>1. UNCHANGED <<engineVars, seq, sent, net, cooldown, targeted, journal>>
    BY <1>4, Zenon DEF ProposeBan
  <2>2. "beacon" \in Thread /\ ThreadTyped(thr[n]["beacon"], sent) /\ BanOf[p] \in Round
    BY MeshAssumption, Zenon DEF Thread, ThreadsTyped
  <2>3. thr[n]["beacon"].pc = "propose"
    BY <1>4, Zenon DEF ProposeBan
  <2>4. ThreadTyped(x, sent') /\ ThreadTyped(Resting, sent')
    BY <2>2, Zenon DEF ThreadTyped, Planned, CastStage, Resting
  <2>5. ThreadTyped(y, sent')
    BY <2>2, <2>3, Zenon DEF ThreadTyped
  <2>6. \/ thr' = [thr EXCEPT ![n]["beacon"] = x]
        \/ thr' = [thr EXCEPT ![n]["beacon"] = y]
        \/ thr' = [thr EXCEPT ![n]["beacon"] = Resting]
    BY <1>4, Zenon DEF ProposeBan
  <2> HIDE DEF x, y
  <2>7. ThreadsTyped'
    BY <2>1, <2>2, <2>4, <2>5, <2>6, ThreadMoves, Zenon
  <2>8. SentTyped' /\ NodesTyped'
    BY <2>1, Zenon DEF SentTyped, NodesTyped
  <2> QED
    BY <2>1, <2>7, <2>8, StutterInv, Zenon
<1> QED
  BY <1>1, <1>2, <1>3, <1>4, Zenon DEF Starting

LEMMA TakeSequenceInv ==
    ASSUME MeshInv, NEW n \in Host, NEW t \in Thread, TakeSequence(n, t)
    PROVE  MeshInv'
<1> USE DEF MeshInv
<1> DEFINE m == [stage |-> thr[n][t].msg.stage, round |-> thr[n][t].msg.round,
                 seq |-> seq[n] + 1, view |-> current_view[n]]
<1>1. /\ thr[n][t].pc = "broadcast" /\ seq[n] < MaxSeq
      /\ seq' = [seq EXCEPT ![n] = @ + 1] /\ At(n, t, "chain", m)
      /\ UNCHANGED <<engineVars, sent, net, cooldown, targeted, journal>>
  BY Zenon DEF TakeSequence
<1>2. seq[n] \in 0 .. MaxSeq /\ current_view[n] \in Nat /\ MaxSeq \in Nat
  BY MeshAssumption DEF NodesTyped, EngineInv, EngineTypeOK
<1>3. Planned(thr[n][t].msg)
  BY <1>1, Zenon DEF ThreadsTyped, ThreadTyped
<1>4. Planned(m) /\ m.seq \in Nat /\ m.view \in Nat
  BY <1>2, <1>3 DEF Planned
<1> HIDE DEF m
<1>5. ThreadsTyped'
  BY <1>1, <1>4, MovesTyped, Zenon
<1>6. seq' \in [Host -> 0 .. MaxSeq]
  BY <1>1, <1>2 DEF NodesTyped
<1>7. SentTyped' /\ NodesTyped'
  BY <1>1, <1>6, Zenon DEF SentTyped, NodesTyped
<1> QED
  BY <1>1, <1>5, <1>7, StutterInv, Zenon

\* The message that SendVote sends, and that it only adds to what was sent.
LEMMA SendVoteFacts ==
    ASSUME MeshInv, NEW n \in Host, NEW t \in Thread, SendVote(n, t)
    PROVE  \E m : /\ IsMessage(m) /\ m.stage \in CastStage /\ m.sender = n
                  /\ m.stage = thr[n][t].msg.stage /\ m.round = thr[n][t].msg.round
                  /\ \/ m.stage = "COMMIT" /\ set_round_commit_sig(n, m.round)
                     \/ UNCHANGED engineVars
                  /\ sent' = sent \cup {m}
                  /\ net' = [q \in Host |-> IF q = n THEN net[q] ELSE net[q] \cup {m}]
                  /\ At(n, t, "verify", m)
                  /\ UNCHANGED <<seq, cooldown, targeted, journal>>
<1> USE DEF MeshInv
<1> DEFINE b == thr[n][t].msg
           m == [stage |-> b.stage, sender |-> n, round |-> b.round, seq |-> b.seq,
                 view |-> b.view, sig |-> TRUE, prev |-> get_last_sent_hash(n)]
<1>1. /\ thr[n][t].pc = "chain"
      /\ \/ m.stage = "COMMIT" /\ set_round_commit_sig(n, m.round)
         \/ UNCHANGED engineVars
      /\ sent' = sent \cup {m}
      /\ net' = [q \in Host |-> IF q = n THEN net[q] ELSE net[q] \cup {m}]
      /\ At(n, t, "verify", m)
      /\ UNCHANGED <<seq, cooldown, targeted, journal>>
  BY Zenon DEF SendVote
<1>2. Planned(b) /\ b.seq \in Nat /\ b.view \in Nat
  BY <1>1, Zenon DEF ThreadsTyped, ThreadTyped
<1>3. /\ m.stage = b.stage /\ m.round = b.round /\ m.sender = n
      /\ m.seq = b.seq /\ m.view = b.view
  OBVIOUS
<1> HIDE DEF m
<1>4. IsMessage(m) /\ m.stage \in CastStage
  BY <1>2, <1>3, HostAssumption, Zenon DEF IsMessage, Planned, CastStage, VoteStage
<1> QED
  BY <1>1, <1>3, <1>4, Zenon

LEMMA SendVoteInv ==
    ASSUME MeshInv, NEW n \in Host, NEW t \in Thread, SendVote(n, t)
    PROVE  MeshInv'
<1> USE DEF MeshInv
<1>1. PICK m : /\ IsMessage(m) /\ m.stage \in CastStage /\ m.sender = n
               /\ \/ set_round_commit_sig(n, m.round)
                  \/ UNCHANGED engineVars
               /\ sent' = sent \cup {m}
               /\ net' = [q \in Host |-> IF q = n THEN net[q] ELSE net[q] \cup {m}]
               /\ At(n, t, "verify", m)
               /\ UNCHANGED <<seq, cooldown, targeted, journal>>
  BY SendVoteFacts, Zenon
<1>2. EngineInv'
  BY <1>1, CommitSigInv, StutterInv, Zenon DEF IsMessage
<1>3. m \in sent' /\ sent \subseteq sent'
  BY <1>1, Zenon
<1>4. ThreadsTyped'
  BY <1>1, <1>3, MovesTyped, Zenon
<1>5. SentTyped'
  BY <1>1, Zenon DEF SentTyped
<1>6. net' \in [Host -> SUBSET sent']
  BY <1>1, <1>3, Zenon DEF NodesTyped
<1>7. NodesTyped'
  BY <1>1, <1>6, Zenon DEF NodesTyped
<1> QED
  BY <1>2, <1>4, <1>5, <1>7, Zenon

\* What a thread that verifies or counts a message has in hand.
LEMMA MessageInHand ==
    ASSUME MeshInv, NEW n \in Host, NEW t \in Thread,
           thr[n][t].pc \in {"verify", "advance", "execute"}
    PROVE  /\ thr[n][t].msg \in sent /\ IsMessage(thr[n][t].msg)
           /\ thr[n][t].msg.stage \in CastStage
<1>1. ThreadTyped(thr[n][t], sent)
  BY Zenon DEF MeshInv, ThreadsTyped
<1>2. thr[n][t].msg \in sent
  BY <1>1, Zenon DEF ThreadTyped
<1> QED
  BY <1>2, Zenon DEF MeshInv, SentTyped

LEMMA VerifyOwnInv ==
    ASSUME MeshInv, NEW n \in Host, NEW t \in Thread, VerifyOwn(n, t)
    PROVE  MeshInv'
<1> DEFINE m == thr[n][t].msg
<1>1. m \in sent /\ IsMessage(m)
  BY MessageInHand, Zenon DEF VerifyOwn
<1>2. /\ \/ verify_message(n, m, TRUE) /\ At(n, t, "advance", m)
         \/ verify_message(n, m, FALSE) /\ Return(n, t)
      /\ UNCHANGED <<seq, sent, net, cooldown, targeted, journal>>
  BY Zenon DEF VerifyOwn
<1> HIDE DEF m
<1> USE DEF MeshInv
<1>3. EngineInv'
  BY <1>1, <1>2, VerifyInv, Zenon
<1>4. m \in sent' /\ sent \subseteq sent'
  BY <1>1, <1>2, Zenon
<1>5. ThreadsTyped'
  BY <1>2, <1>4, MovesTyped, Zenon
<1>6. SentTyped' /\ NodesTyped'
  BY <1>2, Zenon DEF SentTyped, NodesTyped
<1> QED
  BY <1>3, <1>5, <1>6, Zenon

LEMMA ReceiveInv ==
    ASSUME MeshInv, NEW n \in Host, NEW m \in net[n], Receive(n, m)
    PROVE  MeshInv'
<1> USE DEF MeshInv
<1>1. m \in sent /\ IsMessage(m) /\ "listener" \in Thread
  BY Zenon DEF NodesTyped, SentTyped, Thread
<1>2. /\ net' = [net EXCEPT ![n] = @ \ {m}]
      /\ \/ verify_message(n, m, TRUE) /\ At(n, "listener", "advance", m)
         \/ verify_message(n, m, FALSE) /\ UNCHANGED thr
      /\ targeted' = [targeted EXCEPT ![n] = @ \/ Target[m.round] = n]
      /\ UNCHANGED <<seq, sent, cooldown, journal>>
  BY Zenon DEF Receive
<1>3. EngineInv'
  BY <1>1, <1>2, VerifyInv, Zenon
<1>4. m \in sent' /\ sent \subseteq sent'
  BY <1>1, <1>2, Zenon
<1>5. ThreadsTyped'
  BY <1>1, <1>2, <1>4, MovesTyped, ThreadsStay, Zenon
<1>6. net' \in [Host -> SUBSET sent']
  BY <1>2, Zenon DEF NodesTyped
<1>7. targeted' \in [Host -> BOOLEAN]
  BY <1>2, Zenon DEF NodesTyped
<1>8. SentTyped' /\ NodesTyped'
  BY <1>2, <1>6, <1>7, Zenon DEF SentTyped, NodesTyped
<1> QED
  BY <1>3, <1>5, <1>8, Zenon

\* What Advance does, for the result r of advance_state.
AdvanceWith(n, t, m, r) ==
    /\ advance_state(n, m, r)
    /\ \/ r = "IDLE" /\ Return(n, t)
       \/ r \in {"PREPARE", "COMMIT"} /\ At(n, t, "broadcast", [stage |-> r, round |-> m.round])
       \/ r = "EXECUTED" /\ At(n, t, "execute", m)
    /\ \/ r = "COMMIT" /\ Log(n, "COMMIT", m.round)
       \/ r # "COMMIT" /\ UNCHANGED journal

LEMMA AdvanceFacts ==
    ASSUME NEW n \in Host, NEW t \in Thread, Advance(n, t)
    PROVE  /\ thr[n][t].pc = "advance"
           /\ \E r \in PBFTStage : AdvanceWith(n, t, thr[n][t].msg, r)
           /\ UNCHANGED journal \/ Log(n, "COMMIT", thr[n][t].msg.round)
           /\ UNCHANGED <<seq, sent, net, cooldown, targeted>>
<1> DEFINE m == thr[n][t].msg
           next == [stage |-> "PREPARE", round |-> m.round]
<1>1. [next EXCEPT !.stage = "COMMIT"] = [stage |-> "COMMIT", round |-> m.round]
  OBVIOUS
<1>2. \/ /\ advance_state(n, m, "IDLE")
         /\ Return(n, t) /\ UNCHANGED journal
      \/ /\ advance_state(n, m, "PREPARE")
         /\ At(n, t, "broadcast", next) /\ UNCHANGED journal
      \/ /\ advance_state(n, m, "COMMIT")
         /\ At(n, t, "broadcast", [next EXCEPT !.stage = "COMMIT"])
         /\ Log(n, "COMMIT", m.round)
      \/ /\ advance_state(n, m, "EXECUTED")
         /\ At(n, t, "execute", m) /\ UNCHANGED journal
  BY Zenon DEF Advance
<1>3. \E r \in PBFTStage : AdvanceWith(n, t, m, r)
  BY <1>1, <1>2, Zenon DEF AdvanceWith, PBFTStage
<1> QED
  BY <1>2, <1>3, Zenon DEF Advance

LEMMA AdvanceInv ==
    ASSUME MeshInv, NEW n \in Host, NEW t \in Thread, Advance(n, t)
    PROVE  MeshInv'
<1> DEFINE m == thr[n][t].msg
<1>1. m \in sent /\ IsMessage(m)
  BY MessageInHand, AdvanceFacts, Zenon
<1>2. PICK r \in PBFTStage : AdvanceWith(n, t, m, r)
  BY AdvanceFacts, Zenon
<1>3. /\ UNCHANGED journal \/ Log(n, "COMMIT", m.round)
      /\ UNCHANGED <<seq, sent, net, cooldown, targeted>>
  BY AdvanceFacts, Zenon
<1> HIDE DEF m
<1> USE DEF MeshInv
<1>4. EngineInv'
  BY <1>1, <1>2, AdvanceStateInv, Zenon DEF AdvanceWith
<1>5. m \in sent' /\ sent \subseteq sent'
  BY <1>1, <1>3, Zenon
<1>6. r \in {"PREPARE", "COMMIT"} => Planned([stage |-> r, round |-> m.round])
  BY <1>1, Zenon DEF Planned, CastStage, IsMessage
<1>7. ThreadsTyped'
  BY <1>2, <1>5, <1>6, MovesTyped, Zenon DEF AdvanceWith
<1>8. journal' \in [Host -> Seq(Entry)]
  BY <1>1, <1>3, LogTyped, Zenon DEF NodesTyped, IsMessage
<1>9. SentTyped' /\ NodesTyped'
  BY <1>3, <1>8, Zenon DEF SentTyped, NodesTyped
<1> QED
  BY <1>4, <1>7, <1>9, Zenon

LEMMA ExecuteInv ==
    ASSUME MeshInv, NEW n \in Host, NEW t \in Thread, Execute(n, t)
    PROVE  MeshInv'
<1> DEFINE k == thr[n][t].msg.round
<1>1. k \in Round
  BY MessageInHand, Zenon DEF Execute, IsMessage
<1>2. /\ ban_peer_local(n, Target[k]) \/ UNCHANGED engineVars
      /\ Log(n, "BAN_PEER_EXECUTED", k) \/ Log(n, "EXECUTED", k)
      /\ Return(n, t)
      /\ UNCHANGED <<seq, sent, net, cooldown, targeted>>
  BY Zenon DEF Execute
<1> HIDE DEF k
<1> USE DEF MeshInv
<1>3. EngineInv'
  BY <1>1, <1>2, BanInv, StutterInv, MeshAssumption, Zenon
<1>4. ThreadsTyped'
  BY <1>2, MovesTyped, Zenon
<1>5. journal' \in [Host -> Seq(Entry)]
  BY <1>1, <1>2, LogTyped, Zenon DEF NodesTyped
<1>6. SentTyped' /\ NodesTyped'
  BY <1>2, <1>5, Zenon DEF SentTyped, NodesTyped
<1> QED
  BY <1>3, <1>4, <1>6, Zenon

LEMMA MeshStutter ==
    ASSUME MeshInv, UNCHANGED meshVars
    PROVE  MeshInv'
<1>1. EngineInv'
  BY StutterInv, Zenon DEF MeshInv, meshVars
<1>2. ThreadsTyped'
  BY ThreadsStay, Zenon DEF MeshInv, meshVars
<1> QED
  BY <1>1, <1>2, Zenon DEF MeshInv, SentTyped, NodesTyped, meshVars

LEMMA MeshStep == MeshInv /\ [MeshNext]_meshVars => MeshInv'
<1> SUFFICES ASSUME MeshInv, [MeshNext]_meshVars PROVE MeshInv'
  OBVIOUS
<1>1. ASSUME NEW n \in Host, NEW t \in Thread, Broadcasting(n, t) PROVE MeshInv'
  BY <1>1, TakeSequenceInv, SendVoteInv, VerifyOwnInv, AdvanceInv, ExecuteInv
     DEF Broadcasting
<1> QED
  BY <1>1, StartingInv, ReceiveInv, MeshStutter, Zenon DEF MeshNext

LEMMA MeshInvTypes == MeshInv => MeshTypeOK
<1> SUFFICES ASSUME MeshInv PROVE MeshTypeOK
  OBVIOUS
<1>1. ASSUME NEW n \in Host, NEW t \in Thread
      PROVE  /\ thr[n][t].pc \in {"rest", "cool", "propose", "broadcast", "chain",
                                  "verify", "advance", "execute"}
             /\ thr[n][t].pc \in {"verify", "advance", "execute"}
                   => thr[n][t].msg \in sent
             /\ thr[n][t].bans \subseteq Node
  <2>1. ThreadTyped(thr[n][t], sent)
    BY Zenon DEF MeshInv, ThreadsTyped
  <2> QED
    BY <2>1, Zenon DEF ThreadTyped
<1>2. \A n \in Host : net[n] \subseteq sent /\ cooldown[n] \subseteq Node
  BY Zenon DEF MeshInv, NodesTyped
<1> QED
  BY <1>1, <1>2, Zenon DEF MeshInv, EngineInv, SentTyped, NodesTyped, MeshTypeOK

\* The types of MeshNode's state; and what a thread verifies, counts or carries
\* out is a message that was broadcast, at every point where another thread of
\* the node may run.
THEOREM MeshTypes == MeshSpec => []MeshTypeOK
BY InitMesh, MeshStep, MeshInvTypes, PTL DEF MeshSpec
-----------------------------------------------------------------------------
(* Bans have a cause. *)

\* The peers that some engine with the bans b and the keys ks has caught.
CaughtIn(b, ks) == {p \in Node : \E q \in Host : p \in b[q] /\ p \notin ks[q]}

\* When the peers in C were caught: a round that bans is one that bans a peer
\* of C, and so is what a thread in state x has in hand.
Deserved(k, C) == k \in BanRound => Target[k] \in C
ThreadDeserved(x, C) ==
    /\ x.bans \subseteq C
    /\ x.pc \notin {"rest", "propose"} => Deserved(x.msg.round, C)
ThreadsDeserved(f, C) == \A n \in Host, t \in Thread : ThreadDeserved(f[n][t], C)
SentDeserved(S, C) == \A m \in S : Deserved(m.round, C)
BansDeserved(b, rb, C) == \A n \in Host : b[n] \subseteq C /\ rb[n] \subseteq C
CauseInv == LET C == CaughtIn(banned, peer_keys)
            IN  /\ BansDeserved(banned, recent_bans, C)
                /\ SentDeserved(sent, C) /\ ThreadsDeserved(thr, C)

\* A step of an engine bans only whom it catches or who was caught.
CatchesOnly ==
    LET C == CaughtIn(banned, peer_keys) \cup CaughtIn(banned', peer_keys')
    IN  \A q \in Host : /\ banned[q] \subseteq banned'[q]
                        /\ peer_keys'[q] \subseteq peer_keys[q]
                        /\ banned'[q] \subseteq banned[q] \cup C
                        /\ recent_bans'[q] \subseteq recent_bans[q] \cup C

LEMMA CaughtKeeps ==
    ASSUME CatchesOnly
    PROVE  CaughtIn(banned, peer_keys) \subseteq CaughtIn(banned', peer_keys')
BY Zenon DEF CatchesOnly, CaughtIn

LEMMA BansStayDeserved ==
    ASSUME CauseInv, CatchesOnly
    PROVE  BansDeserved(banned', recent_bans', CaughtIn(banned', peer_keys'))
<1> DEFINE C == CaughtIn(banned, peer_keys)
           D == CaughtIn(banned', peer_keys')
<1>1. C \subseteq D
  BY CaughtKeeps, Zenon
<1>2. \A q \in Host : banned[q] \subseteq C /\ recent_bans[q] \subseteq C
  BY Zenon DEF CauseInv, BansDeserved
<1>3. \A q \in Host : /\ banned'[q] \subseteq banned[q] \cup C \cup D
                      /\ recent_bans'[q] \subseteq recent_bans[q] \cup C \cup D
  BY Zenon DEF CatchesOnly
<1> HIDE DEF C, D
<1>4. \A q \in Host : banned'[q] \subseteq D /\ recent_bans'[q] \subseteq D
  BY <1>1, <1>2, <1>3, Zenon
<1> QED
  BY <1>4, Zenon DEF BansDeserved, D

LEMMA ThreadDeservedKeeps ==
    ASSUME NEW C, NEW D, C \subseteq D, NEW x, ThreadDeserved(x, C)
    PROVE  ThreadDeserved(x, D)
BY Zenon DEF ThreadDeserved, Deserved

LEMMA SameMembers ==
    ASSUME UNCHANGED <<banned, peer_keys, recent_bans>>
    PROVE  CatchesOnly
BY Zenon DEF CatchesOnly

LEMMA FailureCatches ==
    ASSUME EngineInv, NEW n \in Host, NEW p \in Node, NEW v, record_failure(n, p, v)
    PROVE  CatchesOnly
<1>1. CASE UNCHANGED memberVars
  BY <1>1, SameMembers, Zenon DEF memberVars
<1>2. CASE /\ banned' = [banned EXCEPT ![n] = @ \cup {p}]
           /\ recent_bans' = [recent_bans EXCEPT ![n] = @ \cup {p}]
           /\ peer_keys' = [peer_keys EXCEPT ![n] = @ \ {p}]
  <2>1. /\ banned'[n] = banned[n] \cup {p} /\ recent_bans'[n] = recent_bans[n] \cup {p}
        /\ peer_keys'[n] = peer_keys[n] \ {p}
        /\ \A q \in Host \ {n} : /\ banned'[q] = banned[q] /\ peer_keys'[q] = peer_keys[q]
                                 /\ recent_bans'[q] = recent_bans[q]
    BY <1>2, Zenon DEF EngineInv, EngineTypeOK
  <2>2. p \in CaughtIn(banned', peer_keys')
    BY <2>1, Zenon DEF CaughtIn
  <2> QED
    BY <2>1, <2>2, Zenon DEF CatchesOnly
<1> QED
  BY <1>1, <1>2, Zenon DEF record_failure, prune_peer_locked

LEMMA VerifyCatches ==
    ASSUME EngineInv, NEW n \in Host, NEW m, IsMessage(m), NEW ok \in BOOLEAN,
           verify_message(n, m, ok)
    PROVE  CatchesOnly
<1>1. m.sender \in Node
  BY Zenon DEF IsMessage
<1>2. \/ UNCHANGED <<banned, peer_keys, recent_bans>>
      \/ record_failure(n, m.sender, votes[n])
  BY Zenon DEF verify_message, engineVars, memberVars
<1> QED
  BY <1>1, <1>2, SameMembers, FailureCatches, Zenon

LEMMA AdvanceCatches ==
    ASSUME EngineInv, NEW n \in Host, NEW m, IsMessage(m), NEW r \in PBFTStage,
           advance_state(n, m, r)
    PROVE  CatchesOnly
<1>1. m.sender \in Node
  BY Zenon DEF IsMessage
<1>2. \/ UNCHANGED <<banned, peer_keys, recent_bans>>
      \/ record_failure(n, m.sender, LiveVotes(n))
  BY Zenon DEF advance_state, RateLimited, Repeated, Counted, engineVars, memberVars
<1> QED
  BY <1>1, <1>2, SameMembers, FailureCatches, Zenon

\* A step that bans nobody without a cause keeps the invariant when what it
\* sends and what the thread it moves has in hand are deserved.
LEMMA CauseStays ==
    ASSUME CauseInv, CatchesOnly, UNCHANGED <<thr, sent>>
    PROVE  CauseInv'
<1> DEFINE C == CaughtIn(banned, peer_keys)
           D == CaughtIn(banned', peer_keys')
<1>1. C \subseteq D /\ BansDeserved(banned', recent_bans', D)
  BY CaughtKeeps, BansStayDeserved, Zenon
<1>2. SentDeserved(sent, C) /\ ThreadsDeserved(thr, C)
  BY Zenon DEF CauseInv
<1>3. CauseInv' <=> /\ BansDeserved(banned', recent_bans', D)
                    /\ SentDeserved(sent', D) /\ ThreadsDeserved(thr', D)
  BY Zenon DEF CauseInv, CaughtIn, BansDeserved, SentDeserved, ThreadsDeserved
<1> HIDE DEF C, D
<1>4. SentDeserved(sent', D)
  BY <1>1, <1>2, Zenon DEF SentDeserved, Deserved
<1>5. ThreadsDeserved(thr', D)
  BY <1>1, <1>2, ThreadDeservedKeeps, Zenon DEF ThreadsDeserved
<1> QED
  BY <1>1, <1>3, <1>4, <1>5, Zenon

LEMMA CauseMoves ==
    ASSUME ThreadsTyped, CauseInv, CatchesOnly, NEW n \in Host, NEW t \in Thread, NEW x,
           thr' = [thr EXCEPT ![n][t] = x],
           ThreadDeserved(x, CaughtIn(banned, peer_keys)),
           \A m \in sent' \ sent : Deserved(m.round, CaughtIn(banned, peer_keys))
    PROVE  CauseInv'
<1> DEFINE C == CaughtIn(banned, peer_keys)
           D == CaughtIn(banned', peer_keys')
<1>1. C \subseteq D /\ BansDeserved(banned', recent_bans', D)
  BY CaughtKeeps, BansStayDeserved, Zenon
<1>2. SentDeserved(sent, C) /\ ThreadsDeserved(thr, C)
  BY Zenon DEF CauseInv
<1>3. CauseInv' <=> /\ BansDeserved(banned', recent_bans', D)
                    /\ SentDeserved(sent', D) /\ ThreadsDeserved(thr', D)
  BY Zenon DEF CauseInv, CaughtIn, BansDeserved, SentDeserved, ThreadsDeserved
<1>4. ThreadDeserved(x, C) /\ \A m \in sent' \ sent : Deserved(m.round, C)
  OBVIOUS
<1> HIDE DEF C, D
<1>5. SentDeserved(sent', D)
  BY <1>1, <1>2, <1>4, Zenon DEF SentDeserved, Deserved
<1>6. ASSUME NEW q \in Host, NEW u \in Thread PROVE ThreadDeserved(thr'[q][u], D)
  <2>1. thr'[q][u] = x \/ thr'[q][u] = thr[q][u]
    BY Zenon DEF ThreadsTyped
  <2>2. ThreadDeserved(thr[q][u], C)
    BY <1>2, Zenon DEF ThreadsDeserved
  <2> QED
    BY <1>1, <1>4, <2>1, <2>2, ThreadDeservedKeeps, Zenon
<1>7. ThreadsDeserved(thr', D)
  BY <1>6, Zenon DEF ThreadsDeserved
<1> QED
  BY <1>1, <1>3, <1>5, <1>7, Zenon

LEMMA CauseAt ==
    ASSUME ThreadsTyped, CauseInv, CatchesOnly, NEW n \in Host, NEW t \in Thread,
           NEW pc, NEW m, At(n, t, pc, m),
           Deserved(m.round, CaughtIn(banned, peer_keys)),
           \A s \in sent' \ sent : s = m
    PROVE  CauseInv'
<1>1. PICK x : /\ thr' = [thr EXCEPT ![n][t] = x]
               /\ x.pc = pc /\ x.msg = m /\ x.bans = thr[n][t].bans
  BY AtMoves
<1>2. thr[n][t].bans \subseteq CaughtIn(banned, peer_keys)
  BY Zenon DEF CauseInv, ThreadsDeserved, ThreadDeserved
<1>3. ThreadDeserved(x, CaughtIn(banned, peer_keys))
  BY <1>1, <1>2, Zenon DEF ThreadDeserved
<1> QED
  BY <1>1, <1>3, CauseMoves, Zenon

LEMMA CauseReturn ==
    ASSUME ThreadsTyped, CauseInv, CatchesOnly, NEW n \in Host, NEW t \in Thread,
           Return(n, t), sent' = sent
    PROVE  CauseInv'
<1> DEFINE y == [thr[n][t] EXCEPT !.pc = "propose", !.msg = <<>>]
           C == CaughtIn(banned, peer_keys)
<1>1. DOMAIN thr[n][t] = {"pc", "msg", "bans"}
  BY Zenon DEF ThreadsTyped, ThreadTyped
<1>2. \/ thr' = [thr EXCEPT ![n][t] = Resting]
      \/ thr' = [thr EXCEPT ![n][t] = y]
  BY Zenon DEF Return
<1>3. ThreadDeserved(Resting, C)
  BY Zenon DEF ThreadDeserved, Resting
<1>4. y.pc = "propose" /\ y.bans = thr[n][t].bans
  BY <1>1, Zenon
<1>5. thr[n][t].bans \subseteq C
  BY Zenon DEF CauseInv, ThreadsDeserved, ThreadDeserved
<1> HIDE DEF y
<1>6. ThreadDeserved(y, C)
  BY <1>4, <1>5, Zenon DEF ThreadDeserved
<1> QED
  BY <1>2, <1>3, <1>6, CauseMoves, Zenon

\* What a thread that has a message in hand may rely on.
LEMMA InHandDeserved ==
    ASSUME CauseInv, NEW n \in Host, NEW t \in Thread,
           thr[n][t].pc \notin {"rest", "propose"}
    PROVE  Deserved(thr[n][t].msg.round, CaughtIn(banned, peer_keys))
BY Zenon DEF CauseInv, ThreadsDeserved, ThreadDeserved

\* main.cpp starts no round that bans.
NoBanProposed == \A pr \in Proposal : pr[2] \notin BanRound

LEMMA StartingCause ==
    ASSUME NoBanProposed, MeshInv, CauseInv, NEW n \in Host, Starting(n)
    PROVE  CauseInv'
<1> DEFINE C == CaughtIn(banned, peer_keys)
<1> USE DEF MeshInv
<1>1. ASSUME NEW t \in Callers, SetCooldown(n, t) PROVE CauseInv'
  <2>1. /\ thr[n][t].pc = "cool" /\ At(n, t, "broadcast", thr[n][t].msg)
        /\ t \in Thread /\ sent' = sent
    BY <1>1, Zenon DEF SetCooldown, Thread
  <2>2. CatchesOnly
    BY <1>1, SameMembers, Zenon DEF SetCooldown, engineVars, memberVars
  <2>3. Deserved(thr[n][t].msg.round, C)
    BY <2>1, InHandDeserved, Zenon
  <2> QED
    BY <2>1, <2>2, <2>3, CauseAt, Zenon
<1>2. ASSUME NEW t \in Callers, NEW k \in Round, CheckCooldown(n, t, k) PROVE CauseInv'
  <2> DEFINE m == [stage |-> "PRE_PREPARE", round |-> k]
  <2>1. At(n, t, "cool", m) /\ t \in Thread /\ sent' = sent /\ <<n, k>> \in Proposal
    BY <1>2, Zenon DEF CheckCooldown, Thread
  <2>2. CatchesOnly
    BY <1>2, SameMembers, Zenon DEF CheckCooldown, engineVars, memberVars
  <2>3. k \notin BanRound
    BY <2>1, Zenon DEF NoBanProposed
  <2>4. Deserved(m.round, C)
    BY <2>3, Zenon DEF Deserved
  <2> HIDE DEF m
  <2> QED
    BY <2>1, <2>2, <2>4, CauseAt, Zenon
<1>3. CASE DrainBans(n)
  <2> DEFINE x == [Resting EXCEPT !.pc = "propose", !.bans = recent_bans[n]]
  <2>1. thr' = [thr EXCEPT ![n]["beacon"] = x] /\ "beacon" \in Thread /\ sent' = sent
    BY <1>3, Zenon DEF DrainBans, Thread
  <2>2. recent_bans[n] \subseteq C
    BY Zenon DEF CauseInv, BansDeserved
  <2>3. /\ UNCHANGED <<banned, peer_keys>>
        /\ recent_bans' = [recent_bans EXCEPT ![n] = {}]
    BY <1>3, Zenon DEF DrainBans, drain_recent_bans
  <2>4. CatchesOnly
    BY <2>3, Zenon DEF CatchesOnly, EngineInv, EngineTypeOK
  <2>5. x.pc = "propose" /\ x.bans = recent_bans[n]
    BY Zenon DEF Resting
  <2> HIDE DEF x
  <2>6. ThreadDeserved(x, C)
    BY <2>2, <2>5, Zenon DEF ThreadDeserved
  <2> QED
    BY <2>1, <2>4, <2>6, CauseMoves, Zenon
<1>4. ASSUME NEW p \in DOMAIN BanOf, ProposeBan(n, p) PROVE CauseInv'
  <2> DEFINE more == thr[n]["beacon"].bans \ {p}
             x == [pc |-> "broadcast", bans |-> more,
                   msg |-> [stage |-> "PRE_PREPARE", round |-> BanOf[p]]]
             y == [thr[n]["beacon"] EXCEPT !.bans = more]
  <2>1. "beacon" \in Thread /\ sent' = sent /\ p \in thr[n]["beacon"].bans
    BY <1>4, Zenon DEF ProposeBan, Thread
  <2>2. \/ thr' = [thr EXCEPT ![n]["beacon"] = x]
        \/ thr' = [thr EXCEPT ![n]["beacon"] = y]
        \/ thr' = [thr EXCEPT ![n]["beacon"] = Resting]
    BY <1>4, Zenon DEF ProposeBan
  <2>3. CatchesOnly
    BY <1>4, SameMembers, Zenon DEF ProposeBan, engineVars, memberVars
  <2>4. thr[n]["beacon"].bans \subseteq C
    BY <2>1, Zenon DEF CauseInv, ThreadsDeserved, ThreadDeserved
  <2>5. Deserved(BanOf[p], C)
    BY <2>1, <2>4, MeshAssumption, Zenon DEF Deserved
  <2>6. x.bans = more /\ x.msg.round = BanOf[p]
    OBVIOUS
  <2>7. y.pc = "propose" /\ y.bans = more
    BY <1>4, <2>1 DEF ProposeBan, ThreadsTyped, ThreadTyped
  <2>8. more \subseteq C
    BY <2>4, Zenon
  <2> HIDE DEF x, y, more
  <2>9. ThreadDeserved(x, C) /\ ThreadDeserved(y, C) /\ ThreadDeserved(Resting, C)
    BY <2>5, <2>6, <2>7, <2>8, Zenon DEF ThreadDeserved, Resting
  <2> QED
    BY <2>1, <2>2, <2>3, <2>9, CauseMoves, Zenon
<1> QED
  BY <1>1, <1>2, <1>3, <1>4, Zenon DEF Starting

LEMMA ExecuteCause ==
    ASSUME MeshInv, CauseInv, NEW n \in Host, NEW t \in Thread, Execute(n, t)
    PROVE  CauseInv'
<1> DEFINE k == thr[n][t].msg.round
           C == CaughtIn(banned, peer_keys)
<1>1. thr[n][t].pc = "execute" /\ Return(n, t) /\ sent' = sent
  BY Zenon DEF Execute
<1>2. Deserved(k, C)
  BY <1>1, InHandDeserved, Zenon
<1>3. \/ k \in BanRound /\ ban_peer_local(n, Target[k])
      \/ UNCHANGED engineVars
  BY Zenon DEF Execute
<1> HIDE DEF k
<1>4. CatchesOnly
  <2>1. CASE UNCHANGED engineVars
    BY <2>1, SameMembers, Zenon DEF engineVars, memberVars
  <2>2. CASE k \in BanRound /\ ban_peer_local(n, Target[k])
    <3>1. Target[k] \in C
      BY <1>2, <2>2, Zenon DEF Deserved
    <3>2. /\ banned' = [banned EXCEPT ![n] = @ \cup {Target[k]}]
          /\ UNCHANGED <<peer_keys, recent_bans>>
      BY <2>2, Zenon DEF ban_peer_local
    <3>3. \A q \in Host : /\ banned[q] \subseteq banned'[q]
                          /\ banned'[q] \subseteq banned[q] \cup {Target[k]}
      BY <3>2, Zenon DEF MeshInv, EngineInv, EngineTypeOK
    <3> QED
      BY <3>1, <3>2, <3>3, Zenon DEF CatchesOnly
  <2> QED
    BY <1>3, <2>1, <2>2, Zenon
<1> QED
  BY <1>1, <1>4, CauseReturn, Zenon DEF MeshInv

LEMMA CauseStep ==
    ASSUME NoBanProposed, MeshInv, CauseInv, [MeshNext]_meshVars
    PROVE  CauseInv'
<1> USE DEF MeshInv
<1> DEFINE C == CaughtIn(banned, peer_keys)
<1>1. CASE UNCHANGED meshVars
  BY <1>1, SameMembers, CauseStays, Zenon DEF meshVars, engineVars, memberVars
<1>2. ASSUME NEW n \in Host, NEW t \in Thread, TakeSequence(n, t) PROVE CauseInv'
  <2> DEFINE b == thr[n][t].msg
             m == [stage |-> b.stage, round |-> b.round,
                   seq |-> seq[n] + 1, view |-> current_view[n]]
  <2>1. thr[n][t].pc = "broadcast" /\ At(n, t, "chain", m) /\ sent' = sent
    BY <1>2, Zenon DEF TakeSequence
  <2>2. m.round = b.round
    BY Zenon
  <2> HIDE DEF m
  <2>3. Deserved(m.round, C)
    BY <2>1, <2>2, InHandDeserved, Zenon
  <2>4. CatchesOnly
    BY <1>2, SameMembers, Zenon DEF TakeSequence, engineVars, memberVars
  <2> QED
    BY <2>1, <2>3, <2>4, CauseAt, Zenon
<1>3. ASSUME NEW n \in Host, NEW t \in Thread, SendVote(n, t) PROVE CauseInv'
  <2>1. PICK m : /\ m.round = thr[n][t].msg.round
                 /\ \/ set_round_commit_sig(n, m.round)
                    \/ UNCHANGED engineVars
                 /\ sent' = sent \cup {m} /\ At(n, t, "verify", m)
    BY <1>3, SendVoteFacts, Zenon
  <2>2. thr[n][t].pc = "chain"
    BY <1>3, Zenon DEF SendVote
  <2>3. Deserved(m.round, C)
    BY <2>1, <2>2, InHandDeserved, Zenon
  <2>4. CatchesOnly
    BY <2>1, SameMembers, Zenon DEF set_round_commit_sig, engineVars, memberVars
  <2> QED
    BY <2>1, <2>3, <2>4, CauseAt, Zenon
<1>4. ASSUME NEW n \in Host, NEW t \in Thread, VerifyOwn(n, t) PROVE CauseInv'
  <2> DEFINE m == thr[n][t].msg
  <2>1. IsMessage(m) /\ thr[n][t].pc = "verify"
    BY <1>4, MessageInHand, Zenon DEF VerifyOwn
  <2>2. /\ \/ verify_message(n, m, TRUE) /\ At(n, t, "advance", m)
           \/ verify_message(n, m, FALSE) /\ Return(n, t)
        /\ sent' = sent
    BY <1>4, Zenon DEF VerifyOwn
  <2>3. Deserved(m.round, C)
    BY <2>1, InHandDeserved, Zenon
  <2> HIDE DEF m
  <2>4. CatchesOnly
    BY <2>1, <2>2, VerifyCatches, Zenon
  <2> QED
    BY <2>2, <2>3, <2>4, CauseAt, CauseReturn, Zenon
<1>5. ASSUME NEW n \in Host, NEW m \in net[n], Receive(n, m) PROVE CauseInv'
  <2>1. m \in sent /\ IsMessage(m) /\ "listener" \in Thread
    BY Zenon DEF NodesTyped, SentTyped, Thread
  <2>2. /\ \/ verify_message(n, m, TRUE) /\ At(n, "listener", "advance", m)
           \/ verify_message(n, m, FALSE) /\ UNCHANGED thr
        /\ sent' = sent
    BY <1>5, Zenon DEF Receive
  <2>3. Deserved(m.round, C)
    BY <2>1, Zenon DEF CauseInv, SentDeserved
  <2>4. CatchesOnly
    BY <2>1, <2>2, VerifyCatches, Zenon
  <2> QED
    BY <2>1, <2>2, <2>3, <2>4, CauseAt, CauseStays, Zenon
<1>6. ASSUME NEW n \in Host, NEW t \in Thread, Advance(n, t) PROVE CauseInv'
  <2> DEFINE m == thr[n][t].msg
  <2>1. IsMessage(m) /\ thr[n][t].pc = "advance" /\ sent' = sent
    BY <1>6, MessageInHand, AdvanceFacts, Zenon
  <2>2. PICK r \in PBFTStage : AdvanceWith(n, t, m, r)
    BY <1>6, AdvanceFacts, Zenon
  <2>3. Deserved(m.round, C)
    BY <2>1, InHandDeserved, Zenon
  <2> HIDE DEF m
  <2>4. CatchesOnly
    BY <2>1, <2>2, AdvanceCatches, Zenon DEF AdvanceWith
  <2> DEFINE b == [stage |-> r, round |-> m.round]
  <2>5. \/ Return(n, t) \/ At(n, t, "broadcast", b) \/ At(n, t, "execute", m)
    BY <2>2, Zenon DEF AdvanceWith
  <2>6. Deserved(b.round, C)
    BY <2>3, Zenon
  <2> HIDE DEF b
  <2> QED
    BY <2>1, <2>3, <2>4, <2>5, <2>6, CauseAt, CauseReturn, Zenon
<1>7. ASSUME NEW n \in Host, NEW t \in Thread, Broadcasting(n, t) PROVE CauseInv'
  BY <1>2, <1>3, <1>4, <1>6, <1>7, ExecuteCause, Zenon DEF Broadcasting
<1> QED
  BY <1>1, <1>5, <1>7, StartingCause, Zenon DEF MeshNext

LEMMA CauseInit == MeshInit => CauseInv
<1> SUFFICES ASSUME MeshInit PROVE CauseInv
  OBVIOUS
<1>1. /\ \A n \in Host : banned[n] = {} /\ recent_bans[n] = {}
      /\ sent = {}
      /\ \A n \in Host, t \in Thread : thr[n][t].bans = {} /\ thr[n][t].pc = "rest"
  BY Zenon DEF MeshInit, EngineInit, Resting
<1> QED
  BY <1>1, Zenon DEF CauseInv, BansDeserved, SentDeserved, ThreadsDeserved, ThreadDeserved

\* As long as the operator's own evidence asks for no ban, a node that is banned
\* anywhere was caught failing by the engine of some node, which has dropped its
\* key: for any number of nodes and threads and whatever is lost or reordered, a
\* ban is never the product of the ban rounds alone.
THEOREM BansAreDeserved == NoBanProposed /\ MeshSpec => []BansHaveCause
<1>1. CauseInv => BansHaveCause
  BY Zenon DEF CauseInv, BansDeserved, CaughtIn, BansHaveCause
<1>2. NoBanProposed => NoBanProposed'
  BY Zenon DEF NoBanProposed
<1>3. NoBanProposed /\ MeshInv /\ CauseInv /\ [MeshNext]_meshVars => CauseInv'
  BY CauseStep, Zenon
<1> QED
  BY <1>1, <1>2, <1>3, MeshStep, InitMesh, CauseInit, PTL DEF MeshSpec
=============================================================================
