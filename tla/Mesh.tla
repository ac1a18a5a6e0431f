-------------------------------- MODULE Mesh --------------------------------
(***************************************************************************)
(* Nodes that run PBFT rounds over UDP broadcasts: the consensus part of   *)
(* src/consensus/MeshNode.cpp, each node with its own engine (module PBFT) *)
(* and the threads that call it.  p2p_listener_loop is the only thread     *)
(* that takes messages; the loops of main.cpp start rounds; the beacon     *)
(* loop proposes the bans that the engine has imposed.  Each of them runs  *)
(* broadcast_pbft_stage to its end, and the steps of the three interleave  *)
(* wherever the engine's mutex is free.                                    *)
(*                                                                         *)
(* A broadcast also goes out over the TLS connections, but no thread ever  *)
(* reads one, so only the UDP datagrams arrive: in any order, or never.    *)
(***************************************************************************)
EXTENDS PBFT, Sequences

CONSTANTS
    Proposal,  \* pairs <<n, k>>: the rounds that main.cpp may start on a node
    Target,    \* the target_id of a round
    BanOf,     \* the round that proposes the ban of a node, for the nodes
               \* that may be banned
    Callers,   \* the threads of main.cpp that may call initiate_consensus
    InOrder,   \* whether the network keeps the order of a sender's datagrams
    MaxSeq     \* bound on m_sequence_number

ASSUME MeshAssumption ==
    /\ Proposal \subseteq Host \X Round /\ Target \in [Round -> Node]
    /\ DOMAIN BanOf \subseteq Node
    /\ \A p \in DOMAIN BanOf : BanOf[p] \in Round /\ Target[BanOf[p]] = p
    /\ {"listener", "beacon"} \cap Callers = {}
    /\ InOrder \in BOOLEAN /\ MaxSeq \in Nat

VARIABLES
    seq,       \* m_sequence_number
    thr,       \* what each thread of each node is doing
    sent,      \* every message that was ever broadcast
    net,       \* the datagrams under way to each node
    cooldown,  \* the targets in m_last_consensus
    targeted,  \* whether m_last_targeted_at is set
    journal    \* what StateJournal::append was called with
meshVars == <<engineVars, seq, thr, sent, net, cooldown, targeted, journal>>

Thread == Callers \cup {"listener", "beacon"}
BanRound == {BanOf[p] : p \in DOMAIN BanOf}

\* A thread at rest, and one that is at pc with a message (or the parts of it
\* that are known) and, in the beacon loop, more bans to propose.
Resting == [pc |-> "rest", msg |-> <<>>, bans |-> {}]
At(n, t, pc, m) == thr' = [thr EXCEPT ![n][t] = [@ EXCEPT !.pc = pc, !.msg = m]]

\* The end of broadcast_pbft_stage and of process_message.
Return(n, t) ==
    thr' = [thr EXCEPT ![n][t] =
              IF @.bans = {} THEN Resting
              ELSE [@ EXCEPT !.pc = "propose", !.msg = <<>>]]

MeshInit == /\ EngineInit(Node)
            /\ seq = [n \in Host |-> 0]
            /\ thr = [n \in Host |-> [t \in Thread |-> Resting]]
            /\ sent = {}
            /\ net = [n \in Host |-> {}]
            /\ cooldown = [n \in Host |-> {}]
            /\ targeted = [n \in Host |-> FALSE]
            /\ journal = [n \in Host |-> <<>>]
-----------------------------------------------------------------------------
(* Starting a round. *)

\* initiate_consensus, up to the test of the cooldown.
CheckCooldown(n, t, k) ==
    /\ thr[n][t].pc = "rest" /\ <<n, k>> \in Proposal
    /\ Target[k] \notin cooldown[n]
    /\ At(n, t, "cool", [stage |-> "PRE_PREPARE", round |-> k])
    /\ UNCHANGED <<engineVars, seq, sent, net, cooldown, targeted, journal>>

SetCooldown(n, t) ==
    /\ thr[n][t].pc = "cool"
    /\ cooldown' = [cooldown EXCEPT ![n] = @ \cup {Target[thr[n][t].msg.round]}]
    /\ At(n, t, "broadcast", thr[n][t].msg)
    /\ UNCHANGED <<engineVars, seq, sent, net, targeted, journal>>

\* discovery_beacon_loop takes the bans of the engine.
DrainBans(n) ==
    /\ thr[n]["beacon"].pc = "rest" /\ recent_bans[n] # {}
    /\ drain_recent_bans(n, recent_bans[n])
    /\ thr' = [thr EXCEPT ![n]["beacon"] =
                 [Resting EXCEPT !.pc = "propose", !.bans = recent_bans[n]]]
    /\ UNCHANGED <<seq, sent, net, cooldown, targeted, journal>>

\* MeshNode::propose_ban.  A peer that was drained is banned here for good, so
\* after the broadcast the function finds it banned and returns.
ProposeBan(n, p) ==
    LET more == thr[n]["beacon"].bans \ {p}
    IN  /\ thr[n]["beacon"].pc = "propose" /\ p \in thr[n]["beacon"].bans
        /\ \/ /\ p # n
              /\ thr' = [thr EXCEPT ![n]["beacon"] =
                   [pc |-> "broadcast", bans |-> more,
                    msg |-> [stage |-> "PRE_PREPARE", round |-> BanOf[p]]]]
           \/ /\ p = n
              /\ thr' = [thr EXCEPT ![n]["beacon"] =
                   IF more = {} THEN Resting ELSE [@ EXCEPT !.bans = more]]
        /\ UNCHANGED <<engineVars, seq, sent, net, cooldown, targeted, journal>>
-----------------------------------------------------------------------------
(* broadcast_pbft_stage. *)

\* The sequence number; the view does not change in the rounds modelled here.
TakeSequence(n, t) ==
    /\ thr[n][t].pc = "broadcast" /\ seq[n] < MaxSeq
    /\ seq' = [seq EXCEPT ![n] = @ + 1]
    /\ At(n, t, "chain",
          [stage |-> thr[n][t].msg.stage, round |-> thr[n][t].msg.round,
           seq |-> seq[n] + 1, view |-> current_view[n]])
    /\ UNCHANGED <<engineVars, sent, net, cooldown, targeted, journal>>

\* Mutant: the node's own vote is counted for the next stage.
SendVoteMislabelled(n, t) ==
    LET b == thr[n][t].msg
        m == [stage |-> b.stage, sender |-> n, round |-> b.round, seq |-> b.seq,
              view |-> b.view, sig |-> TRUE, prev |-> get_last_sent_hash(n)]
    IN  /\ thr[n][t].pc = "chain"
        /\ sent' = sent \cup {m}
        /\ net' = [q \in Host |-> IF q = n THEN net[q] ELSE net[q] \cup {m}]
        /\ At(n, t, "verify", [m EXCEPT !.stage = "COMMIT"])
        /\ UNCHANGED <<engineVars, seq, cooldown, targeted, journal>>

\* The hash of the last message, the signature and the broadcast.  What comes
\* between the first and the last of these touches nothing another thread
\* reads.
SendVote(n, t) ==
    LET b == thr[n][t].msg
        m == [stage |-> b.stage, sender |-> n, round |-> b.round, seq |-> b.seq,
              view |-> b.view, sig |-> TRUE, prev |-> get_last_sent_hash(n)]
    IN  /\ thr[n][t].pc = "chain"
        /\ \/ m.stage = "COMMIT" /\ set_round_commit_sig(n, m.round)
           \/ m.stage # "COMMIT" /\ UNCHANGED engineVars
        /\ sent' = sent \cup {m}
        /\ net' = [q \in Host |-> IF q = n THEN net[q] ELSE net[q] \cup {m}]
        /\ At(n, t, "verify", m)
        /\ UNCHANGED <<seq, cooldown, targeted, journal>>

\* verify_message on the node's own message.
VerifyOwn(n, t) ==
    LET m == thr[n][t].msg
    IN  /\ thr[n][t].pc = "verify"
        /\ \/ verify_message(n, m, TRUE) /\ At(n, t, "advance", m)
           \/ verify_message(n, m, FALSE) /\ Return(n, t)
        /\ UNCHANGED <<seq, sent, net, cooldown, targeted, journal>>
-----------------------------------------------------------------------------
(* Taking a message, and what follows advance_state for it and for the      *)
(* node's own.                                                              *)

\* The VOTE branch of process_message, up to verify_message.
Receive(n, m) ==
    /\ m \in net[n] /\ thr[n]["listener"].pc = "rest"
    /\ InOrder => \A h \in net[n] : h.sender = m.sender => h.seq >= m.seq
    /\ net' = [net EXCEPT ![n] = @ \ {m}]
    /\ \/ verify_message(n, m, TRUE) /\ At(n, "listener", "advance", m)
       \/ verify_message(n, m, FALSE) /\ UNCHANGED thr
    /\ targeted' = [targeted EXCEPT ![n] = @ \/ Target[m.round] = n]
    /\ UNCHANGED <<seq, sent, cooldown, journal>>

Log(n, what, k) == journal' = [journal EXCEPT ![n] = Append(@, <<what, k>>)]

Advance(n, t) ==
    LET m == thr[n][t].msg
        next == [stage |-> "PREPARE", round |-> m.round]
    IN  /\ thr[n][t].pc = "advance"
        /\ \/ /\ advance_state(n, m, "IDLE")
              /\ Return(n, t) /\ UNCHANGED journal
           \/ /\ advance_state(n, m, "PREPARE")
              /\ At(n, t, "broadcast", next) /\ UNCHANGED journal
           \/ /\ advance_state(n, m, "COMMIT")
              /\ At(n, t, "broadcast", [next EXCEPT !.stage = "COMMIT"])
              /\ Log(n, "COMMIT", m.round)
           \/ /\ advance_state(n, m, "EXECUTED")
              /\ At(n, t, "execute", m) /\ UNCHANGED journal
        /\ UNCHANGED <<seq, sent, net, cooldown, targeted>>

\* Mutant: every round that is executed bans its target.
ExecuteBansAll(n, t) ==
    LET k == thr[n][t].msg.round
    IN  /\ thr[n][t].pc = "execute"
        /\ ban_peer_local(n, Target[k]) /\ Log(n, "EXECUTED", k)
        /\ Return(n, t)
        /\ UNCHANGED <<seq, sent, net, cooldown, targeted>>

\* EXECUTED: a ban is imposed, anything else goes to the journal, the proof
\* chain and the MitigationEngine.  The guard on peer_count holds: the peers
\* that are modelled stay in the peer table.
Execute(n, t) ==
    LET k == thr[n][t].msg.round
    IN  /\ thr[n][t].pc = "execute"
        /\ \/ /\ k \in BanRound /\ ban_peer_local(n, Target[k])
              /\ Log(n, "BAN_PEER_EXECUTED", k)
           \/ /\ k \notin BanRound /\ UNCHANGED engineVars
              /\ Log(n, "EXECUTED", k)
        /\ Return(n, t)
        /\ UNCHANGED <<seq, sent, net, cooldown, targeted>>

Broadcasting(n, t) == \/ TakeSequence(n, t) \/ SendVote(n, t) \/ VerifyOwn(n, t)
                      \/ Advance(n, t) \/ Execute(n, t)
Starting(n) == \/ \E t \in Callers : \/ SetCooldown(n, t)
                                     \/ \E k \in Round : CheckCooldown(n, t, k)
               \/ DrainBans(n) \/ \E p \in DOMAIN BanOf : ProposeBan(n, p)
MeshNext == \E n \in Host : \/ Starting(n)
                            \/ \E t \in Thread : Broadcasting(n, t)
                            \/ \E m \in net[n] : Receive(n, m)
MeshSpec == MeshInit /\ [][MeshNext]_meshVars

\* Nobody is pruned by an automatic ban: the engines agree on the quorum.
SteadyMeshNext == MeshNext /\ UNCHANGED total_nodes
SteadyMeshSpec == MeshInit /\ [][SteadyMeshNext]_meshVars

\* The threads of a proposer broadcast one after the other: none takes a
\* sequence number while the hash of another's message is not in the history
\* yet, as a mutex over these steps would have it.  The code has none there.
Sends(n, x) == \/ x.pc \in {"chain", "verify"}
               \/ x.pc = "advance" /\ x.msg.sender = n
OneSends(n) == \A t, u \in Thread :
                  Sends(n, thr[n][t]) /\ Sends(n, thr[n][u]) => t = u
Proposers == {n \in Host : \E k \in Round : <<n, k>> \in Proposal}
SerialMeshNext == MeshNext /\ \A n \in Proposers : OneSends(n)'
SerialMeshSpec == MeshInit /\ [][SerialMeshNext]_meshVars

\* Every thread that is at work goes on, and the listener takes what arrives.
FairMeshSpec ==
    /\ MeshSpec
    /\ \A n \in Host :
          /\ WF_meshVars(\E m \in net[n] : Receive(n, m))
          /\ \A t \in Thread : WF_meshVars(Broadcasting(n, t))
-----------------------------------------------------------------------------
\* The types of what MeshNode adds to the engine; a vote that is being verified
\* or counted, the node's own as well, is one that was broadcast.
MeshTypeOK ==
    /\ EngineTypeOK
    /\ seq \in [Host -> 0 .. MaxSeq]
    /\ \A n \in Host, t \in Thread :
          /\ thr[n][t].pc \in {"rest", "cool", "propose", "broadcast", "chain",
                               "verify", "advance", "execute"}
          /\ thr[n][t].pc \in {"verify", "advance", "execute"}
                => thr[n][t].msg \in sent
          /\ thr[n][t].bans \subseteq Node
    /\ \A m \in sent : IsMessage(m)
    /\ targeted \in [Host -> BOOLEAN]
    /\ \A n \in Host : net[n] \subseteq sent /\ cooldown[n] \subseteq Node

Cast(stage, k) == {p \in Host : \E m \in sent : /\ m.sender = p
                                               /\ m.stage = stage /\ m.round = k}
Logged(n, what, k) == \E i \in DOMAIN journal[n] : journal[n][i] = <<what, k>>
Carried(k) == {n \in Host : \/ Logged(n, "EXECUTED", k)
                            \/ Logged(n, "BAN_PEER_EXECUTED", k)}

\* A vote in m_vote_registry was cast: by the node it is counted for, for that
\* round and that stage, whatever was banned, pruned or rolled back meanwhile.
VotesWereCast ==
    \A n \in Host, k \in Round, s \in VoteStage : votes[n][k][s] \subseteq Cast(s, k)

\* The mesh implements quorum voting: whatever is lost or reordered, nobody
\* votes COMMIT before a quorum has voted PREPARE, and nobody carries a round
\* out before a quorum has voted COMMIT.
Voting == INSTANCE QuorumVoting WITH
    Voter <- Host, Ballot <- Round, Quorum <- QuorumSize(Cardinality(Node)),
    proposed <- {k \in Round : Cast("PRE_PREPARE", k) # {}},
    prepared <- [k \in Round |-> Cast("PREPARE", k)],
    committed <- [k \in Round |-> Cast("COMMIT", k)],
    executed <- [k \in Round |-> Carried(k)]
ImplementsVoting == Voting!VotingSpec

\* A node logs each step of a round at most once, so it hands the round to the
\* MitigationEngine at most once, whichever of its threads gets there.
ExecutesOnce ==
    \A n \in Host : \A i, j \in DOMAIN journal[n] :
        journal[n][i] = journal[n][j] => i = j

\* A ban never comes from nowhere: when a node is banned anywhere, the engine
\* of some node has caught it failing and has dropped its key.
BansHaveCause ==
    \A n \in Host : \A p \in banned[n] :
        \E q \in Host : p \in banned[q] /\ p \notin peer_keys[q]

\* No honest node fails a check of its peers or of its own engine, or is taken
\* for an equivocator.  The comment on the sequence counter promises as much
\* for the threads of one node (MeshNode.cpp:1415, "relaxed: sequence counter
\* is monotonic, no cross-thread ordering dependency").
NobodyFails ==
    \A n \in Host : equivocators[n] = {} /\ \A p \in Node : failures[n][p] = 0

\* A round that somebody has proposed is carried out by every node that is up,
\* as long as these are a quorum and no datagram is lost or overtaken.
RoundsComplete ==
    \A k \in Round : Cast("PRE_PREPARE", k) # {} ~> Carried(k) = Host
=============================================================================
