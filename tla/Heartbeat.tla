------------------------------ MODULE Heartbeat ------------------------------
(***************************************************************************)
(* heartbeat_loop of src/main.cpp with what it reads: the kernel events    *)
(* queued by NodeAgent, the score kept by InferenceEngine, and the time    *)
(* since MeshNode last heard a vote against this node.  Time advances by   *)
(* one heartbeat of 2 seconds.  A round the node starts against itself     *)
(* makes the other nodes vote against it, which the next heartbeats take   *)
(* for a threat.                                                           *)
(*                                                                         *)
(* Scores are in thousandths with the sign changed: 0 is normal, 200 is    *)
(* the -0.2 of an outlier.  Ages are counted up to the bound at which the  *)
(* code stops telling them apart.                                          *)
(***************************************************************************)
EXTENDS Integers, Sequences, FiniteSetsExt

CONSTANTS
    Score,      \* scores the model can give to an event
    QUEUE_MAX,  \* m_max_size of TelemetryQueue
    WINDOW,     \* heartbeats for which a vote counts as recent: 12 s
    PERIOD,     \* heartbeats between two rounds against itself: 30 s
    ECHO        \* heartbeats within which the votes on a round have arrived

ASSUME HeartbeatAssumption ==
    /\ Score \subseteq Nat
    /\ QUEUE_MAX \in Nat /\ WINDOW \in Nat /\ PERIOD \in Nat /\ ECHO \in Nat
    /\ ECHO + WINDOW <= PERIOD

VARIABLES
    queue,      \* m_queue: events, with the score the model gives to each
    last_score, \* m_last_score
    targeted,   \* heartbeats since m_last_targeted_at, at most WINDOW
    s_first,    \* no critical heartbeat yet
    s_last,     \* heartbeats since s_last_consensus, at most PERIOD + 1
    threat,     \* what the last heartbeat reported
    world,      \* what still happens outside: everything, own traffic, nothing
    echo,       \* heartbeats left for votes on a round of its own
    outside,    \* history: heartbeats since a vote on another node's round
    causeless   \* history: a round was started that only its own votes explain

heartVars == <<queue, last_score, targeted, s_first, s_last, threat, world, echo,
               outside, causeless>>

Event == [own : BOOLEAN, score : Score]

HeartInit ==
    /\ queue = <<>> /\ last_score = 0
    /\ targeted = WINDOW /\ outside = WINDOW
    /\ s_first = TRUE /\ s_last = 0
    /\ threat = "NONE" /\ world = "busy" /\ echo = 0 /\ causeless = FALSE

-----------------------------------------------------------------------------
\* TelemetryQueue::push: a full queue drops the event.
KernelEvent(e) ==
    /\ world = "busy" \/ (world = "own" /\ e.own)
    /\ Len(queue) < QUEUE_MAX
    /\ queue' = Append(queue, e)
    /\ UNCHANGED <<last_score, targeted, s_first, s_last, threat, world, echo, outside, causeless>>

\* A vote that names this node, on a round another node started or on its own.
VoteAgainst(own) ==
    /\ IF own THEN echo > 0 ELSE world = "busy"
    /\ targeted' = 0
    /\ outside' = IF own THEN outside ELSE 0
    /\ UNCHANGED <<queue, last_score, s_first, s_last, threat, world, echo, causeless>>

WorldCalms ==
    /\ world' \in {"own", "calm"} /\ world = "busy"
    /\ UNCHANGED <<queue, last_score, targeted, s_first, s_last, threat, echo, outside, causeless>>

-----------------------------------------------------------------------------
\* Mutant: the score stays until the next event.
decay_Sticky(score) == score
decay(score) == (score * 7) \div 10

\* The score after a heartbeat's events: an event of this process is skipped, an
\* inference that fails leaves the score alone, and only an empty queue decays it.
Foreign == {queue[i].score : i \in {j \in 1 .. Len(queue) : ~queue[j].own}}
ScoreAfter(score) ==
    IF queue = <<>> THEN score = decay(last_score)
    ELSE \/ score = last_score
         \/ score \in Foreign

onnx_to_entropy(score) ==
    IF score <= 50 THEN 0 ELSE Min({1000, ((score - 50) * 1000) \div 150})

is_targeted_recently == targeted < WINDOW

\* Half of the threshold stands for every network score below it.
network_entropy_score == IF world = "busy" THEN {0, 325, 1000} ELSE {0}

Entropy(score, net) == Max({onnx_to_entropy(score), net,
                            IF is_targeted_recently THEN 680 ELSE 0})

Threat(entropy) == IF entropy > 650 THEN "CRITICAL"
                   ELSE IF entropy > 600 THEN "ALERT" ELSE "NONE"

\* Mutant: a round does not restart the period.
SelfInitiates_NoRestart(entropy, peers) ==
    LET critical == entropy > 650 /\ peers
        since == IF critical /\ s_first THEN 0 ELSE s_last
    IN [starts |-> critical /\ since > PERIOD, since |-> since, first |-> s_first /\ ~critical]
\* The first critical heartbeat only starts the period.
SelfInitiates(entropy, peers) ==
    LET critical == entropy > 650 /\ peers
        since == IF critical /\ s_first THEN 0 ELSE s_last
        starts == critical /\ since > PERIOD
    IN [starts |-> starts, since |-> IF starts THEN 0 ELSE since,
        first |-> s_first /\ ~critical]

Older(age, cap) == IF age < cap THEN age + 1 ELSE cap

\* One turn of the loop.
Heartbeat ==
    \E score \in Score \cup {last_score, decay(last_score)},
       net \in network_entropy_score, peers \in BOOLEAN :
        /\ ScoreAfter(score)
        /\ LET entropy == Entropy(score, net)
               self == SelfInitiates(entropy, peers)
           IN /\ threat' = Threat(entropy)
              /\ s_first' = self.first
              /\ s_last' = Older(self.since, PERIOD + 1)
              /\ echo' = IF self.starts THEN ECHO ELSE IF echo > 0 THEN echo - 1 ELSE 0
              /\ causeless' = (causeless \/ /\ self.starts
                                            /\ onnx_to_entropy(score) <= 650
                                            /\ net <= 650
                                            /\ outside = WINDOW)
        /\ queue' = <<>> /\ last_score' = score
        /\ targeted' = Older(targeted, WINDOW) /\ outside' = Older(outside, WINDOW)
        /\ UNCHANGED world

HeartNext ==
    \/ \E e \in Event : KernelEvent(e)
    \/ \E own \in BOOLEAN : VoteAgainst(own)
    \/ WorldCalms \/ Heartbeat

HeartSpec == HeartInit /\ [][HeartNext]_heartVars /\ WF_heartVars(Heartbeat)

-----------------------------------------------------------------------------
\* The node does not keep itself isolated: every round it starts against itself
\* has a cause outside it, an anomaly it measures or a recent vote on another
\* node's round.  The votes on its own round make it critical again but have
\* aged before the period between two rounds is over.
SelfRoundHasCause == ~causeless

\* A critical state does not stick: once nothing happens any more, the reported
\* threat returns to NONE.  Events of the node's own process count as something
\* that happens: while they keep coming, poll_events is not empty and the score
\* is not decayed.
CalmReturns == world = "calm" ~> threat = "NONE"
=============================================================================
