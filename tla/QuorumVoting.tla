---------------------------- MODULE QuorumVoting ----------------------------
(***************************************************************************)
(* What the mesh promises about a round, without messages, engines or      *)
(* threads: a node casts a COMMIT vote only after a quorum of nodes has    *)
(* cast PREPARE votes, and executes only after a quorum has cast COMMIT    *)
(* votes.  A node that executes therefore knows that a quorum prepared.    *)
(***************************************************************************)
EXTENDS Naturals, FiniteSets

CONSTANTS Voter, Ballot, Quorum
VARIABLES
    proposed,   \* the ballots somebody has opened
    prepared,   \* for each ballot, who has voted PREPARE
    committed,  \* for each ballot, who has voted COMMIT
    executed    \* for each ballot, who has carried it out
votingVars == <<proposed, prepared, committed, executed>>

VotingInit == /\ proposed = {}
              /\ prepared = [k \in Ballot |-> {}]
              /\ committed = [k \in Ballot |-> {}]
              /\ executed = [k \in Ballot |-> {}]

Propose(k) == /\ proposed' = proposed \cup {k}
              /\ UNCHANGED <<prepared, committed, executed>>

Prepare(n, k) == /\ k \in proposed
                 /\ prepared' = [prepared EXCEPT ![k] = @ \cup {n}]
                 /\ UNCHANGED <<proposed, committed, executed>>

Commit(n, k) == /\ Cardinality(prepared[k]) >= Quorum
                /\ committed' = [committed EXCEPT ![k] = @ \cup {n}]
                /\ UNCHANGED <<proposed, prepared, executed>>

Execute(n, k) == /\ Cardinality(committed[k]) >= Quorum
                 /\ executed' = [executed EXCEPT ![k] = @ \cup {n}]
                 /\ UNCHANGED <<proposed, prepared, committed>>

VotingNext == \E k \in Ballot :
    \/ Propose(k)
    \/ \E n \in Voter : Prepare(n, k) \/ Commit(n, k) \/ Execute(n, k)

VotingSpec == VotingInit /\ [][VotingNext]_votingVars
=============================================================================
