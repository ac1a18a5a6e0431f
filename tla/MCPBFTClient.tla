---------------------------- MODULE MCPBFTClient ----------------------------
(***************************************************************************)
(* Instances of PBFTClient: the engine of node "a" and the messages that   *)
(* honest peers would send it.                                             *)
(***************************************************************************)
EXTENDS PBFTClient, Sequences

\* The messages of sender p for round k, one for each stage in stages, signed
\* and chained from its sequence number 1.
MCChain(p, k, stages) ==
    LET chain[i \in 1 .. Len(stages)] ==
          [stage |-> stages[i], sender |-> p, round |-> k, seq |-> i,
           view |-> 0, sig |-> TRUE,
           prev |-> IF i = 1 THEN m_genesis_hash
                    ELSE compute_message_hash(chain[i - 1])]
    IN  {chain[i] : i \in 1 .. Len(stages)}

MCProposer(p, k) == MCChain(p, k, <<"PRE_PREPARE", "PREPARE", "COMMIT">>)
MCVoter(p, k) == MCChain(p, k, <<"PREPARE", "COMMIT">>)

MCOneVoter == MCChain("a", "k1", <<"PRE_PREPARE">>) \cup MCVoter("b", "k1")

\* A mesh of four.
MCFourPeers == MCProposer("a", "k1") \cup
               UNION {MCVoter(p, "k1") : p \in {"b", "c", "d"}}

\* A mesh that grows from three to four or five while "a", which proposed,
\* collects votes: of the others, only the COMMIT reaches it.
MCGrowing == MCChain("a", "k1", <<"PRE_PREPARE", "PREPARE">>) \cup
             UNION {{m \in MCVoter(p, "k1") : m.stage = "COMMIT"} :
                       p \in {"c", "d", "e"}}

\* "b" restarts after it has voted: its sequence numbers start again, in a
\* later view.  One message was damaged on the way.
MCRestarted ==
    LET again == {[m EXCEPT !.view = 1] : m \in MCChain("b", "k1", <<"PREPARE">>)}
        damaged == {[m EXCEPT !.sig = FALSE] : m \in again}
    IN  MCOneVoter \cup again \cup damaged
=============================================================================
