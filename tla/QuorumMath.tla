----------------------------- MODULE QuorumMath -----------------------------
(***************************************************************************)
(* The dynamic quorum of PBFTConsensus (src/consensus/PBFT.hpp), as a      *)
(* function of the number of nodes an engine believes the mesh has.        *)
(***************************************************************************)
EXTENDS Integers

\* The number of faulty nodes a mesh of n nodes is sized for.
MaxFaulty(n) == ((IF n < 1 THEN 1 ELSE n) - 1) \div 3

\* quorum_size and quorum_size_unlocked.
QuorumSize(n) == 2 * MaxFaulty(n) + 1
=============================================================================
