------------------------------- MODULE MCMesh -------------------------------
(***************************************************************************)
(* Instances of Mesh: a mesh of four of which "d" is down, and one of two. *)
(***************************************************************************)
EXTENDS Mesh, TLC

MCOneProposal == {<<"a", "k1">>}
MCTwoProposals == {<<"a", "k1">>, <<"b", "k2">>}
MCTarget == [k \in Round |-> CASE k = "k1" -> "b" [] k = "k2" -> "c"
                               [] k = "bana" -> "a"]
MCNoBan == [p \in {} |-> "k1"]
MCBan == "a" :> "bana"
=============================================================================
