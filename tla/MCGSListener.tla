----------------------------- MODULE MCGSListener -----------------------------
(* Symmetry for the runs of GSListener. *)
EXTENDS GSListener, TLC

Symmetry == Permutations(Conns) \cup Permutations(Infos) \cup Permutations(HexIds)
=============================================================================
