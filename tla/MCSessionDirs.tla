---------------------------- MODULE MCSessionDirs ----------------------------
(***************************************************************************)
(* SessionDirs on small sets. Names, masters and attaches are each         *)
(* interchangeable: no action and no invariant tells them apart.           *)
(***************************************************************************)
EXTENDS SessionDirs, TLC

Symmetry ==
    Permutations(Names) \cup Permutations(Masters) \cup Permutations(Attachers)
=============================================================================
