------------------------------- MODULE MCViewers -------------------------------
(***************************************************************************)
(* Viewers on small sets. Connections are interchangeable: no action and   *)
(* no invariant tells them apart.                                          *)
(***************************************************************************)
EXTENDS Viewers, TLC

Symmetry == Permutations(Conns)
=============================================================================
