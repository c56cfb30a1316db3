------------------------------- MODULE MCSession -------------------------------
(***************************************************************************)
(* Session, with its invariant, on small sets. Connections are             *)
(* interchangeable: no action and no property tells them apart.            *)
(***************************************************************************)
EXTENDS SessionInvariant, TLC

Symmetry == Permutations(Conns)
=============================================================================
