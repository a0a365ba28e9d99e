---------------------------- MODULE MCNamespace -----------------------------
(***************************************************************************)
(* Namespace with a root, and scopes nested and side by side.              *)
(***************************************************************************)
EXTENDS Namespace, TLC

Symmetry == Permutations(Keys) \cup Permutations(Values)
=============================================================================
