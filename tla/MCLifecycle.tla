----------------------------- MODULE MCLifecycle -----------------------------
(***************************************************************************)
(* TLC instances of Lifecycle.                                             *)
(***************************************************************************)
EXTENDS Lifecycle, TLC

Symmetry == Permutations(Caller)
=============================================================================
