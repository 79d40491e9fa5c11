---------------------------- MODULE MCGrubManager ----------------------------
(***************************************************************************)
(* TLC instances of GrubManager: two keys with two values, two calls that  *)
(* change one key each, so that one overwriting the other shows.           *)
(***************************************************************************)
EXTENDS GrubManager, TLC

CONSTANTS k1, k2

MCValue == {0, 1}

MCChange == {k1 :> 1, k2 :> 1}

MCOneChange == {k1 :> 1}

MCInstalled == {[k \in Key |-> 0]}

MCNoEdit == {}

\* The package manager writes the shipped configuration back.
MCEdit == {[k \in Key |-> 0]}

\* It installs another one, before its hook runs update-grub.
MCNewEdit == {[k \in Key |-> 1]}

Symmetry == Permutations(Inode)
=============================================================================
