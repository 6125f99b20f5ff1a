-------------------------------- MODULE MCGc --------------------------------
(* Small instances of Gc: the bounds are in the .cfg files.                *)
EXTENDS Gc, TLC

Symmetry == Permutations(Callers)
=============================================================================
