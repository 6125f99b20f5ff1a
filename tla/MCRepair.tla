------------------------------ MODULE MCRepair ------------------------------
(* Small instances of Repair: the bounds are in the .cfg files.            *)
EXTENDS Repair, TLC

Symmetry == Permutations(Readers)
=============================================================================
