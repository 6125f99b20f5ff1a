------------------------------ MODULE MCGroups ------------------------------
(* Small instances of Groups: the bounds are in the .cfg files.            *)
EXTENDS GroupsInv, TLC

Symmetry == Permutations(Holders)
=============================================================================
