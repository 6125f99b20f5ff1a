---------------------------- MODULE MCArchiveLog ----------------------------
(* Small instances of ArchiveLog: the bounds are in the .cfg files.        *)
EXTENDS ArchiveLogInv
=============================================================================
