----------------------------- MODULE MCRestore -----------------------------
(* A small instance of Restore for TLC: three backups, the second of them  *)
(* of another version, the third of a highly available cluster.            *)
EXTENDS Restore

OneAndThree == {1, 3}
OnlyThree   == {3}
=============================================================================
