---------------------------- MODULE MCMachines ----------------------------
(* A small instance of Machines for TLC.                                   *)
EXTENDS Machines

AlwaysAirGapped == {TRUE}
===========================================================================
