----------------------------- MODULE MCCharts -----------------------------
(* A small instance of Charts for TLC.                                     *)
EXTENDS Charts

Ext(order, version) == [order |-> order, version |-> version]

(* One extension is upgraded and then stays, one is removed and added      *)
(* again, one is added and removed.  One has no order at first.  The last  *)
(* release finds what an upgrade that failed did not remove.               *)
FourReleases ==
    << [e1 |-> Ext(1, 1), e2 |-> Ext(0, 1)],
       [e1 |-> Ext(1, 2), e3 |-> Ext(1, 1)],
       [e1 |-> Ext(1, 2), e2 |-> Ext(2, 2)],
       [e1 |-> Ext(2, 2), e2 |-> Ext(2, 2)] >>
Config == [r \in 0..3 |-> FourReleases[r + 1]]
===========================================================================
