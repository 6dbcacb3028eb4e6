---------------------------- MODULE MCHostSetup ----------------------------
(* A small instance of HostSetup for TLC.                                  *)
EXTENDS HostSetup

CONSTANTS d1, d2, n1, n2, n3, n4, proxy

(* Two configs that differ in all that a later command may trip over.      *)
TwoConfigs ==
    {[dir |-> d1, port |-> 50000, pods |-> n1, services |-> n2, proxy |-> proxy, airgap |-> TRUE],
     [dir |-> d2, port |-> 50001, pods |-> n3, services |-> n4, proxy |-> None, airgap |-> FALSE]}

(* A host with everything, one whose firewalld does not run and which has  *)
(* fewer modules and high limits, and one with nothing.                    *)
Everything == [firewalld |-> "active", manager |-> TRUE, modules |-> Modules,
               limits |-> [k \in Keys |-> 0]]
Stopped == [Everything EXCEPT !.firewalld = "inactive", !.modules = {}, !.limits = [k \in Keys |-> 2]]
Bare == [Everything EXCEPT !.firewalld = "absent", !.manager = FALSE]
ThreeHosts == {Everything, Stopped, Bare}
===========================================================================
