----------------------------- MODULE MCUpgrade -----------------------------
(* Small instances of Upgrade for TLC.                                     *)
EXTENDS Upgrade

(* A release that changes Kubernetes, then one that does not.             *)
ChangeThenSame == [i \in Releases |-> IF i = 0 THEN 0 ELSE 1]
(* Every release changes Kubernetes.                                      *)
AlwaysChange == [i \in Releases |-> i]
=============================================================================
