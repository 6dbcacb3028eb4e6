------------------------------- MODULE Rollout -------------------------------
(***************************************************************************)
(* What the installation and the upgrades promise of the helm charts to    *)
(* whoever looks at what is deployed, with nothing of the processes, the   *)
(* retries and the bookkeeping: a chart is deployed, replaced or removed   *)
(* only for what the release under way has it at, releases follow one      *)
(* another, and what was deployed stays until then.  Charts.tla is shown   *)
(* to implement this module.                                               *)
(***************************************************************************)
EXTENDS Naturals

CONSTANTS
    Names,      \* the charts
    Newest,     \* the releases are 0 .. Newest
    Absent,     \* the version of a chart that is not deployed
    Wanted      \* Wanted[r][c]: the version release r has chart c at

VARIABLES
    release,    \* the newest release that was begun
    deployed    \* deployed[c]: the version of c in the cluster

vars == <<release, deployed>>

Init == release = 0 /\ deployed = [c \in Names |-> Absent]

Begin ==
    /\ release < Newest
    /\ release' = release + 1
    /\ UNCHANGED deployed

Apply(c) ==
    /\ deployed' = [deployed EXCEPT ![c] = Wanted[release][c]]
    /\ UNCHANGED release

Next == Begin \/ \E c \in Names : Apply(c)

Spec == Init /\ [][Next]_vars
=============================================================================
