------------------------------- MODULE Updates -------------------------------
(* Updates of the application.  A channel is the sequence of the releases  *)
(* that were promoted to it; where the license says so they are ordered by *)
(* their versions and not by their places in it.  The Admin Console, which *)
(* is not part of this code, deploys what ValidateIsReleaseUpgradable does *)
(* not refuse.                                                             *)
EXTENDS Lint, InstallChecks

VARIABLE app   \* [first, current : places in the channel, status, done :
               \* what ran, k8s : the versions that ran, uploaded], or None

License == request.license
History == vendor.promoted[Rel.channel]
Updates == DOMAIN History

(* Whether x is before y for the license; Kubernetes versions are minors   *)
(* of one major version.                                                   *)
Before(h, x, y) ==
    IF License.semver
    THEN None \notin {h[x].version, h[y].version} /\ h[x].version < h[y].version
    ELSE x < y

HasApp == Rel # None /\ License # None /\ Rel.channel \in DOMAIN vendor.promoted
StartApp ==
    \E status \in {"deployed", "failed"} :
        LET first == CHOOSE i \in Updates : History[i].label = Rel.version IN
        app' = [first |-> first, current |-> first, status |-> status,
                done |-> IF status = "deployed" THEN {first} ELSE {},
                k8s |-> {History[first].ec.k8s}, uploaded |-> None]

-----------------------------------------------------------------------------
(* Required releases between the current one and a target                  *)

(* getChannelFromLicense, when a client is made.                           *)
ChannelInLicense == Rel.channel \in License.channels \cup {License.channel}

(* In a list that is sorted by this order, releases of which neither is    *)
(* before the other keep the order of their places.                        *)
Sorted(h, x, y) == Before(h, x, y) \/ (~Before(h, y, x) /\ x < y)

(* GetPendingReleases: the releases of the license's default channel from  *)
(* the current one on.                                                     *)
PendingReleases ==
    LET h == vendor.promoted[License.channel]
    IN  {i \in DOMAIN h : app.current \notin DOMAIN h \/ ~Before(h, i, app.current)}

(* Mutant: the target counts as a release that is passed over.             *)
HandlePendingWithTarget(target) ==
    LET h == vendor.promoted[License.channel]
        passed == {i \in PendingReleases : h[i].required}
    IN  [current |-> app.current \in passed, required |-> passed \ {app.current}]

(* handlePendingReleases: from the first on until the target is met.       *)
HandlePendingReleases(target) ==
    LET h == vendor.promoted[License.channel]
        passed == {i \in PendingReleases :
                     h[i].required /\ (target \in PendingReleases => Sorted(h, i, target))}
    IN  [current |-> app.current \in passed, required |-> passed \ {app.current}]

(* The required releases before one, as its bundle names them.             *)
RequiredReleases(target) == {i \in Updates : History[i].required /\ Before(History, i, target)}

(* WithAirgapRequiredReleases, from the last one on until one is met whose *)
(* place, whatever the order is, is not after the current one's.           *)
AirgapRequiredReleases(target) ==
    LET stops == {i \in RequiredReleases(target) : i <= app.current}
        Above(i) == \A s \in stops \ {i} : Sorted(History, s, i)
    IN  [current |-> app.current \in stops /\ Above(app.current),
         required |-> {i \in RequiredReleases(target) \ stops : Above(i)}]

Found(target) == IF Airgap THEN AirgapRequiredReleases(target) ELSE HandlePendingReleases(target)

-----------------------------------------------------------------------------
(* ValidateIsReleaseUpgradable                                             *)

(* Mutant: a failed release may be left like any other.                    *)
RequiredReleasesUnskipped(found) == found.required = {}

ValidateRequiredReleases(found) ==
    /\ ~(app.status = "failed" /\ found.current)
    /\ found.required = {}

ValidateAppVersion(current, target) ==
    IF License.semver
    THEN History[current].version # None /\ History[target].version # None
         /\ ~Before(History, target, current)
    ELSE current <= target

(* Versions of Embedded Cluster are compared without what they are built   *)
(* of, and have to say for which Kubernetes they are.                      *)
ValidateECVersion(current, target) == current.valid /\ target.valid /\ current.version <= target.version

(* Mutant: one minor version may be left out.                              *)
ValidateK8sVersionSkips(current, target) == target <= current + 2 /\ current <= target

ValidateK8sVersion(current, target) == target <= current + 1 /\ current <= target

Upgradable(target) ==
    LET from == History[app.current].ec
        to == History[target].ec
    IN  /\ ValidateAppVersion(app.current, target)
        /\ ValidateRequiredReleases(Found(target))
        /\ ValidateECVersion(from, to)
        /\ ValidateK8sVersion(from.k8s, to.k8s)

-----------------------------------------------------------------------------

(* UpdateCmd, run by the binary of a release with the bundle of another:   *)
(* their labels have to be the same.  KOTS may refuse the bundle.          *)
UpdateCmd(binary, bundle) ==
    /\ Airgap /\ host.root
    /\ History[binary].label = History[bundle].label
    /\ app' = [app EXCEPT !.uploaded = bundle]

(* Offline only what was uploaded is there to be deployed, and online      *)
(* nothing with a license that does not have the channel.                  *)
Deploy(target) ==
    /\ IF Airgap THEN app.uploaded = target ELSE ChannelInLicense
    /\ Upgradable(target)
    /\ \E status \in {"deployed", "failed"} :
          app' = [app EXCEPT !.current = target, !.status = status,
                             !.done = IF status = "deployed" THEN @ \cup {target} ELSE @,
                             !.k8s = @ \cup {History[target].ec.k8s}]

(* What was deployed fails, or recovers, later.                            *)
AppStatus ==
    \E status \in {"deployed", "failed"} \ {app.status} :
        app' = [app EXCEPT !.status = status,
                           !.done = IF status = "deployed" THEN @ \cup {app.current} ELSE @]

UpdateNext ==
    /\ app # None
    /\ \/ \E binary, bundle \in Updates : UpdateCmd(binary, bundle)
       \/ \E target \in Updates : Deploy(target)
       \/ AppStatus
=============================================================================
