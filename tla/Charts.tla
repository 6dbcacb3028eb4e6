------------------------------- MODULE Charts -------------------------------
(***************************************************************************)
(* The helm charts of a cluster: the add-ons and the extensions that       *)
(* install deploys and that the Jobs of later upgrades bring to the next   *)
(* release (pkg/addons, pkg/extensions, pkg/helm).                         *)
(*                                                                         *)
(* A process works through a list of charts.  For each it writes a         *)
(* condition of the Installation, prepares objects that are not in the     *)
(* chart, runs helm, and writes the condition again.  A pod of the Job may *)
(* fail or be killed at any step; the next one starts over and skips the   *)
(* charts whose condition is true.  What helm was doing stays behind.      *)
(*                                                                         *)
(* Releases are numbered, 0 is the one that is installed.  An add-on has   *)
(* the version of the release, an extension the one its config gives.      *)
(***************************************************************************)
EXTENDS Naturals, Sequences, FiniteSets, SequencesExt

CONSTANTS
    LastRelease,    \* the releases are 0 .. LastRelease
    Extensions,     \* names of extensions
    ConfigOf,       \* ConfigOf[r][e]: order and version of e in release r
    Recovery,       \* the releases installed with a license for disaster recovery
    AirGap,         \* the cluster has a registry of its own
    FixedAt,        \* the first release with the HA values of seaweedfs (2.7.3)
    DefaultVendorChartOrder,    \* 10
    None,           \* no version
    BackoffLimit,   \* of the Job, failed pods it allows
    MaxFaults,      \* failing calls, helm runs and waits
    MaxKills        \* pods that are killed

Releases == 0..LastRelease
AddOns == {"openebs", "embedded-cluster-operator", "registry", "seaweedfs", "velero",
           "admin-console"}
Charts == AddOns \cup Extensions

ASSUME ReleasesAssumption == LastRelease \in Nat /\ Recovery \subseteq Releases /\ FixedAt \in Nat
ASSUME NamesAssumption == /\ Extensions \cap AddOns = {} /\ IsFiniteSet(Extensions)
                          /\ None \notin Nat
ASSUME ConfigAssumption ==
    \A r \in Releases : /\ DOMAIN ConfigOf[r] \subseteq Extensions
                        /\ \A e \in DOMAIN ConfigOf[r] :
                              ConfigOf[r][e] \in [order : Nat, version : Nat]
ASSUME BoundsAssumption ==
    AirGap \in BOOLEAN /\ {DefaultVendorChartOrder, BackoffLimit, MaxFaults, MaxKills} \subseteq Nat

VARIABLES
    rel,        \* the release that is installed or upgraded to
    stage,      \* what the process works through
    todo,       \* the charts it has left, and what to do with each
    step,       \* where it is with the first of them
    failed,     \* pods of the Job that have failed
    outcome,    \* outcome[r]: the state of the Installation of release r
    cond,       \* cond[c]: the condition of c in the latest Installation
    helm,       \* helm[c]: the helm release of c
    hooks,      \* charts of which a hook is left behind
    secret,     \* S3 credentials of seaweedfs and of the registry
    masters,    \* the StatefulSet of the seaweedfs masters
    ha,         \* the cluster is highly available
    faults, kills

process == <<stage, todo, step, failed>>
objects == <<hooks, secret, masters>>
vars == <<rel, process, outcome, cond, helm, objects, ha, faults, kills>>

ExtensionsOf(r) == DOMAIN ConfigOf[r]

(* operatorChart and operatorImages look the operator's version up in the  *)
(* metadata of the release, the other add-ons are built into the binary.   *)
VersionOf(r, c) ==
    IF c \in AddOns THEN r
    ELSE IF c \in ExtensionsOf(r) THEN ConfigOf[r][c].version ELSE None

Chart == Head(todo).chart
Action == Head(todo).action

-----------------------------------------------------------------------------
(* The lists.                                                              *)

getAddOnsForInstall(r) ==
    <<"openebs", "embedded-cluster-operator">>
    \o (IF AirGap THEN <<"registry">> ELSE <<>>)
    \o (IF r \in Recovery THEN <<"velero">> ELSE <<>>)
    \o <<"admin-console">>

getAddOnsForUpgrade(r) ==
    <<"openebs", "embedded-cluster-operator">>
    \o (IF AirGap THEN <<"registry">> ELSE <<>>)
    \o (IF AirGap /\ ha THEN <<"seaweedfs">> ELSE <<>>)
    \o (IF r \in Recovery THEN <<"velero">> ELSE <<>>)
    \o <<"admin-console">>

As(action, names) == [i \in DOMAIN names |-> [chart |-> names[i], action |-> action]]

(* Mutant: what was removed is not looked for.                             *)
DiffAdded(r) == [e \in ExtensionsOf(r) |->
    IF e \notin ExtensionsOf(r - 1) THEN "Install"
    ELSE IF ConfigOf[r - 1][e] # ConfigOf[r][e] THEN "Upgrade" ELSE "NoChange"]

(* By name; what the previous Installation has and this one has not is     *)
(* uninstalled.                                                            *)
diffExtensions(r) == [e \in ExtensionsOf(r) \cup ExtensionsOf(r - 1) |->
    IF e \notin ExtensionsOf(r) THEN "Uninstall"
    ELSE IF e \notin ExtensionsOf(r - 1) THEN "Install"
    ELSE IF ConfigOf[r - 1][e] # ConfigOf[r][e] THEN "Upgrade" ELSE "NoChange"]

Order(r) == [e \in ExtensionsOf(r) \cup ExtensionsOf(r - 1) |->
    IF e \in ExtensionsOf(r) THEN ConfigOf[r][e].order ELSE ConfigOf[r - 1][e].order]

(* Only install knows a default for an extension without an order.         *)
InstallOrder == [e \in ExtensionsOf(0) |->
    IF ConfigOf[0][e].order = 0 THEN DefaultVendorChartOrder ELSE ConfigOf[0][e].order]

(* Mutant: extensions come as the map has them.                            *)
Unsorted(E, order) == SetToSeqs(E)

(* sort.Slice over what was ranged from a map: extensions of one order     *)
(* come in any order, another in every pod.                                *)
Sorted(E, order) ==
    {s \in SetToSeqs(E) : \A i, j \in DOMAIN s : i < j => order[s[i]] <= order[s[j]]}

InstallList == {As("create", s) : s \in Sorted(ExtensionsOf(0), InstallOrder)}

Removed(r) == {e \in DOMAIN diffExtensions(r) : diffExtensions(r)[e] = "Uninstall"}

(* What is removed goes first, in reverse order.                           *)
Work(r, removed, others) ==
    As("Uninstall", Reverse(removed))
    \o [i \in DOMAIN others |-> [chart |-> others[i], action |-> diffExtensions(r)[others[i]]]]

UpgradeList(r) ==
    {Work(r, u, s) : u \in Sorted(Removed(r), Order(r)),
                     s \in Sorted(DOMAIN diffExtensions(r) \ Removed(r), Order(r))}

-----------------------------------------------------------------------------
(* helm                                                                    *)

Deployed(v) == [state |-> "deployed", version |-> v]
NotDeployed == [state |-> "none", version |-> None]
Pending == {"installing", "upgrading", "uninstalling"}

(* A release of any state is listed; none is kept when it is uninstalled.  *)
ReleaseExists(c) == helm[c].state # "none"

(* helm refuses to upgrade a release another run of it is at.              *)
Upgradable(c) == helm[c].state \in {"deployed", "failed"}

(* The hooks of a chart that fails stay, and a hook of the next run cannot *)
(* be created while they do.                                               *)
HookOf(c) == IF c \in {"openebs", "admin-console"} THEN "upgrading"
             ELSE IF c = "seaweedfs" THEN "installing" ELSE "none"

(* Mutant: hooks are not looked for.                                       *)
KeepHooks == hooks

(* openebs deletes them first of all, seaweedfs before it is installed and *)
(* the Admin Console before it is upgraded.                                *)
ensurePreUpgradeHooksDeleted == hooks \ {"openebs"}
ensurePostInstallHooksDeleted == hooks \ {"seaweedfs"}
ensurePostUpgradeHooksDeleted == hooks \ {"admin-console"}

(* What helm has to do for the chart at hand.                              *)
Operation ==
    IF Action = "create" THEN "installing"
    ELSE IF Action = "Uninstall" THEN "uninstalling"
    ELSE IF ReleaseExists(Chart) THEN "upgrading" ELSE "installing"

-----------------------------------------------------------------------------
(* seaweedfs                                                               *)

(* Mutant: the credentials are written anew.                               *)
RenewS3Secret == [secret EXCEPT !.seaweedfs = @ + 1]

(* Created with random credentials when there is none.                     *)
ensureS3Secret == [secret EXCEPT !.seaweedfs = IF @ = 0 THEN 1 ELSE @]

(* The registry gets a copy, which is not changed when it is there.        *)
ensureRegistryS3Secret == [secret EXCEPT !.registry = IF @ = 0 THEN secret.seaweedfs ELSE @]

createUpgradePreRequisites == IF ha THEN ensureRegistryS3Secret ELSE secret

(* What an add-on does before it runs helm.                                *)
Prepare ==
    /\ secret' = IF Chart = "seaweedfs" THEN ensureS3Secret
                 ELSE IF Chart = "registry" /\ Operation = "upgrading"
                 THEN createUpgradePreRequisites ELSE secret
    /\ hooks' = IF Chart = "openebs" /\ Action = "upgrade" THEN ensurePreUpgradeHooksDeleted
                ELSE IF Chart = "seaweedfs" /\ Operation = "installing"
                THEN ensurePostInstallHooksDeleted
                ELSE IF Chart = "admin-console" /\ Operation = "upgrading"
                THEN ensurePostUpgradeHooksDeleted ELSE hooks

(* Mutant: the masters are never restarted.                                *)
needsNoRestart == FALSE

(* From a release without the HA values, a single master or three that are *)
(* not all ready.                                                          *)
needsScalingRestart ==
    /\ rel - 1 < FixedAt
    /\ masters.replicas = 1 \/ (masters.replicas = 3 /\ masters.pods < 3)

(* The raft of masters that exist is not changed.                          *)
Raft == IF masters.exists THEN masters.raft ELSE TRUE

MastersOf(r) == IF r < FixedAt THEN [exists |-> TRUE, replicas |-> 1, pods |-> 1, raft |-> FALSE]
                ELSE [exists |-> TRUE, replicas |-> 3, pods |-> 3, raft |-> TRUE]

(* Pods follow the StatefulSet.                                            *)
MastersSettle ==
    /\ masters.exists /\ masters.pods # masters.replicas
    /\ masters' = [masters EXCEPT !.pods = masters.replicas]
    /\ UNCHANGED <<rel, process, outcome, cond, helm, hooks, secret, ha, faults, kills>>

-----------------------------------------------------------------------------
(* The process.                                                            *)

Working == stage \in {"addons", "extensions"}
At(s) == Working /\ todo # <<>> /\ step = s
Fault == faults < MaxFaults /\ faults' = faults + 1

Set(c, value) == cond' = [cond EXCEPT ![c] = value]

(* A pod that fails on the last attempt marks the Installation as failed.  *)
(* A machine whose install failed has to be reset.                         *)
MarkFailed == outcome' = [outcome EXCEPT ![rel] = "Failed"]

(* Mutant: the Job never gives up.                                         *)
AnotherAttempt ==
    /\ failed' = failed + 1
    /\ stage' = IF rel = 0 THEN "ended" ELSE "waiting"
    /\ todo' = <<>> /\ step' = "next"

(* Mutant: failed pods are not counted.                                    *)
UncountedAttempt ==
    /\ stage' = IF rel = 0 \/ failed > BackoffLimit THEN "ended" ELSE "waiting"
    /\ todo' = <<>> /\ step' = "next" /\ UNCHANGED failed

(* The pod has failed; the Job starts another one until its backoff limit. *)
NextAttempt ==
    /\ failed' = failed + 1
    /\ stage' = IF rel = 0 \/ failed' > BackoffLimit THEN "ended" ELSE "waiting"
    /\ todo' = <<>> /\ step' = "next"

AttemptFails == NextAttempt /\ IF stage' = "ended" THEN MarkFailed ELSE UNCHANGED outcome

(* processFn or the add-on returned an error; that the condition cannot be *)
(* written is only logged.                                                 *)
ChartFails ==
    /\ AttemptFails
    /\ IF Action = "create" THEN UNCHANGED cond
       ELSE UNCHANGED cond \/ Set(Chart, "Failed")

(* Mutant: conditions are not looked at.                                   *)
ProcessAgain == FALSE

AlreadyProcessed == cond[Chart] = "True"

Skip ==
    /\ At("next") /\ AlreadyProcessed
    /\ todo' = Tail(todo)
    /\ UNCHANGED <<rel, stage, step, failed, outcome, cond, helm, objects, ha, faults, kills>>

markAsProcessing ==
    /\ At("next") /\ ~AlreadyProcessed
    /\ IF Action = "create" THEN UNCHANGED cond ELSE Set(Chart, "Processing")
    /\ step' = "act"
    /\ UNCHANGED <<rel, stage, todo, failed, outcome, helm, objects, ha, faults, kills>>

(* The extension is there, is gone already or has not changed.             *)
NothingToDo ==
    \/ Action = "Install" /\ ReleaseExists(Chart)
    \/ Action = "Uninstall" /\ ~ReleaseExists(Chart)
    \/ Action = "NoChange"

Satisfied ==
    /\ At("act") /\ NothingToDo
    /\ step' = "record"
    /\ UNCHANGED <<rel, stage, todo, failed, outcome, cond, helm, objects, ha, faults, kills>>

(* The objects that are not in the chart.                                  *)
Prepares ==
    /\ At("act") /\ ~NothingToDo
    /\ Prepare
    /\ step' = "ready"
    /\ UNCHANGED <<rel, stage, todo, failed, outcome, cond, helm, masters, ha, faults, kills>>

(* performPreUpgradeStatefulSetRestart                                     *)
Restarts == Chart = "seaweedfs" /\ Operation = "upgrading" /\ needsScalingRestart

ScaleDown ==
    /\ At("ready") /\ Restarts
    /\ masters' = [masters EXCEPT !.replicas = 0]
    /\ step' = "scaling"
    /\ UNCHANGED <<rel, stage, todo, failed, outcome, cond, helm, hooks, secret, ha, faults, kills>>

ScaledDown ==
    /\ At("scaling") /\ masters.pods = 0
    /\ step' = "scaled"
    /\ UNCHANGED <<rel, stage, todo, failed, outcome, cond, helm, objects, ha, faults, kills>>

ScaleDownTimesOut ==
    /\ At("scaling") /\ masters.pods # 0 /\ Fault
    /\ ChartFails
    /\ UNCHANGED <<rel, helm, objects, ha, kills>>

Ready == At("scaled") \/ (At("ready") /\ ~Restarts)

Refused == Operation = "upgrading" /\ ~Upgradable(Chart)

(* The masters get what the values say.                                    *)
HelmBegins ==
    /\ Ready /\ ~Refused
    /\ helm' = [helm EXCEPT ![Chart].state = Operation]
    /\ masters' = IF Chart = "seaweedfs"
                  THEN [masters EXCEPT !.exists = TRUE, !.raft = Raft,
                                       !.replicas = IF rel < FixedAt THEN 1 ELSE 3]
                  ELSE masters
    /\ step' = "helm"
    /\ UNCHANGED <<rel, stage, todo, failed, outcome, cond, hooks, secret, ha, faults, kills>>

HelmRefuses ==
    /\ Ready /\ Refused
    /\ ChartFails
    /\ UNCHANGED <<rel, helm, objects, ha, faults, kills>>

(* An object cannot be written, the chart cannot be pulled.                *)
CannotBegin ==
    /\ (At("act") /\ Action # "NoChange") \/ Ready
    /\ Fault
    /\ ChartFails
    /\ UNCHANGED <<rel, helm, objects, ha, kills>>

HelmSucceeds ==
    /\ At("helm")
    /\ Chart \in hooks => HookOf(Chart) # helm[Chart].state
    /\ helm' = [helm EXCEPT ![Chart] = IF Action = "Uninstall" THEN NotDeployed
                                       ELSE Deployed(VersionOf(rel, Chart))]
    /\ step' = "record"
    /\ UNCHANGED <<rel, stage, todo, failed, outcome, cond, objects, ha, faults, kills>>

(* Mutant: a release that fails is removed.                                *)
LostByFailure(c) == {NotDeployed}

(* --rollback-on-failure deploys the version before again, if there is one *)
(* and unless that fails too.  A chart that fails to install is kept.      *)
LeftByFailure(c) ==
    IF helm[c].version = None THEN {[helm[c] EXCEPT !.state = "failed"]}
    ELSE IF helm[c].state = "uninstalling" THEN {helm[c]}
    ELSE {Deployed(helm[c].version), [helm[c] EXCEPT !.state = "failed"]}

HooksLeft ==
    {hooks} \cup {hooks \cup {c} : c \in {Chart} \cap {d \in Charts : HookOf(d) = helm[d].state}}

HelmFails ==
    /\ At("helm") /\ Fault
    /\ \E left \in LeftByFailure(Chart) :
          /\ helm' = [helm EXCEPT ![Chart] = left]
          /\ masters' = IF Chart = "seaweedfs" /\ left.state = "deployed"
                        THEN [masters EXCEPT !.replicas = IF left.version < FixedAt THEN 1 ELSE 3]
                        ELSE masters
    /\ hooks' \in HooksLeft
    /\ ChartFails
    /\ UNCHANGED <<rel, secret, ha, kills>>

markAsProcessed ==
    /\ At("record")
    /\ IF Action = "create" THEN UNCHANGED cond ELSE Set(Chart, "True")
    /\ todo' = Tail(todo) /\ step' = "next"
    /\ UNCHANGED <<rel, stage, failed, outcome, helm, objects, ha, faults, kills>>

(* The condition cannot be written.  For install, the application cannot   *)
(* be installed after the Admin Console.                                   *)
CannotRecord ==
    /\ At("record") \/ (At("next") /\ ~AlreadyProcessed)
    /\ Fault
    /\ AttemptFails
    /\ UNCHANGED <<rel, cond, helm, objects, ha, kills>>

(* After the add-ons come the extensions, compared with those of the       *)
(* Installation before.                                                    *)
AddOnsDone ==
    /\ stage = "addons" /\ todo = <<>>
    /\ stage' = "extensions"
    /\ todo' \in IF rel = 0 THEN InstallList ELSE UpgradeList(rel)
    /\ UNCHANGED <<rel, step, failed, outcome, cond, helm, objects, ha, faults, kills>>

ExtensionsDone ==
    /\ stage = "extensions" /\ todo = <<>>
    /\ outcome' = [outcome EXCEPT ![rel] = "Installed"]
    /\ stage' = "ended"
    /\ UNCHANGED <<rel, todo, step, failed, cond, helm, objects, ha, faults, kills>>

(* The process and the helm it runs are killed; the release stays pending. *)
Killed ==
    /\ Working /\ kills < MaxKills
    /\ kills' = kills + 1
    /\ NextAttempt
    /\ hooks' \in IF At("helm") THEN HooksLeft ELSE {hooks}
    /\ UNCHANGED <<rel, outcome, cond, helm, secret, masters, ha, faults>>

Retry ==
    /\ stage = "waiting"
    /\ stage' = "addons"
    /\ todo' = As("upgrade", getAddOnsForUpgrade(rel))
    /\ UNCHANGED <<rel, step, failed, outcome, cond, helm, objects, ha, faults, kills>>

(* Mutant: the status of the Installation before is copied.                *)
SameConditions == cond

(* An Installation is created without any.                                 *)
NewConditions == [c \in Charts |-> "none"]

(* The next release, with an Installation of its own.                      *)
StartUpgrade ==
    /\ stage = "ended" /\ outcome[0] = "Installed" /\ rel < LastRelease
    /\ rel' = rel + 1
    /\ stage' = "addons"
    /\ todo' = As("upgrade", getAddOnsForUpgrade(rel + 1))
    /\ failed' = 0
    /\ outcome' = [outcome EXCEPT ![rel + 1] = "Installing"]
    /\ cond' = NewConditions
    /\ UNCHANGED <<step, helm, objects, ha, faults, kills>>

(* Between upgrades; module HighAvailability has the steps.                *)
EnableHA ==
    /\ stage = "ended" /\ outcome[rel] = "Installed" /\ AirGap /\ ~ha
    /\ ha' = TRUE
    /\ helm' = [helm EXCEPT !["seaweedfs"] = Deployed(VersionOf(rel, "seaweedfs"))]
    /\ masters' = MastersOf(rel)
    /\ secret' = [seaweedfs |-> 1, registry |-> 1]
    /\ UNCHANGED <<rel, process, outcome, cond, hooks, faults, kills>>

Init ==
    /\ rel = 0 /\ stage = "addons" /\ step = "next" /\ failed = 0
    /\ todo = As("create", getAddOnsForInstall(0))
    /\ outcome = [r \in Releases |-> IF r = 0 THEN "Installing" ELSE "none"]
    /\ cond = [c \in Charts |-> "none"]
    /\ helm = [c \in Charts |-> NotDeployed]
    /\ hooks = {}
    /\ secret = [seaweedfs |-> 0, registry |-> 0]
    /\ masters = [exists |-> FALSE, replicas |-> 0, pods |-> 0, raft |-> FALSE]
    /\ ha = FALSE /\ faults = 0 /\ kills = 0

Step ==
    \/ Skip \/ markAsProcessing \/ Satisfied \/ Prepares \/ ScaleDown \/ ScaledDown \/ HelmBegins
    \/ HelmRefuses \/ HelmSucceeds \/ markAsProcessed
    \/ AddOnsDone \/ ExtensionsDone \/ Retry

Faults == ScaleDownTimesOut \/ CannotBegin \/ HelmFails \/ CannotRecord \/ Killed

Next == Step \/ MastersSettle \/ Faults \/ StartUpgrade \/ EnableHA

Spec == Init /\ [][Next]_vars
FairSpec == Spec /\ WF_vars(Step) /\ WF_vars(MastersSettle)

-----------------------------------------------------------------------------
(* Properties.                                                             *)

Versions == Releases \cup {None} \cup UNION {{ConfigOf[r][e].version : e \in ExtensionsOf(r)} : r \in Releases}
Status == {"none", "Processing", "Failed", "True"}
Outcomes == {"none", "Installing", "Installed", "Failed"}
Places == {"next", "act", "ready", "scaling", "scaled", "helm", "record"}

(* Every variable has its type; a Job has no more failed pods than its     *)
(* backoff limit allows and the one that exceeds it.                       *)
TypeOK ==
    /\ rel \in Releases /\ stage \in {"addons", "extensions", "waiting", "ended"}
    /\ \A i \in DOMAIN todo : /\ todo[i].chart \in Charts
                              /\ todo[i].action \in {"create", "upgrade", "Install", "Upgrade",
                                                     "Uninstall", "NoChange"}
    /\ step \in Places /\ failed \in 0..(BackoffLimit + 1)
    /\ outcome \in [Releases -> Outcomes] /\ cond \in [Charts -> Status]
    /\ helm \in [Charts -> [state : {"none", "deployed", "failed"} \cup Pending,
                            version : Versions]]
    /\ hooks \subseteq Charts /\ ha \in BOOLEAN
    /\ secret \in [seaweedfs : 0..1, registry : 0..1]
    /\ masters \in [exists : BOOLEAN, replicas : {0, 1, 3}, pods : {0, 1, 3}, raft : BOOLEAN]
    /\ faults \in 0..MaxFaults /\ kills \in 0..MaxKills

(* A condition that says that an add-on is upgraded speaks the truth:      *)
(* helm has it deployed at the version of the release.  One of an          *)
(* extension does so when helm was run for it; an extension that was       *)
(* found or that has not changed may be a failed release.                  *)
ProcessedIsCurrent ==
    \A c \in Charts : cond[c] = "True" =>
        \/ helm[c].state = "deployed" /\ helm[c].version = VersionOf(rel, c)
        \/ c \in Extensions /\ diffExtensions(rel)[c] \in {"Install", "NoChange"}
        \/ c \in Extensions /\ diffExtensions(rel)[c] = "Uninstall" /\ ~ReleaseExists(c)

(* An extension that was recorded as installed has a release in the        *)
(* cluster, which may be one that failed.                                  *)
RecordedExists ==
    \A e \in Extensions :
        /\ rel > 0 /\ cond[e] = "True"
        /\ e \in DOMAIN diffExtensions(rel) /\ diffExtensions(rel)[e] = "Install"
        => ReleaseExists(e)

(* What a pod of the Job has completed is not touched by the pods that     *)
(* come after it, however far they get.                                    *)
ProcessedOnce ==
    [][\A c \in Charts : cond[c] = "True" /\ rel' = rel
          => cond'[c] = "True" /\ helm'[c] = helm[c]]_vars

(* While helm works on a chart of an upgrade, every extension that was     *)
(* removed is dealt with before any is installed or upgraded, in reverse   *)
(* order, and the others in the order of the config, whatever pods did     *)
(* what.                                                                   *)
InOrder ==
    /\ At("helm") /\ rel > 0 /\ stage = "extensions"
    => \A e \in DOMAIN diffExtensions(rel) :
           LET gone == diffExtensions(rel)[e] = "Uninstall" IN
           \/ cond[e] = "True"
           \/ Action # "Uninstall" /\ ~gone /\ Order(rel)[e] >= Order(rel)[Chart]
           \/ Action = "Uninstall" /\ (gone => Order(rel)[e] <= Order(rel)[Chart])

(* When every upgrade so far has succeeded, extensions that were removed   *)
(* are gone and the others are deployed at their version, except where a   *)
(* release helm has as failed or at work was taken for one that is         *)
(* installed.  (An extension that a failed upgrade should have removed is  *)
(* in no difference after it, and stays.)                                  *)
InstalledIsCurrent ==
    rel > 0 /\ (\A r \in 0..rel : outcome[r] = "Installed") =>
        \A e \in Extensions :
            \/ helm[e].version = VersionOf(rel, e)
            \/ helm[e].state \in Pending \cup {"failed"} /\ e \in ExtensionsOf(rel)

(* No hook an earlier attempt left behind is there when helm is about to   *)
(* create it again: that attempt would fail on it, and every later one.    *)
HooksGone ==
    At("helm") /\ Chart \in hooks => HookOf(Chart) # helm[Chart].state

(* The registry has the credentials seaweedfs was created with: they are   *)
(* written once and kept over every retry and every upgrade.               *)
CredentialsAgree == secret.registry \in {0, secret.seaweedfs}

(* When the upgrade before succeeded, the values with three masters never  *)
(* reach a seaweedfs that has a single one: it is scaled to zero first,    *)
(* also after a rollback has brought the single master back.               *)
MastersRestarted ==
    [][masters.replicas = 1 /\ rel > 0 /\ outcome[rel - 1] = "Installed"
       => masters'.replicas # 3]_vars

(* A process ends, whatever fails and however often it is killed.          *)
UpgradesEnd == stage # "ended" ~> stage = "ended"

(* What is deployed follows the releases, as the abstract specification    *)
(* has it.                                                                 *)
R == INSTANCE Rollout WITH
        Names <- Charts, Newest <- LastRelease, Absent <- None,
        Wanted <- [r \in Releases |-> [c \in Charts |-> VersionOf(r, c)]],
        release <- rel, deployed <- [c \in Charts |-> helm[c].version]

(* Every step is a step of Rollout or leaves what it shows alone.          *)
ImplementsRollout == R!Spec

(* Over all the pods of an upgrade's Job conditions tell the truth,        *)
(* extensions are dealt with in order, hooks and credentials are as the    *)
(* charts need them, and after an upgrade that succeeded the extensions    *)
(* are what its config says.                                               *)
ChartsAreCurrent ==
    /\ TypeOK
    /\ ProcessedIsCurrent
    /\ RecordedExists
    /\ InstalledIsCurrent
    /\ InOrder
    /\ HooksGone
    /\ CredentialsAgree

(* A later pod neither touches what is done nor forgets, where helm has    *)
(* rolled back, what has to be done before.                                *)
RetriesAreCareful ==
    /\ ProcessedOnce
    /\ MastersRestarted
=============================================================================
