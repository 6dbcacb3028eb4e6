----------------------------- MODULE MigrationV2 -----------------------------
(***************************************************************************)
(* The migration from v1 that the pod of an upgrade Job runs first.  In v1 *)
(* k0s installed the addons as Helm charts of its ClusterConfig; they have *)
(* to become plain Helm releases without being uninstalled on the way.     *)
(*                                                                         *)
(* Four actors: the pod, which may fail or be killed and is then replaced; *)
(* the operator of v1, which reconciles the ClusterConfig; k0s, which      *)
(* follows the ClusterConfig and uninstalls a chart that is deleted while  *)
(* it has its finalizer; and the controllers of Kubernetes.                *)
(***************************************************************************)
EXTENDS Naturals, FiniteSets

CONSTANTS
    Charts,         \* the charts of v1
    Delays,         \* whether k0s may follow the ClusterConfig with a delay
    BackoffLimit,   \* failed pods that the Job replaces
    MaxErrors,      \* requests that fail, and conflicts
    MaxWrites       \* reconciliations of the operator

ASSUME ChartsAssumption == IsFiniteSet(Charts) /\ Charts # {}
ASSUME DelaysAssumption == Delays \subseteq BOOLEAN /\ Delays # {}
ASSUME BoundsAssumption == {BackoffLimit, MaxErrors, MaxWrites} \subseteq Nat

VARIABLES
    config,     \* the charts in the ClusterConfig
    crs,        \* the Chart resources
    finalizers, \* the ones with a finalizer
    deleting,   \* the ones with a deletion timestamp
    releases,   \* the Helm releases
    applied,    \* k0s has followed the last change of the ClusterConfig
    operator,   \* the operator: [replicas, pod]
    condition,  \* V2MigrationInProgress of the Installation
    pod,        \* the pod of the Job: [step, pending, stale]
    job,        \* "active", "succeeded" or "failed"
    failed, errors, writes,
    late        \* in this cluster k0s follows the ClusterConfig with a delay

k0s == <<config, crs, finalizers, deleting, releases, applied>>
counters == <<failed, errors, writes>>
core == <<k0s, operator, condition, pod, job, counters>>
migrationVars == <<core, late>>

NoPod == [step |-> "none", pending |-> {}, stale |-> {}]

(* What the pod has read of the ClusterConfig, among what it has read.     *)
ClusterConfig == "ClusterConfig"
ASSUME ConfigAssumption == ClusterConfig \notin Charts

(* What k0s makes of a ClusterConfig with the charts c: a listed chart has *)
(* a resource with a finalizer, any other resource is deleted.             *)
Follow(c) ==
    /\ crs' = (crs \cup c) \ ((crs \ c) \ finalizers)
    /\ finalizers' = finalizers \cup c
    /\ deleting' = deleting \cup ((crs \ c) \cap finalizers)

(* A change of the ClusterConfig; with a delay k0s follows it later.       *)
Change(c) ==
    /\ config' = c
    /\ IF late THEN applied' = FALSE /\ UNCHANGED <<crs, finalizers, deleting>>
       ELSE Follow(c) /\ UNCHANGED applied

(* What a pod that runs has read of these objects is not the last of them. *)
Outdates(objects) == pod' = IF pod = NoPod THEN pod ELSE [pod EXCEPT !.stale = @ \cup objects]

Goto(s) == pod' = [pod EXCEPT !.step = s]
PodAt(s) == pod.step = s

-----------------------------------------------------------------------------
(* The pod                                                                 *)

StartPod ==
    /\ job = "active" /\ pod = NoPod
    /\ Goto("check charts")
    /\ UNCHANGED <<k0s, operator, condition, job, counters>>

(* needsK0sChartCleanup: resources, or charts in the ClusterConfig.  A     *)
(* cluster that has neither is upgraded at once.                           *)
CheckCharts ==
    /\ PodAt("check charts")
    /\ Goto(IF crs # {} THEN "in progress" ELSE "check config")
    /\ UNCHANGED <<k0s, operator, condition, job, counters>>

(* Mutant: the ClusterConfig is not looked at.                             *)
CheckNothing ==
    /\ PodAt("check config")
    /\ Goto("upgrade")
    /\ UNCHANGED <<k0s, operator, condition, job, counters>>

CheckClusterConfig ==
    /\ PodAt("check config")
    /\ Goto(IF config # {} THEN "in progress" ELSE "upgrade")
    /\ UNCHANGED <<k0s, operator, condition, job, counters>>

SetInProgress ==
    /\ PodAt("in progress")
    /\ condition' = "in progress"
    /\ Goto("scale")
    /\ UNCHANGED <<k0s, operator, job, counters>>

SetReplicasZero ==
    /\ PodAt("scale")
    /\ operator' = [operator EXCEPT !.replicas = 0]
    /\ Goto("wait")
    /\ UNCHANGED <<k0s, condition, job, counters>>

(* Mutant: the deployment is asked for its replicas, not for its pods.     *)
OperatorScaled == operator.replicas = 0

(* isOperatorDeploymentUpdated: the pods are gone.                         *)
OperatorGone == ~operator.pod

WaitForOperator ==
    /\ PodAt("wait") /\ OperatorGone
    /\ Goto("list")
    /\ UNCHANGED <<k0s, operator, condition, job, counters>>

(* forceDeleteChartCRs                                                     *)
ListCharts ==
    /\ PodAt("list")
    /\ pod' = [pod EXCEPT !.step = IF crs = {} THEN "watch" ELSE "clear", !.pending = crs,
                          !.stale = {}]
    /\ UNCHANGED <<k0s, operator, condition, job, counters>>

(* Mutant: only the charts that are being deleted lose their finalizer.    *)
ClearDeleting(c) == finalizers' = IF c \in deleting THEN finalizers \ {c} ELSE finalizers

Clear(c) == finalizers' = finalizers \ {c}

(* The finalizers of a chart are removed, unless it has changed since it   *)
(* was listed or is gone.                                                  *)
ClearFinalizers(c) ==
    /\ PodAt("clear") /\ c \in pod.pending /\ c \notin pod.stale /\ c \in crs
    /\ Clear(c)
    /\ IF c \in deleting THEN crs' = crs \ {c} /\ deleting' = deleting \ {c}
       ELSE UNCHANGED <<crs, deleting>>
    /\ pod' = [pod EXCEPT !.pending = @ \ {c},
                          !.step = IF pod.pending = {c} THEN "watch" ELSE @]
    /\ UNCHANGED <<config, releases, applied, operator, condition, job, counters>>

(* The loop lists until nothing has a finalizer; it removes none again.    *)
WatchFinalizers ==
    /\ PodAt("watch") /\ crs \cap finalizers = {}
    /\ pod' = [pod EXCEPT !.step = IF crs = {} THEN "get config" ELSE "delete", !.pending = crs]
    /\ UNCHANGED <<k0s, operator, condition, job, counters>>

(* The chart that is deleted goes at once if it has no finalizer.          *)
DeleteChart(c) ==
    /\ PodAt("delete") /\ c \in pod.pending /\ c \in crs
    /\ IF c \in finalizers THEN deleting' = deleting \cup {c} /\ UNCHANGED crs
       ELSE crs' = crs \ {c} /\ UNCHANGED deleting
    /\ pod' = [pod EXCEPT !.pending = @ \ {c},
                          !.step = IF pod.pending = {c} THEN "get config" ELSE @]
    /\ UNCHANGED <<config, finalizers, releases, applied, operator, condition, job, counters>>

(* removeClusterConfigHelmExtensions: a read and a write.                  *)
GetConfig ==
    /\ PodAt("get config")
    /\ pod' = [pod EXCEPT !.step = "update config", !.stale = @ \ {ClusterConfig}]
    /\ UNCHANGED <<k0s, operator, condition, job, counters>>

UpdateConfig ==
    /\ PodAt("update config") /\ ClusterConfig \notin pod.stale
    /\ Change({})
    /\ Goto("complete")
    /\ UNCHANGED <<releases, operator, condition, job, counters>>

SetComplete ==
    /\ PodAt("complete")
    /\ condition' = "complete"
    /\ Goto("upgrade")
    /\ UNCHANGED <<k0s, operator, job, counters>>

(* upgrade.Upgrade: the charts are upgraded as Helm releases, and the one  *)
(* of the operator brings the operator of v2.                              *)
RunUpgrade ==
    /\ PodAt("upgrade")
    /\ operator' = [operator EXCEPT !.replicas = 1, !.version = 2]
    /\ job' = "succeeded"
    /\ pod' = NoPod
    /\ UNCHANGED <<k0s, condition, counters>>

(* Mutant: the Job replaces one pod more than its limit.                   *)
EndPodLate ==
    /\ pod' = NoPod
    /\ failed' = failed + 1
    /\ job' = IF failed > BackoffLimit THEN "failed" ELSE job

(* The pod has failed; the Job starts another one up to its limit.         *)
EndPod ==
    /\ pod' = NoPod
    /\ failed' = failed + 1
    /\ job' = IF failed + 1 > BackoffLimit THEN "failed" ELSE job

(* The migration is reported as failed when it had begun.                  *)
ReportsFailure == {"scale", "wait", "list", "clear", "watch", "delete", "get config",
                   "update config"}
SetFailed ==
    /\ PodAt("failed")
    /\ condition' = "failed"
    /\ EndPod
    /\ UNCHANGED <<k0s, operator, errors, writes>>

Err ==
    IF pod.step \in ReportsFailure THEN Goto("failed") /\ UNCHANGED <<failed, job>> ELSE EndPod

(* A conflict with another writer, or a chart that is gone: not retried.   *)
Conflict ==
    /\ \/ PodAt("clear") /\ \E c \in pod.pending : c \in pod.stale \/ c \notin crs
       \/ PodAt("delete") /\ \E c \in pod.pending : c \notin crs
       \/ PodAt("update config") /\ ClusterConfig \in pod.stale
    /\ Err
    /\ UNCHANGED <<k0s, operator, condition, errors, writes>>

(* A request fails, or the operator takes longer than the five minutes of  *)
(* the wait.  A status that cannot be written does not stop a failure.     *)
RequestFails ==
    /\ pod # NoPod /\ errors < MaxErrors
    /\ errors' = errors + 1
    /\ Err
    /\ UNCHANGED <<k0s, operator, condition, writes>>

(* The pod is killed.                                                      *)
Kill ==
    /\ pod # NoPod /\ errors < MaxErrors
    /\ errors' = errors + 1
    /\ EndPod
    /\ UNCHANGED <<k0s, operator, condition, writes>>

-----------------------------------------------------------------------------
(* The others                                                              *)

(* The operator of v1 writes its charts into the ClusterConfig, also while *)
(* it is being shut down.                                                  *)
Reconcile ==
    /\ operator.pod /\ operator.version = 1 /\ writes < MaxWrites
    /\ writes' = writes + 1
    /\ Change(Charts)
    /\ Outdates({ClusterConfig} \cup (IF late THEN {} ELSE Charts))
    /\ UNCHANGED <<releases, operator, condition, job, failed, errors>>

(* The deployment and the kubelet.                                         *)
OperatorStops ==
    /\ operator.pod /\ operator.replicas = 0
    /\ operator' = [operator EXCEPT !.pod = FALSE]
    /\ UNCHANGED <<k0s, condition, pod, job, counters>>

OperatorStarts ==
    /\ ~operator.pod /\ operator.replicas = 1
    /\ operator' = [operator EXCEPT !.pod = TRUE]
    /\ UNCHANGED <<k0s, condition, pod, job, counters>>

K0sApplies ==
    /\ ~applied
    /\ Follow(config)
    /\ applied' = TRUE
    /\ Outdates(Charts)
    /\ UNCHANGED <<config, releases, operator, condition, job, counters>>

(* k0s uninstalls the release of a chart that is deleted.                  *)
K0sUninstalls(c) ==
    /\ c \in deleting /\ c \in finalizers
    /\ releases' = releases \ {c}
    /\ crs' = crs \ {c} /\ finalizers' = finalizers \ {c} /\ deleting' = deleting \ {c}
    /\ UNCHANGED <<config, applied, operator, condition, pod, job, counters>>

-----------------------------------------------------------------------------
MigrationInit ==
    /\ config = Charts /\ crs = Charts /\ finalizers = Charts /\ deleting = {}
    /\ releases = Charts /\ applied = TRUE
    /\ operator = [replicas |-> 1, pod |-> TRUE, version |-> 1]
    /\ condition = "none"
    /\ pod = NoPod /\ job = "active"
    /\ failed = 0 /\ errors = 0 /\ writes = 0
    /\ late \in Delays

Migrate ==
    \/ CheckCharts \/ CheckClusterConfig \/ SetInProgress \/ SetReplicasZero \/ WaitForOperator
    \/ ListCharts \/ (\E c \in Charts : ClearFinalizers(c)) \/ WatchFinalizers
    \/ (\E c \in Charts : DeleteChart(c)) \/ GetConfig \/ UpdateConfig \/ SetComplete
    \/ RunUpgrade \/ SetFailed \/ Conflict

Cluster == \/ StartPod \/ OperatorStops \/ OperatorStarts \/ K0sApplies
           \/ \E c \in Charts : K0sUninstalls(c)

MigrationNext == (Migrate \/ Cluster \/ RequestFails \/ Kill \/ Reconcile) /\ UNCHANGED late

MigrationSpec == MigrationInit /\ [][MigrationNext]_migrationVars

(* Fairness: a pod that runs goes on, and the controllers of the cluster   *)
(* do their work.                                                          *)
MigrationFairSpec == MigrationSpec /\ WF_core(Migrate) /\ WF_core(Cluster)

-----------------------------------------------------------------------------
(* Properties                                                              *)

Steps == {"none", "check charts", "check config", "in progress", "scale", "wait", "list",
          "clear", "watch", "delete", "get config", "update config", "complete", "upgrade",
          "failed"}

(* Every variable keeps its type; only a resource that exists has a        *)
(* finalizer or is being deleted.                                          *)
MigrationTypeOK ==
    /\ config \subseteq Charts /\ crs \subseteq Charts
    /\ finalizers \subseteq crs /\ deleting \subseteq finalizers
    /\ releases \subseteq Charts /\ applied \in BOOLEAN
    /\ operator \in [replicas : 0..1, pod : BOOLEAN, version : 1..2]
    /\ condition \in {"none", "in progress", "complete", "failed"}
    /\ pod \in [step : Steps, pending : SUBSET Charts,
                stale : SUBSET (Charts \cup {ClusterConfig})]
    /\ job \in {"active", "succeeded", "failed"}
    /\ failed \in 0..BackoffLimit + 1 /\ errors \in 0..MaxErrors /\ writes \in 0..MaxWrites
    /\ late \in Delays

(* Where k0s follows the ClusterConfig at once, no release is uninstalled, *)
(* however the operator, a failed pod and its successor interleave: "the   *)
(* k0s controller will otherwise uninstall the Helm releases and we don't  *)
(* want that".                                                             *)
NothingUninstalled == late = FALSE => releases = Charts /\ deleting = {}

(* There, once a migration was reported as complete or the Job succeeded,  *)
(* k0s has no chart left and gets none back: no reconciliation that was    *)
(* under way reverts it, and no retry took half of it for the whole.       *)
Migrated == config = {} /\ crs = {}
MigrationIsComplete ==
    late = FALSE /\ (condition = "complete" \/ job = "succeeded") => Migrated

(* The migration takes all charts away from k0s and none from the cluster. *)
MigrationIsSafe ==
    /\ NothingUninstalled
    /\ MigrationIsComplete

(* There every Job ends, too: the loop over the finalizers, which has no   *)
(* limit of its own, is left.                                              *)
JobEnds == late = FALSE => <>(job # "active")
=============================================================================
