------------------------------ MODULE Upgrade ------------------------------
(***************************************************************************)
(* How an embedded cluster is upgraded (pkg-new/upgrade, operator/pkg/cli, *)
(* pkg-new/k0s, and what the operator's reconciler does with the job).     *)
(*                                                                         *)
(* The admin console runs the `upgrade` command of the new release: it     *)
(* creates the Installation object, marks the older ones obsolete,         *)
(* distributes the artifacts and creates a configmap and a Kubernetes Job. *)
(* The Job's pod runs `upgrade-job`: it moves the nodes to the release's   *)
(* Kubernetes through an autopilot plan, then the cluster configuration,   *)
(* the addons and the extensions, recording its progress in the            *)
(* Installation's status.  A pod that fails or is killed is run again from *)
(* the beginning, up to the Job's backoff limit.                           *)
(*                                                                         *)
(* One step is one write to the Kubernetes API together with the reads it  *)
(* depends on; everything between two writes can be interrupted.           *)
(***************************************************************************)
EXTENDS Naturals, FiniteSets

CONSTANTS
  Nodes,         \* machines that are, or may become, members of the cluster
  Members,       \* those that are members from the start
  LastRelease,   \* releases (and their Installations) are 0 .. LastRelease
  K0sOf,         \* the Kubernetes version in the metadata of each release
  AddonCount,    \* charts 1 .. AddonCount are addons, in their upgrade order
  ChartCount,    \* charts AddonCount+1 .. ChartCount are extensions
  AirGap,        \* Installation.Spec.AirGap
  BackoffLimit,  \* Job.Spec.BackoffLimit (6 in the code)
  MaxErrors,     \* bound: API calls and timeouts that fail
  MaxKills,      \* bound: pods and commands that die without running on
  MaxCommands,   \* bound: runs of the upgrade command
  MaxBadPlans    \* bound: autopilot plans that end in a failure

Releases == 0..LastRelease
Charts   == 1..ChartCount

(* Kubernetes is never downgraded by a release (the upgradability check   *)
(* of the admin console's API rejects it).                                *)
ASSUME ConstantsAssumption ==
  /\ Members \subseteq Nodes
  /\ LastRelease \in Nat
  /\ K0sOf \in [Releases -> Nat]
  /\ \A i, j \in Releases : i <= j => K0sOf[i] <= K0sOf[j]
  /\ AddonCount \in Nat /\ ChartCount \in Nat /\ AddonCount <= ChartCount
  /\ AirGap \in BOOLEAN
  /\ {BackoffLimit, MaxErrors, MaxKills, MaxCommands, MaxBadPlans} \subseteq Nat

VARIABLES
  \* --- objects in the cluster ---
  state,       \* Installation.Status.State, "absent" when there is no object
  cond,        \* charts whose condition is True in each Installation
  configMap,   \* releases whose upgrade-job-configmap exists
  job,         \* the upgrade Job of each release
  failed,      \* its Job.Status.Failed
  plan,        \* the autopilot plan; there is one name for all of them
  pauseImage,  \* release whose pause image is in the k0s ClusterConfig
  images,      \* release whose component images are in it
  release,     \* release each helm chart is at
  \* --- machines ---
  joined,      \* members of the cluster
  joining,     \* Kubernetes versions each machine may be joining with
  k0s,         \* the k0s binary on each machine
  kubelet,     \* the version its kubelet reports
  \* --- processes ---
  cmd,         \* the upgrade command: its release, where it is, its result
  pod,         \* where the pod of each upgrade Job is
  op,          \* the Installation the operator saw Installed, if any
  spent        \* how much of each bound is used up

cluster == <<pauseImage, images, release>>
machine == <<joined, joining, k0s, kubelet>>
process == <<cmd, pod, op>>
vars == <<state, cond, configMap, job, failed, plan, cluster, machine,
          process, spent>>

InstallationStates ==
  {"absent", "", "Installing", "KubernetesInstalled", "AddonsInstalling",
   "AddonsInstalled", "Installed", "Failed", "Obsolete"}

JobStates == {"absent", "running", "complete", "failed"}
Bounds    == {"errors", "kills", "commands", "badPlans"}

CommandSteps ==
  {"idle", "create", "setState", "disable", "checkJob", "ensurePlan",
   "waitPlan", "configMap", "createJob"}

Commands == [at: CommandSteps, release: Releases, result: {"none", "ok", "error"}]

PodSteps ==
  {"none", "pauseImage", "upgradeK0s", "createPlan", "waitPlan", "otherPlan",
   "waitNodes", "deletePlan", "k0sDone", "clusterConfig", "addons", "addon",
   "addonDone", "addonsDone", "extensions", "extension", "extensionDone",
   "extensionsDone", "installed", "exit", "failing", "failed"}

(* A plan's state: "" also stands for Schedulable and SchedulableWait, and *)
(* "ApplyFailed" for every other state that is not Completed.             *)
Plans == [kind: {"none", "images", "k0s"}, owner: Releases, version: Nat,
          targets: SUBSET Nodes, state: {"", "Completed", "ApplyFailed"}]
NoPlan == [kind |-> "none", owner |-> 0, version |-> 0, targets |-> {}, state |-> ""]
ImagesPlan(i) == [NoPlan EXCEPT !.kind = "images", !.owner = i]
K0sPlan(i) == [NoPlan EXCEPT !.kind = "k0s", !.owner = i, !.version = K0sOf[i],
                             !.targets = joined]

HasThePlanEnded == plan.state # ""
HasPlanFailed   == HasThePlanEnded /\ plan.state # "Completed"

(* Mutant: any plan under the name is taken for ours.                     *)
AnyPlanIsOurs(i) == TRUE

IsOurK0sUpgrade(i) == plan.kind = "k0s" /\ plan.version = K0sOf[i]

TypeOK ==
  /\ state \in [Releases -> InstallationStates]
  /\ cond \in [Releases -> SUBSET Charts]
  /\ configMap \subseteq Releases
  /\ job \in [Releases -> JobStates]
  /\ failed \in [Releases -> 0..(BackoffLimit + 1)]
  /\ plan \in Plans
  /\ pauseImage \in Releases /\ images \in Releases
  /\ release \in [Charts -> Releases]
  /\ joined \subseteq Nodes
  /\ joining \in [Nodes -> SUBSET Nat]
  /\ k0s \in [Nodes -> Nat] /\ kubelet \in [Nodes -> Nat]
  /\ cmd \in Commands
  /\ pod \in [Releases -> PodSteps]
  /\ op \in SUBSET Releases
  /\ spent \in [Bounds -> Nat]

Init ==
  /\ state = [i \in Releases |-> IF i = 0 THEN "Installed" ELSE "absent"]
  /\ cond = [i \in Releases |-> {}]
  /\ configMap = {}
  /\ job = [i \in Releases |-> "absent"]
  /\ failed = [i \in Releases |-> 0]
  /\ plan = NoPlan
  /\ pauseImage = 0 /\ images = 0
  /\ release = [c \in Charts |-> 0]
  /\ joined = Members
  /\ joining = [n \in Nodes |-> {}]
  /\ k0s = [n \in Nodes |-> K0sOf[0]]
  /\ kubelet = [n \in Nodes |-> K0sOf[0]]
  /\ cmd = [at |-> "idle", release |-> 0, result |-> "none"]
  /\ pod = [i \in Releases |-> "none"]
  /\ op = {}
  /\ spent = [b \in Bounds |-> 0]

Created == {i \in Releases : state[i] # "absent"}
IsNewest(i) == i \in Created /\ \A j \in Created : j <= i

(* Mutant: one matching node is taken for all of them.                    *)
SomeNodeMatchesVersion(i) == \E n \in joined : kubelet[n] = K0sOf[i]

ClusterNodesMatchVersion(i) == \A n \in joined : kubelet[n] = K0sOf[i]

Spend(b, bound) ==
  /\ spent[b] < bound
  /\ spent' = [spent EXCEPT ![b] = @ + 1]

SetState(i, s) == state' = [state EXCEPT ![i] = s]

-----------------------------------------------------------------------------
(* The upgrade command.  The admin console runs it for the newest release, *)
(* again if it did not succeed, and starts on the next release when no     *)
(* upgrade Job is still being worked on.                                   *)

CmdGoto(step) == cmd' = [cmd EXCEPT !.at = step]
CmdReturn(result) == cmd' = [cmd EXCEPT !.at = "idle", !.result = result]
CmdFrame == UNCHANGED <<cond, failed, cluster, machine, pod, op, spent>>

StartCommand(i) ==
  /\ cmd.at = "idle"
  /\ i # 0 /\ (IsNewest(i) \/ IsNewest(i - 1))
  /\ i \notin Created => \A j \in Created : job[j] # "running"
  /\ Spend("commands", MaxCommands)
  /\ cmd' = [at |-> "create", release |-> i, result |-> "none"]
  /\ UNCHANGED <<state, cond, configMap, job, failed, plan, cluster, machine,
                 pod, op>>

(* CreateInstallation returns at once when the object is already there.   *)
CreateInstallation ==
  /\ cmd.at = "create"
  /\ \/ /\ cmd.release \in Created
        /\ CmdGoto("checkJob")
        /\ UNCHANGED state
     \/ /\ cmd.release \notin Created
        /\ SetState(cmd.release, "")
        /\ CmdGoto("setState")
  /\ UNCHANGED <<configMap, job, plan>> /\ CmdFrame

CreateInstallationState ==
  /\ cmd.at = "setState"
  /\ SetState(cmd.release, "Installing")
  /\ CmdGoto("disable")
  /\ UNCHANGED <<configMap, job, plan>> /\ CmdFrame

Disableable == {j \in Created : j < cmd.release /\ state[j] # "Obsolete"}

(* The older installations become obsolete one by one, newest first.      *)
DisableOldInstallations ==
  /\ cmd.at = "disable"
  /\ \/ \E j \in Disableable :
          /\ \A l \in Disableable : l <= j
          /\ SetState(j, "Obsolete")
          /\ UNCHANGED cmd
     \/ /\ Disableable = {}
        /\ CmdGoto("checkJob")
        /\ UNCHANGED state
  /\ UNCHANGED <<configMap, job, plan>> /\ CmdFrame

(* CreateUpgradeJob returns at once when the Job is already there.        *)
CheckJob ==
  /\ cmd.at = "checkJob"
  /\ \/ job[cmd.release] # "absent" /\ CmdReturn("ok")
     \/ job[cmd.release] = "absent"
        /\ CmdGoto(IF AirGap THEN "ensurePlan" ELSE "configMap")
  /\ UNCHANGED <<state, configMap, job, plan>> /\ CmdFrame

(* EnsureAirgapArtifactsPlan: another installation's plan is deleted, our *)
(* own is kept in whatever state it is, a missing one is created.         *)
EnsureArtifactsPlan ==
  /\ cmd.at = "ensurePlan"
  /\ \/ /\ plan.kind # "none" /\ plan.owner # cmd.release
        /\ plan' = NoPlan /\ UNCHANGED cmd
     \/ /\ plan.kind # "none" /\ plan.owner = cmd.release
        /\ CmdGoto("waitPlan") /\ UNCHANGED plan
     \/ /\ plan.kind = "none"
        /\ plan' = ImagesPlan(cmd.release) /\ CmdGoto("waitPlan")
  /\ UNCHANGED <<state, configMap, job>> /\ CmdFrame

WaitForAirgapArtifactsPlan ==
  /\ cmd.at = "waitPlan"
  /\ IF plan.kind = "none" \/ plan.owner # cmd.release THEN CmdReturn("error")
     ELSE /\ HasThePlanEnded
          /\ IF HasPlanFailed THEN CmdReturn("error") ELSE CmdGoto("configMap")
  /\ UNCHANGED <<state, configMap, job, plan>> /\ CmdFrame

(* An existing configmap is brought up to date, and the command returns.  *)
EnsureConfigMap ==
  /\ cmd.at = "configMap"
  /\ \/ /\ cmd.release \in configMap
        /\ CmdReturn("ok")
        /\ UNCHANGED configMap
     \/ /\ cmd.release \notin configMap
        /\ configMap' = configMap \cup {cmd.release}
        /\ CmdGoto("createJob")
  /\ UNCHANGED <<state, job, plan>> /\ CmdFrame

CreateJob ==
  /\ cmd.at = "createJob"
  /\ job' = [job EXCEPT ![cmd.release] = "running"]
  /\ failed' = [failed EXCEPT ![cmd.release] = 0]
  /\ CmdReturn("ok")
  /\ UNCHANGED <<state, cond, configMap, plan, cluster, machine, pod, op, spent>>

(* A failed call ends the command; one in disableOldInstallations is only *)
(* logged.  A killed command leaves everything as it is.                  *)
CommandError ==
  /\ cmd.at # "idle"
  /\ Spend("errors", MaxErrors)
  /\ IF cmd.at = "disable" THEN CmdGoto("checkJob") ELSE CmdReturn("error")
  /\ UNCHANGED <<state, cond, configMap, job, failed, plan, cluster, machine,
                 pod, op>>

CommandKilled ==
  /\ cmd.at # "idle"
  /\ Spend("kills", MaxKills)
  /\ CmdReturn("error")
  /\ UNCHANGED <<state, cond, configMap, job, failed, plan, cluster, machine,
                 pod, op>>

Command ==
  \/ CreateInstallation \/ CreateInstallationState \/ DisableOldInstallations
  \/ CheckJob \/ EnsureArtifactsPlan \/ WaitForAirgapArtifactsPlan
  \/ EnsureConfigMap \/ CreateJob

-----------------------------------------------------------------------------
(* The pod of an upgrade Job.                                              *)

Goto(i, step) == pod' = [pod EXCEPT ![i] = step]
PodFrame == UNCHANGED <<configMap, job, failed, machine, cmd, op, spent>>

(* Mutant: the pause image is left to updateClusterConfig.                *)
StartPodAtK0s(i) ==
  /\ job[i] = "running" /\ pod[i] = "none"
  /\ Goto(i, "upgradeK0s")
  /\ UNCHANGED <<state, cond, plan, cluster>> /\ PodFrame

(* The Job controller runs the pod, again after a failure.                *)
StartPod(i) ==
  /\ job[i] = "running" /\ pod[i] = "none"
  /\ Goto(i, "pauseImage")
  /\ UNCHANGED <<state, cond, plan, cluster>> /\ PodFrame

UpdatePauseImage(i) ==
  /\ pod[i] = "pauseImage"
  /\ pauseImage' = i
  /\ Goto(i, "upgradeK0s")
  /\ UNCHANGED <<state, cond, plan, images, release>> /\ PodFrame

UpgradeK0s(i) ==
  /\ pod[i] = "upgradeK0s"
  /\ \/ /\ ClusterNodesMatchVersion(i)
        /\ Goto(i, "clusterConfig") /\ UNCHANGED state
     \/ /\ ~ClusterNodesMatchVersion(i)
        /\ SetState(i, "Installing") /\ Goto(i, "createPlan")
  /\ UNCHANGED <<cond, plan, cluster>> /\ PodFrame

(* The plan's targets are the nodes listed now; an existing plan is kept. *)
CreateAutopilotPlan(i) ==
  /\ pod[i] = "createPlan"
  /\ plan' = IF plan.kind = "none" THEN K0sPlan(i) ELSE plan
  /\ Goto(i, "waitPlan")
  /\ UNCHANGED <<state, cond, cluster>> /\ PodFrame

(* Mutant: a plan that has ended is enough, and so is a failed one.       *)
WaitForPlanEnd(i) ==
  /\ pod[i] = "waitPlan"
  /\ plan.kind # "none" /\ HasThePlanEnded
  /\ Goto(i, IF IsOurK0sUpgrade(i) THEN "deletePlan" ELSE "otherPlan")
  /\ UNCHANGED <<state, cond, plan, cluster>> /\ PodFrame

(* A failed plan is an error, and stays; a plan that is not ours is       *)
(* deleted and the function starts over.                                  *)
WaitForAutopilotPlan(i) ==
  /\ pod[i] = "waitPlan"
  /\ plan.kind # "none" /\ HasThePlanEnded
  /\ Goto(i, IF HasPlanFailed THEN "failing"
             ELSE IF IsOurK0sUpgrade(i) THEN "waitNodes" ELSE "otherPlan")
  /\ UNCHANGED <<state, cond, plan, cluster>> /\ PodFrame

DeleteOtherPlan(i) ==
  /\ pod[i] = "otherPlan"
  /\ plan' = NoPlan
  /\ Goto(i, IF plan.kind = "none" THEN "failing" ELSE "upgradeK0s")
  /\ UNCHANGED <<state, cond, cluster>> /\ PodFrame

(* Mutant: the nodes are not waited for once the plan has completed.      *)
DoNotWaitForNodes(i) ==
  /\ pod[i] = "waitNodes"
  /\ Goto(i, "deletePlan")
  /\ UNCHANGED <<state, cond, plan, cluster>> /\ PodFrame

WaitForClusterNodesMatchVersion(i) ==
  /\ pod[i] = "waitNodes"
  /\ ClusterNodesMatchVersion(i)
  /\ Goto(i, "deletePlan")
  /\ UNCHANGED <<state, cond, plan, cluster>> /\ PodFrame

(* A wait gives up when nothing is left that could end it: the plan is    *)
(* gone, or a node that is not being updated reports another version.     *)
WaitTimesOut(i) ==
  /\ \/ pod[i] = "waitPlan" /\ plan.kind = "none"
     \/ pod[i] = "waitNodes" /\ \E n \in joined : kubelet[n] = k0s[n] /\ k0s[n] # K0sOf[i]
  /\ Goto(i, "failing")
  /\ UNCHANGED <<state, cond, plan, cluster>> /\ PodFrame

DeletePlan(i) ==
  /\ pod[i] = "deletePlan"
  /\ plan' = NoPlan
  /\ Goto(i, IF plan.kind = "none" THEN "failing" ELSE "k0sDone")
  /\ UNCHANGED <<state, cond, cluster>> /\ PodFrame

K0sDone(i) ==
  /\ pod[i] = "k0sDone"
  /\ SetState(i, "KubernetesInstalled")
  /\ Goto(i, "clusterConfig")
  /\ UNCHANGED <<cond, plan, cluster>> /\ PodFrame

UpdateClusterConfig(i) ==
  /\ pod[i] = "clusterConfig"
  /\ images' = i
  /\ Goto(i, "addons")
  /\ UNCHANGED <<state, cond, plan, pauseImage, release>> /\ PodFrame

UpgradeAddons(i) ==
  /\ pod[i] = "addons"
  /\ SetState(i, "AddonsInstalling")
  /\ Goto(i, "addon")
  /\ UNCHANGED <<cond, plan, cluster>> /\ PodFrame

(* The loop over the addons (or the extensions) skips those whose         *)
(* condition is True, so the pod works on the first one that is not.      *)
Pending(i, stage) == stage \ cond[i]

(* Mutant: the charts are taken in any order.                             *)
IsAny(c, charts) == c \in charts

IsNext(c, charts) == c \in charts /\ \A d \in charts : c <= d

UpgradeChart(i, stage, here, done, after) ==
  /\ pod[i] = here
  /\ \/ /\ Pending(i, stage) = {}
        /\ Goto(i, after) /\ UNCHANGED release
     \/ \E c \in Pending(i, stage) :
          /\ IsNext(c, Pending(i, stage))
          /\ release' = [release EXCEPT ![c] = i]
          /\ Goto(i, done)
  /\ UNCHANGED <<state, cond, plan, pauseImage, images>> /\ PodFrame

SetCondition(i, stage, here, loop) ==
  /\ pod[i] = here
  /\ \E c \in Pending(i, stage) :
       /\ IsNext(c, Pending(i, stage))
       /\ cond' = [cond EXCEPT ![i] = @ \cup {c}]
  /\ Goto(i, loop)
  /\ UNCHANGED <<state, plan, cluster>> /\ PodFrame

Addons     == 1..AddonCount
Extensions == (AddonCount + 1)..ChartCount

UpgradeAddOn(i)      == UpgradeChart(i, Addons, "addon", "addonDone", "addonsDone")
MarkAddOnUpgraded(i) == SetCondition(i, Addons, "addonDone", "addon")

AddonsDone(i) ==
  /\ pod[i] = "addonsDone"
  /\ SetState(i, "AddonsInstalled")
  /\ Goto(i, "extensions")
  /\ UNCHANGED <<cond, plan, cluster>> /\ PodFrame

UpgradeExtensions(i) ==
  /\ pod[i] = "extensions"
  /\ SetState(i, "AddonsInstalling")
  /\ Goto(i, "extension")
  /\ UNCHANGED <<cond, plan, cluster>> /\ PodFrame

HandleExtension(i) ==
  UpgradeChart(i, Extensions, "extension", "extensionDone", "extensionsDone")
MarkExtensionAsProcessed(i) ==
  SetCondition(i, Extensions, "extensionDone", "extension")

ExtensionsDone(i) ==
  /\ pod[i] = "extensionsDone"
  /\ SetState(i, "AddonsInstalled")
  /\ Goto(i, "installed")
  /\ UNCHANGED <<cond, plan, cluster>> /\ PodFrame

Installed(i) ==
  /\ pod[i] = "installed"
  /\ SetState(i, "Installed")
  /\ Goto(i, "exit")
  /\ UNCHANGED <<cond, plan, cluster>> /\ PodFrame

(* Mutants: the last attempt is taken to be one earlier, or one later.    *)
MarkAsFailedAt(i, attempt) ==
  /\ pod[i] = "failing"
  /\ IF failed[i] >= attempt THEN SetState(i, "Failed") ELSE UNCHANGED state
  /\ Goto(i, "failed")
  /\ UNCHANGED <<cond, plan, cluster>> /\ PodFrame
MarkAsFailedEarly(i) == MarkAsFailedAt(i, BackoffLimit - 1)
MarkAsFailedLate(i)  == MarkAsFailedAt(i, BackoffLimit + 1)

(* isLastAttempt counts the pods that failed before this one.             *)
MaybeMarkAsFailed(i) ==
  /\ pod[i] = "failing"
  /\ \/ failed[i] >= BackoffLimit /\ SetState(i, "Failed")
     \/ failed[i] < BackoffLimit /\ UNCHANGED state
  /\ Goto(i, "failed")
  /\ UNCHANGED <<cond, plan, cluster>> /\ PodFrame

PodStep(i) ==
  \/ UpdatePauseImage(i) \/ UpgradeK0s(i) \/ CreateAutopilotPlan(i)
  \/ WaitForAutopilotPlan(i) \/ DeleteOtherPlan(i)
  \/ WaitForClusterNodesMatchVersion(i) \/ WaitTimesOut(i)
  \/ DeletePlan(i) \/ K0sDone(i)
  \/ UpdateClusterConfig(i) \/ UpgradeAddons(i) \/ UpgradeAddOn(i)
  \/ MarkAddOnUpgraded(i) \/ AddonsDone(i) \/ UpgradeExtensions(i)
  \/ HandleExtension(i) \/ MarkExtensionAsProcessed(i) \/ ExtensionsDone(i)
  \/ Installed(i) \/ MaybeMarkAsFailed(i)

(* Any call may fail, any wait may time out; a failure to record the      *)
(* failure is only logged.                                                *)
PodError(i) ==
  /\ pod[i] \notin {"none", "exit", "failed"}
  /\ Spend("errors", MaxErrors)
  /\ Goto(i, IF pod[i] = "failing" THEN "failed" ELSE "failing")
  /\ UNCHANGED <<state, cond, configMap, job, failed, plan, cluster, machine,
                 cmd, op>>

(* Mutant: the Job never gives up.                                        *)
NeverGiveUp(i) == failed' = [failed EXCEPT ![i] = @ + 1] /\ UNCHANGED job

CountFailure(i) ==
  /\ failed' = [failed EXCEPT ![i] = @ + 1]
  /\ job' = [job EXCEPT ![i] = IF failed[i] >= BackoffLimit THEN "failed" ELSE @]

(* The pod ends, and the Job controller takes note of how.                *)
PodEnds(i) ==
  /\ pod[i] \in {"exit", "failed"}
  /\ \/ /\ pod[i] = "exit"
        /\ job' = [job EXCEPT ![i] = "complete"] /\ UNCHANGED failed
     \/ /\ pod[i] = "failed"
        /\ CountFailure(i)
  /\ Goto(i, "none")
  /\ UNCHANGED <<state, cond, configMap, plan, cluster, machine, cmd, op, spent>>

(* The pod is evicted, or its node is drained or rebooted.                *)
PodKilled(i) ==
  /\ pod[i] # "none"
  /\ Spend("kills", MaxKills)
  /\ CountFailure(i)
  /\ Goto(i, "none")
  /\ UNCHANGED <<state, cond, configMap, plan, cluster, machine, cmd, op>>

-----------------------------------------------------------------------------
(* Autopilot, the kubelets and the machines that join.                     *)

EnvFrame == UNCHANGED <<state, cond, configMap, job, failed, cluster, process>>

AutopilotUpdateNode(n) ==
  /\ plan.kind = "k0s" /\ ~HasThePlanEnded /\ n \in plan.targets
  /\ k0s[n] # plan.version
  /\ k0s' = [k0s EXCEPT ![n] = plan.version]
  /\ UNCHANGED <<plan, joined, joining, kubelet, spent>> /\ EnvFrame

AutopilotComplete ==
  /\ plan.kind # "none" /\ ~HasThePlanEnded
  /\ \A n \in plan.targets : k0s[n] = plan.version
  /\ plan' = [plan EXCEPT !.state = "Completed"]
  /\ UNCHANGED <<machine, spent>> /\ EnvFrame

AutopilotFail ==
  /\ plan.kind # "none" /\ ~HasThePlanEnded
  /\ Spend("badPlans", MaxBadPlans)
  /\ plan' = [plan EXCEPT !.state = "ApplyFailed"]
  /\ UNCHANGED machine /\ EnvFrame

KubeletReport(n) ==
  /\ n \in joined /\ kubelet[n] # k0s[n]
  /\ kubelet' = [kubelet EXCEPT ![n] = k0s[n]]
  /\ UNCHANGED <<plan, joined, joining, k0s, spent>> /\ EnvFrame

(* `join` compares its own version with the cluster's when it starts, and *)
(* the node appears when k0s has come up.                                 *)
JoinStart(n) ==
  /\ n \notin joined /\ joining[n] = {}
  /\ \E i \in Created : IsNewest(i) /\ joining' = [joining EXCEPT ![n] = {K0sOf[i]}]
  /\ UNCHANGED <<plan, joined, k0s, kubelet, spent>> /\ EnvFrame

JoinFinish(n) ==
  /\ \E v \in joining[n] :
       /\ k0s' = [k0s EXCEPT ![n] = v]
       /\ kubelet' = [kubelet EXCEPT ![n] = v]
  /\ joined' = joined \cup {n}
  /\ joining' = [joining EXCEPT ![n] = {}]
  /\ UNCHANGED <<plan, spent>> /\ EnvFrame

-----------------------------------------------------------------------------
(* The operator's reconciler: it looks at the newest Installation that is  *)
(* not obsolete, and when that one is Installed deletes the upgrade Jobs   *)
(* that have no active pod and do not belong to a newer Installation.      *)

OperatorFrame == UNCHANGED <<state, cond, configMap, failed, plan, cluster,
                             machine, cmd, pod, spent>>

Reconcile ==
  /\ op = {}
  /\ \E i \in Created :
       /\ state[i] = "Installed"
       /\ \A j \in Created : j > i => state[j] = "Obsolete"
       /\ op' = {i}
  /\ UNCHANGED job /\ OperatorFrame

DeleteUpgradeJobs ==
  /\ \E i \in op :
       job' = [j \in Releases |->
                 IF j <= i /\ pod[j] = "none" THEN "absent" ELSE job[j]]
  /\ op' = {}
  /\ OperatorFrame

-----------------------------------------------------------------------------
Autopilot == AutopilotComplete \/ \E n \in Nodes : AutopilotUpdateNode(n)

Next ==
  \/ \E i \in Releases : StartCommand(i)
  \/ Command \/ CommandError \/ CommandKilled
  \/ \E i \in Releases :
       StartPod(i) \/ PodStep(i) \/ PodError(i) \/ PodEnds(i) \/ PodKilled(i)
  \/ Autopilot \/ AutopilotFail
  \/ \E n \in Nodes : KubeletReport(n) \/ JoinStart(n) \/ JoinFinish(n)
  \/ Reconcile \/ DeleteUpgradeJobs

Spec == Init /\ [][Next]_vars

-----------------------------------------------------------------------------
(* Fairness: the Job controller starts pods and records their end, a pod   *)
(* and a command run on until they end, autopilot works through a plan,    *)
(* kubelets report and joins complete.  Nothing makes a user start a       *)
(* command, a node join, the operator look, or anything fail.              *)
Fairness ==
  /\ \A i \in Releases : WF_vars(StartPod(i)) /\ WF_vars(PodStep(i))
                         /\ WF_vars(PodEnds(i))
  /\ WF_vars(Command)
  /\ WF_vars(Autopilot)
  /\ \A n \in Nodes : WF_vars(KubeletReport(n)) /\ WF_vars(JoinFinish(n))

FairSpec == Spec /\ Fairness

-----------------------------------------------------------------------------
(* Properties.                                                             *)

(* What the newest Installation's status says has happened has happened,  *)
(* whatever was killed and run again on the way, on every machine that was *)
(* a member from the start.  A machine that joins on the way brings the   *)
(* version its `join` compared with, and no status waits for it.          *)
AtVersion(i)    == \A n \in Members : kubelet[n] = K0sOf[i]
ChartsAt(i, cs) == \A c \in cs : release[c] = i

StatusIsTruthful ==
  \A i \in Releases : IsNewest(i) =>
    /\ state[i] = "KubernetesInstalled" => AtVersion(i)
    /\ state[i] = "AddonsInstalling" => AtVersion(i) /\ images = i
    /\ state[i] = "AddonsInstalled" =>
         AtVersion(i) /\ images = i /\ ChartsAt(i, Addons)
    /\ state[i] = "Installed" =>
         AtVersion(i) /\ images = i /\ ChartsAt(i, Charts)

(* An upgrade that was declared failed is over: no attempt follows.       *)
FailedIsFinal ==
  \A i \in Releases : state[i] = "Failed" =>
    job[i] # "running" \/ (pod[i] = "failed" /\ failed[i] >= BackoffLimit)

(* A pod that is about to delete the plan by its shared name deletes the  *)
(* one it waited for.                                                     *)
DeletesOwnPlan ==
  \A i \in Releases : pod[i] \in {"waitNodes", "deletePlan"} =>
    plan.kind = "k0s" /\ plan.version = K0sOf[i] /\ plan.state = "Completed"

(* A Job that is started comes to an end that the Installation records.   *)
JobIsDecided ==
  \A i \in Releases :
    job[i] = "running" ~> state[i] \in {"Installed", "Failed"}

(* The command reports success only when the upgrade Job has been         *)
(* created.                                                               *)
SuccessMeansJob ==
  cmd.result = "ok" => job[cmd.release] # "absent" \/ state[cmd.release] = "Installed"

(* Once the command has succeeded, only the newest installation is not    *)
(* obsolete.                                                              *)
OldAreObsolete ==
  cmd.result = "ok" =>
    \A j \in Created : j < cmd.release => state[j] = "Obsolete"

(* The operator never deletes a Job that is still in progress, as          *)
(* deleteUpgradeJobs says.  It does not hold: a Job that waits to run its  *)
(* next pod is deleted by an operator that read Installed before.          *)
NoJobDeletedInProgress ==
  [][\A i \in Releases :
       job[i] = "running" /\ job'[i] = "absent" => state[i] = "Installed"]_vars

(* Every member of the cluster is brought to the release being rolled     *)
(* out, whenever it joined.                                               *)
EveryNodeIsUpgraded ==
  \A i \in Releases, n \in Nodes :
    job[i] = "running" /\ n \in joined ~> kubelet[n] >= K0sOf[i]

(* A plan that has ended in a failure gives way to a new one.  It does not *)
(* hold: upgradeK0s leaves it and every later attempt fails on it.         *)
FailedPlanIsReplaced == HasPlanFailed ~> ~HasPlanFailed

-----------------------------------------------------------------------------
(* What the cluster looks like to its user, and what it is promised, for   *)
(* the machines that were members from the start.                          *)
Target == CHOOSE i \in Created : IsNewest(i)

Promise == INSTANCE ClusterUpgrade
  WITH Nodes <- Members, target <- Target,
       kubelet <- [n \in Members |-> kubelet[n]],
       installed <- {i \in Releases : state[i] = "Installed"}

ImplementsClusterUpgrade == Promise!Spec
=============================================================================
