--------------------------- MODULE UpgradeProofs ---------------------------
(***************************************************************************)
(* What holds of Upgrade for every number of nodes, releases, charts,      *)
(* attempts and failures.                                                  *)
(***************************************************************************)
EXTENDS Upgrade, TLAPS

-----------------------------------------------------------------------------
(* A Job that may still run a pod has attempts left, and only such a Job  *)
(* has a pod.                                                             *)
JobInv ==
  \A i \in Releases :
    /\ pod[i] # "none" => job[i] = "running"
    /\ job[i] = "running" => failed[i] <= BackoffLimit

TypeInv == TypeOK /\ JobInv

LEMMA Numbers == 
  /\ 0 \in Releases /\ K0sOf \in [Releases -> Nat] /\ BackoffLimit \in Nat
  /\ Releases \subseteq Nat /\ Charts \subseteq Nat
  BY ConstantsAssumption DEF ConstantsAssumption, Releases, Charts

LEMMA PlanTypes ==
  /\ NoPlan \in Plans
  /\ \A i \in Releases : ImagesPlan(i) \in Plans
  /\ \A i \in Releases : joined \subseteq Nodes => K0sPlan(i) \in Plans
  /\ \A p \in Plans, s \in {"Completed", "ApplyFailed"} :
       [p EXCEPT !.state = s] \in Plans
  BY Numbers DEF Plans, NoPlan, ImagesPlan, K0sPlan

LEMMA CommandTypes ==
  ASSUME cmd \in Commands
  PROVE  /\ \A s \in CommandSteps : CmdGoto(s) => cmd' \in Commands
         /\ \A r \in {"ok", "error"} : CmdReturn(r) => cmd' \in Commands
         /\ cmd.release \in Releases
  BY DEF Commands, CommandSteps, CmdGoto, CmdReturn

LEMMA StageTypes == Addons \subseteq Charts /\ Extensions \subseteq Charts
  BY ConstantsAssumption DEF ConstantsAssumption, Addons, Extensions, Charts

LEMMA SpendTypes ==
  ASSUME spent \in [Bounds -> Nat], NEW b \in Bounds, NEW n, Spend(b, n)
  PROVE  spent' \in [Bounds -> Nat]
  BY DEF Spend

LEMMA TypeInit == Init => TypeInv
<1> SUFFICES ASSUME Init PROVE TypeInv
  OBVIOUS
<1> USE Numbers DEF Init
<1>1. /\ state \in [Releases -> InstallationStates]
      /\ job \in [Releases -> JobStates]
      /\ pod \in [Releases -> PodSteps]
  BY DEF InstallationStates, PodSteps, JobStates
<1>2. /\ cond \in [Releases -> SUBSET Charts]
      /\ configMap \subseteq Releases
      /\ failed \in [Releases -> 0..(BackoffLimit + 1)]
      /\ pauseImage \in Releases /\ images \in Releases
      /\ release \in [Charts -> Releases]
      /\ plan \in Plans
  BY PlanTypes
<1>3. /\ joined \subseteq Nodes
      /\ joining \in [Nodes -> SUBSET Nat]
      /\ k0s \in [Nodes -> Nat] /\ kubelet \in [Nodes -> Nat]
  BY ConstantsAssumption DEF ConstantsAssumption
<1>4. /\ cmd \in Commands
      /\ op \in SUBSET Releases
      /\ spent \in [Bounds -> Nat]
  BY DEF Commands, CommandSteps
<1>5. JobInv
  BY DEF JobInv
<1> QED
  BY <1>1, <1>2, <1>3, <1>4, <1>5 DEF TypeInv, TypeOK

(* What each group of actions writes keeps its type.                      *)
LEMMA TypeCommand ==
  ASSUME TypeInv, Command PROVE TypeInv'
<1> USE DEF TypeInv, TypeOK, CmdFrame, cluster, machine
<1>1. cmd' \in Commands
  BY CommandTypes DEF Command, CommandSteps, CreateInstallation,
     CreateInstallationState, DisableOldInstallations, CheckJob,
     EnsureArtifactsPlan, WaitForAirgapArtifactsPlan, EnsureConfigMap, CreateJob
<1>2. state' \in [Releases -> InstallationStates]
  BY DEF Command, InstallationStates, SetState, CreateInstallation,
     CreateInstallationState, DisableOldInstallations, CheckJob,
     EnsureArtifactsPlan, WaitForAirgapArtifactsPlan, EnsureConfigMap, CreateJob
<1>3. plan' \in Plans
  BY PlanTypes, CommandTypes DEF Command, CreateInstallation,
     CreateInstallationState, DisableOldInstallations, CheckJob,
     EnsureArtifactsPlan, WaitForAirgapArtifactsPlan, EnsureConfigMap, CreateJob
<1>4. /\ configMap' \subseteq Releases
      /\ \/ UNCHANGED <<job, failed>>
         \/ /\ job' = [job EXCEPT ![cmd.release] = "running"]
            /\ failed' = [failed EXCEPT ![cmd.release] = 0]
  BY CommandTypes DEF Command, CreateInstallation,
     CreateInstallationState, DisableOldInstallations, CheckJob,
     EnsureArtifactsPlan, WaitForAirgapArtifactsPlan, EnsureConfigMap, CreateJob
<1>5. UNCHANGED <<cond, cluster, machine, pod, op, spent>>
  BY DEF Command, CreateInstallation,
     CreateInstallationState, DisableOldInstallations, CheckJob,
     EnsureArtifactsPlan, WaitForAirgapArtifactsPlan, EnsureConfigMap, CreateJob
<1>6. /\ job' \in [Releases -> JobStates]
      /\ failed' \in [Releases -> 0..(BackoffLimit + 1)]
  BY <1>4, Numbers DEF JobStates
<1>7. JobInv'
  BY <1>4, <1>5, Numbers, CommandTypes DEF JobInv
<1> QED
  BY <1>1, <1>2, <1>3, <1>4, <1>5, <1>6, <1>7

(* A pod's step writes only these.                                        *)
LEMMA TypePodStep ==
  ASSUME TypeInv, NEW i \in Releases, StartPod(i) \/ PodStep(i)
  PROVE  TypeInv'
<1> USE DEF TypeInv, TypeOK, PodFrame, cluster, machine, Goto, SetState, PodStep,
      StartPod, UpdatePauseImage, UpgradeK0s, CreateAutopilotPlan,
      WaitForAutopilotPlan, DeleteOtherPlan, WaitForClusterNodesMatchVersion,
      WaitTimesOut, DeletePlan, K0sDone, UpdateClusterConfig, UpgradeAddons,
      UpgradeAddOn, MarkAddOnUpgraded, AddonsDone, UpgradeExtensions,
      HandleExtension, MarkExtensionAsProcessed, ExtensionsDone, Installed,
      MaybeMarkAsFailed, UpgradeChart, SetCondition
<1>1. \E s \in PodSteps : pod' = [pod EXCEPT ![i] = s]
  BY DEF PodSteps
<1>2. state' \in [Releases -> InstallationStates]
  BY DEF InstallationStates
<1>3. plan' \in Plans
  BY PlanTypes
<1>4. pauseImage' \in Releases /\ images' \in Releases
  OBVIOUS
<1>5. \/ cond' = cond
      \/ \E c \in Charts : cond' = [cond EXCEPT ![i] = @ \cup {c}]
  BY StageTypes DEF Pending
<1>6. \/ release' = release
      \/ \E c \in Charts : release' = [release EXCEPT ![c] = i]
  BY StageTypes DEF Pending
<1>7. UNCHANGED <<configMap, job, failed, machine, cmd, op, spent>>
  OBVIOUS
<1>8. pod[i] = "none" => job[i] = "running"
  OBVIOUS
<1> HIDE DEF PodFrame, cluster, Goto, SetState, PodStep,
      StartPod, UpdatePauseImage, UpgradeK0s, CreateAutopilotPlan,
      WaitForAutopilotPlan, DeleteOtherPlan, WaitForClusterNodesMatchVersion,
      WaitTimesOut, DeletePlan, K0sDone, UpdateClusterConfig, UpgradeAddons,
      UpgradeAddOn, MarkAddOnUpgraded, AddonsDone, UpgradeExtensions,
      HandleExtension, MarkExtensionAsProcessed, ExtensionsDone, Installed,
      MaybeMarkAsFailed, UpgradeChart, SetCondition
<1>9. JobInv'
  BY <1>1, <1>7, <1>8 DEF JobInv
<1>10. pod' \in [Releases -> PodSteps]
  BY <1>1
<1>11. /\ cond' \in [Releases -> SUBSET Charts]
       /\ release' \in [Charts -> Releases]
  BY <1>5, <1>6
<1> QED
  BY <1>2, <1>3, <1>4, <1>7, <1>9, <1>10, <1>11

LEMMA CountFailureTypes ==
  ASSUME TypeInv, NEW i \in Releases, job[i] = "running", CountFailure(i),
         Goto(i, "none")
  PROVE  /\ job' \in [Releases -> JobStates]
         /\ failed' \in [Releases -> 0..(BackoffLimit + 1)]
         /\ pod' \in [Releases -> PodSteps]
         /\ JobInv'
<1> USE Numbers DEF TypeInv, TypeOK, CountFailure, Goto
<1>1. /\ job' \in [Releases -> JobStates]
      /\ pod' \in [Releases -> PodSteps]
  BY DEF JobStates, PodSteps
<1>2. failed[i] \in Nat /\ failed[i] <= BackoffLimit
  BY DEF JobInv
<1>3. failed' \in [Releases -> 0..(BackoffLimit + 1)]
  BY <1>2
<1>4. JobInv'
  BY <1>2 DEF JobInv
<1> QED
  BY <1>1, <1>3, <1>4

(* What ends a command or a pod keeps every type.                         *)
LEMMA TypeEnds ==
  ASSUME TypeInv,
         \/ CommandError \/ CommandKilled
         \/ \E i \in Releases :
              StartCommand(i) \/ PodError(i) \/ PodEnds(i) \/ PodKilled(i)
  PROVE  TypeInv'
<1> USE DEF TypeInv, TypeOK, cluster, machine
<1>1. CASE CommandError \/ CommandKilled
  <2>1. cmd' \in Commands
    BY <1>1, CommandTypes DEF CommandError, CommandKilled, CommandSteps
  <2>2. spent' \in [Bounds -> Nat]
    BY <1>1, SpendTypes DEF CommandError, CommandKilled, Bounds
  <2> QED
    BY <1>1, <2>1, <2>2 DEF CommandError, CommandKilled, JobInv
<1>2. ASSUME NEW i \in Releases, StartCommand(i) PROVE TypeInv'
  <2>1. cmd' \in Commands
    BY <1>2 DEF StartCommand, Commands, CommandSteps
  <2>2. spent' \in [Bounds -> Nat]
    BY <1>2, SpendTypes DEF StartCommand, Bounds
  <2> QED
    BY <1>2, <2>1, <2>2 DEF StartCommand, JobInv
<1>3. ASSUME NEW i \in Releases, PodError(i) PROVE TypeInv'
  <2>1. pod' \in [Releases -> PodSteps]
    BY <1>3 DEF PodError, Goto, PodSteps
  <2>2. spent' \in [Bounds -> Nat]
    BY <1>3, SpendTypes DEF PodError, Bounds
  <2> QED
    BY <1>3, <2>1, <2>2 DEF PodError, Goto, JobInv
<1>4. ASSUME NEW i \in Releases, PodKilled(i) PROVE TypeInv'
  <2>1. spent' \in [Bounds -> Nat]
    BY <1>4, SpendTypes DEF PodKilled, Bounds
  <2>2. job[i] = "running"
    BY <1>4 DEF PodKilled, JobInv
  <2> QED
    BY <1>4, <2>1, <2>2, CountFailureTypes DEF PodKilled
<1>5. ASSUME NEW i \in Releases, PodEnds(i) PROVE TypeInv'
  <2>1. job[i] = "running"
    BY <1>5 DEF PodEnds, JobInv
  <2>2. CASE CountFailure(i)
    BY <1>5, <2>1, <2>2, CountFailureTypes DEF PodEnds
  <2>3. CASE job' = [job EXCEPT ![i] = "complete"] /\ UNCHANGED failed
    <3>1. job' \in [Releases -> JobStates] /\ pod' \in [Releases -> PodSteps]
      BY <1>5, <2>3 DEF PodEnds, Goto, JobStates, PodSteps
    <3>2. JobInv'
      BY <1>5, <2>3 DEF PodEnds, Goto, JobInv
    <3> QED
      BY <1>5, <2>3, <3>1, <3>2 DEF PodEnds
  <2> QED
    BY <1>5, <2>2, <2>3 DEF PodEnds
<1> QED
  BY <1>1, <1>2, <1>3, <1>4, <1>5

(* So do autopilot, the machines and the operator.                        *)
LEMMA TypeOthers ==
  ASSUME TypeInv,
         \/ Autopilot \/ AutopilotFail \/ Reconcile \/ DeleteUpgradeJobs
         \/ \E n \in Nodes : KubeletReport(n) \/ JoinStart(n) \/ JoinFinish(n)
  PROVE  TypeInv'
<1> USE DEF TypeInv, TypeOK, cluster, machine, process, EnvFrame, OperatorFrame
<1>1. CASE AutopilotComplete \/ AutopilotFail
  <2>1. plan' \in Plans
    BY <1>1, PlanTypes DEF AutopilotComplete, AutopilotFail
  <2>2. spent' \in [Bounds -> Nat]
    BY <1>1, SpendTypes DEF AutopilotComplete, AutopilotFail, Bounds
  <2> QED
    BY <1>1, <2>1, <2>2 DEF AutopilotComplete, AutopilotFail, JobInv
<1>2. CASE \E n \in Nodes : AutopilotUpdateNode(n)
  <2>1. plan.version \in Nat
    BY DEF Plans
  <2> QED
    BY <1>2, <2>1 DEF AutopilotUpdateNode, JobInv
<1>3. ASSUME NEW n \in Nodes, KubeletReport(n) \/ JoinStart(n) \/ JoinFinish(n)
      PROVE  TypeInv'
  <2>1. UNCHANGED <<plan, spent>> /\ EnvFrame
    BY <1>3 DEF KubeletReport, JoinStart, JoinFinish
  <2>2. joined' \subseteq Nodes
    BY <1>3 DEF KubeletReport, JoinStart, JoinFinish
  <2>3. k0s' \in [Nodes -> Nat] /\ kubelet' \in [Nodes -> Nat]
    BY <1>3 DEF KubeletReport, JoinStart, JoinFinish
  <2>4. joining' \in [Nodes -> SUBSET Nat]
    <3>1. CASE KubeletReport(n) \/ JoinFinish(n)
      BY <3>1 DEF KubeletReport, JoinFinish
    <3>2. CASE JoinStart(n)
      BY <3>2, Numbers DEF JoinStart, Created
    <3> QED
      BY <1>3, <3>1, <3>2
  <2> QED
    BY <2>1, <2>2, <2>3, <2>4 DEF JobInv
<1>4. CASE Reconcile
  BY <1>4 DEF Reconcile, Created, JobInv
<1>5. CASE DeleteUpgradeJobs
  BY <1>5 DEF DeleteUpgradeJobs, JobStates, JobInv
<1> QED
  BY <1>1, <1>2, <1>3, <1>4, <1>5 DEF Autopilot

LEMMA TypeStep == TypeInv /\ [Next]_vars => TypeInv'
<1> SUFFICES ASSUME TypeInv, [Next]_vars PROVE TypeInv'
  OBVIOUS
<1>1. CASE Next
  BY <1>1, TypeCommand, TypePodStep, TypeEnds, TypeOthers DEF Next
<1>2. CASE UNCHANGED vars
  BY <1>2 DEF vars, cluster, machine, process, TypeInv, TypeOK, JobInv
<1> QED
  BY <1>1, <1>2

LEMMA TypeInvariant == Spec => []TypeInv
  BY TypeInit, TypeStep, PTL DEF Spec

(* Every variable keeps its type; in particular the count of failed pods  *)
(* of a Job never passes the backoff limit by more than one.              *)
THEOREM TypeCorrect == Spec => []TypeOK
<1>1. TypeInv => TypeOK
  BY DEF TypeInv
<1> QED
  BY <1>1, TypeInvariant, PTL

-----------------------------------------------------------------------------
(* A release whose Job has yet to be created for the first time has no    *)
(* attempt behind it.  This is why creating a Job cannot revive an        *)
(* upgrade that was declared failed: the configmap guards the creation.   *)
Unattempted(i) == i \notin configMap \/ (cmd.at = "createJob" /\ cmd.release = i)

UnattemptedInv ==
  /\ \A i \in Releases : Unattempted(i) => job[i] = "absent" /\ state[i] # "Failed"
  /\ cmd.at = "createJob" => cmd.release \in configMap

FinalInv == TypeInv /\ UnattemptedInv /\ FailedIsFinal

LEMMA FinalInit == Init => FinalInv
  BY TypeInit DEF FinalInv, Init, UnattemptedInv, FailedIsFinal

LEMMA FinalCommand ==
  ASSUME FinalInv, Command PROVE UnattemptedInv' /\ FailedIsFinal'
<1> USE DEF FinalInv, TypeInv, TypeOK, CmdFrame, CmdGoto, CmdReturn, SetState,
            UnattemptedInv, Unattempted, FailedIsFinal
<1> USE CommandTypes
<1>1. CASE CreateInstallation \/ CreateInstallationState \/ DisableOldInstallations
  BY ZenonT(60), <1>1 DEF CreateInstallation, CreateInstallationState, DisableOldInstallations,
     Commands
<1>2. CASE CheckJob \/ EnsureArtifactsPlan \/ WaitForAirgapArtifactsPlan
  BY <1>2 DEF CheckJob, EnsureArtifactsPlan, WaitForAirgapArtifactsPlan, Commands
<1>3. CASE EnsureConfigMap
  <2>1. UNCHANGED <<state, job, failed, pod>>
    BY <1>3 DEF EnsureConfigMap
  <2>2. CASE cmd.release \in configMap
    BY <1>3, <2>1, <2>2 DEF EnsureConfigMap, Commands
  <2>3. CASE cmd.release \notin configMap
    <3>1. /\ configMap' = configMap \cup {cmd.release}
          /\ cmd'.at = "createJob" /\ cmd'.release = cmd.release
      BY <1>3, <2>3 DEF EnsureConfigMap, Commands
    <3>2. \A i \in Releases : Unattempted(i)' => Unattempted(i)
      BY <2>3, <3>1
    <3> QED
      BY <2>1, <3>1, <3>2
  <2> QED
    BY <2>2, <2>3
<1>4. CASE CreateJob
  <2>1. UNCHANGED <<state, configMap, pod>> /\ cmd'.at = "idle"
    BY <1>4 DEF CreateJob, Commands
  <2>2. \A i \in Releases \ {cmd.release} : job'[i] = job[i] /\ failed'[i] = failed[i]
    BY <1>4 DEF CreateJob
  <2>3. cmd.at = "createJob" /\ cmd.release \in Releases
    BY <1>4 DEF CreateJob
  <2>4. cmd.release \in configMap /\ state[cmd.release] # "Failed"
    BY <2>3
  <2> QED
    BY <2>1, <2>2, <2>4
<1> QED
  BY <1>1, <1>2, <1>3, <1>4 DEF Command

(* Only maybeMarkAsFailed writes Failed, on the last attempt, and the pod *)
(* ends with it; while the Job runs nothing is unattempted.               *)
LEMMA FinalPodStep ==
  ASSUME FinalInv, NEW i \in Releases, StartPod(i) \/ PodStep(i)
  PROVE  UnattemptedInv' /\ FailedIsFinal'
<1> USE DEF PodFrame, cluster, machine, Goto, SetState, PodStep,
      StartPod, UpdatePauseImage, UpgradeK0s, CreateAutopilotPlan,
      WaitForAutopilotPlan, DeleteOtherPlan, WaitForClusterNodesMatchVersion,
      WaitTimesOut, DeletePlan, K0sDone, UpdateClusterConfig, UpgradeAddons,
      UpgradeAddOn, MarkAddOnUpgraded, AddonsDone, UpgradeExtensions,
      HandleExtension, MarkExtensionAsProcessed, ExtensionsDone, Installed,
      MaybeMarkAsFailed, UpgradeChart, SetCondition
<1>1. UNCHANGED <<configMap, job, failed, cmd>>
  OBVIOUS
<1>2. job[i] = "running"
  BY DEF FinalInv, TypeInv, JobInv
<1>3. /\ \A j \in Releases \ {i} : state'[j] = state[j] /\ pod'[j] = pod[j]
      /\ pod[i] # "failed"
  BY DEF FinalInv, TypeInv, TypeOK
<1>4. \/ state'[i] # "Failed" \/ state'[i] = state[i]
      \/ pod'[i] = "failed" /\ failed[i] >= BackoffLimit
  BY DEF FinalInv, TypeInv, TypeOK, PodSteps
<1> HIDE DEF PodStep, StartPod
<1>5. FailedIsFinal'
  BY <1>1, <1>2, <1>3, <1>4 DEF FinalInv, FailedIsFinal
<1>6. UnattemptedInv'
  BY <1>1, <1>2, <1>3 DEF FinalInv, UnattemptedInv, Unattempted
<1> QED
  BY <1>5, <1>6

LEMMA FinalEnds ==
  ASSUME FinalInv,
         \/ CommandError \/ CommandKilled
         \/ \E i \in Releases :
              StartCommand(i) \/ PodError(i) \/ PodEnds(i) \/ PodKilled(i)
  PROVE  UnattemptedInv' /\ FailedIsFinal'
<1> USE DEF FinalInv, FailedIsFinal, UnattemptedInv, Unattempted
<1>1. CASE CommandError \/ CommandKilled
  <2>1. cmd'.at # "createJob"
    BY <1>1 DEF CommandError, CommandKilled, CmdGoto, CmdReturn, TypeInv, TypeOK, Commands
  <2> QED
    BY <1>1, <2>1 DEF CommandError, CommandKilled
<1>2. ASSUME NEW i \in Releases, StartCommand(i)
      PROVE  UnattemptedInv' /\ FailedIsFinal'
  <2>1. cmd'.at # "createJob"
    BY <1>2 DEF StartCommand
  <2> QED
    BY <1>2, <2>1 DEF StartCommand
<1>3. ASSUME NEW i \in Releases, PodError(i)
      PROVE  UnattemptedInv' /\ FailedIsFinal'
  BY <1>3 DEF PodError, Goto, TypeInv, TypeOK
<1>4. ASSUME NEW i \in Releases, PodEnds(i) \/ PodKilled(i)
      PROVE  UnattemptedInv' /\ FailedIsFinal'
  <2>1. job[i] = "running" /\ UNCHANGED <<state, configMap, cmd>>
    BY <1>4 DEF PodEnds, PodKilled, TypeInv, JobInv
  <2>2. \A j \in Releases \ {i} :
          job'[j] = job[j] /\ failed'[j] = failed[j] /\ pod'[j] = pod[j]
    BY <1>4 DEF PodEnds, PodKilled, CountFailure, Goto, TypeInv, TypeOK
  <2>3. state[i] = "Failed" => job'[i] # "running"
    BY <1>4, <2>1 DEF PodEnds, PodKilled, CountFailure, TypeInv, TypeOK
  <2> QED
    BY <2>1, <2>2, <2>3
<1> QED
  BY <1>1, <1>2, <1>3, <1>4

LEMMA FinalOthers ==
  ASSUME FinalInv,
         \/ Autopilot \/ AutopilotFail \/ Reconcile \/ DeleteUpgradeJobs
         \/ \E n \in Nodes : KubeletReport(n) \/ JoinStart(n) \/ JoinFinish(n)
  PROVE  UnattemptedInv' /\ FailedIsFinal'
<1> USE DEF FinalInv, FailedIsFinal, UnattemptedInv, Unattempted
<1>1. CASE ~DeleteUpgradeJobs
  <2>1. UNCHANGED <<state, configMap, job, failed, cmd, pod>>
    BY <1>1 DEF Autopilot, AutopilotComplete, AutopilotUpdateNode, AutopilotFail,
       Reconcile, KubeletReport, JoinStart, JoinFinish, EnvFrame, OperatorFrame,
       process
  <2> QED
    BY <2>1
<1>2. CASE DeleteUpgradeJobs
  BY <1>2 DEF DeleteUpgradeJobs, OperatorFrame
<1> QED
  BY <1>1, <1>2

LEMMA FinalStep == FinalInv /\ [Next]_vars => FinalInv'
<1> SUFFICES ASSUME FinalInv, [Next]_vars PROVE FinalInv'
  OBVIOUS
<1>1. TypeInv'
  BY TypeStep DEF FinalInv
<1>2. CASE Next
  BY <1>1, <1>2, FinalCommand, FinalPodStep, FinalEnds, FinalOthers
  DEF Next, FinalInv
<1>3. CASE UNCHANGED vars
  BY <1>1, <1>3 DEF vars, process, FinalInv, UnattemptedInv, Unattempted,
     FailedIsFinal
<1> QED
  BY <1>2, <1>3

(* An upgrade declared failed has no attempt left, and gets none: the     *)
(* Job's own count and isLastAttempt's comparison agree, for every        *)
(* backoff limit and whatever is killed or fails when.                    *)
THEOREM FailureIsFinal == Spec => []FailedIsFinal
<1>1. FinalInv => FailedIsFinal
  BY DEF FinalInv
<1> QED
  BY <1>1, FinalInit, FinalStep, PTL DEF Spec

-----------------------------------------------------------------------------
(* Why the autopilot plan, which has one name for every release and every *)
(* use, is never taken from under a pod that waits for it: at any time at *)
(* most one of the upgrade Jobs and the upgrade command works on it.      *)

(* Only the newest release's Job runs, and no command is then past        *)
(* CheckJob, or about to create a release.                                *)
RunningIsNewest == \A i \in Releases : job[i] = "running" => IsNewest(i)

ToCreate == cmd.at = "create" /\ cmd.release \notin Created

CommandInv ==
  /\ 0 \in Created
  /\ cmd.at = "create" =>
       cmd.release # 0 /\ (IsNewest(cmd.release) \/ IsNewest(cmd.release - 1))
  /\ cmd.at \notin {"idle", "create"} => IsNewest(cmd.release)
  /\ ToCreate => \A i \in Releases : job[i] # "running"
  /\ cmd.at \in {"ensurePlan", "waitPlan", "configMap", "createJob"} =>
       job[cmd.release] = "absent"

OrderInv == TypeInv /\ RunningIsNewest /\ CommandInv

LEMMA CreatedTypes == Created \subseteq Releases /\ Created \subseteq Nat
  BY Numbers DEF Created

(* Two newest Installations are the same one.                             *)
LEMMA NewestIsOne ==
  ASSUME NEW i \in Releases, NEW j \in Releases, IsNewest(i), IsNewest(j)
  PROVE  i = j
  BY Numbers DEF IsNewest

LEMMA OrderInit == Init => RunningIsNewest /\ CommandInv
<1> SUFFICES ASSUME Init PROVE RunningIsNewest /\ CommandInv
  OBVIOUS
<1>1. 0 \in Created /\ cmd.at = "idle" /\ \A i \in Releases : job[i] = "absent"
  BY Numbers DEF Init, Created
<1> QED
  BY <1>1 DEF RunningIsNewest, CommandInv, ToCreate

(* Writing the state of an Installation that exists creates none.         *)
LEMMA SetStateCreates ==
  ASSUME TypeOK, NEW i \in Created, NEW s \in InstallationStates \ {"absent"},
         SetState(i, s)
  PROVE  Created' = Created
  BY DEF TypeOK, SetState, Created

(* The step of a pod that has a running Job creates no Installation.      *)
LEMMA PodStepCreated ==
  ASSUME OrderInv, NEW i \in Releases, StartPod(i) \/ PodStep(i)
  PROVE  Created' = Created /\ UNCHANGED <<job, cmd>> /\ job[i] = "running"
<1> USE DEF StartPod, PodStep, UpdatePauseImage, UpgradeK0s, CreateAutopilotPlan,
      WaitForAutopilotPlan, DeleteOtherPlan, WaitForClusterNodesMatchVersion,
      WaitTimesOut, DeletePlan, K0sDone, UpdateClusterConfig, UpgradeAddons,
      UpgradeAddOn, MarkAddOnUpgraded, AddonsDone, UpgradeExtensions,
      HandleExtension, MarkExtensionAsProcessed, ExtensionsDone, Installed,
      MaybeMarkAsFailed, UpgradeChart, SetCondition
<1>1. UNCHANGED <<job, cmd>>
  BY DEF PodFrame
<1>2. job[i] = "running"
  BY DEF OrderInv, TypeInv, JobInv
<1>3. i \in Created
  BY <1>2 DEF OrderInv, RunningIsNewest, IsNewest
<1>4. \/ UNCHANGED state
      \/ \E s \in InstallationStates \ {"absent"} : SetState(i, s)
  BY DEF InstallationStates
<1> HIDE DEF StartPod, PodStep
<1>5. Created' = Created
  BY <1>3, <1>4, SetStateCreates DEF OrderInv, TypeInv, Created
<1> QED
  BY <1>1, <1>2, <1>5

(* CreateInstallation makes the next release the newest.                  *)
LEMMA OrderCreate ==
  ASSUME OrderInv, CreateInstallation
  PROVE  RunningIsNewest' /\ CommandInv'
<1> DEFINE r == cmd.release
<1> USE DEF OrderInv, TypeInv, TypeOK
<1>1. r \in Releases /\ r \in Nat /\ cmd.at = "create"
  BY CommandTypes, Numbers DEF CreateInstallation
<1>2. CASE r \in Created
  <2>1. UNCHANGED <<state, job>> /\ cmd'.release = r /\ cmd'.at = "checkJob"
    BY <1>2 DEF CreateInstallation, CmdGoto, Commands
  <2>2. Created' = Created
    BY <2>1 DEF Created
  <2>3. IsNewest(r)
    BY <1>1, <1>2, CreatedTypes DEF CommandInv, IsNewest
  <2> QED
    BY <2>1, <2>2, <2>3 DEF RunningIsNewest, CommandInv, ToCreate, IsNewest
<1>3. CASE r \notin Created
  <2>1. UNCHANGED job /\ cmd'.release = r /\ cmd'.at = "setState"
    BY <1>3 DEF CreateInstallation, CmdGoto, Commands
  <2>2. Created' = Created \cup {r}
    BY <1>1, <1>3 DEF CreateInstallation, SetState, Created
  <2>3. r # 0 /\ IsNewest(r - 1)
    BY <1>1, <1>3 DEF CommandInv, IsNewest
  <2>4. \A j \in Created' : j <= r
    BY <1>1, <2>2, <2>3, CreatedTypes DEF IsNewest
  <2>5. \A i \in Releases : job[i] # "running"
    BY <1>1, <1>3 DEF CommandInv, ToCreate
  <2> QED
    BY <1>3, <2>1, <2>2, <2>4, <2>5 DEF RunningIsNewest, CommandInv, ToCreate, IsNewest
<1> QED
  BY <1>2, <1>3

LEMMA OrderCommand ==
  ASSUME OrderInv, Command PROVE RunningIsNewest' /\ CommandInv'
<1> USE DEF OrderInv, TypeInv, TypeOK, CmdFrame, CmdGoto, CmdReturn
<1>0. cmd.release \in Releases
  BY CommandTypes
<1>1. CASE CreateInstallation
  BY <1>1, OrderCreate
<1>2. CASE CreateInstallationState \/ DisableOldInstallations
  <2>1. Created' = Created
    <3>1. CASE UNCHANGED state
      BY <3>1 DEF Created
    <3>2. CASE CreateInstallationState
      BY <1>0, <3>2, SetStateCreates DEF CreateInstallationState, CommandInv, IsNewest,
         InstallationStates
    <3>3. ASSUME NEW j \in Disableable, SetState(j, "Obsolete") PROVE Created' = Created
      BY <3>3, SetStateCreates DEF Disableable, InstallationStates
    <3> QED
      BY <1>2, <3>1, <3>2, <3>3 DEF DisableOldInstallations
  <2>2. UNCHANGED job /\ cmd'.release = cmd.release
        /\ cmd'.at \in {"disable", "checkJob"} /\ IsNewest(cmd.release)
    BY <1>2 DEF CreateInstallationState, DisableOldInstallations, Commands, CommandInv
  <2> QED
    BY <2>1, <2>2 DEF RunningIsNewest, CommandInv, ToCreate, IsNewest
<1>3. CASE CheckJob \/ EnsureArtifactsPlan \/ WaitForAirgapArtifactsPlan \/ EnsureConfigMap
  <2>1. UNCHANGED <<state, job>> /\ cmd'.release = cmd.release /\ IsNewest(cmd.release)
    BY <1>3 DEF CheckJob, EnsureArtifactsPlan, WaitForAirgapArtifactsPlan,
       EnsureConfigMap, Commands, CommandInv
  <2>2. \/ cmd'.at = "idle"
        \/ cmd'.at \in {"ensurePlan", "waitPlan", "configMap", "createJob"}
           /\ job[cmd.release] = "absent"
    BY <1>3 DEF CheckJob, EnsureArtifactsPlan, WaitForAirgapArtifactsPlan,
       EnsureConfigMap, Commands, CommandInv
  <2>3. Created' = Created
    BY <2>1 DEF Created
  <2> QED
    BY <2>1, <2>2, <2>3 DEF RunningIsNewest, CommandInv, ToCreate, IsNewest
<1>4. CASE CreateJob
  <2>1. UNCHANGED state /\ cmd'.at = "idle" /\ IsNewest(cmd.release)
    BY <1>4 DEF CreateJob, Commands, CommandInv
  <2>2. Created' = Created
    BY <2>1 DEF Created
  <2>3. \A i \in Releases : job'[i] = "running" => IsNewest(i)
    BY <1>0, <1>4, <2>1 DEF CreateJob, RunningIsNewest
  <2> QED
    BY <2>1, <2>2, <2>3 DEF RunningIsNewest, CommandInv, ToCreate, IsNewest
<1> QED
  BY <1>1, <1>2, <1>3, <1>4 DEF Command

LEMMA OrderPods ==
  ASSUME OrderInv, NEW i \in Releases,
         \/ StartPod(i) \/ PodStep(i) \/ PodError(i) \/ PodEnds(i) \/ PodKilled(i)
  PROVE  RunningIsNewest' /\ CommandInv'
<1>1. Created' = Created /\ UNCHANGED cmd
  BY PodStepCreated DEF PodError, PodEnds, PodKilled, Created
<1>2. /\ \A j \in Releases : job'[j] = "running" => job[j] = "running"
      /\ \A j \in Releases : job[j] = "absent" => job'[j] = "absent"
  <2>1. CASE StartPod(i) \/ PodStep(i) \/ PodError(i)
    BY <2>1, PodStepCreated DEF PodError
  <2>2. CASE PodEnds(i) \/ PodKilled(i)
    <3>1. job[i] = "running"
      BY <2>2 DEF PodEnds, PodKilled, OrderInv, TypeInv, JobInv
    <3> QED
      BY <2>2, <3>1 DEF PodEnds, PodKilled, CountFailure, OrderInv, TypeInv, TypeOK
  <2> QED
    BY <2>1, <2>2
<1>3. cmd.release \in Releases
  BY CommandTypes DEF OrderInv, TypeInv, TypeOK
<1> QED
  BY <1>1, <1>2, <1>3 DEF OrderInv, RunningIsNewest, CommandInv, ToCreate, IsNewest

LEMMA OrderEnds ==
  ASSUME OrderInv,
         \/ CommandError \/ CommandKilled \/ \E i \in Releases : StartCommand(i)
  PROVE  RunningIsNewest' /\ CommandInv'
<1> USE DEF OrderInv, TypeInv, TypeOK
<1>1. UNCHANGED <<state, job>>
  BY DEF CommandError, CommandKilled, StartCommand
<1>2. Created' = Created
  BY <1>1 DEF Created
<1>3. RunningIsNewest'
  BY <1>1, <1>2 DEF RunningIsNewest, IsNewest
<1>4. CASE CommandError \/ CommandKilled
  <2>1. \/ cmd'.at = "idle"
        \/ cmd'.at = "checkJob" /\ cmd.at = "disable" /\ cmd'.release = cmd.release
    BY <1>4 DEF CommandError, CommandKilled, CmdGoto, CmdReturn, Commands
  <2> QED
    BY <1>2, <1>3, <2>1 DEF CommandInv, ToCreate, IsNewest
<1>5. ASSUME NEW i \in Releases, StartCommand(i) PROVE CommandInv'
  <2>1. /\ cmd'.at = "create" /\ cmd'.release = i
        /\ i # 0 /\ (IsNewest(i) \/ IsNewest(i - 1))
        /\ i \notin Created => \A j \in Created : job[j] # "running"
    BY <1>5 DEF StartCommand
  <2>2. \A j \in Releases : job[j] = "running" => j \in Created
    BY DEF RunningIsNewest, IsNewest
  <2> QED
    BY <1>1, <1>2, <2>1, <2>2 DEF CommandInv, ToCreate, IsNewest
<1> QED
  BY <1>3, <1>4, <1>5

LEMMA OrderOthers ==
  ASSUME OrderInv,
         \/ Autopilot \/ AutopilotFail \/ Reconcile \/ DeleteUpgradeJobs
         \/ \E n \in Nodes : KubeletReport(n) \/ JoinStart(n) \/ JoinFinish(n)
  PROVE  RunningIsNewest' /\ CommandInv'
<1>1. UNCHANGED <<state, cmd>>
  BY DEF Autopilot, AutopilotComplete, AutopilotUpdateNode, AutopilotFail,
     Reconcile, DeleteUpgradeJobs, KubeletReport, JoinStart, JoinFinish, EnvFrame,
     OperatorFrame, process
<1>2. \A j \in Releases : job'[j] = job[j] \/ job'[j] = "absent"
  <2>1. CASE DeleteUpgradeJobs
    BY <2>1 DEF DeleteUpgradeJobs
  <2>2. CASE ~DeleteUpgradeJobs
    BY <2>2 DEF Autopilot, AutopilotComplete, AutopilotUpdateNode, AutopilotFail,
       Reconcile, KubeletReport, JoinStart, JoinFinish, EnvFrame, process
  <2> QED
    BY <2>1, <2>2
<1>3. cmd.release \in Releases /\ Created' = Created
  BY <1>1, CommandTypes DEF OrderInv, TypeInv, TypeOK, Created
<1> QED
  BY <1>1, <1>2, <1>3 DEF OrderInv, RunningIsNewest, CommandInv, ToCreate, IsNewest

LEMMA OrderStep == OrderInv /\ [Next]_vars => OrderInv'
<1> SUFFICES ASSUME OrderInv, [Next]_vars PROVE OrderInv'
  OBVIOUS
<1>1. TypeInv'
  BY TypeStep DEF OrderInv
<1>2. CASE Next
  BY <1>1, <1>2, OrderCommand, OrderPods, OrderEnds, OrderOthers DEF Next, OrderInv
<1>3. CASE UNCHANGED vars
  BY <1>1, <1>3 DEF vars, process, OrderInv, RunningIsNewest, CommandInv, ToCreate,
     IsNewest, Created
<1> QED
  BY <1>2, <1>3

LEMMA OrderInvariant == Spec => []OrderInv
<1>1. Init => OrderInv
  BY TypeInit, OrderInit DEF OrderInv
<1> QED
  BY <1>1, OrderStep, PTL DEF Spec

-----------------------------------------------------------------------------
(* While a pod waits for or deletes its plan nobody else writes it: the   *)
(* other Jobs are not running, and the command is not past CheckJob.      *)
LEMMA OwnPlanCommand ==
  ASSUME OrderInv, DeletesOwnPlan, Command PROVE DeletesOwnPlan'
<1> USE DEF OrderInv, TypeInv, TypeOK
<1>1. CASE \A i \in Releases : job[i] # "running"
  <2>1. \A i \in Releases : pod[i] = "none"
    BY <1>1 DEF JobInv
  <2>2. UNCHANGED pod
    BY DEF Command, CreateInstallation, CreateInstallationState,
       DisableOldInstallations, CheckJob, EnsureArtifactsPlan,
       WaitForAirgapArtifactsPlan, EnsureConfigMap, CreateJob, CmdFrame
  <2> QED
    BY <2>1, <2>2 DEF DeletesOwnPlan
<1>2. ASSUME NEW i \in Releases, job[i] = "running" PROVE DeletesOwnPlan'
  <2>1. IsNewest(i) /\ cmd.release \in Releases
    BY <1>2, CommandTypes DEF RunningIsNewest
  <2>2. cmd.at \notin {"ensurePlan", "waitPlan", "configMap", "createJob"}
    BY <1>2, <2>1, NewestIsOne DEF CommandInv
  <2>3. UNCHANGED <<plan, pod>>
    BY <2>2 DEF Command, CreateInstallation, CreateInstallationState,
       DisableOldInstallations, CheckJob, EnsureArtifactsPlan,
       WaitForAirgapArtifactsPlan, EnsureConfigMap, CreateJob, CmdFrame
  <2> QED
    BY <2>3 DEF DeletesOwnPlan
<1> QED
  BY <1>1, <1>2

LEMMA OwnPlanPod ==
  ASSUME OrderInv, DeletesOwnPlan, NEW i \in Releases, StartPod(i) \/ PodStep(i)
  PROVE  DeletesOwnPlan'
<1> USE DEF OrderInv, TypeInv, TypeOK
<1>1. \A j \in Releases \ {i} : pod[j] = "none"
  BY PodStepCreated, NewestIsOne DEF JobInv, RunningIsNewest
<1>2. \A j \in Releases \ {i} : pod'[j] = pod[j]
  BY DEF Goto, StartPod, PodStep, UpdatePauseImage, UpgradeK0s, CreateAutopilotPlan,
      WaitForAutopilotPlan, DeleteOtherPlan, WaitForClusterNodesMatchVersion,
      WaitTimesOut, DeletePlan, K0sDone, UpdateClusterConfig, UpgradeAddons,
      UpgradeAddOn, MarkAddOnUpgraded, AddonsDone, UpgradeExtensions,
      HandleExtension, MarkExtensionAsProcessed, ExtensionsDone, Installed,
      MaybeMarkAsFailed, UpgradeChart, SetCondition
<1>3. pod'[i] \in {"waitNodes", "deletePlan"} =>
        plan' = plan /\ plan.kind = "k0s" /\ plan.version = K0sOf[i]
        /\ plan.state = "Completed"
  BY DEF Goto, StartPod, PodStep, UpdatePauseImage, UpgradeK0s, CreateAutopilotPlan,
      WaitForAutopilotPlan, DeleteOtherPlan, WaitForClusterNodesMatchVersion,
      WaitTimesOut, DeletePlan, K0sDone, UpdateClusterConfig, UpgradeAddons,
      UpgradeAddOn, MarkAddOnUpgraded, AddonsDone, UpgradeExtensions,
      HandleExtension, MarkExtensionAsProcessed, ExtensionsDone, Installed,
      MaybeMarkAsFailed, UpgradeChart, SetCondition, HasPlanFailed, HasThePlanEnded,
      IsOurK0sUpgrade, DeletesOwnPlan
<1> QED
  BY <1>1, <1>2, <1>3 DEF DeletesOwnPlan

LEMMA OwnPlanOthers ==
  ASSUME OrderInv, DeletesOwnPlan,
         \/ CommandError \/ CommandKilled
         \/ \E i \in Releases :
              StartCommand(i) \/ PodError(i) \/ PodEnds(i) \/ PodKilled(i)
         \/ Autopilot \/ AutopilotFail \/ Reconcile \/ DeleteUpgradeJobs
         \/ \E n \in Nodes : KubeletReport(n) \/ JoinStart(n) \/ JoinFinish(n)
  PROVE  DeletesOwnPlan'
<1>1. plan' = plan \/ ~HasThePlanEnded
  BY DEF CommandError, CommandKilled, StartCommand, PodError, PodEnds, PodKilled,
     Autopilot, AutopilotComplete, AutopilotUpdateNode, AutopilotFail, Reconcile,
     DeleteUpgradeJobs, KubeletReport, JoinStart, JoinFinish, OperatorFrame
<1>2. \A j \in Releases : pod'[j] = pod[j] \/ pod'[j] \in {"none", "failing", "failed"}
  <2>1. ASSUME NEW i \in Releases, PodError(i) \/ PodEnds(i) \/ PodKilled(i)
        PROVE  \A j \in Releases :
                 pod'[j] = pod[j] \/ pod'[j] \in {"none", "failing", "failed"}
    BY <2>1 DEF PodError, PodEnds, PodKilled, Goto, OrderInv, TypeInv, TypeOK
  <2>2. CASE UNCHANGED pod
    BY <2>2
  <2> QED
    BY <2>1, <2>2 DEF CommandError, CommandKilled, StartCommand, Autopilot,
       AutopilotComplete, AutopilotUpdateNode, AutopilotFail, Reconcile,
       DeleteUpgradeJobs, KubeletReport, JoinStart, JoinFinish, OperatorFrame,
       EnvFrame, process
<1> QED
  BY <1>1, <1>2 DEF DeletesOwnPlan, HasThePlanEnded

(* A pod that is about to delete the plan by its shared name deletes the  *)
(* completed plan for its own Kubernetes version, whatever commands, Jobs *)
(* and attempts there are.                                                *)
THEOREM OwnPlanIsDeleted == Spec => []DeletesOwnPlan
<1>1. Init => DeletesOwnPlan
  BY DEF Init, DeletesOwnPlan
<1>2. OrderInv /\ DeletesOwnPlan /\ [Next]_vars => DeletesOwnPlan'
  <2> SUFFICES ASSUME OrderInv, DeletesOwnPlan, [Next]_vars PROVE DeletesOwnPlan'
    OBVIOUS
  <2>1. CASE Next
    BY <2>1, OwnPlanCommand, OwnPlanPod, OwnPlanOthers DEF Next
  <2>2. CASE UNCHANGED vars
    BY <2>2 DEF vars, process, DeletesOwnPlan
  <2> QED
    BY <2>1, <2>2
<1> QED
  BY <1>1, <1>2, OrderInvariant, PTL DEF Spec

-----------------------------------------------------------------------------
(* Why the newest Installation's status says only what has happened, and   *)
(* why the upgrade shows its user the rollout in layers of ClusterUpgrade. *)

(* A machine joins once, at a version some release asked for, and a plan   *)
(* has only members for its targets: a machine that joins while the plan   *)
(* runs is none of them.                                                   *)
JoinInv ==
  /\ Members \subseteq joined
  /\ plan.targets \subseteq joined
  /\ \A n \in joined : joining[n] = {}
  /\ \A n \in Nodes : \A v \in joining[n] : \E r \in Created : v = K0sOf[r]

LEMMA PlanTargets ==
  /\ NoPlan.targets = {} /\ NoPlan.kind # "k0s"
  /\ \A i : ImagesPlan(i).targets = {} /\ ImagesPlan(i).kind # "k0s"
  /\ \A i : K0sPlan(i).targets = joined
  BY DEF NoPlan, ImagesPlan, K0sPlan

(* Machines only move towards the newest release: a plan that is not over *)
(* is for no later version, and its targets are not past it.              *)
VersionInv ==
  /\ \A n \in Nodes : kubelet[n] <= k0s[n]
  /\ \A i \in Releases, n \in Nodes : IsNewest(i) => k0s[n] <= K0sOf[i]
  /\ plan.kind = "k0s" /\ ~HasThePlanEnded =>
       /\ \A i \in Releases : IsNewest(i) => plan.version <= K0sOf[i]
       /\ \A n \in plan.targets : k0s[n] <= plan.version

(* A chart that is recorded is at its release.                            *)
ChartInv ==
  \A i \in Releases :
    /\ i \notin Created => cond[i] = {}
    /\ IsNewest(i) => ChartsAt(i, cond[i])

ExtensionSteps == {"extensionsDone", "installed", "exit"}
AddonSteps  == {"addonsDone", "extensions", "extension", "extensionDone"} \cup ExtensionSteps
ConfigSteps == {"addons", "addon", "addonDone"} \cup AddonSteps
K0sSteps    == {"deletePlan", "k0sDone", "clusterConfig"} \cup ConfigSteps

NextIsAt(i, stage) == \A c \in Pending(i, stage) : IsNext(c, Pending(i, stage)) => release[c] = i

(* What a pod has done when it is where it is.                            *)
Progress(i) ==
  /\ pod[i] \in K0sSteps => AtVersion(i)
  /\ pod[i] \in ConfigSteps => images = i
  /\ pod[i] = "addonDone" => NextIsAt(i, Addons)
  /\ pod[i] \in AddonSteps => Addons \subseteq cond[i]
  /\ pod[i] = "extensionDone" => NextIsAt(i, Extensions)
  /\ pod[i] \in ExtensionSteps => Extensions \subseteq cond[i]

ProgressInv == \A i \in Releases : Progress(i)

TruthInv ==
  OrderInv /\ JoinInv /\ VersionInv /\ ChartInv /\ ProgressInv /\ StatusIsTruthful

LEMMA TruthInit == ASSUME Init PROVE TruthInv
<1> USE DEF Init
<1>1. OrderInv
  BY TypeInit, OrderInit DEF OrderInv
<1>2. 0 \in Releases /\ \A i \in Releases : i \in Created <=> i = 0
  BY Numbers DEF Created
<1>3. Created = {0} /\ \A i \in Releases : IsNewest(i) <=> i = 0
  BY <1>2, Numbers DEF IsNewest, Created
<1>4. JoinInv
  BY PlanTargets, ConstantsAssumption DEF ConstantsAssumption, JoinInv
<1>5. VersionInv
  <2>1. K0sOf[0] \in Nat /\ plan.kind = "none"
    BY Numbers DEF NoPlan
  <2> QED
    BY <1>3, <2>1 DEF VersionInv
<1>6. ChartInv
  BY <1>2, <1>3 DEF ChartInv, ChartsAt
<1>7. ProgressInv
  BY DEF ProgressInv, Progress, K0sSteps, ConfigSteps, AddonSteps, ExtensionSteps
<1>8. StatusIsTruthful
  <2>1. \A n \in Members : kubelet[n] = K0sOf[0]
    BY ConstantsAssumption DEF ConstantsAssumption
  <2> QED
    BY <1>3, <2>1 DEF StatusIsTruthful, AtVersion, ChartsAt, Addons
<1> QED
  BY <1>1, <1>4, <1>5, <1>6, <1>7, <1>8 DEF TruthInv

-----------------------------------------------------------------------------
(* The command.                                                           *)
LEMMA TruthNewRelease ==
  ASSUME TruthInv, CreateInstallation, cmd.release \notin Created
  PROVE  JoinInv' /\ VersionInv' /\ ChartInv' /\ ProgressInv' /\ StatusIsTruthful'
<1> DEFINE r == cmd.release
<1> USE DEF TruthInv, OrderInv, TypeInv, TypeOK
<1>1. r \in Releases /\ r \in Nat /\ cmd.at = "create" /\ r # 0 /\ IsNewest(r - 1)
  BY CommandTypes, Numbers DEF CreateInstallation, CommandInv, IsNewest
<1>2. UNCHANGED <<cond, plan, machine, pod, job, images, release>>
  BY DEF CreateInstallation, CmdFrame, cluster
<1>3. Created' = Created \cup {r} /\ state'[r] = ""
  <2>1. state' = [state EXCEPT ![r] = ""]
    BY DEF CreateInstallation, SetState
  <2> QED
    BY <1>1, <2>1 DEF Created
<1>4. \A i \in Releases : IsNewest(i)' => i = r
  <2>1. \A j \in Created : j < r
    BY <1>1, CreatedTypes DEF IsNewest
  <2>2. ASSUME NEW i \in Releases, IsNewest(i)' PROVE i = r
    <3>1. i \in Created' /\ r <= i
      BY <1>3, <2>2 DEF IsNewest
    <3>2. i \in Created => i < r /\ i \in Nat
      BY <2>1, CreatedTypes
    <3>3. i \in Created \/ i = r
      BY <1>3, <3>1
    <3>4. i \notin Created
      BY <1>1, <3>1, <3>2
    <3> QED
      BY <3>3, <3>4
  <2> QED
    BY <2>2
<1>5. \A i \in Releases : pod'[i] = "none"
  BY <1>1, <1>2 DEF CommandInv, ToCreate, JobInv
<1>6. r - 1 \in Releases /\ K0sOf[r - 1] \in Nat /\ K0sOf[r] \in Nat
      /\ K0sOf[r - 1] <= K0sOf[r]
  <2>1. r - 1 \in Releases /\ r - 1 <= r
    BY SMTT(60), <1>1, ConstantsAssumption DEF ConstantsAssumption, Releases
  <2> QED
    BY <1>1, <2>1, ConstantsAssumption DEF ConstantsAssumption
<1>7. VersionInv'
  <2>1. \A n \in Nodes : kubelet[n] \in Nat /\ k0s[n] \in Nat
    OBVIOUS
  <2>2. plan.version \in Nat
    BY DEF Plans
  <2>3. UNCHANGED <<k0s, kubelet>>
    BY <1>2 DEF machine
  <2>4. \A n \in Nodes : k0s[n] <= K0sOf[r - 1]
    BY <1>1, <1>6 DEF VersionInv
  <2>5. \A n \in Nodes : k0s[n] <= K0sOf[r]
    BY <1>6, <2>1, <2>4
  <2>6. plan.kind = "k0s" /\ ~HasThePlanEnded => plan.version <= K0sOf[r]
    BY <1>1, <1>6, <2>2 DEF VersionInv
  <2> QED
    BY <1>2, <1>4, <2>3, <2>5, <2>6 DEF VersionInv, HasThePlanEnded
<1>8. ChartInv'
  BY <1>1, <1>2, <1>3, <1>4 DEF ChartInv, ChartsAt
<1>9. ProgressInv'
  BY <1>5 DEF ProgressInv, Progress, K0sSteps, ConfigSteps, AddonSteps, ExtensionSteps
<1>10. StatusIsTruthful'
  BY <1>3, <1>4 DEF StatusIsTruthful
<1>11. JoinInv'
  BY <1>2, <1>3 DEF JoinInv, machine
<1> QED
  BY <1>7, <1>8, <1>9, <1>10, <1>11

(* Any other step of a command writes at most an uncommitted state and    *)
(* the plan of the images.                                                *)
LEMMA TruthCommand ==
  ASSUME TruthInv, Command
  PROVE  JoinInv' /\ VersionInv' /\ ChartInv' /\ ProgressInv' /\ StatusIsTruthful'
<1> USE DEF TruthInv, OrderInv, TypeInv, TypeOK, CmdFrame, cluster
<1>1. UNCHANGED <<cond, machine, pod, pauseImage, images, release>>
  BY DEF Command, CreateInstallation, CreateInstallationState,
     DisableOldInstallations, CheckJob, EnsureArtifactsPlan,
     WaitForAirgapArtifactsPlan, EnsureConfigMap, CreateJob
<1>2. plan' = plan \/ plan' = NoPlan \/ plan' = ImagesPlan(cmd.release)
  BY DEF Command, CreateInstallation, CreateInstallationState,
     DisableOldInstallations, CheckJob, EnsureArtifactsPlan,
     WaitForAirgapArtifactsPlan, EnsureConfigMap, CreateJob
<1>3. CASE CreateInstallation /\ cmd.release \notin Created
  BY <1>3, TruthNewRelease
<1>4. CASE ~(CreateInstallation /\ cmd.release \notin Created)
  <2>0. cmd.release \in Releases
    BY CommandTypes
  <2>1. \/ UNCHANGED state
        \/ \E j \in Created : SetState(j, "Installing") \/ SetState(j, "Obsolete")
    BY <1>4, <2>0 DEF Command, CreateInstallation, CreateInstallationState,
       DisableOldInstallations, CheckJob, EnsureArtifactsPlan, Disableable,
       WaitForAirgapArtifactsPlan, EnsureConfigMap, CreateJob, CommandInv, IsNewest
  <2>2. Created' = Created
    BY <2>1, SetStateCreates DEF Created, InstallationStates
  <2>3. \A j \in Releases : state'[j] \in {state[j], "Installing", "Obsolete"}
    BY <2>1 DEF SetState
  <2>4. plan' = plan \/ plan'.kind # "k0s"
    BY <1>2, PlanTargets
  <2>5. VersionInv'
    BY <1>1, <2>2, <2>4 DEF VersionInv, IsNewest, HasThePlanEnded, machine
  <2>6. ChartInv'
    BY <1>1, <2>2 DEF ChartInv, ChartsAt, IsNewest
  <2>7. ProgressInv'
    BY <1>1 DEF ProgressInv, Progress, AtVersion, NextIsAt, Pending, machine
  <2>8. StatusIsTruthful'
    BY <1>1, <2>2, <2>3 DEF StatusIsTruthful, AtVersion, ChartsAt, IsNewest, machine
  <2>9. JoinInv'
    <3>1. plan' = plan \/ plan'.targets = {}
      BY <1>2, PlanTargets
    <3> QED
      BY <1>1, <2>2, <3>1 DEF JoinInv, machine
  <2> QED
    BY <2>5, <2>6, <2>7, <2>8, <2>9
<1> QED
  BY <1>3, <1>4

-----------------------------------------------------------------------------
(* The pod.  It belongs to the newest release, and writes nothing of the  *)
(* other ones.                                                            *)
LEMMA PodWrites ==
  ASSUME TruthInv, NEW i \in Releases, StartPod(i) \/ PodStep(i)
  PROVE  /\ IsNewest(i) /\ Created' = Created /\ UNCHANGED machine
         /\ \A j \in Releases \ {i} :
              /\ pod'[j] = "none"
              /\ cond'[j] = cond[j] /\ state'[j] = state[j]
         /\ images' \in {images, i}
         /\ \A c \in Charts : release'[c] \in {release[c], i}
         /\ plan' \in {plan, NoPlan, K0sPlan(i)}
<1> USE DEF TruthInv, OrderInv, TypeInv, TypeOK
<1>1. IsNewest(i) /\ Created' = Created
  BY PodStepCreated DEF RunningIsNewest
<1>2. \A j \in Releases \ {i} : pod[j] = "none"
  BY <1>1, NewestIsOne DEF JobInv, RunningIsNewest
<1> USE DEF PodFrame, cluster, Goto, SetState, PodStep,
      StartPod, UpdatePauseImage, UpgradeK0s, CreateAutopilotPlan,
      WaitForAutopilotPlan, DeleteOtherPlan, WaitForClusterNodesMatchVersion,
      WaitTimesOut, DeletePlan, K0sDone, UpdateClusterConfig, UpgradeAddons,
      UpgradeAddOn, MarkAddOnUpgraded, AddonsDone, UpgradeExtensions,
      HandleExtension, MarkExtensionAsProcessed, ExtensionsDone, Installed,
      MaybeMarkAsFailed, UpgradeChart, SetCondition
<1>3. UNCHANGED machine /\ images' \in {images, i}
      /\ plan' \in {plan, NoPlan, K0sPlan(i)}
  OBVIOUS
<1>4. \A j \in Releases \ {i} : pod'[j] = pod[j]
  OBVIOUS
<1>5. \A j \in Releases \ {i} : cond'[j] = cond[j] /\ state'[j] = state[j]
  OBVIOUS
<1>6. \A c \in Charts : release'[c] \in {release[c], i}
  OBVIOUS
<1> QED
  BY <1>1, <1>2, <1>3, <1>4, <1>5, <1>6

LEMMA VersionPod ==
  ASSUME TruthInv, NEW i \in Releases, StartPod(i) \/ PodStep(i)
  PROVE  JoinInv' /\ VersionInv'
<1>1. /\ IsNewest(i) /\ Created' = Created
      /\ UNCHANGED <<joined, joining, k0s, kubelet>>
      /\ plan' \in {plan, NoPlan, K0sPlan(i)}
  BY PodWrites DEF machine
<1>2. JoinInv'
  <2>1. plan'.targets \in {plan.targets, {}, joined}
    BY <1>1, PlanTargets
  <2> QED
    BY <1>1, <2>1 DEF TruthInv, JoinInv
<1>3. \A j \in Releases : IsNewest(j)' => IsNewest(j)
  BY <1>1 DEF IsNewest
<1>4. CASE plan' = plan
  BY <1>1, <1>2, <1>3, <1>4 DEF TruthInv, VersionInv, HasThePlanEnded
<1>5. CASE plan' = NoPlan
  <2>1. plan'.kind # "k0s"
    BY <1>5 DEF NoPlan
  <2> QED
    BY <1>1, <1>2, <1>3, <2>1 DEF TruthInv, VersionInv
<1>6. CASE plan' = K0sPlan(i)
  <2>1. plan'.version = K0sOf[i] /\ plan'.targets \subseteq Nodes
    BY <1>6 DEF K0sPlan, NoPlan, TruthInv, OrderInv, TypeInv, TypeOK
  <2>2. \A j \in Releases : IsNewest(j)' => j = i
    BY <1>1, <1>3, NewestIsOne
  <2>3. K0sOf[i] \in Nat
    BY Numbers
  <2> QED
    BY <1>1, <1>2, <2>1, <2>2, <2>3 DEF TruthInv, VersionInv
<1> QED
  BY <1>1, <1>4, <1>5, <1>6

(* The steps that come before the addons.                                 *)
LEMMA ProgressK0s ==
  ASSUME TruthInv, NEW i \in Releases, UNCHANGED machine,
         \/ StartPod(i) \/ UpdatePauseImage(i) \/ UpgradeK0s(i) \/ CreateAutopilotPlan(i)
         \/ WaitForAutopilotPlan(i) \/ DeleteOtherPlan(i)
         \/ WaitForClusterNodesMatchVersion(i) \/ WaitTimesOut(i)
         \/ DeletePlan(i) \/ K0sDone(i) \/ MaybeMarkAsFailed(i)
  PROVE  Progress(i)'
<1>1. \/ pod'[i] \in {"pauseImage", "upgradeK0s", "createPlan", "waitPlan",
                      "otherPlan", "waitNodes", "failing", "failed"}
      \/ pod'[i] \in {"deletePlan", "k0sDone", "clusterConfig"} /\ AtVersion(i)
  <2> USE DEF TruthInv, OrderInv, TypeInv, TypeOK, ProgressInv, Progress, K0sSteps, Goto
  <2>1. CASE StartPod(i) \/ UpdatePauseImage(i) \/ UpgradeK0s(i) \/ CreateAutopilotPlan(i)
    BY <2>1 DEF StartPod, UpdatePauseImage, UpgradeK0s, CreateAutopilotPlan,
       ClusterNodesMatchVersion, AtVersion, JoinInv
  <2>2. CASE WaitForAutopilotPlan(i) \/ DeleteOtherPlan(i) \/ WaitTimesOut(i)
             \/ MaybeMarkAsFailed(i)
    BY <2>2 DEF WaitForAutopilotPlan, DeleteOtherPlan, WaitTimesOut, MaybeMarkAsFailed
  <2>3. CASE WaitForClusterNodesMatchVersion(i) \/ DeletePlan(i) \/ K0sDone(i)
    BY <2>3 DEF WaitForClusterNodesMatchVersion, DeletePlan, K0sDone,
       ClusterNodesMatchVersion, AtVersion, JoinInv
  <2> QED
    BY <2>1, <2>2, <2>3
<1> QED
  BY <1>1 DEF Progress, K0sSteps, ConfigSteps, AddonSteps, ExtensionSteps, AtVersion, machine

(* The steps that touch the charts.                                       *)
LEMMA ProgressCharts ==
  ASSUME TruthInv, NEW i \in Releases, UNCHANGED machine,
         \/ UpdateClusterConfig(i) \/ UpgradeAddons(i) \/ UpgradeAddOn(i)
         \/ MarkAddOnUpgraded(i) \/ AddonsDone(i) \/ UpgradeExtensions(i)
         \/ HandleExtension(i) \/ MarkExtensionAsProcessed(i) \/ ExtensionsDone(i)
         \/ Installed(i)
  PROVE  Progress(i)'
<1> USE DEF TruthInv, OrderInv, TypeInv, TypeOK, Goto, machine
<1>1. pod[i] \in K0sSteps /\ Progress(i) /\ AtVersion(i)'
  <2>1. pod[i] \in {"clusterConfig", "addons", "addon", "addonDone", "addonsDone",
                    "extensions", "extension", "extensionDone", "extensionsDone",
                    "installed"}
    BY DEF UpdateClusterConfig, UpgradeAddons, UpgradeAddOn, MarkAddOnUpgraded,
       AddonsDone, UpgradeExtensions, HandleExtension, MarkExtensionAsProcessed,
       ExtensionsDone, Installed, UpgradeChart, SetCondition
  <2> QED
    BY <2>1 DEF K0sSteps, ConfigSteps, AddonSteps, ExtensionSteps, ProgressInv,
       Progress, AtVersion
<1>2. CASE UpdateClusterConfig(i) \/ UpgradeAddons(i)
  BY <1>1, <1>2 DEF UpdateClusterConfig, UpgradeAddons, Progress, ConfigSteps,
     AddonSteps, ExtensionSteps, cluster
<1>3. CASE UpgradeAddOn(i)
  <2>1. pod[i] = "addon" /\ UNCHANGED <<cond, images>> /\ images = i
    BY <1>1, <1>3 DEF UpgradeAddOn, UpgradeChart, Progress, ConfigSteps
  <2>2. CASE Pending(i, Addons) = {} /\ pod'[i] = "addonsDone"
    BY <1>1, <2>1, <2>2 DEF Progress, AddonSteps, ExtensionSteps, Pending
  <2>3. ASSUME NEW c \in Pending(i, Addons), IsNext(c, Pending(i, Addons)),
               release' = [release EXCEPT ![c] = i], pod'[i] = "addonDone"
        PROVE  Progress(i)'
    <3>1. c \in Charts /\ Pending(i, Addons) \subseteq Nat
      BY StageTypes, Numbers DEF Pending
    <3>2. \A d \in Pending(i, Addons) : IsNext(d, Pending(i, Addons)) => d = c
      BY <2>3, <3>1 DEF IsNext
    <3>3. release'[c] = i /\ Pending(i, Addons)' = Pending(i, Addons)
      BY <2>1, <2>3, <3>1 DEF Pending
    <3>4. NextIsAt(i, Addons)'
      BY <3>2, <3>3 DEF NextIsAt
    <3> QED
      BY <1>1, <2>1, <2>3, <3>4 DEF Progress, AddonSteps, ExtensionSteps
  <2> QED
    BY <1>3, <2>2, <2>3 DEF UpgradeAddOn, UpgradeChart
<1>4. CASE MarkAddOnUpgraded(i)
  BY <1>1, <1>4 DEF MarkAddOnUpgraded, SetCondition, Progress, ConfigSteps,
     AddonSteps, ExtensionSteps, cluster
<1>5. CASE AddonsDone(i) \/ UpgradeExtensions(i)
  BY <1>1, <1>5 DEF AddonsDone, UpgradeExtensions, Progress, ConfigSteps,
     AddonSteps, ExtensionSteps, cluster
<1>6. CASE HandleExtension(i)
  <2>1. pod[i] = "extension" /\ UNCHANGED <<cond, images>> /\ images = i
        /\ Addons \subseteq cond[i]
    BY <1>1, <1>6 DEF HandleExtension, UpgradeChart, Progress, ConfigSteps, AddonSteps
  <2>2. CASE Pending(i, Extensions) = {} /\ pod'[i] = "extensionsDone"
    BY <1>1, <2>1, <2>2 DEF Progress, AddonSteps, ExtensionSteps, Pending
  <2>3. ASSUME NEW c \in Pending(i, Extensions), IsNext(c, Pending(i, Extensions)),
               release' = [release EXCEPT ![c] = i], pod'[i] = "extensionDone"
        PROVE  Progress(i)'
    <3>1. c \in Charts /\ Pending(i, Extensions) \subseteq Nat
      BY StageTypes, Numbers DEF Pending
    <3>2. \A d \in Pending(i, Extensions) : IsNext(d, Pending(i, Extensions)) => d = c
      BY <2>3, <3>1 DEF IsNext
    <3>3. release'[c] = i /\ Pending(i, Extensions)' = Pending(i, Extensions)
      BY <2>1, <2>3, <3>1 DEF Pending
    <3>4. NextIsAt(i, Extensions)'
      BY <3>2, <3>3 DEF NextIsAt
    <3> QED
      BY <1>1, <2>1, <2>3, <3>4 DEF Progress, AddonSteps, ExtensionSteps
  <2> QED
    BY <1>6, <2>2, <2>3 DEF HandleExtension, UpgradeChart
<1>7. CASE MarkExtensionAsProcessed(i)
  BY <1>1, <1>7 DEF MarkExtensionAsProcessed, SetCondition, Progress, ConfigSteps,
     AddonSteps, ExtensionSteps, cluster
<1>8. CASE ExtensionsDone(i) \/ Installed(i)
  BY <1>1, <1>8 DEF ExtensionsDone, Installed, Progress, ConfigSteps,
     AddonSteps, ExtensionSteps, cluster
<1> QED
  BY <1>2, <1>3, <1>4, <1>5, <1>6, <1>7, <1>8

(* What the conditions say of the charts.                                 *)
LEMMA ChartPod ==
  ASSUME TruthInv, NEW i \in Releases, StartPod(i) \/ PodStep(i)
  PROVE  ChartInv'
<1> USE DEF TruthInv, OrderInv, TypeInv, TypeOK
<1>1. /\ IsNewest(i) /\ Created' = Created
      /\ \A j \in Releases \ {i} : cond'[j] = cond[j]
      /\ \A c \in Charts : release'[c] \in {release[c], i}
  BY PodWrites
<1>2. \A c \in cond'[i] : c \in cond[i] \/ release[c] = i
  <2>1. CASE UNCHANGED cond
    BY <2>1
  <2>2. ASSUME NEW c \in Charts, release[c] = i, cond' = [cond EXCEPT ![i] = @ \cup {c}]
        PROVE  \A d \in cond'[i] : d \in cond[i] \/ release[d] = i
    BY <2>2
  <2>3. CASE MarkAddOnUpgraded(i)
    <3>1. NextIsAt(i, Addons)
      BY <2>3 DEF MarkAddOnUpgraded, SetCondition, ProgressInv, Progress
    <3> QED
      BY <2>2, <2>3, <3>1, StageTypes DEF MarkAddOnUpgraded, SetCondition, NextIsAt, Pending
  <2>4. CASE MarkExtensionAsProcessed(i)
    <3>1. NextIsAt(i, Extensions)
      BY <2>4 DEF MarkExtensionAsProcessed, SetCondition, ProgressInv, Progress
    <3> QED
      BY <2>2, <2>4, <3>1, StageTypes
      DEF MarkExtensionAsProcessed, SetCondition, NextIsAt, Pending
  <2> QED
    BY <2>1, <2>3, <2>4
    DEF StartPod, PodStep, UpdatePauseImage, UpgradeK0s, CreateAutopilotPlan,
      WaitForAutopilotPlan, DeleteOtherPlan, WaitForClusterNodesMatchVersion,
      WaitTimesOut, DeletePlan, K0sDone, UpdateClusterConfig, UpgradeAddons,
      UpgradeAddOn, AddonsDone, UpgradeExtensions, HandleExtension, ExtensionsDone,
      Installed, MaybeMarkAsFailed, UpgradeChart
<1>3. cond[i] \subseteq Charts /\ cond'[i] \subseteq Charts
  BY <1>1, StageTypes, TypeStep DEF Next
<1>4. ChartsAt(i, cond[i]) => ChartsAt(i, cond[i])'
  BY <1>1, <1>2, <1>3 DEF ChartsAt
<1>5. \A j \in Releases : IsNewest(j)' => j = i
  BY <1>1, NewestIsOne DEF IsNewest
<1> QED
  BY <1>1, <1>4, <1>5 DEF ChartInv, IsNewest

LEMMA StagesAreCharts == Charts = Addons \cup Extensions
  BY ConstantsAssumption DEF ConstantsAssumption, Addons, Extensions, Charts

(* What a pod writes into the status is so.                               *)
LEMMA StatusPod ==
  ASSUME TruthInv, NEW i \in Releases, StartPod(i) \/ PodStep(i)
  PROVE  StatusIsTruthful'
<1> USE DEF TruthInv, OrderInv, TypeInv, TypeOK
<1>1. /\ IsNewest(i) /\ Created' = Created /\ UNCHANGED machine
      /\ images' \in {images, i}
      /\ \A c \in Charts : release'[c] \in {release[c], i}
  BY PodWrites
<1>2. \A j \in Releases : IsNewest(j)' => j = i
  BY <1>1, NewestIsOne DEF IsNewest
<1>3. /\ AtVersion(i) => AtVersion(i)'
      /\ images = i => images' = i
      /\ ChartsAt(i, Addons) => ChartsAt(i, Addons)'
      /\ ChartsAt(i, Charts) => ChartsAt(i, Charts)'
  BY <1>1, StageTypes DEF AtVersion, ChartsAt, machine
<1>4. Progress(i) /\ ChartsAt(i, cond[i])
  BY <1>1 DEF ProgressInv, ChartInv
<1>5. /\ Addons \subseteq cond[i] => ChartsAt(i, Addons)
      /\ Addons \subseteq cond[i] /\ Extensions \subseteq cond[i] => ChartsAt(i, Charts)
  BY <1>4, StagesAreCharts DEF ChartsAt
<1>6. \/ state'[i] = state[i]
      \/ state'[i] \in {"Installing", "Failed"}
      \/ state'[i] = "KubernetesInstalled" /\ pod[i] = "k0sDone"
      \/ state'[i] = "AddonsInstalling" /\ pod[i] \in {"addons", "extensions"}
      \/ state'[i] = "AddonsInstalled" /\ pod[i] \in {"addonsDone", "extensionsDone"}
      \/ state'[i] = "Installed" /\ pod[i] = "installed"
  BY DEF SetState, StartPod, PodStep, UpdatePauseImage, UpgradeK0s, CreateAutopilotPlan,
      WaitForAutopilotPlan, DeleteOtherPlan, WaitForClusterNodesMatchVersion,
      WaitTimesOut, DeletePlan, K0sDone, UpdateClusterConfig, UpgradeAddons,
      UpgradeAddOn, MarkAddOnUpgraded, AddonsDone, UpgradeExtensions,
      HandleExtension, MarkExtensionAsProcessed, ExtensionsDone,
      Installed, MaybeMarkAsFailed, UpgradeChart, SetCondition
<1>7. /\ state'[i] = "KubernetesInstalled" => AtVersion(i)
      /\ state'[i] = "AddonsInstalling" => AtVersion(i) /\ images = i
      /\ state'[i] = "AddonsInstalled" => AtVersion(i) /\ images = i /\ ChartsAt(i, Addons)
      /\ state'[i] = "Installed" => AtVersion(i) /\ images = i /\ ChartsAt(i, Charts)
  <2>1. CASE state'[i] = state[i]
    BY <1>1, <2>1 DEF StatusIsTruthful
  <2>2. CASE state'[i] # state[i]
    BY <1>4, <1>5, <1>6, <2>2 DEF Progress, K0sSteps, ConfigSteps, AddonSteps,
       ExtensionSteps
  <2> QED
    BY <2>1, <2>2
<1> QED
  BY <1>2, <1>3, <1>7 DEF StatusIsTruthful

LEMMA TruthPod ==
  ASSUME TruthInv, NEW i \in Releases, StartPod(i) \/ PodStep(i)
  PROVE  JoinInv' /\ VersionInv' /\ ChartInv' /\ ProgressInv' /\ StatusIsTruthful'
<1>1. UNCHANGED machine /\ \A j \in Releases \ {i} : pod'[j] = "none"
  BY PodWrites
<1>2. Progress(i)'
  BY <1>1, ProgressK0s, ProgressCharts DEF PodStep
<1>3. \A j \in Releases \ {i} : Progress(j)'
  BY <1>1 DEF Progress, K0sSteps, ConfigSteps, AddonSteps, ExtensionSteps
<1> QED
  BY <1>2, <1>3, VersionPod, ChartPod, StatusPod DEF ProgressInv

-----------------------------------------------------------------------------
(* What ends a command or a pod only sets pods back.                      *)
LEMMA TruthEnds ==
  ASSUME TruthInv,
         \/ CommandError \/ CommandKilled
         \/ \E i \in Releases :
              StartCommand(i) \/ PodError(i) \/ PodEnds(i) \/ PodKilled(i)
  PROVE  JoinInv' /\ VersionInv' /\ ChartInv' /\ ProgressInv' /\ StatusIsTruthful'
<1>1. UNCHANGED <<state, cond, plan, cluster, machine>>
  BY DEF CommandError, CommandKilled, StartCommand, PodError, PodEnds, PodKilled
<1>2. \A j \in Releases : pod'[j] = pod[j] \/ pod'[j] \in {"none", "failing", "failed"}
  BY DEF CommandError, CommandKilled, StartCommand, PodError, PodEnds, PodKilled, Goto,
     TruthInv, OrderInv, TypeInv, TypeOK
<1> USE <1>1 DEF TruthInv, machine, cluster
<1>3. Created' = Created
  BY DEF Created
<1>4. JoinInv' /\ VersionInv'
  BY <1>3 DEF JoinInv, VersionInv, IsNewest, HasThePlanEnded
<1>5. ChartInv' /\ StatusIsTruthful'
  BY <1>3 DEF ChartInv, ChartsAt, StatusIsTruthful, AtVersion, IsNewest
<1>6. ProgressInv'
  BY <1>2 DEF ProgressInv, Progress, K0sSteps, ConfigSteps, AddonSteps, ExtensionSteps,
     AtVersion, NextIsAt, Pending
<1> QED
  BY <1>4, <1>5, <1>6

(* Once every machine is at the newest version none is moved any more:    *)
(* no machine is past it, and no plan is for less than its targets have.  *)
LEMMA VersionStays ==
  ASSUME TruthInv, NEW i \in Releases, IsNewest(i), AtVersion(i), NEW n \in Nodes,
         KubeletReport(n) \/ JoinFinish(n)
  PROVE  AtVersion(i)'
<1> USE DEF TruthInv, OrderInv, TypeInv, TypeOK
<1>1. \E v : kubelet' = [kubelet EXCEPT ![n] = v]
  BY DEF KubeletReport, JoinFinish
<1>2. n \notin Members
  <2>1. CASE JoinFinish(n)
    BY <2>1 DEF JoinFinish, JoinInv
  <2>2. ASSUME KubeletReport(n), n \in Members PROVE FALSE
    <3>1. kubelet[n] = K0sOf[i] /\ k0s[n] <= K0sOf[i] /\ kubelet[n] <= k0s[n]
      BY <2>2 DEF VersionInv, AtVersion
    <3>2. k0s[n] \in Nat /\ K0sOf[i] \in Nat
      BY Numbers
    <3> QED
      BY <2>2, <3>1, <3>2 DEF KubeletReport
  <2> QED
    BY <2>1, <2>2
<1> QED
  BY <1>1, <1>2, ConstantsAssumption DEF ConstantsAssumption, AtVersion

LEMMA TruthMachines ==
  ASSUME TruthInv, UNCHANGED <<state, cond, cluster, pod>>,
         \/ Autopilot \/ AutopilotFail
         \/ \E n \in Nodes : KubeletReport(n) \/ JoinStart(n) \/ JoinFinish(n)
  PROVE  JoinInv' /\ VersionInv' /\ ChartInv' /\ ProgressInv' /\ StatusIsTruthful'
<1> USE DEF TruthInv, OrderInv, TypeInv, TypeOK
<1>1. UNCHANGED <<joined, joining>> \/ \E n \in Nodes : JoinStart(n) \/ JoinFinish(n)
  BY DEF Autopilot, AutopilotComplete, AutopilotUpdateNode, AutopilotFail,
     KubeletReport, machine
<1>2. plan'.targets = plan.targets
  BY DEF Autopilot, AutopilotComplete, AutopilotUpdateNode, AutopilotFail,
     KubeletReport, JoinStart, JoinFinish, Plans
<1>3. Created' = Created
  BY DEF Created
<1>4. VersionInv'
  <2>1. CASE AutopilotComplete \/ AutopilotFail
    <3>1. UNCHANGED <<k0s, kubelet>> /\ plan'.state \in {"Completed", "ApplyFailed"}
      BY <2>1 DEF AutopilotComplete, AutopilotFail, machine, Plans
    <3> QED
      BY <1>3, <3>1 DEF VersionInv, IsNewest, HasThePlanEnded
  <2>2. ASSUME NEW n \in Nodes, AutopilotUpdateNode(n) PROVE VersionInv'
    <3>1. /\ UNCHANGED <<plan, kubelet>> /\ n \in plan.targets
          /\ k0s' = [k0s EXCEPT ![n] = plan.version]
          /\ plan.kind = "k0s" /\ ~HasThePlanEnded
      BY <2>2 DEF AutopilotUpdateNode
    <3>2. k0s[n] <= plan.version /\ \A i \in Releases : IsNewest(i) => plan.version <= K0sOf[i]
      BY <3>1 DEF VersionInv
    <3>3. plan.version \in Nat /\ plan.targets \subseteq Nodes
      BY DEF Plans
    <3>4. \A m \in Nodes : kubelet[m] \in Nat /\ k0s[m] \in Nat
      OBVIOUS
    <3>5. \A m \in Nodes : kubelet'[m] <= k0s'[m]
      BY <3>1, <3>2, <3>3, <3>4 DEF VersionInv
    <3>6. \A i \in Releases, m \in Nodes : IsNewest(i) => k0s'[m] <= K0sOf[i]
      BY <3>1, <3>2 DEF VersionInv
    <3>7. \A m \in plan.targets : k0s'[m] <= plan.version
      BY <3>1, <3>3 DEF VersionInv
    <3> QED
      BY <1>3, <3>1, <3>2, <3>5, <3>6, <3>7 DEF VersionInv, IsNewest, HasThePlanEnded
  <2>3. ASSUME NEW n \in Nodes, KubeletReport(n) PROVE VersionInv'
    <3>1. UNCHANGED <<plan, k0s>> /\ kubelet' = [kubelet EXCEPT ![n] = k0s[n]]
      BY <2>3 DEF KubeletReport
    <3>2. \A m \in Nodes : k0s[m] \in Nat
      OBVIOUS
    <3>3. \A m \in Nodes : kubelet'[m] <= k0s'[m]
      BY <3>1, <3>2 DEF VersionInv
    <3> QED
      BY <1>3, <3>1, <3>3 DEF VersionInv, IsNewest, HasThePlanEnded
  <2>4. ASSUME NEW n \in Nodes, JoinStart(n) PROVE VersionInv'
    BY <1>3, <2>4 DEF JoinStart, VersionInv, IsNewest, HasThePlanEnded
  <2>5. ASSUME NEW n \in Nodes, JoinFinish(n) PROVE VersionInv'
    <3>1. PICK r \in Created : /\ k0s' = [k0s EXCEPT ![n] = K0sOf[r]]
                               /\ kubelet' = [kubelet EXCEPT ![n] = K0sOf[r]]
      <4>1. PICK v \in joining[n] : /\ k0s' = [k0s EXCEPT ![n] = v]
                                   /\ kubelet' = [kubelet EXCEPT ![n] = v]
        BY <2>5 DEF JoinFinish
      <4>2. \E r \in Created : v = K0sOf[r]
        BY <4>1 DEF JoinInv
      <4> QED
        BY <4>1, <4>2
    <3>2. UNCHANGED plan /\ n \notin plan.targets
      BY <2>5 DEF JoinFinish, JoinInv
    <3>3. r \in Releases /\ K0sOf[r] \in Nat
      BY CreatedTypes, Numbers
    <3>4. \A i \in Releases : IsNewest(i) => K0sOf[r] <= K0sOf[i]
      BY <3>3, ConstantsAssumption DEF ConstantsAssumption, IsNewest
    <3>5. \A m \in Nodes : kubelet'[m] <= k0s'[m]
      BY <3>1, <3>3 DEF VersionInv
    <3>6. \A i \in Releases, m \in Nodes : IsNewest(i) => k0s'[m] <= K0sOf[i]
      BY <3>1, <3>4 DEF VersionInv
    <3>7. \A m \in plan.targets : k0s'[m] = k0s[m]
      BY <3>1, <3>2 DEF Plans
    <3> QED
      BY <1>3, <3>2, <3>5, <3>6, <3>7 DEF VersionInv, IsNewest, HasThePlanEnded
  <2> QED
    BY <2>1, <2>2, <2>3, <2>4, <2>5 DEF Autopilot
<1>5. \A i \in Releases : IsNewest(i) /\ AtVersion(i) => AtVersion(i)'
  <2>1. CASE \E n \in Nodes : KubeletReport(n) \/ JoinFinish(n)
    BY <2>1, VersionStays
  <2>2. CASE Autopilot \/ AutopilotFail \/ \E n \in Nodes : JoinStart(n)
    BY <2>2 DEF Autopilot, AutopilotComplete, AutopilotUpdateNode, AutopilotFail,
       JoinStart, machine, AtVersion
  <2> QED
    BY <2>1, <2>2
<1>6. ProgressInv'
  <2>1. \A i \in Releases : pod[i] # "none" => IsNewest(i)
    BY DEF JobInv, RunningIsNewest
  <2> QED
    BY <1>5, <2>1 DEF ProgressInv, Progress, K0sSteps, ConfigSteps, AddonSteps,
       ExtensionSteps, NextIsAt, Pending, cluster
<1>7. ChartInv'
  BY <1>3 DEF ChartInv, ChartsAt, IsNewest, cluster
<1>8. StatusIsTruthful'
  BY <1>3, <1>5 DEF StatusIsTruthful, ChartsAt, IsNewest, cluster
<1>9. JoinInv'
  <2>1. ASSUME NEW n \in Nodes, JoinStart(n) PROVE JoinInv'
    <3>1. PICK r \in Created : joining' = [joining EXCEPT ![n] = {K0sOf[r]}]
      BY <2>1 DEF JoinStart
    <3> QED
      BY <1>2, <1>3, <2>1, <3>1 DEF JoinStart, JoinInv
  <2>2. ASSUME NEW n \in Nodes, JoinFinish(n) PROVE JoinInv'
    BY <1>2, <1>3, <2>2 DEF JoinFinish, JoinInv
  <2> QED
    BY <1>1, <1>2, <1>3, <2>1, <2>2 DEF JoinInv
<1> QED
  BY <1>4, <1>6, <1>7, <1>8, <1>9

LEMMA TruthIdle ==
  ASSUME TruthInv, UNCHANGED <<state, cond, plan, cluster, machine, pod>>
  PROVE  JoinInv' /\ VersionInv' /\ ChartInv' /\ ProgressInv' /\ StatusIsTruthful'
<1> USE DEF TruthInv, machine, cluster
<1>1. Created' = Created
  BY DEF Created
<1>2. JoinInv' /\ VersionInv'
  BY <1>1 DEF JoinInv, VersionInv, IsNewest, HasThePlanEnded
<1>3. ChartInv' /\ StatusIsTruthful'
  BY <1>1 DEF ChartInv, ChartsAt, StatusIsTruthful, AtVersion, IsNewest
<1>4. ProgressInv'
  BY DEF ProgressInv, Progress, K0sSteps, ConfigSteps, AddonSteps, ExtensionSteps,
     AtVersion, NextIsAt, Pending
<1> QED
  BY <1>2, <1>3, <1>4

LEMMA TruthStep == TruthInv /\ [Next]_vars => TruthInv'
<1> SUFFICES ASSUME TruthInv, [Next]_vars PROVE TruthInv'
  OBVIOUS
<1>1. OrderInv'
  BY OrderStep DEF TruthInv
<1>2. CASE Autopilot \/ AutopilotFail
           \/ \E n \in Nodes : KubeletReport(n) \/ JoinStart(n) \/ JoinFinish(n)
  <2>1. UNCHANGED <<state, cond, cluster, pod>>
    BY <1>2 DEF Autopilot, AutopilotComplete, AutopilotUpdateNode, AutopilotFail,
       KubeletReport, JoinStart, JoinFinish, EnvFrame, process
  <2> QED
    BY <1>1, <1>2, <2>1, TruthMachines DEF TruthInv
<1>3. CASE Reconcile \/ DeleteUpgradeJobs \/ UNCHANGED vars
  <2>1. UNCHANGED <<state, cond, plan, cluster, machine, pod>>
    BY <1>3 DEF Reconcile, DeleteUpgradeJobs, OperatorFrame, vars, process
  <2> QED
    BY <1>1, <2>1, TruthIdle DEF TruthInv
<1> QED
  BY <1>1, <1>2, <1>3, TruthCommand, TruthPod, TruthEnds DEF Next, TruthInv

(* The newest Installation never claims a step of the rollout that is not  *)
(* so on every machine that was a member from the start and for every      *)
(* chart, whatever is killed, fails or is run again and whoever joins.     *)
THEOREM StatusStaysTruthful == Spec => []StatusIsTruthful
<1>1. Init => TruthInv
  BY TruthInit
<1>2. TruthInv => StatusIsTruthful
  BY DEF TruthInv
<1> QED
  BY <1>1, <1>2, TruthStep, PTL DEF Spec

-----------------------------------------------------------------------------
(* The rollout in layers.  No machine that was a member from the start is *)
(* sent past the pause image that is in place, and every version on it is *)
(* that of a release.  One that joins may well be past the pause image.   *)
Early == {"none", "pauseImage", "failing", "failed"}

LayerInv ==
  /\ \E i \in Releases : IsNewest(i)
  /\ pauseImage \in Created
  /\ \A i \in Releases : pod[i] \notin Early => pauseImage = i
  /\ \A n \in Members : k0s[n] <= K0sOf[pauseImage] /\ \E r \in Created : k0s[n] = K0sOf[r]
  /\ plan.kind = "k0s" /\ ~HasThePlanEnded =>
       /\ plan.version <= K0sOf[pauseImage]
       /\ plan.owner \in Created /\ plan.version = K0sOf[plan.owner]

LEMMA TargetIsNewest == ASSUME NEW i \in Releases, IsNewest(i) PROVE Target = i
<1>1. i \in Created /\ \A j \in Created : IsNewest(j) => j = i
  BY NewestIsOne, CreatedTypes DEF IsNewest
<1> QED
  BY <1>1 DEF Target

LEMMA LayerInit == Init => LayerInv
<1> SUFFICES ASSUME Init PROVE LayerInv
  OBVIOUS
<1>1. Created = {0} /\ 0 \in Releases /\ K0sOf[0] \in Nat
  BY Numbers DEF Init, Created
<1>2. IsNewest(0)
  BY <1>1 DEF IsNewest
<1>3. plan.kind = "none"
  BY DEF Init, NoPlan
<1>4. \A n \in Members : k0s[n] = K0sOf[0]
  BY ConstantsAssumption DEF ConstantsAssumption, Init
<1>5. pauseImage = 0 /\ \A i \in Releases : pod[i] \in Early
  BY DEF Init, Early
<1> QED
  BY <1>1, <1>2, <1>3, <1>4, <1>5 DEF LayerInv

(* A command creates at most the next release.                            *)
LEMMA CommandCreates ==
  ASSUME TruthInv, Command, NEW i \in Releases, IsNewest(i)
  PROVE  /\ Created \subseteq Created'
         /\ \/ IsNewest(i)' /\ Created' = Created
               /\ \/ UNCHANGED state
                  \/ \E j \in Created : SetState(j, "Installing") \/ SetState(j, "Obsolete")
            \/ /\ i + 1 \in Releases /\ i + 1 \notin Created
               /\ IsNewest(i + 1)' /\ SetState(i + 1, "")
<1> USE DEF TruthInv, OrderInv, TypeInv, TypeOK
<1>1. CASE CreateInstallation /\ cmd.release \notin Created
  <2> DEFINE r == cmd.release
  <2>1. r \in Releases /\ r \in Nat /\ r # 0 /\ IsNewest(r - 1)
    BY <1>1, CommandTypes, Numbers DEF CreateInstallation, CommandInv, IsNewest
  <2>2. r - 1 \in Releases
    BY <2>1, CreatedTypes DEF IsNewest
  <2>3. r = i + 1 /\ i \in Nat
    BY <2>1, <2>2, NewestIsOne, Numbers
  <2>4. SetState(r, "")
    BY <1>1 DEF CreateInstallation
  <2>5. Created' = Created \cup {r}
    BY <2>1, <2>4 DEF SetState, Created
  <2>6. \A j \in Created' : j <= r
    <3>1. \A j \in Created : j <= i /\ j \in Nat
      BY CreatedTypes DEF IsNewest
    <3> QED
      BY <2>3, <2>5, <3>1
  <2> QED
    BY <1>1, <2>1, <2>3, <2>4, <2>5, <2>6 DEF IsNewest
<1>2. CASE ~(CreateInstallation /\ cmd.release \notin Created)
  <2>1. cmd.release \in Releases
    BY CommandTypes
  <2>2. \/ UNCHANGED state
        \/ \E j \in Created : SetState(j, "Installing") \/ SetState(j, "Obsolete")
    BY <1>2, <2>1 DEF Command, CreateInstallation, CreateInstallationState,
       DisableOldInstallations, CheckJob, EnsureArtifactsPlan, Disableable,
       WaitForAirgapArtifactsPlan, EnsureConfigMap, CreateJob, CommandInv, IsNewest
  <2>3. Created' = Created
    BY <2>2, SetStateCreates DEF Created, InstallationStates
  <2> QED
    BY <2>2, <2>3 DEF IsNewest
<1> QED
  BY <1>1, <1>2

LEMMA LayerCommand ==
  ASSUME TruthInv, LayerInv, Command PROVE LayerInv'
<1> USE DEF TruthInv, OrderInv, TypeInv, TypeOK, CmdFrame, cluster, machine
<1>1. UNCHANGED <<k0s, pauseImage, pod>>
  BY DEF Command, CreateInstallation, CreateInstallationState,
     DisableOldInstallations, CheckJob, EnsureArtifactsPlan,
     WaitForAirgapArtifactsPlan, EnsureConfigMap, CreateJob
<1>2. plan' = plan \/ plan'.kind # "k0s"
  <2>1. NoPlan.kind # "k0s" /\ \A i : ImagesPlan(i).kind # "k0s"
    BY DEF NoPlan, ImagesPlan
  <2> QED
    BY <2>1 DEF Command, CreateInstallation, CreateInstallationState,
       DisableOldInstallations, CheckJob, EnsureArtifactsPlan,
       WaitForAirgapArtifactsPlan, EnsureConfigMap, CreateJob
<1>3. Created \subseteq Created' /\ \E i \in Releases : IsNewest(i)'
  BY CommandCreates DEF LayerInv
<1> QED
  BY <1>1, <1>2, <1>3 DEF LayerInv, HasThePlanEnded

LEMMA LayerPod ==
  ASSUME TruthInv, LayerInv, NEW i \in Releases, StartPod(i) \/ PodStep(i)
  PROVE  LayerInv'
<1> USE DEF TruthInv, OrderInv, TypeInv, TypeOK
<1>1. /\ IsNewest(i) /\ Created' = Created /\ UNCHANGED <<k0s, joined>>
      /\ \A j \in Releases \ {i} : pod'[j] = "none"
      /\ plan' \in {plan, NoPlan, K0sPlan(i)}
  BY PodWrites DEF machine
<1>2. /\ \/ pauseImage' = pauseImage
         \/ pauseImage' = i /\ pauseImage <= i
      /\ pod'[i] \notin Early => pauseImage' = i
      /\ plan' = K0sPlan(i) => plan' = plan \/ pauseImage' = i
  <2>1. pauseImage <= i
    BY <1>1 DEF LayerInv, IsNewest
  <2>2. pod[i] \notin Early => pauseImage = i
    BY DEF LayerInv
  <2>3. CASE StartPod(i) \/ UpdatePauseImage(i)
    BY <2>1, <2>3 DEF StartPod, UpdatePauseImage, Early, Goto, cluster
  <2>4. CASE PodStep(i) /\ ~UpdatePauseImage(i)
    BY <2>2, <2>4 DEF Early, Goto, PodStep, cluster,
      UpgradeK0s, CreateAutopilotPlan,
      WaitForAutopilotPlan, DeleteOtherPlan, WaitForClusterNodesMatchVersion,
      WaitTimesOut, DeletePlan, K0sDone, UpdateClusterConfig, UpgradeAddons,
      UpgradeAddOn, MarkAddOnUpgraded, AddonsDone, UpgradeExtensions,
      HandleExtension, MarkExtensionAsProcessed, ExtensionsDone, Installed,
      MaybeMarkAsFailed, UpgradeChart, SetCondition
  <2> QED
    BY <2>3, <2>4
<1>3. /\ K0sOf[pauseImage] \in Nat /\ K0sOf[i] \in Nat /\ i \in Created
      /\ K0sOf[pauseImage] <= K0sOf[pauseImage']
      /\ pauseImage' \in Created
  BY <1>1, <1>2, Numbers, ConstantsAssumption DEF ConstantsAssumption, LayerInv, IsNewest
<1>4. \E j \in Releases : IsNewest(j)'
  BY <1>1 DEF IsNewest
<1>5. \A n \in Members : k0s'[n] <= K0sOf[pauseImage']
                        /\ \E r \in Created' : k0s'[n] = K0sOf[r]
  <2>1. pauseImage' \in Releases /\ K0sOf[pauseImage'] \in Nat
    BY <1>3, CreatedTypes, Numbers
  <2>2. ASSUME NEW n \in Members PROVE k0s[n] <= K0sOf[pauseImage']
    <3>1. k0s[n] \in Nat
      BY ConstantsAssumption DEF ConstantsAssumption
    <3> QED
      BY <1>3, <2>1, <3>1 DEF LayerInv
  <2> QED
    BY <1>1, <2>2 DEF LayerInv
<1>6. plan'.kind = "k0s" /\ ~HasThePlanEnded' =>
        /\ plan'.version <= K0sOf[pauseImage']
        /\ plan'.owner \in Created' /\ plan'.version = K0sOf[plan'.owner]
  <2>0. K0sOf[pauseImage'] \in Nat /\ plan.version \in Nat
    BY <1>3, CreatedTypes, Numbers DEF Plans
  <2>1. CASE plan' = plan
    <3>1. plan.kind = "k0s" /\ ~HasThePlanEnded =>
            /\ plan.version <= K0sOf[pauseImage']
            /\ plan.owner \in Created /\ plan.version = K0sOf[plan.owner]
      BY <1>3, <2>0 DEF LayerInv
    <3> QED
      BY <1>1, <2>1, <3>1 DEF HasThePlanEnded
  <2>2. CASE plan' = NoPlan
    BY <2>2 DEF NoPlan
  <2>3. CASE plan' = K0sPlan(i) /\ plan' # plan
    <3>1. plan'.version = K0sOf[i] /\ plan'.owner = i
      BY <2>3 DEF K0sPlan, NoPlan
    <3> QED
      BY <1>1, <1>2, <1>3, <2>3, <3>1
  <2> QED
    BY <1>1, <2>1, <2>2, <2>3
<1>7. \A j \in Releases : pod'[j] \notin Early => pauseImage' = j
  BY <1>1, <1>2 DEF Early
<1> QED
  BY <1>1, <1>3, <1>4, <1>5, <1>6, <1>7 DEF LayerInv

LEMMA LayerOthers ==
  ASSUME TruthInv, LayerInv,
         \/ CommandError \/ CommandKilled
         \/ \E i \in Releases :
              StartCommand(i) \/ PodError(i) \/ PodEnds(i) \/ PodKilled(i)
         \/ Autopilot \/ AutopilotFail \/ Reconcile \/ DeleteUpgradeJobs
         \/ \E n \in Nodes : KubeletReport(n) \/ JoinStart(n) \/ JoinFinish(n)
  PROVE  LayerInv'
<1> USE DEF TruthInv, OrderInv, TypeInv, TypeOK, machine, cluster
<1>1. UNCHANGED <<state, pauseImage>>
  BY DEF CommandError, CommandKilled, StartCommand, PodError, PodEnds, PodKilled,
     Autopilot, AutopilotComplete, AutopilotUpdateNode, AutopilotFail, Reconcile,
     DeleteUpgradeJobs, KubeletReport, JoinStart, JoinFinish, EnvFrame, OperatorFrame
<1>2. \A j \in Releases : pod'[j] = pod[j] \/ pod'[j] \in Early
  <2>1. ASSUME NEW i \in Releases, PodError(i) \/ PodEnds(i) \/ PodKilled(i)
        PROVE  \A j \in Releases : pod'[j] = pod[j] \/ pod'[j] \in Early
    BY <2>1 DEF PodError, PodEnds, PodKilled, Goto, Early
  <2>2. CASE UNCHANGED pod
    BY <2>2
  <2> QED
    BY <2>1, <2>2 DEF CommandError, CommandKilled, StartCommand, Autopilot,
       AutopilotComplete, AutopilotUpdateNode, AutopilotFail, Reconcile,
       DeleteUpgradeJobs, KubeletReport, JoinStart, JoinFinish, OperatorFrame,
       EnvFrame, process
<1>3. Created' = Created
  BY <1>1 DEF Created
<1>4. \/ plan' = plan
      \/ plan'.state \in {"Completed", "ApplyFailed"}
  BY DEF CommandError, CommandKilled, StartCommand, PodError, PodEnds, PodKilled,
     Autopilot, AutopilotComplete, AutopilotUpdateNode, AutopilotFail, Reconcile,
     DeleteUpgradeJobs, KubeletReport, JoinStart, JoinFinish, OperatorFrame, Plans
<1>5. \/ k0s' = k0s
      \/ /\ plan.kind = "k0s" /\ ~HasThePlanEnded
         /\ \E n \in Nodes : k0s' = [k0s EXCEPT ![n] = plan.version]
      \/ \E n \in Nodes \ Members, v \in Nat : k0s' = [k0s EXCEPT ![n] = v]
  <2>1. ASSUME NEW n \in Nodes, JoinFinish(n)
        PROVE  \E m \in Nodes \ Members, v \in Nat : k0s' = [k0s EXCEPT ![m] = v]
    BY <2>1 DEF JoinFinish, JoinInv
  <2> QED
    BY <2>1 DEF JoinStart, CommandError, CommandKilled, StartCommand, PodError, PodEnds, PodKilled,
       Autopilot, AutopilotComplete, AutopilotUpdateNode, AutopilotFail, Reconcile,
       DeleteUpgradeJobs, KubeletReport, OperatorFrame
<1>6. \A n \in Members : k0s'[n] <= K0sOf[pauseImage] /\ \E r \in Created : k0s'[n] = K0sOf[r]
  BY <1>5, ConstantsAssumption DEF ConstantsAssumption, LayerInv
<1>7. \E i \in Releases : IsNewest(i)'
  BY <1>3 DEF LayerInv, IsNewest
<1>8. plan'.kind = "k0s" /\ ~HasThePlanEnded' =>
        /\ plan'.version <= K0sOf[pauseImage]
        /\ plan'.owner \in Created /\ plan'.version = K0sOf[plan'.owner]
  BY <1>4 DEF LayerInv, HasThePlanEnded
<1>9. \A j \in Releases : pod'[j] \notin Early => pauseImage = j
  BY <1>2 DEF LayerInv
<1> QED
  BY <1>1, <1>3, <1>6, <1>7, <1>8, <1>9 DEF LayerInv

LEMMA LayerStep == TruthInv /\ LayerInv /\ [Next]_vars => LayerInv'
<1> SUFFICES ASSUME TruthInv, LayerInv, [Next]_vars PROVE LayerInv'
  OBVIOUS
<1>1. CASE UNCHANGED vars
  <2>1. UNCHANGED <<state, pauseImage, pod, plan, k0s>>
    BY <1>1 DEF vars, process, cluster, machine
  <2>2. Created' = Created
    BY <2>1 DEF Created
  <2> QED
    BY <2>1, <2>2 DEF LayerInv, IsNewest, HasThePlanEnded
<1> QED
  BY <1>1, LayerCommand, LayerPod, LayerOthers DEF Next

-----------------------------------------------------------------------------
(* Every step is one of the promise's, or changes nothing that it shows.  *)
Announced == {i \in Releases : state[i] = "Installed"}
Kubelets  == [n \in Members |-> kubelet[n]]
Seen      == <<Target, pauseImage, Kubelets, images, release, Announced>>

PromiseStep == Promise!Next \/ UNCHANGED Seen

(* Any other status for an Installation takes its announcement back.      *)
LEMMA StatusWithdraws ==
  ASSUME TypeOK, NEW j \in Releases, NEW s, s # "Installed", SetState(j, s),
         UNCHANGED <<Target, pauseImage, Kubelets, images, release>>
  PROVE  PromiseStep
<1>1. Announced' = Announced \ {j}
  BY DEF Announced, SetState, TypeOK
<1>2. CASE j \in Announced
  <2>1. Promise!Withdraw(j)
    BY <1>1, <1>2 DEF Promise!Withdraw, Announced, Kubelets
  <2> QED
    BY <2>1 DEF PromiseStep, Promise!Next, Promise!Releases, Releases
<1>3. CASE j \notin Announced
  BY <1>1, <1>3 DEF PromiseStep, Seen
<1> QED
  BY <1>2, <1>3

(* The target is the newest, and stays it when no release is created.     *)
LEMMA TargetStays ==
  ASSUME NEW i \in Releases, IsNewest(i), Created' = Created
  PROVE  Target = i /\ Target' = Target
<1>1. Target = i
  BY TargetIsNewest
<1>2. \A j \in Created : IsNewest(j)' <=> IsNewest(j)
  BY DEF IsNewest
<1>3. i \in Created' /\ IsNewest(i)' /\ \A j \in Created' : IsNewest(j)' => j = i
  BY <1>2, NewestIsOne, CreatedTypes DEF IsNewest
<1>4. Target' = i
  BY <1>3 DEF Target
<1> QED
  BY <1>1, <1>4

LEMMA PromiseCommand ==
  ASSUME TruthInv, LayerInv, Command PROVE PromiseStep
<1> USE DEF TruthInv, OrderInv, TypeInv, TypeOK
<1>1. UNCHANGED <<pauseImage, Kubelets, images, release>>
  BY DEF Kubelets, Command, CreateInstallation, CreateInstallationState,
     DisableOldInstallations, CheckJob, EnsureArtifactsPlan, CmdFrame, cluster, machine,
     WaitForAirgapArtifactsPlan, EnsureConfigMap, CreateJob
<1>2. PICK i \in Releases : IsNewest(i)
  BY DEF LayerInv
<1>3. CASE i + 1 \in Releases /\ i + 1 \notin Created /\ IsNewest(i + 1)' /\ SetState(i + 1, "")
  <2>1. Target = i /\ i \in Nat
    BY <1>2, TargetIsNewest, Numbers
  <2>2. Target' = i + 1
    <3>1. i + 1 \in Created' /\ \A j \in Created' : IsNewest(j)' => j = i + 1
      <4>1. \A j \in Created' : j \in Releases
        BY DEF Created
      <4>2. ASSUME NEW j \in Releases, IsNewest(j)' PROVE j = i + 1
        <5>1. j <= i + 1 /\ i + 1 <= j
          BY <1>3, <4>2 DEF IsNewest
        <5>2. j \in Nat /\ i + 1 \in Nat
          BY <2>1, Numbers
        <5> QED
          BY <5>1, <5>2
      <4> QED
        BY <1>3, <4>1, <4>2 DEF IsNewest
    <3> QED
      BY <1>3, <3>1 DEF Target
  <2>3. Announced' = Announced
    BY <1>3 DEF Announced, SetState, Created
  <2>4. Target < LastRelease
    <3>1. LastRelease \in Nat
      BY ConstantsAssumption DEF ConstantsAssumption
    <3>2. i + 1 \in Releases
      BY <1>3
    <3> QED
      BY <2>1, <3>1, <3>2 DEF Releases
  <2>5. Promise!Request
    BY <1>1, <2>1, <2>2, <2>3, <2>4 DEF Promise!Request, Announced, Kubelets
  <2> QED
    BY <2>5 DEF PromiseStep, Promise!Next
<1>4. CASE Created' = Created
  <2>1. Target' = Target
    BY <1>2, <1>4, TargetStays
  <2>2. CASE UNCHANGED state
    BY <1>1, <2>1, <2>2 DEF PromiseStep, Seen, Announced
  <2>3. ASSUME NEW j \in Created, SetState(j, "Installing") \/ SetState(j, "Obsolete")
        PROVE  PromiseStep
    BY <1>1, <2>1, <2>3, StatusWithdraws, CreatedTypes
  <2> QED
    BY <1>2, <1>3, <2>2, <2>3, CommandCreates
<1> QED
  BY <1>2, <1>3, <1>4, CommandCreates

(* A chart is taken once those before it are recorded, and so there.      *)
LEMMA ChartInTurn ==
  ASSUME TruthInv, LayerInv, NEW i \in Releases, IsNewest(i),
         UpgradeAddOn(i) \/ HandleExtension(i)
  PROVE  \/ UNCHANGED release
         \/ \E c \in Charts :
              /\ release' = [release EXCEPT ![c] = i]
              /\ \A d \in 1..(c - 1) : release[d] = i
<1> USE DEF TruthInv, OrderInv, TypeInv, TypeOK, ProgressInv, Progress
<1>1. ChartsAt(i, cond[i])
  BY DEF ChartInv
<1>2. CASE UpgradeAddOn(i)
  <2>1. ASSUME NEW c \in Pending(i, Addons), IsNext(c, Pending(i, Addons))
        PROVE  c \in Charts /\ \A d \in 1..(c - 1) : release[d] = i
    <3>1. c \in Addons /\ \A d \in 1..(c - 1) : d \in Addons /\ ~(c <= d)
      BY ConstantsAssumption DEF ConstantsAssumption, Pending, Addons
    <3>2. \A d \in 1..(c - 1) : d \in cond[i]
      BY <2>1, <3>1 DEF IsNext, Pending
    <3> QED
      BY <1>1, <3>1, <3>2, StageTypes DEF ChartsAt
  <2> QED
    BY <1>2, <2>1 DEF UpgradeAddOn, UpgradeChart
<1>3. CASE HandleExtension(i)
  <2>1. ASSUME NEW c \in Pending(i, Extensions), IsNext(c, Pending(i, Extensions))
        PROVE  c \in Charts /\ \A d \in 1..(c - 1) : release[d] = i
    <3>1. c \in Extensions
          /\ \A d \in 1..(c - 1) : d \in Addons \cup Extensions /\ ~(c <= d)
      BY ConstantsAssumption DEF ConstantsAssumption, Pending, Addons, Extensions
    <3>2. Addons \subseteq cond[i]
      BY <1>3 DEF HandleExtension, UpgradeChart, AddonSteps, ExtensionSteps
    <3>3. \A d \in 1..(c - 1) : d \in cond[i]
      BY <2>1, <3>1, <3>2 DEF IsNext, Pending
    <3> QED
      BY <1>1, <3>1, <3>3, StageTypes DEF ChartsAt
  <2> QED
    BY <1>3, <2>1 DEF HandleExtension, UpgradeChart
<1> QED
  BY <1>2, <1>3

LEMMA PromisePod ==
  ASSUME TruthInv, LayerInv, NEW i \in Releases, StartPod(i) \/ PodStep(i)
  PROVE  PromiseStep
<1> USE DEF TruthInv, OrderInv, TypeInv, TypeOK
<1>1. IsNewest(i) /\ Created' = Created /\ Kubelets' = Kubelets
  BY PodWrites DEF machine, Kubelets
<1>2. Target = i /\ Target' = Target
  BY <1>1, TargetStays
<1>3. Progress(i)
  BY DEF ProgressInv
<1>4. CASE UpdatePauseImage(i)
  <2>1. Promise!SetPauseImage
    BY <1>1, <1>2, <1>4 DEF UpdatePauseImage, Promise!SetPauseImage, Kubelets
  <2> QED
    BY <2>1 DEF PromiseStep, Promise!Next
<1>5. CASE UpdateClusterConfig(i)
  <2>1. \A n \in Members : kubelet[n] = K0sOf[Target]
    BY <1>2, <1>3, <1>5 DEF UpdateClusterConfig, Progress, K0sSteps, AtVersion
  <2>2. Promise!SetImages
    BY <1>1, <1>2, <1>5, <2>1 DEF UpdateClusterConfig, Promise!SetImages, Kubelets
  <2> QED
    BY <2>2 DEF PromiseStep, Promise!Next
<1>6. CASE UpgradeAddOn(i) \/ HandleExtension(i)
  <2>1. UNCHANGED <<state, pauseImage, images>> /\ images = i
    BY <1>3, <1>6 DEF UpgradeAddOn, HandleExtension, UpgradeChart, Progress, ConfigSteps,
       AddonSteps
  <2>2. CASE UNCHANGED release
    BY <1>1, <1>2, <2>1, <2>2 DEF PromiseStep, Seen, Announced
  <2>3. ASSUME NEW c \in Charts, release' = [release EXCEPT ![c] = i],
               \A d \in 1..(c - 1) : release[d] = i
        PROVE  PromiseStep
    <3>1. Promise!UpgradeChart(c)
      BY <1>1, <1>2, <2>1, <2>3 DEF Promise!UpgradeChart, Kubelets
    <3> QED
      BY <3>1 DEF PromiseStep, Promise!Next, Promise!Charts, Charts
  <2> QED
    BY <1>1, <1>6, <2>2, <2>3, ChartInTurn
<1>7. CASE Installed(i)
  <2>1. AtVersion(i) /\ images = i /\ Charts \subseteq cond[i]
    BY <1>3, <1>7, StagesAreCharts DEF Installed, Progress, K0sSteps, ConfigSteps,
       AddonSteps, ExtensionSteps
  <2>2. \A c \in Charts : release[c] = i
    BY <1>1, <2>1 DEF ChartInv, ChartsAt
  <2>3. Announced' = Announced \cup {i} /\ UNCHANGED <<pauseImage, images, release>>
    BY <1>7 DEF Installed, SetState, Announced, cluster
  <2>4. Promise!Announce
    BY <1>1, <1>2, <2>1, <2>2, <2>3
    DEF Promise!Announce, Promise!Charts, Charts, AtVersion, Kubelets, Announced
  <2> QED
    BY <2>4 DEF PromiseStep, Promise!Next
<1>8. CASE ~(UpdatePauseImage(i) \/ UpdateClusterConfig(i) \/ UpgradeAddOn(i)
             \/ HandleExtension(i) \/ Installed(i))
  <2>1. UNCHANGED <<pauseImage, images, release>>
    BY <1>8 DEF cluster, StartPod, PodStep, UpgradeK0s, CreateAutopilotPlan,
       WaitForAutopilotPlan, DeleteOtherPlan, WaitForClusterNodesMatchVersion,
       WaitTimesOut, DeletePlan, K0sDone, UpgradeAddons, MarkAddOnUpgraded, AddonsDone,
       UpgradeExtensions, MarkExtensionAsProcessed, ExtensionsDone, MaybeMarkAsFailed,
       SetCondition
  <2>2. \/ UNCHANGED state
        \/ \E s \in InstallationStates \ {"Installed"} : SetState(i, s)
    BY <1>8 DEF InstallationStates, StartPod, PodStep, UpgradeK0s, CreateAutopilotPlan,
       WaitForAutopilotPlan, DeleteOtherPlan, WaitForClusterNodesMatchVersion,
       WaitTimesOut, DeletePlan, K0sDone, UpgradeAddons, MarkAddOnUpgraded, AddonsDone,
       UpgradeExtensions, MarkExtensionAsProcessed, ExtensionsDone, MaybeMarkAsFailed,
       SetCondition
  <2>3. CASE UNCHANGED state
    BY <1>1, <1>2, <2>1, <2>3 DEF PromiseStep, Seen, Announced
  <2> QED
    BY <1>1, <1>2, <2>1, <2>2, <2>3, StatusWithdraws
<1> QED
  BY <1>4, <1>5, <1>6, <1>7, <1>8

(* The kubelet of a member from the start reports a newer release's       *)
(* version, and none past what the pause image allows.                    *)
LEMMA PromiseKubelet ==
  ASSUME TruthInv, LayerInv, NEW n \in Members, KubeletReport(n)
  PROVE  PromiseStep
<1> USE DEF TruthInv, OrderInv, TypeInv, TypeOK
<1>0. n \in Nodes
  BY ConstantsAssumption DEF ConstantsAssumption
<1>1. PICK i \in Releases : IsNewest(i)
  BY DEF LayerInv
<1>2. UNCHANGED <<state, pauseImage, images, release>>
      /\ kubelet' = [kubelet EXCEPT ![n] = k0s[n]] /\ kubelet[n] # k0s[n]
  BY DEF KubeletReport, EnvFrame, cluster
<1>3. Created' = Created /\ Announced' = Announced
  BY <1>2 DEF Created, Announced
<1>4. Target = i /\ Target' = Target
  BY <1>1, <1>3, TargetStays
<1>5. PICK r \in Created : k0s[n] = K0sOf[r]
  BY DEF LayerInv
<1>6. r \in Releases /\ r <= Target
  BY <1>1, <1>4, <1>5, CreatedTypes DEF IsNewest
<1>7. kubelet[n] < K0sOf[r] /\ K0sOf[r] <= K0sOf[pauseImage]
  <2>1. kubelet[n] <= k0s[n] /\ k0s[n] <= K0sOf[pauseImage]
    BY <1>0 DEF VersionInv, LayerInv
  <2>2. kubelet[n] \in Nat /\ k0s[n] \in Nat
    BY <1>0
  <2> QED
    BY <1>2, <1>5, <2>1, <2>2
<1>8. Kubelets' = [Kubelets EXCEPT ![n] = K0sOf[r]] /\ Kubelets[n] = kubelet[n]
  BY <1>0, <1>2, <1>5, ConstantsAssumption DEF ConstantsAssumption, Kubelets
<1>9. Promise!UpgradeNode(n)
  BY <1>2, <1>3, <1>4, <1>6, <1>7, <1>8
  DEF Promise!UpgradeNode, Promise!Releases, Releases, Announced, Kubelets
<1> QED
  BY <1>9 DEF PromiseStep, Promise!Next

LEMMA PromiseNext ==
  ASSUME TruthInv, LayerInv, [Next]_vars PROVE PromiseStep
<1> USE DEF TruthInv
<1>1. CASE UNCHANGED <<state, pauseImage, Kubelets, images, release>>
  <2>1. Created' = Created /\ Announced' = Announced
    BY <1>1 DEF Created, Announced
  <2>2. Target' = Target
    BY <2>1, TargetStays DEF LayerInv
  <2> QED
    BY <1>1, <2>1, <2>2 DEF PromiseStep, Seen
<1>2. CASE \/ CommandError \/ CommandKilled
           \/ \E i \in Releases :
                StartCommand(i) \/ PodError(i) \/ PodEnds(i) \/ PodKilled(i)
  BY <1>1, <1>2 DEF CommandError, CommandKilled, StartCommand, PodError, PodEnds,
     PodKilled, cluster, machine, Kubelets
<1>3. CASE \/ Autopilot \/ AutopilotFail \/ Reconcile \/ DeleteUpgradeJobs
           \/ UNCHANGED vars \/ \E n \in Nodes : JoinStart(n)
  BY <1>1, <1>3 DEF Autopilot, AutopilotComplete, AutopilotUpdateNode,
     AutopilotFail, Reconcile, DeleteUpgradeJobs, JoinStart, EnvFrame, OperatorFrame,
     vars, cluster, machine, Kubelets
<1>4. ASSUME NEW n \in Nodes \ Members, KubeletReport(n) \/ JoinFinish(n)
      PROVE  PromiseStep
  <2>1. \E v : kubelet' = [kubelet EXCEPT ![n] = v]
    BY <1>4 DEF KubeletReport, JoinFinish
  <2>2. Kubelets' = Kubelets
    BY <2>1, ConstantsAssumption
    DEF ConstantsAssumption, Kubelets, OrderInv, TypeInv, TypeOK
  <2> QED
    BY <1>1, <1>4, <2>2 DEF KubeletReport, JoinFinish, EnvFrame, cluster
<1>5. ASSUME NEW n \in Nodes, JoinFinish(n) PROVE n \notin Members
  BY <1>5 DEF JoinFinish, JoinInv
<1> QED
  BY <1>2, <1>3, <1>4, <1>5, PromiseCommand, PromisePod, PromiseKubelet DEF Next

(* The whole machinery of commands, configmaps, Jobs, pods and autopilot   *)
(* plans shows its user, of the machines that were members from the start, *)
(* the rollout in layers that ClusterUpgrade describes: each layer only    *)
(* after the one below it, and Installed only when all of them are there.  *)
THEOREM UpgradeIsARollout == Spec => ImplementsClusterUpgrade
<1>1. Init => TruthInv /\ LayerInv
  BY TruthInit, LayerInit
<1>2. Init => Promise!Init
  <2> SUFFICES ASSUME Init PROVE Promise!Init
    OBVIOUS
  <2>1. Created = {0} /\ 0 \in Releases
    BY Numbers DEF Init, Created
  <2>2. IsNewest(0)
    BY <2>1, Numbers DEF IsNewest
  <2>3. Target = 0
    BY <2>1, <2>2, TargetIsNewest
  <2>4. {i \in Releases : state[i] = "Installed"} = {0}
    BY <2>1 DEF Init
  <2>5. [n \in Members |-> kubelet[n]] = [n \in Members |-> K0sOf[0]]
    BY ConstantsAssumption DEF ConstantsAssumption, Init
  <2> QED
    BY <2>3, <2>4, <2>5 DEF Init, Promise!Init, Promise!Charts, Charts
<1>3. TruthInv /\ LayerInv /\ [Next]_vars => [Promise!Next]_(Promise!vars)
  BY PromiseNext DEF PromiseStep, Seen, Kubelets, Announced, Promise!vars
<1> QED
  BY <1>1, <1>2, <1>3, TruthStep, LayerStep, PTL
  DEF Spec, ImplementsClusterUpgrade, Promise!Spec

=============================================================================
