-------------------------- MODULE HighAvailability --------------------------
(***************************************************************************)
(* Enabling high availability (pkg/addons/highavailability.go,             *)
(* pkg/addons/registry/migrate), by the commands of machines that join or  *)
(* by `enable-ha`.                                                         *)
(*                                                                         *)
(* In an airgap cluster the registry keeps its images on one disk; it is   *)
(* scaled down, a pod copies the disk to an S3 store, and the registry is  *)
(* upgraded to several replicas on top of that store.  Then the admin      *)
(* console is made highly available, and the Installation says so.  helm   *)
(* waits for what it upgrades and rolls it back when that fails.  A        *)
(* command that fails scales the registry up again, if that does not fail  *)
(* too; one that is killed does not, and anything done is found again by   *)
(* the next command.                                                       *)
(***************************************************************************)
EXTENDS Naturals, FiniteSets

CONSTANTS
  Commands,     \* runs of the commands that enable high availability
  Images,       \* images that may be pushed to the registry
  AirGap,       \* the installation is an airgap one
  Overlap,      \* one command may start before another one has ended
  MaxErrors,    \* bound: calls that fail
  MaxKills,     \* bound: commands that are killed
  MaxPodFails   \* bound: migration pods that fail

ASSUME ConstantsAssumption ==
  /\ AirGap \in BOOLEAN /\ Overlap \in BOOLEAN
  /\ {MaxErrors, MaxKills, MaxPodFails} \subseteq Nat

VARIABLES
  ha,        \* Installation.Spec.HighAvailability
  adminHA,   \* the admin console runs highly available
  replicas,  \* the registry Deployment's Spec.Replicas
  store,     \* where its pods are configured to keep images
  serving,   \* where the pods that run keep them
  disk, s3,  \* the images in each store
  pushed,    \* the images the registry has accepted
  late,      \* those that a pod put on the disk once its Deployment did not
             \* want it any more; a history that no action reads
  pod,       \* the migration pod: its phase and the files it started from
  good,      \* the charts whose last good revision is a highly available one
  pending,   \* the charts whose upgrade helm has begun and not ended
  pc,        \* where each command is
  deferred,  \* the commands that scale the registry back before they end
  spent      \* how much of each bound is used up

registry == <<replicas, store, serving>>
data     == <<disk, s3, pushed, late>>
helm     == <<good, pending>>
run      == <<deferred, spent>>
vars     == <<ha, adminHA, registry, data, pod, helm, pc, run>>

Stores     == {"disk", "s3"}
HAReleases == {"registry", "console"}
Ended      == {"ended", "killed", "unscaled"}
Steps      == {"none", "check", "start", "seaweedfs", "scaleDown", "deletePod",
               "createPod", "monitor", "registryHA", "registryWait", "adminHA",
               "adminWait", "setHA", "scaleBack"} \cup Ended
NoPod      == [phase |-> "none", files |-> {}]

TypeOK ==
  /\ ha \in BOOLEAN /\ adminHA \in BOOLEAN
  /\ replicas \in 0..2
  /\ store \in Stores /\ serving \subseteq Stores
  /\ disk \subseteq Images /\ s3 \subseteq Images
  /\ pushed \subseteq Images /\ late \subseteq pushed
  /\ pod \in [phase: {"none", "pending", "running", "succeeded", "failed"}, files: SUBSET Images]
  /\ good \subseteq HAReleases /\ pending \subseteq HAReleases
  /\ pc \in [Commands -> Steps] /\ deferred \subseteq Commands
  /\ spent \in [{"errors", "kills", "podFails"} -> Nat]

Init ==
  /\ ha = FALSE /\ adminHA = FALSE
  /\ replicas = 1 /\ store = "disk" /\ serving = {"disk"}
  /\ disk = {} /\ s3 = {} /\ pushed = {} /\ late = {}
  /\ pod = NoPod
  /\ good = {} /\ pending = {}
  /\ pc = [c \in Commands |-> "none"] /\ deferred = {}
  /\ spent = [b \in {"errors", "kills", "podFails"} |-> 0]

Spend(b, bound) ==
  /\ spent[b] < bound
  /\ spent' = [spent EXCEPT ![b] = @ + 1]

Goto(c, step) == pc' = [pc EXCEPT ![c] = step]

EndAs(c, how) == Goto(c, how) /\ deferred' = deferred \ {c}

(* An error ends the command, by way of the deferred function if it has    *)
(* been deferred.                                                          *)
Leave(c) == Goto(c, IF c \in deferred THEN "scaleBack" ELSE "ended")

(* Mutant: a registry that is scaled down passes for one that has been    *)
(* migrated.                                                              *)
IsNotSingle == replicas # 1

IsRegistryHA == replicas > 1

-----------------------------------------------------------------------------
(* One run of a command.                                                   *)

Start(c) ==
  /\ pc[c] = "none"
  /\ Overlap \/ \A d \in Commands : pc[d] \in {"none"} \cup Ended
  /\ Goto(c, "check")
  /\ UNCHANGED <<ha, adminHA, registry, data, pod, helm, run>>

(* After the check the user is asked, which may take a while.             *)
CanEnableHA(c) ==
  /\ pc[c] = "check"
  /\ Goto(c, IF ha THEN "ended" ELSE "start")
  /\ UNCHANGED <<ha, adminHA, registry, data, pod, helm, run>>

EnableHA(c) ==
  /\ pc[c] = "start"
  /\ Goto(c, IF AirGap /\ ~IsRegistryHA THEN "seaweedfs" ELSE "adminHA")
  /\ UNCHANGED <<ha, adminHA, registry, data, pod, helm, run>>

(* From here on the registry is scaled back when the command ends.        *)
ensureSeaweedfs(c) ==
  /\ pc[c] = "seaweedfs"
  /\ deferred' = deferred \cup {c}
  /\ Goto(c, "scaleDown")
  /\ UNCHANGED <<ha, adminHA, registry, data, pod, helm, spent>>

(* Nothing waits for the registry's pod to be gone.                       *)
scaleRegistryDown(c) ==
  /\ pc[c] = "scaleDown"
  /\ replicas' = 0
  /\ Goto(c, "deletePod")
  /\ UNCHANGED <<ha, adminHA, store, serving, data, pod, helm, run>>

(* Mutant: a migration pod that has succeeded is kept.                    *)
KeepSucceededPod(c) ==
  /\ pc[c] = "deletePod"
  /\ IF pod.phase = "succeeded" THEN Goto(c, "monitor") /\ UNCHANGED pod
     ELSE Goto(c, "createPod") /\ pod' = NoPod
  /\ UNCHANGED <<ha, adminHA, registry, data, helm, run>>

maybeDeleteDataMigrationPod(c) ==
  /\ pc[c] = "deletePod"
  /\ pod' = NoPod
  /\ Goto(c, "createPod")
  /\ UNCHANGED <<ha, adminHA, registry, data, helm, run>>

(* Creating the pod fails when another command has created one.           *)
ensureDataMigrationPod(c) ==
  /\ pc[c] = "createPod"
  /\ IF pod = NoPod
     THEN pod' = [pod EXCEPT !.phase = "pending"] /\ Goto(c, "monitor")
     ELSE UNCHANGED pod /\ Leave(c)
  /\ UNCHANGED <<ha, adminHA, registry, data, helm, run>>

(* The pod is watched by its name; a missing one is an error.             *)
monitorPodStatus(c) ==
  /\ pc[c] = "monitor"
  /\ \/ pod.phase = "succeeded" /\ Goto(c, "registryHA")
     \/ pod.phase \in {"none", "failed"} /\ Leave(c)
  /\ UNCHANGED <<ha, adminHA, registry, data, pod, helm, run>>

(* helm applies the chart: the Deployment gets its replicas and may serve  *)
(* from S3 from now on.  The highly available values ask for no claim on a *)
(* disk, so that the disk may go with this.                                *)
enableRegistryHA(c) ==
  /\ pc[c] = "registryHA" /\ "registry" \notin pending
  /\ replicas' = 2 /\ store' = "s3"
  /\ disk' \in {disk, {}}
  /\ pending' = pending \cup {"registry"}
  /\ Goto(c, "registryWait")
  /\ UNCHANGED <<ha, adminHA, serving, s3, pushed, late, pod, good, run>>

RegistryIsUp(c) ==
  /\ pc[c] = "registryWait" /\ store \in serving
  /\ good' = good \cup {"registry"} /\ pending' = pending \ {"registry"}
  /\ Goto(c, "adminHA")
  /\ UNCHANGED <<ha, adminHA, registry, data, pod, run>>

EnableAdminConsoleHA(c) ==
  /\ pc[c] = "adminHA" /\ "console" \notin pending
  /\ adminHA' = TRUE
  /\ pending' = pending \cup {"console"}
  /\ Goto(c, "adminWait")
  /\ UNCHANGED <<ha, registry, data, pod, good, run>>

AdminConsoleIsUp(c) ==
  /\ pc[c] = "adminWait"
  /\ good' = good \cup {"console"} /\ pending' = pending \ {"console"}
  /\ Goto(c, "setHA")
  /\ UNCHANGED <<ha, adminHA, registry, data, pod, run>>

(* An upgrade that was killed is pending, and helm begins no other.        *)
HelmRefuses(c) ==
  /\ \/ pc[c] = "registryHA" /\ "registry" \in pending
     \/ pc[c] = "adminHA" /\ "console" \in pending
  /\ Leave(c)
  /\ UNCHANGED <<ha, adminHA, registry, data, pod, helm, run>>

SetHighAvailability(c) ==
  /\ pc[c] = "setHA"
  /\ ha' = TRUE
  /\ Leave(c)
  /\ UNCHANGED <<adminHA, registry, data, pod, helm, run>>

(* Mutant: the command ends and leaves the registry scaled down.          *)
LeaveRegistryDown(c) ==
  /\ pc[c] = "scaleBack"
  /\ EndAs(c, "ended")
  /\ UNCHANGED <<ha, adminHA, registry, data, pod, helm, spent>>

(* Mutant: the registry is scaled up whether or not it is down.           *)
AddReplica(c) ==
  /\ pc[c] = "scaleBack"
  /\ replicas' = replicas + 1
  /\ EndAs(c, "ended")
  /\ UNCHANGED <<ha, adminHA, store, serving, data, pod, helm, spent>>

(* The deferred function, which follows a success as well.                *)
maybeScaleRegistryBackOnFailure(c) ==
  /\ pc[c] = "scaleBack"
  /\ replicas' = IF replicas = 0 THEN 1 ELSE replicas
  /\ EndAs(c, "ended")
  /\ UNCHANGED <<ha, adminHA, store, serving, data, pod, helm, spent>>

(* The Deployment cannot be read or written, which is only logged.        *)
CannotScaleBack(c) ==
  /\ pc[c] = "scaleBack"
  /\ Spend("errors", MaxErrors)
  /\ EndAs(c, IF replicas = 0 THEN "unscaled" ELSE "ended")
  /\ UNCHANGED <<ha, adminHA, registry, data, pod, helm>>

(* What is not up in time is rolled back to its last good revision, unless *)
(* that fails too.                                                         *)
RegistryIsNotUp(c) ==
  /\ pc[c] = "registryWait"
  /\ Spend("errors", MaxErrors)
  /\ \/ UNCHANGED <<replicas, store>>
     \/ IF "registry" \in good THEN replicas' = 2 /\ store' = "s3"
                               ELSE replicas' = 1 /\ store' = "disk"
  /\ pending' = pending \ {"registry"}
  /\ Leave(c)
  /\ UNCHANGED <<ha, adminHA, serving, data, pod, good, deferred>>

AdminConsoleIsNotUp(c) ==
  /\ pc[c] = "adminWait"
  /\ Spend("errors", MaxErrors)
  /\ adminHA' \in {adminHA, "console" \in good}
  /\ pending' = pending \ {"console"}
  /\ Leave(c)
  /\ UNCHANGED <<ha, registry, data, pod, good, deferred>>

(* The migration pod goes also when its end is not seen.                  *)
PodMayGo(c) ==
  \/ UNCHANGED pod
  \/ pc[c] = "deletePod" /\ pod' = NoPod

(* A call fails, helm's before it has applied anything.                   *)
CallFails(c) ==
  /\ pc[c] \notin {"none", "registryWait", "adminWait", "scaleBack"} \cup Ended
  /\ Spend("errors", MaxErrors)
  /\ PodMayGo(c)
  /\ Leave(c)
  /\ UNCHANGED <<ha, adminHA, registry, data, helm, deferred>>

CommandError(c) ==
  CallFails(c) \/ RegistryIsNotUp(c) \/ AdminConsoleIsNotUp(c) \/ CannotScaleBack(c)

(* helm is killed with the command, before or after it applied the chart.  *)
CommandKilled(c) ==
  /\ pc[c] \notin {"none"} \cup Ended
  /\ Spend("kills", MaxKills)
  /\ PodMayGo(c)
  /\ \/ UNCHANGED pending
     \/ pc[c] = "registryHA" /\ pending' = pending \cup {"registry"}
     \/ pc[c] = "adminHA" /\ pending' = pending \cup {"console"}
  /\ EndAs(c, "killed")
  /\ UNCHANGED <<ha, adminHA, registry, data, good>>

Command(c) ==
  \/ CanEnableHA(c) \/ EnableHA(c) \/ ensureSeaweedfs(c) \/ scaleRegistryDown(c)
  \/ maybeDeleteDataMigrationPod(c) \/ ensureDataMigrationPod(c) \/ monitorPodStatus(c)
  \/ enableRegistryHA(c) \/ RegistryIsUp(c) \/ EnableAdminConsoleHA(c)
  \/ AdminConsoleIsUp(c) \/ HelmRefuses(c)
  \/ SetHighAvailability(c) \/ maybeScaleRegistryBackOnFailure(c)

-----------------------------------------------------------------------------
(* The registry and the migration pod.                                     *)

IsWanted(s) == replicas > 0 /\ s = store

RegistryStarts ==
  /\ replicas > 0 /\ store \notin serving
  /\ serving' = serving \cup {store}
  /\ UNCHANGED <<ha, adminHA, replicas, store, data, pod, helm, pc, run>>

(* A pod that is not wanted any more goes, some time.                     *)
RegistryStops ==
  /\ \E s \in serving : ~IsWanted(s) /\ serving' = serving \ {s}
  /\ UNCHANGED <<ha, adminHA, replicas, store, data, pod, helm, pc, run>>

(* Any pod that runs accepts an image.                                    *)
PushToDisk(i) ==
  /\ i \notin pushed /\ "disk" \in serving
  /\ pushed' = pushed \cup {i} /\ disk' = disk \cup {i}
  /\ late' = IF IsWanted("disk") THEN late ELSE late \cup {i}
  /\ UNCHANGED <<ha, adminHA, registry, s3, pod, helm, pc, run>>

PushToS3(i) ==
  /\ i \notin pushed /\ "s3" \in serving
  /\ pushed' = pushed \cup {i} /\ s3' = s3 \cup {i}
  /\ UNCHANGED <<ha, adminHA, registry, disk, late, pod, helm, pc, run>>

PodStarts ==
  /\ pod.phase = "pending"
  /\ pod' = [phase |-> "running", files |-> disk]
  /\ UNCHANGED <<ha, adminHA, registry, data, helm, pc, run>>

(* The walk uploads every file that was there when it began; of what came  *)
(* later it may or may not see any.                                        *)
UploadObject(i) ==
  /\ pod.phase = "running" /\ i \in (pod.files \cup disk) \ s3
  /\ s3' = s3 \cup {i}
  /\ UNCHANGED <<ha, adminHA, registry, disk, pushed, late, pod, helm, pc, run>>

RegistryData ==
  /\ pod.phase = "running" /\ pod.files \subseteq s3
  /\ pod' = [phase |-> "succeeded", files |-> {}]
  /\ UNCHANGED <<ha, adminHA, registry, data, helm, pc, run>>

PodFails ==
  /\ pod.phase \in {"pending", "running"}
  /\ Spend("podFails", MaxPodFails)
  /\ pod' = [phase |-> "failed", files |-> {}]
  /\ UNCHANGED <<ha, adminHA, registry, data, helm, pc, deferred>>

Pod == PodStarts \/ RegistryData \/ \E i \in Images : UploadObject(i)

Next ==
  \/ \E c \in Commands : Start(c) \/ Command(c) \/ CommandError(c) \/ CommandKilled(c)
  \/ RegistryStarts \/ RegistryStops \/ Pod \/ PodFails
  \/ \E i \in Images : PushToDisk(i) \/ PushToS3(i)

Spec == Init /\ [][Next]_vars

(* Fairness: a command that runs runs on, the pods come up and run.  No    *)
(* command has to be started, nothing has to be pushed, to fail or to be   *)
(* killed, and no pod that is not wanted has to go.                        *)
Fairness ==
  /\ \A c \in Commands : WF_vars(Command(c))
  /\ WF_vars(RegistryStarts) /\ WF_vars(Pod)
FairSpec == Spec /\ Fairness

-----------------------------------------------------------------------------
(* Properties.                                                             *)

(* No image that a wanted pod has accepted is lost, and none is left       *)
(* behind on the disk: once the registry serves from S3, or is configured  *)
(* to, all of them are there, also when a migration failed or the registry *)
(* was rolled back, went on with its disk and was migrated again later.    *)
NoImageLeftBehind ==
  LET kept == pushed \ late IN
  /\ kept \subseteq disk \cup s3
  /\ store = "s3" => kept \subseteq s3

(* The Installation says that it is highly available only when everything *)
(* is, although each piece is found and skipped by a second command.      *)
HAIsComplete == ha => adminHA /\ (AirGap => replicas > 1 /\ store = "s3")

(* A registry that was scaled down for the migration comes back, whether  *)
(* the migration succeeds or fails, unless the command is killed or the   *)
(* deferred function fails itself, which the code only logs.              *)
RegistryComesBack ==
  \A c \in Commands :
    pc[c] \in {"deletePod", "createPod", "monitor", "registryHA"} ~>
      replicas > 0 \/ pc[c] \in {"killed", "unscaled"}

(* Not kept by the code.  A registry serves all that it has accepted: what *)
(* was pushed while helm waited for the registry on S3 is not on the disk  *)
(* that it is rolled back to.                                              *)
ServesWhatItAccepted ==
  IsWanted("disk") /\ "disk" \in serving => pushed \subseteq disk

(* Not kept by the code.  The registry is down while its data is copied:   *)
(* its pod may outlive the scaling down, and what it accepts then is late; *)
(* a second command that overlaps scales the registry up.                  *)
DownWhileCopied == pod.phase = "running" => serving = {}

(* Not kept by the code.  Data that has been migrated is not migrated      *)
(* again.                                                                  *)
MigratedOnce == [][pod.phase = "succeeded" => pod'.phase = "succeeded"]_vars
=============================================================================
