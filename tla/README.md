# Specifications of Embedded Cluster

Embedded Cluster packages an application with a Kubernetes cluster (k0s) that
it installs, upgrades, extends, backs up and restores.  This directory holds
TLA+ specifications of the parts of it in which order, interruption and
repetition matter, the TLC runs that check them on small instances, and
TLAPS proofs for every instance.

## The system

What runs where:

- the **installer binary** (`cmd/installer`) on each machine: `install`,
  `join`, `reset`, `restore`, `enable-ha` and the admin console's helpers;
- the **operator** (`operator/`): a reconciler of `Installation` objects in the
  cluster, and the one shot commands that the admin console (KOTS, not in this
  repository) or the operator's own Jobs run: `upgrade`, `upgrade-job`,
  `distribute-artifacts`, `migrate registry-data`, `migrate-v2`;
- **k0s and its autopilot** on each machine: it executes a `Plan`, an object of
  which there is one, under a fixed name;
- the **local artifact mirror** on each machine, serving artifacts to autopilot.

All of them communicate through objects in the Kubernetes API: Installations
and their status, Jobs, configmaps, the k0s ClusterConfig, the autopilot plan,
Velero backups and restores.  There are no transactions over two objects, so
whatever is done in several writes can be seen, and interrupted, in between.

### Inventory

| part | state | operations | what is hard | what makes it correct |
|---|---|---|---|---|
| upgrade command (`operator/pkg/cli/upgrade.go`, `pkg-new/upgrade/{installation,job}.go`) | Installation objects and states, configmap, Job | create the Installation, retire the older ones, distribute, create the configmap and the Job | killed or failing between any two writes, run again | a run that succeeds has created a Job; only the newest Installation is not obsolete |
| upgrade Job (`operator/pkg/cli/upgrade_job.go`, `pkg-new/upgrade/{upgrade,autopilot}.go`) | Installation state and conditions, plan, ClusterConfig, helm releases | pause image, k0s through autopilot, cluster config, addons, extensions | the pod is retried from the beginning; a plan that other pods may have left; nodes that lag, fail, or join | layers in order; the status tells the truth; a failure is declared exactly when no attempt is left |
| installation reconciler (`operator/controllers`) | Installation status, node statuses, upgrade Jobs | choose the Installation, compare node statuses, copy preflight results, clean up Jobs | stale reads and conflicts on every object it writes | never deletes what is in use; reports each node event once |
| artifact distribution (`pkg-new/artifacts`, `operator/pkg/artifacts`) | one copy Job per node, a secret, the plan | ensure, list, wait, clean up | jobs left by an earlier installation or an earlier failure; nodes joining during the wait | every node has this installation's artifacts before anything uses them |
| addons (`pkg/addons`) | helm releases, conditions, secrets, hooks | install, upgrade, prerequisites, values | skipped by a condition of an earlier attempt; what an interrupted helm left; values made again by other commands from what was recorded | order; nothing skipped that was not done; the same values by every way |
| high availability (`pkg/addons/highavailability.go`, `registry/migrate`) | seaweedfs, registry scale, migration pod, `Spec.HighAvailability` | scale down, migrate, switch, scale back on failure | killed between scaling down and up; helm rolling back a registry that has served from S3; retried migration; two joins enabling at once | what the registry accepted is not lost; it comes back; the flag tells the truth |
| extensions (`pkg/extensions`) | helm releases, conditions | diff, uninstall, install, upgrade | repeated after a partial run | the cluster ends with the new configuration's charts |
| v2 migration (`operator/pkg/cli/migratev2`) | condition on the Installation, operator scale, plan | scale the operator down, wait, copy the Installation, set the source type, clean up | killed and run again | done once, or resumable |
| restore (`cmd/installer/cli/restore.go`, `pkg/disasterrecovery`) | a configmap with the state to resume from, Velero objects | a sequence of resumable states | killed in every state; nodes that join in between | resumes where it was; never restores twice or over a different backup |
| install, join, reset (`cmd/installer/cli`) | files and services of one machine, its Node object, etcd's members | install, join, reset | a run after one that failed half way; several machines at once; a k0s that goes on without its command | the last controller is not removed while others remain; what was left is found |
| host preparation (`pkg-new/hostutils`, `cmd/installer/goods`, `pkg/helpers/{firewalld,systemd}`) | files, kernel limits and modules, firewalld, systemd units | materialise, configure, open, enable, take back | every setting is in a file and in force, and the two part; steps that tolerate errors; reboots | a host that was prepared stays prepared; reset takes back what it names |
| checks of install and restore (`cmd/installer/cli/{install,cidr,proxy,restore}.go`, `pkg-new/{config,preflights}`) | flags, license, bundle, k0s configuration, networks | validate, ask, refuse, advise | many sources for one value; overrides after the checks; advice that is followed; resumed runs | what was let in fits what is there |
| lint and release (`pkg/lint`, `pkg/release`) | files of a release, the vendor portal's answers | lint, parse, tell kinds apart | part of the API fails; one document taken for another | nothing lost; domains known |
| updates (`pkg-new/validation`, `pkg-new/replicatedapi`) | channel, license, current release | required releases, version checks | channels by place or by version, failed releases, long sequences | nothing required passed over; the way on stays open |
| OpenEBS clean up (`operator/pkg/openebs`) | stateful sets, claims, volumes of a lost node | delete a pod's volume and claim | one of two deletions failing | nothing is deleted for a node that is alive |
| release metadata (`operator/pkg/release`) | a cache in memory, a configmap | look up, parse | stale or missing entry | the version used is the installation's |
| pure helpers (`operator/pkg/util`) | none | shorten names | boundaries | equal to their definition |

The rest (API clients, most metrics, the mirror's HTTP server, build tooling) is
sequential input and output; `PROJECT.json` lists every part with the reason.

## Modules

| module | models | kind |
|---|---|---|
| `Upgrade` | the upgrade command, the upgrade Job's pods, autopilot, kubelets, joining nodes, the operator's clean up of Jobs | state machine |
| `ClusterUpgrade` | what an upgrade promises to whoever watches the cluster | abstract specification of `Upgrade` |
| `MCUpgrade` | the Kubernetes versions of the releases in the runs | instances for TLC |
| `UpgradeProofs` | theorems about `Upgrade`; that it implements `ClusterUpgrade` | proofs |
| `Restore`, `MCRestore` | the resumable restore with Velero and the machines that join meanwhile; its backups in the run | state machine, instance |
| `RestoreProofs` | theorems about `Restore` | proofs |
| `HighAvailability` | enabling high availability and migrating the registry's data | state machine |
| `Artifacts` | copying artifacts to the nodes and loading their images | state machine |
| `ArtifactsProofs` | theorems about `Artifacts` | proofs |
| `Reconciler` | the operator's reconciler among nodes and an upgrade | state machine |
| `ReconcilerProofs` | theorems about `Reconciler` | proofs |
| `Machines`, `MCMachines` | install, join and reset on the machines of a cluster | state machine, instance |
| `MachinesProofs` | theorems about `Machines` | proofs |
| `HostSetup`, `MCHostSetup` | what the commands change on a host, in files and in force | state machine, instance |
| `CommandProofs` | theorems about `HostSetup` and `HighAvailability`: the host before k0s runs, and the registry after the third controller | proofs |
| `Charts`, `MCCharts` | addons and extensions over an install and its upgrades, with helm | state machine, instance |
| `Rollout` | what the charts promise to whoever looks at what is deployed | abstract specification of `Charts` |
| `ChartsProofs` | theorems about `Charts`; that it implements `Rollout` | proofs |
| `MigrationV2` | the migration of v1's charts by the upgrade's Job | state machine |
| `Networks` | address ranges, interfaces, proxies | operators |
| `Releases` | the documents of a release, and its configuration | operators |
| `Lint` | linting a release with the vendor portal | state machine |
| `InstallChecks` | flags, questions and checks of install and restore | state machine |
| `AddOnValues` | the values of the addon charts, by install, enable-ha and the upgrade | operators and actions |
| `Updates` | updates of the application and what is upgradable | state machine |
| `Delivery`, `MCDelivery` | the five above composed: from a release's files to the cluster, its nodes, its updates and its restore | composition, instance |
| `DeliveryProofs` | theorems about `Delivery` and `MigrationV2` | proofs |

One action is one write to the Kubernetes API (or to a machine) with the reads
it depends on, so that a crash, another process or a conflict can come between
any two writes.  Every module has actions for a failing call and, where the
code runs in a pod or in a command, for being killed; both are bounded by a
constant (`MaxErrors`, `MaxKills`, ...).  Definitions named *Mutant* are
plausible faults of the code; none is part of `Next`.

### Upgrade

State: the Installations (`state`, `cond`), `configMap`, `job` and its count of
failed pods, the one autopilot `plan`, the k0s ClusterConfig in two parts
(`pauseImage`, `images`), the helm releases (`release`), the machines
(`joined`, `joining`, `k0s`, `kubelet`) and the places in the code of the
command (`cmd`), of each Job's pod (`pod`) and of the operator (`op`).

- `StartCommand` .. `CreateJob` are the `upgrade` command: `CreateInstallation`
  (with its early return when the object exists), the state, the older
  Installations, the check of the configmap that ends a rerun, the artifacts
  plan, the configmap, the Job.
- `UpdatePauseImage` .. `Installed` are `upgrade.Upgrade` in a pod.  A pod
  starts from the beginning whatever the one before it did, and skips what its
  conditions or the nodes' versions say is done.
- `PodError`, `PodEnds`, `PodKilled` and `MaybeMarkAsFailed` are the exit of
  `upgrade-job` with `isLastAttempt`, and Kubernetes' count of failures.
- `AutopilotUpdateNode`, `AutopilotComplete`, `AutopilotFail`, `KubeletReport`,
  `JoinStart` and `JoinFinish` are outside the code, as the code relies on them.
- `Reconcile` and `DeleteUpgradeJobs` are the operator's reading of the
  Installation and, later, its deletion of Jobs.

`ClusterUpgrade` keeps of all this only the layers: pause image, Kubernetes,
component images, charts, announcement, each after the one below it.  The
refinement maps its target to the newest Installation and its announcements to
the Installations that are `Installed`.  Its nodes, and those `StatusIsTruthful`
speaks of, are the initial members: a node that joins brings the version its
`join` compared with, no plan has it among its targets, and no status waits for
it.  `EveryNodeIsUpgraded` says that it is upgraded all the same, and TLC refutes
it: the node that comes with the older version after the plan was made is in no
plan, and the upgrade that waits for it ends as `Failed`.

### Restore

State: the machine's cluster (`k0s`), the backup storage location and what
Velero has found there, the configmap `cm` with the state to resume from, the
resource modifiers, Velero's `restores`, the Installation, extensions and admin
console, the control plane (`controllers`, `joiner`) and the run of the
command.  The steps of `run` follow `runRestore*` and the functions it calls
for each state; `Interrupted` is a kill, an error or a declined prompt at any
point, `Resume` and `StartOver` the two answers to the question whether to go
on.  `Join`, `MaybeEnableHA` and `EnableHA` are the end of `join`.

### HighAvailability

`Start`/`Command`/`CommandError`/`CommandKilled` are
`EnableHA` with `CanEnableHA` before it: seaweedfs, scaling the registry down,
deleting and creating the migration pod, monitoring it, the registry's and the
admin console's upgrade, `Spec.HighAvailability`, and the deferred function that
scales the registry up again.  That function follows a success too, and may fail
itself, which is only logged (`CannotScaleBack`).

The two helm upgrades take several steps, because helm applies a chart, waits for
what it made and rolls it back when it is not up in time: `enableRegistryHA`
gives the Deployment two replicas on S3, `RegistryIsUp` ends the wait,
`RegistryIsNotUp` rolls back to the last `good` revision, or fails at that too;
`EnableAdminConsoleHA`, `AdminConsoleIsUp` and `AdminConsoleIsNotUp` likewise.
A helm that is killed leaves its release `pending`, and `HelmRefuses` every
later upgrade of it.

`replicas` and `store` are what the Deployment asks for, `serving` where the
pods that run keep their images: `RegistryStarts` brings up a pod that is wanted,
`RegistryStops` ends one that is not, some time.  In between both stores may be
served, and any pod that runs accepts an image (`PushToDisk`, `PushToS3`).
`late` is the history of images that went to the disk once its pod was not
wanted any more.  `PodStarts`, `UploadObject`, `RegistryData` and `PodFails` are
the migration pod, whose walk uploads what was on the disk when it began and may
or may not see what comes later.

### Artifacts

One command at a time goes through `deleteSecret`, `createSecret`,
`EnsureArtifactsJobForNodes`, `ensureArtifactsJobForNode`, `waitForDelete`,
`ensureArtifactsOnNodes`, the clean up, and the plan.  `IsOurs` is the
annotations' comparison that decides whether a Job that exists is kept.  The Job
controller (`StartPod`, `StopPod`, `JobDeleted`), the pods and autopilot run on
when a command fails or is killed, and the next command meets what they left.

### Reconciler

One reconciliation runs at a time (`r`).  It reads from `cache`, a snapshot of
the Installations that `CacheFollows` renews; `cache.current` holds those whose
cached version is still the API server's, which decides whether
`StatusUpdate` is accepted.  `ReconcileNodeStatuses`,
`CopyHostPreflightResultsFromNodes`, `ReconcileOpenebs`, `SaveStatus` and
`ReportNodesChanges` are the functions of the same names (`SaveStatus` is the
write at the end of `Reconcile`); `ReconcileError` is any failing call and the
end of the operator's process.  The upgrade appears with its three writes of
Installations.  Hashes are records of what they cover.

### Machines

`run[m]` is the command on machine `m` with its step, `last[m]` how the one
before ended, what it reported, and whether every reset of the machine so far
was a clean one.  `Start` is any of the three commands with its flags; each
step's action follows the function of that name, `Fault` (an error, a kill, a
signal) may come after any of them, and the files, the k0s service and the
objects in the cluster stay as they are.  k0s itself (`Environment`) goes on
without the command that started it.  `checkResetSafety`, `maybePrintHAWarning`
and the metrics with their `ErrorNoFail` are part of the steps.

A member of etcd is `Live` when its k0s runs as a controller; etcd needs a
quorum of them (`API`), and a controller's own API server needs the machine to
be a member (`Served`).

`LastController` speaks of workers whose join succeeded, of commands that run
one after the other, and of clean resets: not forced, completed, and leaving
neither a member of etcd nor a Node of the machine.  Without the last condition
it does not hold, as TLC shows with three machines and five commands: a
controller whose join gave up is reset while its k0s comes up, which registers
the Node again after `reset` has deleted it; the label stays when the machine
joins again as a worker, `checkResetSafety` takes that worker for a controller,
and the last controller may go.  A forced reset is not checked at all.
`FindsData` has the condition `~Overlap` because a join that
runs while the cluster is reset and installed again writes the data directory of
the cluster that is gone.

### HostSetup

Three commands on one host.  Every setting has its file (`conf`, `permanent`,
`services`, `mirror.dropin`) and what is in force (`kernel`, `runtime`,
`mirror.loaded`, `mirror.serves`): commands write one, the other or both,
`Reboot` and `ReloadFirewalld` make the second from the first.  Files of the
materialiser are whole or torn, and binaries are moved aside while they are
replaced.  `RaiseLimit` is the user who changes a limit in between.  `RemoveUnits`
takes away the unit of k0s and its drop-ins as `reset` does; the link named after
the application stays, with the file of the dynamic limits and the list of modules.  `cmd.step`
is where the command is; `AfterSetup`, `AfterUnits` and `AfterReset` give the
step that follows.

### Charts and Rollout

One process (an install, then the pods of one Job per release) works through
`InstallList` or `UpgradeList`.  For each chart: condition *Processing*, the
objects beside the chart (hooks that an earlier helm left, S3 credentials,
seaweedfs' restart), helm, condition *Processed*.  `HelmBegins` and what follows
keep helm's own states, pending ones included, so that the next attempt meets
them.  `diffExtensions` compares two configurations.  `Rollout` knows only the
releases and which version of each chart is deployed; the refinement maps
helm's releases to it.  The comparison is with the Installation before, whatever
became of it: an extension that a failed upgrade should have removed is in no
later difference and stays deployed.

### MigrationV2

The pod's steps from scaling the operator down to marking the migration
complete, the operator of v1 that reconciles as long as its pod is there, k0s
that follows the ClusterConfig, and the loop that takes the finalizers away.

### Delivery

`Lint` ends with what lint says of a release, `Ship` parses it (`Releases`),
`Check` is one step of install or restore (`InstallChecks`: `CheckFlags` ..
`InstallCluster`, in the order of `preRunInstall`, `verifyAndPrompt` and
`runInstall`), `Installed` records the installation and makes the values of the
charts (`AddOnValues`), `Join` is the check of a host that joins, `Operate`
enable-ha, the upgrade's values and updates of the application (`Updates`),
`TakeBackup` writes the backup's annotations, and `Restore` begins on another
host, with the advice that a refusal gives followed (`FollowAdvice`).  Networks
are blocks of a small address space; an override, a file and a document are
records of what the checks tell apart.  Admin Console, vendor portal and user
are outside the code, as the code relies on them.

## What is checked

Bounds are small because the state of one machine or one attempt is all that
most of the code looks at: two machines give a node that lags behind or joins
late, two releases an upgrade that finds the remains of another, and one to
three errors or kills put an interruption between any two writes and a second
one into the recovery from it.

| run | instance | what it shows |
|---|---|---|
| `upgrade_airgap` | 2 nodes and one that joins at any time, airgap, 2 upgrades of which the second keeps the first one's Kubernetes, 2 addons and 1 extension, backoff limit 1 (a first and a last attempt), 1 error, 1 kill, 1 failed plan, 4 commands | `ClusterUpgrade` is implemented (no node before its pause image, no component image before the nodes, charts in order), a failure is final, the status is truthful, a pod deletes its own plan (the plan that loads images and two releases' plans of one version meet under one name) |
| `upgrade_decided` | 1 member, a machine that joins at any time, a plan that may fail, with fairness | every Job ends with the Installation `Installed` or `Failed` |
| `restore_ha` | 3 backups of which 1 cannot be restored here and 1 is of a highly available cluster, 3 interruptions, 1 failing restore, 3 controllers | one backup only, components in order and the state forgotten only at the end (`RestoreIsWhole`), no high availability under a restore, and completion |
| `ha_sequential` | 3 commands one after another, 2 images, 1 error, 1 kill, 1 failed pod | what a wanted pod of the registry accepted is in a store, and in S3 once that is configured (`NoImageLeftBehind`), the Installation's flag is true, the registry comes back unless its command is killed or the scaling back fails too |
| `artifacts_airgap` | 3 commands for 2 installations, 2 nodes of which one joins, 1 error, 1 kill, 3 failing pods (more than the backoff limit of 1) | one pod per node writes and a command's Jobs stay (`CopiesAreSafe`), success means artifacts in place, every command ends |
| `reconciler_upgrade` | 2 Installations, 2 machines with 2 joins or changes between them (two nodes in one batch, or one that leaves and comes back), 1 error | preflight results before the status and no node reported twice by one Installation (`NodesAreNoticed`), no state undone, the status converges |
| `machines` | 2 machines, 2 data directories, k0s 1.35 and 1.36 (whose containerd drop-ins differ), 4 commands, 1 failure, kill or signal at any step | what a command left is found by the next one and reset finds k0s's data (`LeftoversFound`), workers that joined keep a controller (`LastController`), every end is reported, and rightly (`MetricsAreTrue`) |
| `host_setup` | 2 configurations, 3 hosts (firewalld running, stopped, absent), 3 commands, 2 faults, 1 reboot besides those of reset, 1 limit raised by the user | a host that was prepared has its limits, files, firewall and services as its configuration has them, over reboots (`SetupHolds`), reset takes back the k0s services, the mirror, the files it names and, without an error, the firewall (`UndoneByReset`) |
| `charts` | 6 addons, 3 extensions over 4 releases (one changed, one removed and added again, one added and removed; the last upgrade finds what a failed one left), 2 faults, 1 kill, high availability at some time | conditions tell the truth, extensions in order and current, no hook in helm's way, credentials kept (`ChartsAreCurrent`), completed charts are left alone and masters restarted (`RetriesAreCareful`), every process ends, `Rollout` is implemented |
| `migration_v2` | 3 charts, k0s with and without a delay, 4 errors, 3 writes of the operator, backoff limit 2 | without the delay no release is uninstalled and complete means complete (`MigrationIsSafe`), and the Job ends |
| `delivery` | 921 releases, hosts and requests; addresses of 5 bits; 2 hosts that join, 1 to restore on, 6 ways to ask for it; channels of up to 6 releases | what is checked early is what is relied on late: the release that was linted (`ReleaseIsSound`), the networks (`NetworksFit`), the restore and the advice for it (`RestoreFits`), the charts' values (`ValuesKept`), the order of updates (`UpdatesLead`) |

A property with several parts is a conjunction of named definitions, each with
its own comment; in `Machines`, `HostSetup`, `Charts` and `Delivery` the type
invariant is its first part.  `PROJECT.json` has a mutant for each part.

Deadlock is checked in `reconciler_upgrade`.  In the others the commands and
failures are bounded and the system may come to rest, which their
configurations say.

The bounds of `delivery` are those of its inputs: each family of scenarios
(`MCDelivery`) varies one part of the request against all the values of the
parts it meets, and leaves the others at a request that is let in.  Five bits
give two private and two other ranges of eight, blocks of two to sixteen
addresses, networks that overlap, touch, are aligned or not, and a band
(`Band`) that is smaller than some networks of services and larger than others.

### Fairness

Weak fairness, and only of what something in the system drives: a process that
runs takes its next step, Kubernetes' controllers (Jobs, Deployments, pods,
kubelets), autopilot and Velero work, and the operator, which controller-runtime
calls again after an error, after each event of an Installation, a node, a plan
or a chart, and every hour.  Nothing makes a user start a command, a machine
join or anything fail.  `Restore` is the exception: its completion is claimed
for a user who does resume it and does add the machines he is asked for.

### Disagreements found

`upgrade_retry_no_job` is a run that TLC must find violated: `CreateUpgradeJob`
returns as soon as the configmap exists, so that a command that failed before
creating the Job succeeds on its second run, and no upgrade takes place
(the quotations are in `PROJECT.json`).

The modules state more promises of comments that the code does not keep.  They
are not properties of a run; TLC refutes each with the instance named:

- `NoJobDeletedInProgress` (`Upgrade`; 1 node, backoff limit 2, 1 error, 1 kill):
  `deleteUpgradeJobs` takes a Job between two pods for one that is not in progress.
- `FailedPlanIsReplaced` (`Upgrade`; 1 node, 2 commands, 1 failed plan, with
  fairness): a failed autopilot plan is never deleted, and every later attempt
  fails on it.
- `DownWhileCopied` (`HighAvailability`; 1 command): nothing waits for the
  registry's pod to be gone before the copy begins.  With `Overlap` and 2 commands
  (two machines that join at once enable high availability at once) one also
  scales the registry up under the other's copy.
- `ImagesOnEveryNode` (`Artifacts`; a node that joins, two commands for one
  installation): distributing again keeps the old plan and never loads the
  node's images.
- `LeavesEtcd` (`Machines`; 2 machines, 1 fault): a controller whose join failed
  after its k0s entered etcd takes the only labelled controller for itself when
  it is reset, and leaves a dead member in etcd.
- `LimitsSurviveReboot` (`HostSetup`; 2 commands, 1 fault, 1 reboot): the second
  command on a host finds the limits raised by the first, writes a file that
  names none of them, and the next reboot lowers them.

In `Delivery` such cases are conditions of the properties, each named in the
comment of its part: advice computed from networks that are not aligned, charts
that the user overrode and domains that only the channel release has (both are
TODOs of the code), bundles for channels out of order, licenses whose channel is
not the release's, documents after the first that lint does not read.

Weak points that the models show and nothing in the repository promises anything
about, so that no property speaks of them:

- a pod of the upgrade's Job that is killed on its last attempt marks nothing as
  failed (`operator/pkg/cli/upgrade_job.go`);
- a copy Job that failed is kept, and every retry of the command for the same
  installation fails on it (`pkg/kubeutils/ensure.go`); two long node names that
  differ only in the middle share one Job (`operator/pkg/util/name.go`);
- a restore killed between the cluster's installation and its first recorded
  state can neither be resumed nor begun anew (`cmd/installer/cli/restore.go`);
- enable-ha has the registry scaled down and does not wait for its pod to be
  gone before the copy; what that pod still accepts may be copied or not
  (`late`, `pkg/addons/highavailability.go`);
- the deferred function that scales the registry up again logs its own errors
  only, and leaves the registry without a replica (`pkg/addons/highavailability.go`);
- a command killed during one of the two helm upgrades leaves a pending release,
  on which every later attempt at high availability fails (`pkg/helm/client.go`);
- an image pushed while helm waits for the registry on S3 is not on the disk that
  the registry is rolled back to (`ServesWhatItAccepted`, refuted with 1 command and
  1 error), and as the highly available values ask for no claim, that disk may be
  gone; what was there is in S3, from which it is then not served
  (`pkg/helm/client.go`);
- `reset` leaves the link in `/etc/systemd/system` named after the application,
  which then dangles, the file of the dynamic limits and the list of modules
  (`cmd/installer/cli/reset.go`);
- the containerd drop-in of an air gapped k0s 1.35 outlives `reset` and keeps a
  k0s 1.36 from starting (`pkg-new/hostutils/containerd.go`); so do a data
  directory that only a failed install knew, and a firewall zone that was created
  and never loaded;
- a scale down of seaweedfs' masters that times out is not waited for by the next
  attempt (`pkg/addons/seaweedfs/upgrade.go`);
- the label of a controller that is gone, but whose Node a reset left behind, lets
  a later reset remove the last controller of joined workers: the check counts
  labels and does not ask etcd for its members (`cmd/installer/cli/reset.go`);
- a migration whose last write fails keeps its condition *in progress* for good
  (`operator/pkg/cli/migratev2/migrate.go`), and a loop over finalizers there waits
  for one that comes back.

## What is proved

TLAPS checks these for all values of the constants, from each module's
assumptions on them alone unless a theorem states more.

`UpgradeProofs`:

- `TypeCorrect`: `Spec => []TypeOK`.  `TypeOK` bounds a Job's failed pods by the
  backoff limit plus one, which is not inductive: a pod may only be started
  while attempts are left.  `JobInv` adds that.
- `FailureIsFinal`: `Spec => []FailedIsFinal`.  The invariant `FinalInv` relates
  the configmap, the Job and the pod's position: a Job exists only with its
  configmap, a pod that is about to mark the Installation is on its last
  attempt, and no command creates a Job whose configmap is there.
- `OwnPlanIsDeleted`: `Spec => []DeletesOwnPlan`.  `OrderInv` adds that the Job
  that runs is the newest release's (`RunningIsNewest`), and that a command which
  has not yet created its Job finds none of its release (`CommandInv`): the plan
  a pod waited for is still its own when it deletes it by the shared name.
- `StatusStaysTruthful`: `StatusIsTruthful`.  `TruthInv` ties a pod's position to
  what the cluster has already reached (`ProgressInv`), the versions on machines,
  in reports and in the plan to releases that were created (`VersionInv`), and
  the charts to the Jobs' conditions (`ChartInv`).  Machines may join throughout:
  `JoinInv` keeps them out of the plan, and gives them the version of a release
  that exists, so that they are never past the newest one.
- `UpgradeIsARollout`: `ImplementsClusterUpgrade`.  Each step of the command, the
  pods, autopilot and the kubelets is a step of `ClusterUpgrade` or leaves what it
  shows alone.  `LayerInv` adds that a pod past its first step has its pause image
  in the cluster's configuration, and that no initial member is ahead of that image.

`ChartsProofs`, the first three from one inductive invariant, `IInv`: the types, that the
list a process works through holds what the release says of each chart
(`WorkInv`), that a process which has ended or waits has none (`StageInv`), that
the chart at hand is not yet done and its hooks are gone once it is prepared
(`HandInv`), and that seaweedfs is not done before it exists (`SeaweedInv`).

- `TypeCorrect`: `Spec => []TypeOK`.
- `CompletedIsKept`: `ProcessedOnce`, a part of `RetriesAreCareful`.
- `ChartsFollowReleases`: `ImplementsRollout`, for all configs and extensions.
- `ChartsStayCurrent`: all of `ChartsAreCurrent`.  `ListInv` adds what the list
  of an upgrade looks like (`Ordered`) and that every extension of the two
  releases is on it or done, which gives `InOrder`; `CurrentInv` follows the
  extensions from the end of one upgrade (`SoundInv`) over the next one
  (`UpgradeInv`, `FoundInv`) to its end, which gives `InstalledIsCurrent`.  The
  premise of that property is all the upgrades so far, not the last two: with
  three releases the weaker one passes, with four it does not.
- `ConditionsAreTrue`: parts of it.  A condition that is true means that an add-on
  or an upgraded extension is deployed as the release wants it, that a removed
  extension is gone, and of an installed one only that some release of it exists
  (`RecordedExists`): a release that failed is taken for an installed one.
- `RetriesStayCareful`: all of `RetriesAreCareful`.  `MasterInv` relates the
  masters' replicas to how far seaweedfs has come: a release with the HA values
  leaves no single master from the moment helm is given them (`ScaleInv`), a
  successful upgrade has reached seaweedfs (`SeaweedListed`, `SeaweedDone`), and
  what helm rolls back to is then no older than the release before
  (`SeaweedNewer`).

`ReconcilerProofs`, all from one inductive invariant, `IInv`:

- `CacheInv`: what the cache takes to be current is what the API server has;
- `UpgradeInv`: Installations after the upgrade's own do not exist yet, and its
  own has the state of the upgrade's progress;
- `ReconcileInv`: a reconciliation whose write will be accepted holds the state
  that is there, of an Installation in use, and does not know fewer nodes;
- `PreflightInv`: whoever is known in a status, in the cache or in memory has a
  Job, or is on the list of those about to have one;
- `AddedInv`: a member that its Installation does not know, or that is in the
  batch, has joined more often than it was reported.  It is stated for the API's
  status, for the one in memory and for the batch, because the write moves the
  one into the other while the node may leave and join again; it needs
  `ReconcileInv` to know that the batch of an accepted write was computed from
  the status it replaces.

`TypeCorrect`, `PreflightsAreCopied` and `NodesAreAddedOnce` follow from it, and
`NodesNoticedOnce` from the last two.
`StateIsAlwaysKept` adds that an obsolete Installation has no nodes
(`ObsoleteInv`) and that a step never lowers a state's rank.

`CommandProofs`, on `HostSetup`, for all hosts, runtime configs, limits, kernel
modules and ports, and any number of commands, faults, reboots and raised limits:

- `HostIsPrepared`: `HostSpec => []SetupHolds`, and `ResetUndoes`:
  `HostSpec => []UndoneByReset`.  Neither is inductive: both speak of the end of a
  command whose effects were made up to twenty steps before, by steps that may fail
  and be tolerated, and of which the next command finds only what is on the host.
  `HostInv` is the induction.  `Rank` and `ResetRank` number the steps of
  `ConfigureHost` and of `reset`, and for each part of the host one conjunct says
  what is done when the command is past a step:
  - `FilesInv`: each file past its step is whole, also the binary that is not written
    because it runs from the data directory;
  - `SystemInv`: the limits are in force or named by the generated file, then in force;
    modules and NetworkManager likewise, unless the failure was tolerated;
  - `ZoneInv`: what the zone's files have before the reload; where firewalld does not
    run nothing was ever written, and a zone that does not exist has no entries;
  - `PreparedInv`: after `ConfigureHost` the files of sysctl, modules-load,
    NetworkManager and firewalld say what is in force, so that a reboot brings it back
    (all but the limits, which is why `LimitsRaised` ends at a reboot);
  - `MirrorInv`, `ServicesInv`, `EndInv`: a mirror without a unit does not run; a setup
    that found no service has made exactly those of the steps behind it, so that at the
    last one the mirror serves the config and goes on doing so after crashes and boots;
  - `ResetInv`: what each step of `reset` has taken back stays so until its reboot.  The
    zone in force and the one in the files must both exist or neither when it begins,
      which is the condition `half` of `UndoneByReset`; that and an error of firewalld
    exempt the firewall only.  The link named after the application, the file of the
    dynamic limits and the list of modules are not taken back, and nothing is claimed
    of them.

  TLC checked these conjuncts on the states of the run `host_setup` before they were
  proved.

On `HighAvailability`:

- `TypeCorrect`: `Spec => []TypeOK`, also of commands that overlap.
- `ImagesAreKept` and `FlagIsTrue`: `NoImageLeftBehind` and `HAIsComplete`, for
  commands that follow one another (`~Overlap`).  The assumption is needed: of two
  commands that overlap one scales the registry up under the other's copy, as the
  refuted `DownWhileCopied` shows.  Nothing is assumed of helm, which may roll back
  at any of its upgrades, nor of when a pod stops; what a pod accepts that its
  Deployment does not want any more (`late`) is not claimed to be kept.
  `SequentialInv` has one command running (`OneCommand`), S3 configured exactly with
  two replicas and by every release that was once good, and all images that count
  in S3 then (`RegistryInv`); from the decision to migrate the disk as the store,
  from the scaling down no replica, and what the pod has started from covering what
  is not yet in S3, so that everything is there when helm begins (`MigrationInv`);
  and the flag unset until a command that has done everything sets it (`FlagInv`).

`ArtifactsProofs`:

- `TypeCorrect`: `Spec => []TypeOK`; a Job that is tried has a failure left
  (`TriesLeft`).
- `CopiesExclude` and `JobsAreThere`: `OneCopyAtATime` and `JobsStay`, also with
  names that are cut to one.  `PodsInv` ties a pod to a Job that is active or
  being deleted and to that Job's node, so that a name is free only when its pod
  has gone; `JobsInv` has only the Jobs of earlier installations deleted while a
  command waits.
  `CopiesStaySafe` is the two together.
- `SuccessIsReal`: `SuccessMeansPlaced`, when no two nodes' names are cut to one
  (`DistinctNames`; two such nodes share a Job, and only one gets the artifacts).
  `PlacedInv`: a Job that has succeeded has left its artifacts in place, a
  machine that is joining has no Job, and from the end of the wait nothing writes
  to the nodes the command found.  `LoadedInv`: without interruptions a plan with
  images left to load is the running command's.

`RestoreProofs`, all from one inductive invariant, `IInv`:

- `BeginInv`: a backup is chosen only in a cluster into which nothing has been
  restored, which is why a run that starts over must stop at the cluster it finds;
- `OneInv`: once something is restored, the configmap names that backup until the
  end, and a command that goes on holds the same name;
- `OrderInv`: what comes before the configmap's state, the command's state and
  every Restore object is done (`Done`), and done stays done;
- `FinishInv`: without a state in the configmap either nothing or everything was
  restored, and the Installation is `Installed`.

`TypeCorrect`, `OneBackupOnly`, `ComponentsInOrder`, `EndIsComplete` (together
`RestoreStaysWhole`) and `NoHAUnderRestore` follow.  `Restore`'s constants only need at least one
controller and restorable backups that exist.

`DeliveryProofs`, on `Delivery`, for any address width, files, hosts, requests and
channels.  The assumptions say what is given: the inputs are well typed, the vendor
portal writes a channel release only with domains that it knows and for a release
that it promoted (`ScenariosAssumption`), the default networks parse
(`DefaultsAssumption`), private ranges are at least as large as the smallest block
that is let in (`PrivatesAssumption`), and the index of the registry's address is not
one below a power of two (`RegistryIndexAssumption`; the code's is 10, and with 15 the
address in a network of sixteen would be the one after its end).

- `DeliveryHolds`: `DeliveryInv`.  Each property compares what is computed late with
  what was checked many steps before from other variables, some of which have changed
  since: restore parses the release again and runs on another host, an update takes the
  place of the version, a host that was refused is reset.  So the invariant says at
  each step what the steps behind it have established:
  - `GivenOK`, `ReleaseOK`: what was asked for and shipped is still what the scenario
    gave, and the release is what the parser makes of the vendor's files (for a restore
    also the next version);
  - `ProgressOK`, `NetworksOK`, `PartsOK`, `HostK0sOK`: what a run past the networks,
    the proxy, the license, the bundle and the cluster's installation knows, in the
    order of `StepsOf`; a refusal leaves the host as it was;
  - `ClusterOK`, `BackupOK`, `AdviceOK`: the networks, the proxy and the nodes of the
    cluster, what a backup recorded of it, and from which mismatch an advice comes;
  - `ValuesOK`: the first values of each chart are those of the recorded installation,
    and enable-ha and every upgrade computes them again from the same inputs;
  - `AppOK` with `RequiredHaveRun` and `KubernetesByStep`: what ran before the current
    release;
  - `LintOK`: what is already known of the files and documents behind the one at hand,
    also when no error was found.
- `NetworksAlwaysFit`, `RestoresAlwaysFit`, `ValuesAreKept`, `UpdatesAlwaysLead`,
  `ReleasesAreSound`: the five properties of the run.

The lemmas below them are about numbers and sequences of any size.  The library's
induction takes an operator, so `LeastNumber` takes its place: a set of numbers that
is not empty has a least one, by well-foundedness.  `PowerStep` counts subsets to get
`2^(n+1) = 2 * 2^n`; with it blocks are nested or apart, halves are adjacent and their
supernet is the block they were cut from, and the registry's address lies in the
services' network.  Folds are recursive functions (`Folds`, `Functions`), unfolded one
element at a time.  A channel in which each version is after the one before is in
order throughout (`UpwardInOrder`), from which `NeverStranded` follows.

TLC checked `DeliveryInv` on the states of the run `delivery` before it was proved.
The proof changed the model where it said less than the code: networks are adjacent,
and a band has a lower end, only if they parse (`NetworksAreAdjacentAndSameSize`,
`LowerBandIP`), and the network that would be twice an address space is the malformed
`/-1` of the code.  `AdviceLeads` has a condition more than TLC needed: with an
override the checked networks are not those of the flag that was advised.

On `MigrationV2`, about clusters whose k0s follows its ClusterConfig at once
(`late = FALSE`; with a delay k0s may give a chart its finalizer back after the
pod has removed it, and then both properties fail), but for the first:

- `MigrationTypeCorrect`: `MigrationSpec => []MigrationTypeOK`, with the delay too.
  `TInv` adds that only an active Job has a pod and that it is active only while it may
  replace one, which bounds the failed pods by the backoff limit plus one.
- `KeepsReleases`: `NothingUninstalled`, whatever fails and however the pods of
  the Job and the operator follow one another.  `IInv` relates the pod's step,
  the operator's pod and the resources: once the pod has waited for the operator
  nothing reconciles, and a chart is taken from the ClusterConfig only when its
  finalizer is gone.
- `Completes`: `MigrationIsComplete`, from the same invariant; `MigrationStaysSafe`
  is both.

`MachinesProofs`, for any number of machines, commands and faults:

- `Invariance`: `IInv`, which goes through the commands step by step.  `StepOK` has
  each command at one of its own steps, `DiskOK` what the steps before it have
  written and what an unbroken machine with a unit of k0s has on its disk (the k0s
  configuration, and in `config` the directory k0s was installed with), `EventsOK`
  what was reported.  `ClusterInv` has one data directory in a cluster whose
  commands run one after the other, by way of the Installation object: it is there
  before anything can join, and a k0s that is up was installed with its directory.
- `LeftoversAreFound` (`LeftoversFound`, with the type invariant) and
  `ReportsAreTrue` (`MetricsAreTrue`) follow.
- `WorkersKeepAController`: `LastController`, from a second invariant, `ControlInv`,
  on top of `IInv`.  Its heart is a count.  Labels are on members of etcd
  (`MemberOK`), and etcd answers only with a quorum of live members.  If the
  machine that is to be reset were the only live member, the quorum would make it
  the only member, so there would be at most one label and `Safe` would refuse,
  as a joined worker is a Node without a label.  `Beside` keeps the other
  controller alive until the reset ends (`ResetOK`): nothing else runs then, and k0s
  on the others only joins.  `K0sOK` excludes that a k0s that is about to start a
  cluster wipes the one that is there.  Both `IInv` and `ControlInv` were checked
  by TLC on two and three machines before they were proved.

Only model-checked: liveness (`JobIsDecided`, `RestoreCompletes`, `RegistryComesBack`,
`EveryCommandEnds`, `StatusConverges`, `UpgradesEnd`, `JobEnds`), because the prover
does not treat fairness and `ENABLED`.  Every invariant and every other action property
and refinement of the runs that pass is a theorem.

## Plan

What is left, in this order:

1. A run for each promise that is stated and not kept (above), and for
   `EveryNodeIsUpgraded` and `OldAreObsolete` (`Upgrade`), `PortIsRestored`
   (`Restore`), `MigratedOnce` (`HighAvailability`) and `SuccessMeansPlaced` with
   `LongNames` (`Artifacts`).
2. `Machines` composed with the joining machines of `Upgrade` and `Restore`: a
   node that is reset while an upgrade or a restore waits for it.

## What is not modelled

The static part of the charts' values, helm's binary, KOTS and Replicated's API
beyond what the checks ask of them, the preflights' analysers other than the
networks', the mirror's HTTP server, most metrics, and the build tooling: input
and output in sequence, or services outside the repository.  `InfraUpgrader`
repeats the upgrade's steps, and `SyncLicense`, the license signature and
`ValidateIsReleaseUpgradable` serve, a caller that is not in the repository; the
last is modelled all the same (`Updates`), with the Admin Console as the caller.
Two upgrade commands at once are excluded, as the admin console excludes them.
OpenEBS' pods, claims and volumes, which the reconciler deletes for nodes that
are gone, are left out: nothing else in the repository reads them.
