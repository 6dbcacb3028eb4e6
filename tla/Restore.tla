------------------------------ MODULE Restore ------------------------------
(***************************************************************************)
(* Restoring a cluster from a backup (cmd/installer/cli/restore.go,        *)
(* pkg/disasterrecovery/backup.go).                                        *)
(*                                                                         *)
(* `restore` installs an empty cluster, waits for Velero to find the       *)
(* backups in the object store, picks one and restores it component by     *)
(* component, each through a Velero Restore object of its own.  The state  *)
(* reached is kept in a configmap before each step; a run that was         *)
(* interrupted is started again by the user and goes on from there.        *)
(* Other machines join half way, and the last to join asks itself whether  *)
(* high availability can be enabled.                                       *)
(***************************************************************************)
EXTENDS Naturals, Sequences, FiniteSets

CONSTANTS
  BackupCount,    \* backups are 1 .. BackupCount, in the order they completed
  Restorable,     \* those of this application, version and configuration
  HighAvailability, \* the backups of highly available clusters
  AirGap,         \* the installation is an airgap one
  ImprovedDR,     \* a backup is in two parts, and the application in its own
  MaxControllers, \* bound: control plane nodes
  MaxInterrupts,  \* bound: runs that are killed, fail or are declined
  MaxFailures     \* bound: Velero restores that fail

Backups  == 1..BackupCount
NoBackup == 0

ASSUME ConstantsAssumption ==
  /\ BackupCount \in Nat /\ MaxControllers \in Nat \ {0}
  /\ Restorable \subseteq Backups /\ HighAvailability \subseteq Backups
  /\ AirGap \in BOOLEAN /\ ImprovedDR \in BOOLEAN
  /\ {MaxInterrupts, MaxFailures} \subseteq Nat

ecRestoreStates ==
  <<"new", "confirm-backup", "restore-ec-install", "restore-admin-console",
    "wait-for-nodes", "restore-seaweedfs", "restore-registry",
    "admin-console-enable-ha", "restore-embedded-cluster-operator",
    "restore-extensions", "restore-app">>

States      == {ecRestoreStates[k] : k \in 1..11}
LaterStates == States \ {"new", "confirm-backup"}
Index(s)    == CHOOSE k \in 1..11 : ecRestoreStates[k] = s
Before(s)   == {t \in States : Index(t) < Index(s)}

(* The steps that restore a component from the backup.                    *)
Components ==
  {"restore-ec-install", "restore-admin-console", "restore-seaweedfs",
   "restore-registry", "restore-embedded-cluster-operator", "restore-app"}

VARIABLES
  k0s,          \* a cluster is installed on this machine
  storage,      \* Velero has the backup storage location
  synced,       \* the parts of each backup that Velero has found
  cm,           \* the restore state's configmap
  modifiers,    \* backup whose addresses the resource modifiers hold
  restores,     \* phase of each backup's Restore objects
  installation, \* the Installation object: its state, port and HA flag
  extensions,   \* the extensions are installed
  adminHA,      \* the admin console runs highly available
  controllers,  \* control plane nodes
  joiner,       \* the join command that may enable high availability
  run,          \* the restore command: its state, phase, backup and port
  spent         \* how much of each bound is used up

cluster == <<storage, synced, installation, extensions, adminHA, controllers>>
vars == <<k0s, cluster, cm, modifiers, restores, joiner, run, spent>>

NoState == [state |-> "new", backup |-> NoBackup]
Idle    == [state |-> "new", phase |-> "idle", backup |-> NoBackup, port |-> "default"]
Phases  == {"idle", "verify", "install", "storage", "set", "run", "create",
            "wait", "after", "afterPort"}
Ports   == {"default", "backup"}
Parts   == IF ImprovedDR THEN {"infra", "app"} ELSE {"legacy"}

(* A state past confirm-backup comes with a backup, in the configmap and   *)
(* in the command alike.                                                  *)
WithBackup(rec) == (rec.state \in LaterStates) = (rec.backup # NoBackup)

TypeOK ==
  /\ k0s \in BOOLEAN /\ storage \in BOOLEAN
  /\ synced \in [Backups -> SUBSET Parts]
  /\ cm \in [state: States, backup: Backups \cup {NoBackup}] /\ WithBackup(cm)
  /\ modifiers \in Backups \cup {NoBackup}
  /\ restores \in [Backups -> [Components -> {"none", "InProgress", "Completed", "Failed"}]]
  /\ installation \in [state: {"absent", "Unset", "KubernetesInstalled", "Installed"},
                       port: Ports, ha: BOOLEAN]
  /\ extensions \in BOOLEAN /\ adminHA \in BOOLEAN
  /\ controllers \in 1..MaxControllers
  /\ joiner \in {"none", "check", "enable"}
  /\ run \in [state: States, phase: Phases, backup: Backups \cup {NoBackup}, port: Ports]
  /\ WithBackup(run)
  /\ spent \in [{"interrupts", "failures"} -> Nat]

Init ==
  /\ k0s = FALSE /\ storage = FALSE
  /\ synced = [b \in Backups |-> {}]
  /\ cm = NoState
  /\ modifiers = NoBackup
  /\ restores = [b \in Backups |-> [c \in Components |-> "none"]]
  /\ installation = [state |-> "absent", port |-> "default", ha |-> FALSE]
  /\ extensions = FALSE /\ adminHA = FALSE
  /\ controllers = 1
  /\ joiner = "none"
  /\ run = Idle
  /\ spent = [b \in {"interrupts", "failures"} |-> 0]

Spend(b, bound) ==
  /\ spent[b] < bound
  /\ spent' = [spent EXCEPT ![b] = @ + 1]

IsComplete(b)   == synced[b] = Parts
IsRestorable(b) == b \in Restorable /\ IsComplete(b)

(* The wait for backups ends as soon as one is complete; the latest of    *)
(* those that can be restored is taken.                                   *)
BackupsListed == \E b \in Backups : IsComplete(b)
IsLatest(b)   == IsRestorable(b) /\ \A d \in Backups : IsRestorable(d) => d <= b

(* Steps that have nothing to do for this backup.                         *)
Applies(s, b) ==
  /\ s \in {"restore-seaweedfs", "restore-registry"} => AirGap
  /\ s \in {"restore-seaweedfs", "admin-console-enable-ha"} => b \in HighAvailability

-----------------------------------------------------------------------------
(* Starting the command.                                                   *)

Begin(s, phase, b, port) ==
  run' = [state |-> s, phase |-> phase, backup |-> b, port |-> port]
StartFrame == UNCHANGED <<k0s, cluster, cm, modifiers, restores, joiner, spent>>

(* Mutant: a state is missing from the list of the known ones.            *)
ForgetsState(s) == IF s = "wait-for-nodes" THEN "new" ELSE s

(* The configmap's state, if it is one of the list.                       *)
getECRestoreState(s) == IF s \in States THEN s ELSE "new"

StartNew ==
  /\ run = Idle /\ cm = NoState
  /\ Begin("new", "verify", NoBackup, run.port)
  /\ StartFrame

(* There is a state, but the user declines to resume, or it cannot be     *)
(* read.                                                                  *)
StartOver ==
  /\ run = Idle /\ cm # NoState
  /\ Spend("interrupts", MaxInterrupts)
  /\ Begin("new", "verify", NoBackup, run.port)
  /\ UNCHANGED <<k0s, cluster, cm, modifiers, restores, joiner>>

(* The backup in the configmap must still be found and restorable.  The   *)
(* port comes from that backup, or from the Installation once there is    *)
(* one.                                                                   *)
Resume ==
  /\ run = Idle /\ cm # NoState
  /\ LET s == getECRestoreState(cm.state)
         port == IF installation.state # "absent" THEN installation.port
                 ELSE IF cm.backup # NoBackup THEN "backup" ELSE "default"
     IN IF s = "new" THEN Begin("new", "verify", NoBackup, port)
        ELSE /\ cm.backup # NoBackup => IsRestorable(cm.backup)
             /\ Begin(s, "set", cm.backup, port)
  /\ StartFrame

(* The run ends: killed, or a call failed, or the user declined the       *)
(* backup it was offered.                                                 *)
Interrupted ==
  /\ run # Idle
  /\ Spend("interrupts", MaxInterrupts)
  /\ run' = Idle
  /\ UNCHANGED <<k0s, cluster, cm, modifiers, restores, joiner>>

-----------------------------------------------------------------------------
(* The steps of one run.                                                   *)

At(s, phase) == run.state = s /\ run.phase = phase
Goto(phase)  == run' = [run EXCEPT !.phase = phase]
NextState    ==
  run' = [run EXCEPT !.state = ecRestoreStates[Index(run.state) + 1], !.phase = "set"]
Frame == UNCHANGED <<joiner, spent>>

(* Mutant: an existing cluster is restored into.                          *)
VerifyNothing ==
  /\ At("new", "verify")
  /\ Goto("install")
  /\ UNCHANGED <<k0s, cluster, cm, modifiers, restores>> /\ Frame

verifyNoInstallation ==
  /\ At("new", "verify")
  /\ IF k0s THEN run' = Idle ELSE Goto("install")
  /\ UNCHANGED <<k0s, cluster, cm, modifiers, restores>> /\ Frame

installAndStartCluster ==
  /\ At("new", "install")
  /\ k0s' = TRUE
  /\ Goto("storage")
  /\ UNCHANGED <<cluster, cm, modifiers, restores>> /\ Frame

(* The addons, Velero among them, and the backup storage location.        *)
ConfigureStorage ==
  /\ At("new", "storage")
  /\ storage' = TRUE
  /\ run' = [run EXCEPT !.state = "confirm-backup", !.phase = "set"]
  /\ UNCHANGED <<k0s, synced, installation, extensions, adminHA, controllers,
                 cm, modifiers, restores>> /\ Frame

(* Mutant: the name of the backup is only saved with the first component. *)
SaveNameOnce ==
  /\ run.phase = "set"
  /\ cm' = [state |-> run.state,
            backup |-> IF run.state = "restore-ec-install" THEN run.backup ELSE NoBackup]
  /\ Goto("run")
  /\ UNCHANGED <<k0s, cluster, modifiers, restores>> /\ Frame

setECRestoreState ==
  /\ run.phase = "set"
  /\ cm' = [state |-> run.state, backup |-> run.backup]
  /\ Goto("run")
  /\ UNCHANGED <<k0s, cluster, modifiers, restores>> /\ Frame

ConfirmBackup ==
  /\ At("confirm-backup", "run")
  /\ BackupsListed
  /\ \/ /\ ~\E b \in Backups : IsRestorable(b)
        /\ run' = Idle
     \/ \E b \in Backups :
          IsLatest(b) /\ Begin("restore-ec-install", "set", b, run.port)
  /\ UNCHANGED <<k0s, cluster, cm, modifiers, restores>> /\ Frame

Skip ==
  /\ run.phase = "run" /\ run.state \in LaterStates
  /\ ~Applies(run.state, run.backup)
  /\ NextState
  /\ UNCHANGED <<k0s, cluster, cm, modifiers, restores>> /\ Frame

AtComponent(phase) ==
  /\ run.phase = phase /\ run.state \in Components
  /\ Applies(run.state, run.backup)

(* The application of an improved backup is restored without the resource *)
(* modifiers.                                                             *)
NeedsModifiers == ~(ImprovedDR /\ run.state = "restore-app")

(* The Installation becomes Installed before the application is restored. *)
RestoreApp ==
  installation' = IF run.state = "restore-app"
                  THEN [installation EXCEPT !.state = "Installed"] ELSE installation

(* An existing Restore object is used as it is.                           *)
EnsureResourceModifiers ==
  /\ AtComponent("run")
  /\ RestoreApp
  /\ \/ /\ restores[run.backup][run.state] # "none"
        /\ Goto("wait") /\ UNCHANGED modifiers
     \/ /\ restores[run.backup][run.state] = "none"
        /\ Goto("create")
        /\ modifiers' = IF NeedsModifiers /\ modifiers = NoBackup THEN run.backup ELSE modifiers
  /\ UNCHANGED <<k0s, storage, synced, extensions, adminHA, controllers, cm, restores>>
  /\ Frame

CreateRestore ==
  /\ AtComponent("create")
  /\ restores' = [restores EXCEPT ![run.backup][run.state] = "InProgress"]
  /\ Goto("wait")
  /\ UNCHANGED <<k0s, cluster, cm, modifiers>> /\ Frame

(* Mutants: a restore that exists is taken to be done; one that has ended *)
(* is taken to have succeeded.                                            *)
WaitForNothing ==
  /\ AtComponent("wait")
  /\ Goto("after")
  /\ UNCHANGED <<k0s, cluster, cm, modifiers, restores>> /\ Frame
WaitForItsEnd ==
  /\ AtComponent("wait")
  /\ restores[run.backup][run.state] # "InProgress"
  /\ Goto("after")
  /\ UNCHANGED <<k0s, cluster, cm, modifiers, restores>> /\ Frame

waitForVeleroRestoreCompleted ==
  /\ AtComponent("wait")
  /\ \/ restores[run.backup][run.state] = "Completed" /\ Goto("after")
     \/ restores[run.backup][run.state] = "Failed" /\ run' = Idle
  /\ UNCHANGED <<k0s, cluster, cm, modifiers, restores>> /\ Frame

(* The Installation's port, then its state, are brought up to date.        *)
restoreReconcileInstallationFromRuntimeConfig ==
  /\ run.state = "restore-ec-install"
  /\ \/ /\ run.phase = "after"
        /\ installation' = [installation EXCEPT !.port = run.port]
        /\ Goto("afterPort")
     \/ /\ run.phase = "afterPort"
        /\ installation' = [installation EXCEPT !.state = "KubernetesInstalled"]
        /\ NextState
  /\ UNCHANGED <<k0s, storage, synced, extensions, adminHA, controllers, cm,
                 modifiers, restores>> /\ Frame

(* After the application the restore is over and the configmap deleted.   *)
AfterComponent ==
  /\ AtComponent("after") /\ run.state # "restore-ec-install"
  /\ IF run.state = "restore-app" THEN cm' = NoState /\ run' = Idle
     ELSE NextState /\ UNCHANGED cm
  /\ UNCHANGED <<k0s, cluster, modifiers, restores>> /\ Frame

(* The user says when all nodes are there; a highly available cluster     *)
(* needs three controllers.                                               *)
waitForAdditionalNodes ==
  /\ At("wait-for-nodes", "run")
  /\ run.backup \in HighAvailability => controllers >= 3
  /\ NextState
  /\ UNCHANGED <<k0s, cluster, cm, modifiers, restores>> /\ Frame

EnableAdminConsoleHA ==
  /\ At("admin-console-enable-ha", "run")
  /\ Applies(run.state, run.backup)
  /\ adminHA' = TRUE
  /\ NextState
  /\ UNCHANGED <<k0s, storage, synced, installation, extensions, controllers,
                 cm, modifiers, restores>> /\ Frame

RestoreExtensions ==
  /\ At("restore-extensions", "run")
  /\ extensions' = TRUE
  /\ NextState
  /\ UNCHANGED <<k0s, storage, synced, installation, adminHA, controllers,
                 cm, modifiers, restores>> /\ Frame

Step ==
  \/ verifyNoInstallation \/ installAndStartCluster \/ ConfigureStorage
  \/ setECRestoreState \/ ConfirmBackup \/ Skip \/ EnsureResourceModifiers
  \/ CreateRestore \/ waitForVeleroRestoreCompleted
  \/ restoreReconcileInstallationFromRuntimeConfig \/ AfterComponent
  \/ waitForAdditionalNodes \/ EnableAdminConsoleHA \/ RestoreExtensions

-----------------------------------------------------------------------------
(* Velero, and the machines that join.                                     *)

(* The parts of the backups appear one by one, in any order.              *)
VeleroSync ==
  /\ storage
  /\ \E b \in Backups, p \in Parts :
       p \notin synced[b] /\ synced' = [synced EXCEPT ![b] = @ \cup {p}]
  /\ UNCHANGED <<k0s, storage, installation, extensions, adminHA, controllers,
                 cm, modifiers, restores, joiner, run, spent>>

(* The Installation is restored as it was when the backup was taken; its  *)
(* status is not: "Unset" is the empty state.                             *)
VeleroComplete(b, c) ==
  /\ restores[b][c] = "InProgress"
  /\ restores' = [restores EXCEPT ![b][c] = "Completed"]
  /\ installation' = IF c = "restore-ec-install"
       THEN [state |-> "Unset", port |-> "backup", ha |-> b \in HighAvailability] ELSE installation
  /\ UNCHANGED <<k0s, storage, synced, extensions, adminHA, controllers, cm,
                 modifiers, joiner, run, spent>>

VeleroFail(b, c) ==
  /\ restores[b][c] = "InProgress"
  /\ Spend("failures", MaxFailures)
  /\ restores' = [restores EXCEPT ![b][c] = "Failed"]
  /\ UNCHANGED <<k0s, cluster, cm, modifiers, joiner, run>>

(* A machine joins with the restored admin console's token.               *)
Join ==
  /\ \E b \in Backups : restores[b]["restore-admin-console"] = "Completed"
  /\ joiner = "none" /\ controllers < MaxControllers
  /\ controllers' = controllers + 1
  /\ joiner' = "check"
  /\ UNCHANGED <<k0s, storage, synced, installation, extensions, adminHA, cm,
                 modifiers, restores, run, spent>>

(* Mutant: a restore in progress is not looked for.                       *)
EnoughNodes == ~installation.ha /\ controllers >= 3

CanEnableHA == ~installation.ha /\ cm = NoState /\ controllers >= 3

MaybeEnableHA ==
  /\ joiner = "check"
  /\ joiner' = IF CanEnableHA THEN "enable" ELSE "none"
  /\ UNCHANGED <<k0s, cluster, cm, modifiers, restores, run, spent>>

EnableHA ==
  /\ joiner = "enable"
  /\ joiner' = "none"
  /\ adminHA' = TRUE
  /\ installation' = [installation EXCEPT !.ha = TRUE]
  /\ UNCHANGED <<k0s, storage, synced, extensions, controllers, cm, modifiers,
                 restores, run, spent>>

Velero == VeleroSync \/ \E b \in Backups, c \in Components : VeleroComplete(b, c)
Joins  == Join \/ MaybeEnableHA \/ EnableHA

Next ==
  \/ StartNew \/ StartOver \/ Resume \/ Interrupted \/ Step
  \/ Velero \/ \E b \in Backups, c \in Components : VeleroFail(b, c)
  \/ Joins

Spec == Init /\ [][Next]_vars

(* Fairness: the command runs on, Velero works, and the user does what he *)
(* is asked to: resumes an interrupted restore and adds the machines.     *)
Fairness == WF_vars(Resume) /\ WF_vars(Step) /\ WF_vars(Velero) /\ WF_vars(Joins)
FairSpec == Spec /\ Fairness

-----------------------------------------------------------------------------
(* Properties.                                                             *)

(* Whatever is interrupted, resumed, declined or started anew, everything *)
(* that is restored into one cluster comes from one backup, with the      *)
(* addresses of that backup, also when newer backups turn up meanwhile.   *)
Used(b) == modifiers = b \/ \E c \in Components : restores[b][c] # "none"
OneBackup == \A b, d \in Backups : Used(b) /\ Used(d) => b = d

(* A component is restored only after everything that comes before it has *)
(* been restored completely, the machines of a highly available cluster,  *)
(* its admin console and the extensions included.                         *)
RestoredInOrder ==
  \A b \in Backups, c \in Components : restores[b][c] # "none" =>
    /\ \A d \in Components \cap Before(c) :
         Applies(d, b) => restores[b][d] = "Completed"
    /\ "admin-console-enable-ha" \in Before(c) /\ b \in HighAvailability =>
         controllers >= 3 /\ adminHA
    /\ "restore-extensions" \in Before(c) => extensions

(* The state is forgotten only when every component has been restored.    *)
FinishedIsComplete ==
  cm = NoState /\ installation.state # "absent" =>
    \E b \in Backups : \A c \in Components :
      Applies(c, b) => restores[b][c] = "Completed"

(* At every moment of the restore what counts as done is whole.            *)
RestoreIsWhole ==
  /\ RestoredInOrder
  /\ FinishedIsComplete

(* No machine that joins enables high availability under a restore, which *)
(* would migrate a registry that is being restored.                       *)
NoHADuringRestore ==
  joiner = "enable" => cm = NoState /\ installation.state = "Installed"

(* A restore past its first state, interrupted anywhere and resumed, is   *)
(* completed, unless Velero fails at one of its parts.                    *)
RestoreCompletes ==
  cm # NoState ~> \/ cm = NoState /\ installation.state = "Installed"
                  \/ spent["failures"] > 0

(* The installation's port is the one of the original installation.       *)
PortIsRestored == installation.state = "KubernetesInstalled" => installation.port = "backup"
=============================================================================
