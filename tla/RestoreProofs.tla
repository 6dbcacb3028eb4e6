--------------------------- MODULE RestoreProofs ---------------------------
(***************************************************************************)
(* What holds of Restore for every number of backups, control plane nodes, *)
(* interruptions and failures.                                             *)
(***************************************************************************)
EXTENDS Restore, TLAPS

-----------------------------------------------------------------------------
(* The order of the states.                                               *)
LEMMA IndexOfState == \A k \in 1..11 : Index(ecRestoreStates[k]) = k
<1> SUFFICES ASSUME NEW k \in 1..11 PROVE Index(ecRestoreStates[k]) = k
  OBVIOUS
<1>1. \A j \in 1..11 : ecRestoreStates[j] = ecRestoreStates[k] => j = k
  BY DEF ecRestoreStates
<1> QED
  BY <1>1 DEF Index

LEMMA StatesByName ==
  States = {"new", "confirm-backup", "restore-ec-install", "restore-admin-console",
            "wait-for-nodes", "restore-seaweedfs", "restore-registry",
            "admin-console-enable-ha", "restore-embedded-cluster-operator",
            "restore-extensions", "restore-app"}
<1>1. 1..11 = {1, 2, 3, 4, 5, 6, 7, 8, 9, 10, 11}
  OBVIOUS
<1> QED
  BY <1>1 DEF States, ecRestoreStates

LEMMA IndexByName ==
  /\ Index("new") = 1 /\ Index("confirm-backup") = 2 /\ Index("restore-ec-install") = 3
  /\ Index("restore-admin-console") = 4 /\ Index("wait-for-nodes") = 5
  /\ Index("restore-seaweedfs") = 6 /\ Index("restore-registry") = 7
  /\ Index("admin-console-enable-ha") = 8 /\ Index("restore-embedded-cluster-operator") = 9
  /\ Index("restore-extensions") = 10 /\ Index("restore-app") = 11
  BY IndexOfState DEF ecRestoreStates

NextOf(s) == ecRestoreStates[Index(s) + 1]

(* What comes before the next state is this state and what came before it.*)
LEMMA NextOfState ==
  ASSUME NEW s \in LaterStates, s # "restore-app"
  PROVE  /\ NextOf(s) \in LaterStates
         /\ Before(NextOf(s)) = Before(s) \cup {s}
<1>1. PICK k \in 1..11 : ecRestoreStates[k] = s
  BY DEF LaterStates, States
<1>2. k # 11 /\ k # 1 /\ k # 2
  BY <1>1 DEF LaterStates, ecRestoreStates
<1>3. Index(s) = k /\ NextOf(s) = ecRestoreStates[k + 1] /\ k + 1 \in 3..11
  BY <1>1, <1>2, IndexOfState DEF NextOf
<1>4. Index(NextOf(s)) = k + 1
  BY <1>3, IndexOfState
<1>5. NextOf(s) \in LaterStates
  <2>1. NextOf(s) \in States
    BY <1>3 DEF States
  <2> QED
    BY <1>3, <1>4, <2>1, IndexByName DEF LaterStates
<1>6. ASSUME NEW t \in States
      PROVE  Index(t) < k + 1 <=> Index(t) < k \/ t = s
  <2>1. PICK j \in 1..11 : ecRestoreStates[j] = t
    BY DEF States
  <2>2. Index(t) = j
    BY <2>1, IndexOfState
  <2> QED
    BY <1>1, <2>1, <2>2, <1>3
<1> QED
  BY <1>3, <1>4, <1>5, <1>6 DEF Before, LaterStates

LEMMA FirstComponent == Before("restore-ec-install") = {"new", "confirm-backup"}
  BY StatesByName, IndexByName DEF Before

LEMMA ComponentsAreLater == Components \subseteq LaterStates
  BY StatesByName DEF Components, LaterStates

-----------------------------------------------------------------------------
RunTypes     == [state: States, phase: Phases, backup: Backups \cup {NoBackup}, port: Ports]
RestoreTypes == [Backups -> [Components -> {"none", "InProgress", "Completed", "Failed"}]]

LEMMA NoBackupIsNone == NoBackup \notin Backups
  BY ConstantsAssumption DEF NoBackup, Backups

LEMMA GotoTypes ==
  ASSUME TypeOK, NEW p \in Phases, Goto(p)
  PROVE  run' \in RunTypes /\ WithBackup(run)'
  BY DEF TypeOK, RunTypes, Goto, WithBackup

LEMMA NextStateTypes ==
  ASSUME TypeOK, run.state \in LaterStates, run.state # "restore-app", NextState
  PROVE  run' \in RunTypes /\ WithBackup(run)'
<1>1. run' = [run EXCEPT !.state = NextOf(run.state), !.phase = "set"]
  BY DEF NextState, NextOf
<1>2. NextOf(run.state) \in LaterStates /\ NextOf(run.state) \in States
  BY NextOfState DEF LaterStates
<1>3. "set" \in Phases
  BY DEF Phases
<1> QED
  BY <1>1, <1>2, <1>3 DEF TypeOK, RunTypes, WithBackup

LEMMA IdleTypes == Idle \in RunTypes /\ WithBackup(Idle) /\ Idle.state = "new"
  BY StatesByName DEF Idle, RunTypes, WithBackup, Phases, Ports, LaterStates

LEMMA NoStateTypes ==
  NoState \in [state: States, backup: Backups \cup {NoBackup}] /\ WithBackup(NoState)
  BY StatesByName DEF NoState, WithBackup, LaterStates

LEMMA SpendTypes ==
  ASSUME TypeOK, NEW b \in {"interrupts", "failures"}, NEW bound, Spend(b, bound)
  PROVE  spent' \in [{"interrupts", "failures"} -> Nat]
  BY DEF TypeOK, Spend

LEMMA TypeInit == Init => TypeOK
<1> SUFFICES ASSUME Init PROVE TypeOK
  OBVIOUS
<1>1. run \in RunTypes /\ WithBackup(run)
  BY IdleTypes DEF Init
<1>2. cm \in [state: States, backup: Backups \cup {NoBackup}] /\ WithBackup(cm)
  BY NoStateTypes DEF Init
<1>3. /\ k0s \in BOOLEAN /\ storage \in BOOLEAN /\ extensions \in BOOLEAN /\ adminHA \in BOOLEAN
      /\ installation.ha \in BOOLEAN
  BY DEF Init
<1>4. installation \in [state: {"absent", "Unset", "KubernetesInstalled", "Installed"},
                        port: Ports, ha: BOOLEAN]
  BY DEF Init, Ports
<1>5. /\ synced \in [Backups -> SUBSET Parts] /\ modifiers \in Backups \cup {NoBackup}
      /\ restores \in RestoreTypes
      /\ controllers \in 1..MaxControllers /\ joiner \in {"none", "check", "enable"}
      /\ spent \in [{"interrupts", "failures"} -> Nat]
  BY ConstantsAssumption DEF Init, RestoreTypes
<1> QED
  BY <1>1, <1>2, <1>3, <1>4, <1>5 DEF TypeOK, RunTypes, RestoreTypes

LEMMA TypeStart ==
  ASSUME TypeOK, StartNew \/ StartOver \/ Resume \/ Interrupted
  PROVE  TypeOK'
<1> USE DEF cluster
<1>1. /\ UNCHANGED <<k0s, storage, synced, cm, modifiers, restores, installation, extensions,
                     adminHA, controllers, joiner>>
      /\ spent' \in [{"interrupts", "failures"} -> Nat]
  BY SpendTypes DEF TypeOK, StartNew, StartOver, Resume, Interrupted, StartFrame
<1>2. run' \in RunTypes /\ WithBackup(run)'
  <2>1. CASE StartNew \/ StartOver
    <3>1. Begin("new", "verify", NoBackup, run.port)
      BY <2>1 DEF StartNew, StartOver
    <3> QED
      BY <3>1, StatesByName DEF Begin, RunTypes, WithBackup, LaterStates, Phases, TypeOK
  <2>2. CASE Resume
    <3>1. cm.state \in States /\ getECRestoreState(cm.state) = cm.state
      BY DEF TypeOK, getECRestoreState
    <3>2. \A port \in Ports : Begin("new", "verify", NoBackup, port)
            => run' \in RunTypes /\ WithBackup(run)'
      BY StatesByName DEF Begin, RunTypes, WithBackup, LaterStates, Phases
    <3>3. \A port \in Ports : Begin(cm.state, "set", cm.backup, port)
            => run' \in RunTypes /\ WithBackup(run)'
      BY <3>1 DEF Begin, RunTypes, WithBackup, Phases, TypeOK
    <3>4. \E port \in Ports : \/ Begin("new", "verify", NoBackup, port)
                              \/ Begin(cm.state, "set", cm.backup, port)
      BY <2>2, <3>1 DEF Resume, TypeOK, Ports
    <3> QED
      BY <3>2, <3>3, <3>4
  <2>3. CASE Interrupted
    BY <2>3, IdleTypes DEF Interrupted, RunTypes, WithBackup
  <2> QED
    BY <2>1, <2>2, <2>3
<1> QED
  BY <1>1, <1>2 DEF TypeOK, WithBackup, RunTypes

(* What a step does to the command: it goes on within a state, begins the *)
(* next one, or ends.                                                     *)
LEMMA StepsOfRun ==
  ASSUME TypeOK, Step
  PROVE  \/ \E p \in Phases : Goto(p)
         \/ run' = Idle
         \/ NextState /\ run.state \in LaterStates /\ run.state # "restore-app"
         \/ At("new", "storage") /\ run' = [run EXCEPT !.state = "confirm-backup", !.phase = "set"]
         \/ /\ At("confirm-backup", "run")
            /\ \E b \in Backups : Begin("restore-ec-install", "set", b, run.port)
<1>0. {"install", "storage", "set", "run", "create", "wait", "after", "afterPort"} \subseteq Phases
  BY DEF Phases
<1>1. CASE verifyNoInstallation \/ installAndStartCluster \/ ConfigureStorage
  BY <1>0, <1>1 DEF verifyNoInstallation, installAndStartCluster, ConfigureStorage
<1>2. CASE setECRestoreState \/ EnsureResourceModifiers \/ CreateRestore
           \/ waitForVeleroRestoreCompleted
  BY <1>0, <1>2 DEF setECRestoreState, EnsureResourceModifiers, CreateRestore,
     waitForVeleroRestoreCompleted
<1>3. CASE ConfirmBackup
  BY <1>3 DEF ConfirmBackup
<1>4. CASE Skip
  BY <1>4 DEF Skip, Applies
<1>5. CASE restoreReconcileInstallationFromRuntimeConfig
  BY <1>0, <1>5, StatesByName DEF restoreReconcileInstallationFromRuntimeConfig, LaterStates
<1>6. CASE AfterComponent
  BY <1>6, ComponentsAreLater DEF AfterComponent, AtComponent
<1>7. CASE waitForAdditionalNodes \/ EnableAdminConsoleHA \/ RestoreExtensions
  BY <1>7, StatesByName DEF waitForAdditionalNodes, EnableAdminConsoleHA, RestoreExtensions, At,
     LaterStates
<1> QED
  BY <1>1, <1>2, <1>3, <1>4, <1>5, <1>6, <1>7 DEF Step

LEMMA TypeCommand == ASSUME TypeOK, Step PROVE TypeOK'
<1> USE DEF cluster, Frame
<1>1. run' \in RunTypes /\ WithBackup(run)'
  <2>1. CASE At("new", "storage") /\ run' = [run EXCEPT !.state = "confirm-backup", !.phase = "set"]
    <3>1. /\ "confirm-backup" \in States /\ "set" \in Phases
          /\ "new" \notin LaterStates /\ "confirm-backup" \notin LaterStates
      BY StatesByName DEF LaterStates, Phases
    <3>2. run \in RunTypes /\ run.backup = NoBackup
      BY <2>1, <3>1 DEF At, TypeOK, RunTypes, WithBackup
    <3>3. run' \in RunTypes /\ run'.state = "confirm-backup" /\ run'.backup = NoBackup
      BY <2>1, <3>1, <3>2 DEF RunTypes
    <3> QED
      BY <3>1, <3>3 DEF WithBackup
  <2>2. CASE \E b \in Backups : Begin("restore-ec-install", "set", b, run.port)
    <3> PICK b \in Backups :
          run' = [state |-> "restore-ec-install", phase |-> "set", backup |-> b, port |-> run.port]
      BY <2>2 DEF Begin
    <3>1. "restore-ec-install" \in States /\ "restore-ec-install" \in LaterStates /\ "set" \in Phases
      BY StatesByName DEF LaterStates, Phases
    <3>2. run.port \in Ports /\ b # NoBackup
      BY NoBackupIsNone DEF TypeOK
    <3> QED
      BY <3>1, <3>2 DEF RunTypes, WithBackup
  <2>3. CASE run' = Idle
    BY <2>3, IdleTypes DEF WithBackup
  <2> QED
    BY <2>1, <2>2, <2>3, StepsOfRun, GotoTypes, NextStateTypes
<1>2. cm' = cm \/ cm' = NoState \/ cm' = [state |-> run.state, backup |-> run.backup]
  BY DEF Step, verifyNoInstallation, installAndStartCluster, ConfigureStorage, setECRestoreState,
     ConfirmBackup, Skip, EnsureResourceModifiers, CreateRestore, waitForVeleroRestoreCompleted,
     restoreReconcileInstallationFromRuntimeConfig, AfterComponent, waitForAdditionalNodes,
     EnableAdminConsoleHA, RestoreExtensions
<1>3. cm' \in [state: States, backup: Backups \cup {NoBackup}] /\ WithBackup(cm)'
  <2>1. CASE cm' = cm
    BY <2>1 DEF TypeOK, WithBackup
  <2>2. CASE cm' = NoState
    BY <2>2, NoStateTypes DEF WithBackup
  <2>3. CASE cm' = [state |-> run.state, backup |-> run.backup]
    BY <2>3 DEF TypeOK, WithBackup
  <2> QED
    BY <1>2, <2>1, <2>2, <2>3
<1>4. installation' \in [state: {"absent", "Unset", "KubernetesInstalled", "Installed"},
                         port: Ports, ha: BOOLEAN]
  BY DEF TypeOK, Step, verifyNoInstallation, installAndStartCluster, ConfigureStorage,
     setECRestoreState, ConfirmBackup, Skip, EnsureResourceModifiers, RestoreApp, CreateRestore,
     waitForVeleroRestoreCompleted, restoreReconcileInstallationFromRuntimeConfig,
     AfterComponent, waitForAdditionalNodes, EnableAdminConsoleHA, RestoreExtensions
<1>5. modifiers' = modifiers \/ modifiers' = run.backup
  BY DEF Step, verifyNoInstallation, installAndStartCluster, ConfigureStorage, setECRestoreState,
     ConfirmBackup, Skip, EnsureResourceModifiers, CreateRestore, waitForVeleroRestoreCompleted,
     restoreReconcileInstallationFromRuntimeConfig, AfterComponent, waitForAdditionalNodes,
     EnableAdminConsoleHA, RestoreExtensions
<1>6. \/ restores' = restores
      \/ restores' = [restores EXCEPT ![run.backup][run.state] = "InProgress"]
  BY DEF Step, verifyNoInstallation, installAndStartCluster, ConfigureStorage, setECRestoreState,
     ConfirmBackup, Skip, EnsureResourceModifiers, CreateRestore, waitForVeleroRestoreCompleted,
     restoreReconcileInstallationFromRuntimeConfig, AfterComponent, waitForAdditionalNodes,
     EnableAdminConsoleHA, RestoreExtensions
<1>7. restores' \in RestoreTypes
  BY SMTT(60), <1>6 DEF TypeOK, RestoreTypes
<1>8. /\ k0s' \in BOOLEAN /\ storage' \in BOOLEAN /\ extensions' \in BOOLEAN /\ adminHA' \in BOOLEAN
      /\ UNCHANGED <<synced, controllers, joiner, spent>>
  BY DEF TypeOK, Step, verifyNoInstallation, installAndStartCluster, ConfigureStorage,
     setECRestoreState, ConfirmBackup, Skip, EnsureResourceModifiers, CreateRestore,
     waitForVeleroRestoreCompleted, restoreReconcileInstallationFromRuntimeConfig,
     AfterComponent, waitForAdditionalNodes, EnableAdminConsoleHA, RestoreExtensions
<1> QED
  BY <1>1, <1>3, <1>4, <1>5, <1>7, <1>8 DEF TypeOK, WithBackup, RunTypes, RestoreTypes

LEMMA TypeOthers ==
  ASSUME TypeOK,
         \/ Velero \/ \E b \in Backups, c \in Components : VeleroFail(b, c)
         \/ Joins
  PROVE  TypeOK'
<1> USE DEF cluster, WithBackup
<1>1. CASE VeleroSync
  BY <1>1 DEF VeleroSync, TypeOK
<1>2. CASE \E b \in Backups, c \in Components : VeleroComplete(b, c)
  <2> PICK b \in Backups, c \in Components : VeleroComplete(b, c)
    BY <1>2
  <2>1. installation' \in [state: {"absent", "Unset", "KubernetesInstalled", "Installed"},
                           port: Ports, ha: BOOLEAN]
    BY DEF VeleroComplete, TypeOK, Ports
  <2>2. restores' \in RestoreTypes
    BY DEF VeleroComplete, TypeOK, RestoreTypes
  <2> QED
    BY <2>1, <2>2 DEF VeleroComplete, TypeOK, RestoreTypes
<1>3. CASE \E b \in Backups, c \in Components : VeleroFail(b, c)
  <2> PICK b \in Backups, c \in Components : VeleroFail(b, c)
    BY <1>3
  <2>1. restores' \in RestoreTypes
    BY DEF VeleroFail, TypeOK, RestoreTypes
  <2> QED
    BY <2>1, SpendTypes DEF VeleroFail, TypeOK, RestoreTypes
<1>4. CASE Join
  BY <1>4, ConstantsAssumption DEF Join, TypeOK
<1>5. CASE MaybeEnableHA
  BY <1>5 DEF MaybeEnableHA, TypeOK
<1>6. CASE EnableHA
  BY <1>6 DEF EnableHA, TypeOK
<1> QED
  BY <1>1, <1>2, <1>3, <1>4, <1>5, <1>6 DEF Velero, Joins

LEMMA TypeStep == TypeOK /\ [Next]_vars => TypeOK'
<1>1. TypeOK /\ UNCHANGED vars => TypeOK'
  BY DEF TypeOK, WithBackup, vars, cluster
<1> QED
  BY <1>1, TypeStart, TypeCommand, TypeOthers DEF Next

(* Every variable keeps its type; in particular the configmap and the     *)
(* command name a backup exactly when their state needs one.              *)
THEOREM TypeCorrect == Spec => []TypeOK
  BY TypeInit, TypeStep, PTL DEF Spec

-----------------------------------------------------------------------------
(* The inductive invariant.                                               *)
Unused     == \A b \in Backups : ~Used(b)
AllDone(b) == \A c \in Components : Applies(c, b) => restores[b][c] = "Completed"

(* What comes before state s is done, for backup b.                       *)
Done(s, b) ==
  /\ \A d \in Components \cap Before(s) : Applies(d, b) => restores[b][d] = "Completed"
  /\ "wait-for-nodes" \in Before(s) /\ b \in HighAvailability => controllers >= 3
  /\ "admin-console-enable-ha" \in Before(s) /\ b \in HighAvailability => adminHA
  /\ "restore-extensions" \in Before(s) => extensions

(* A backup is only chosen in a cluster that nothing was restored into.   *)
BeginInv ==
  /\ run.state = "new" => run.phase \in {"idle", "verify", "install", "storage"}
  /\ run.state = "confirm-backup" => run.phase \in {"set", "run"}
  /\ run.state \in LaterStates => run.phase \notin {"idle", "verify", "install", "storage"}
  /\ ~k0s => /\ run.state = "new" /\ run.phase # "storage"
             /\ Unused /\ cm = NoState
  /\ At("new", "install") => ~k0s
  /\ At("new", "storage") \/ run.state = "confirm-backup" \/ cm.state = "confirm-backup" => Unused

(* Once something is restored, the configmap holds the name of the backup *)
(* until the end, and so does the command that goes on.                   *)
OneInv ==
  /\ OneBackup
  /\ cm.state \in LaterStates => \A b \in Backups : Used(b) => b = cm.backup
  /\ run.state \in LaterStates => \A b \in Backups : Used(b) => b = run.backup
  /\ run.state \in LaterStates /\ run.phase # "set" =>
       cm.state = run.state /\ cm.backup = run.backup
  /\ cm.state \notin LaterStates /\ ~Unused => run.state = "new" /\ run.phase \in {"idle", "verify"}

(* Neither the configmap nor the command is ahead of what is done.        *)
OrderInv ==
  /\ \A b \in Backups, c \in Components : restores[b][c] # "none" => Done(c, b)
  /\ cm.state \in LaterStates => Done(cm.state, cm.backup)
  /\ run.state \in LaterStates => Done(run.state, run.backup)
  /\ run.phase = "create" => run.state \in Components /\ restores[run.backup][run.state] = "none"
  /\ run.phase \in {"after", "afterPort"} =>
       run.state \in Components /\ restores[run.backup][run.state] = "Completed"

FinishInv ==
  /\ installation.state # "absent" => ~Unused
  /\ cm.state = "new" /\ ~Unused => installation.state = "Installed" /\ \E b \in Backups : AllDone(b)
  /\ run.state = "restore-app" /\ run.phase \in {"create", "wait", "after"} =>
       installation.state = "Installed"
  /\ joiner # "none" => ~Unused
  /\ joiner = "enable" => cm.state = "new"

IInv == TypeOK /\ BeginInv /\ OneInv /\ OrderInv /\ FinishInv

LEMMA FirstStates ==
  /\ "new" \notin LaterStates /\ "confirm-backup" \notin LaterStates
  /\ "restore-ec-install" \in LaterStates /\ "restore-app" \in LaterStates
  /\ \A s \in States : s \in LaterStates \/ s \in {"new", "confirm-backup"}
  BY StatesByName DEF LaterStates

LEMMA RunTypesHold == TypeOK => run \in RunTypes /\ cm.state \in States
  BY DEF TypeOK, RunTypes

(* What the conjuncts say of the cluster stays when the cluster does.     *)
LEMMA SameCluster ==
  ASSUME UNCHANGED <<modifiers, restores, controllers, adminHA, extensions>>
  PROVE  /\ \A b : Used(b)' <=> Used(b)
         /\ Unused' <=> Unused
         /\ OneBackup' <=> OneBackup
         /\ \A b : AllDone(b)' <=> AllDone(b)
         /\ \A s, b : Done(s, b)' <=> Done(s, b)
  BY DEF Used, Unused, OneBackup, AllDone, Done

LEMMA InitIInv == Init => IInv
<1> SUFFICES ASSUME Init PROVE IInv
  OBVIOUS
<1>1. Unused
  BY NoBackupIsNone DEF Init, Unused, Used
<1>2. BeginInv
  BY <1>1, FirstStates DEF Init, BeginInv, At, Idle, NoState
<1>3. OneInv
  BY <1>1, FirstStates DEF Init, OneInv, OneBackup, Unused, Idle, NoState
<1>4. OrderInv
  BY FirstStates DEF Init, OrderInv, Idle, NoState
<1>5. FinishInv
  BY <1>1 DEF Init, FinishInv, Idle
<1> QED
  BY <1>2, <1>3, <1>4, <1>5, TypeInit DEF IInv

(* The command ends, or is about to look for a cluster.                   *)
LEMMA NewRun ==
  ASSUME IInv, run'.state = "new", run'.phase \in {"idle", "verify"},
         UNCHANGED <<k0s, cluster, cm, modifiers, restores, joiner>>
  PROVE  BeginInv' /\ OneInv' /\ OrderInv' /\ FinishInv'
<1> USE DEF cluster
<1>1. BeginInv'
  BY SameCluster, FirstStates DEF IInv, BeginInv, At
<1>2. OneInv'
  BY SameCluster, FirstStates DEF IInv, OneInv
<1>3. OrderInv'
  BY SameCluster, FirstStates DEF IInv, OrderInv
<1>4. FinishInv'
  BY SameCluster DEF IInv, FinishInv
<1> QED
  BY <1>1, <1>2, <1>3, <1>4

LEMMA IdleRun ==
  ASSUME IInv, run' = Idle, UNCHANGED <<k0s, cluster, cm, modifiers, restores, joiner>>
  PROVE  BeginInv' /\ OneInv' /\ OrderInv' /\ FinishInv'
  BY NewRun DEF Idle

LEMMA StartKeeps ==
  ASSUME IInv, StartNew \/ StartOver \/ Resume \/ Interrupted
  PROVE  BeginInv' /\ OneInv' /\ OrderInv' /\ FinishInv'
<1> USE DEF cluster
<1>0. UNCHANGED <<k0s, cluster, cm, modifiers, restores, joiner>>
  BY DEF StartNew, StartOver, Resume, Interrupted, StartFrame
<1>1. CASE StartNew \/ StartOver
  BY <1>0, <1>1, NewRun DEF StartNew, StartOver, Begin
<1>2. CASE Interrupted
  BY <1>0, <1>2, IdleRun DEF Interrupted
<1>3. CASE Resume
  <2>1. cm.state \in States /\ getECRestoreState(cm.state) = cm.state
    BY DEF IInv, TypeOK, getECRestoreState
  <2>2. CASE cm.state = "new"
    BY <1>0, <1>3, <2>1, <2>2, NewRun DEF Resume, Begin
  <2>3. CASE cm.state # "new"
    <3>1. run'.state = cm.state /\ run'.phase = "set" /\ run'.backup = cm.backup /\ cm # NoState
      BY <1>3, <2>1, <2>3 DEF Resume, Begin
    <3>2. BeginInv'
      BY <1>0, <2>3, <3>1, SameCluster, FirstStates DEF IInv, BeginInv, At
    <3>3. cm.state \in LaterStates \/ Unused
      BY <2>1, <2>3, FirstStates DEF IInv, BeginInv
    <3>4. OneInv'
      BY <1>0, <3>1, <3>3, SameCluster DEF IInv, OneInv
    <3>5. OrderInv'
      BY <1>0, <3>1, SameCluster DEF IInv, OrderInv
    <3>6. FinishInv'
      BY <1>0, <3>1, SameCluster DEF IInv, FinishInv
    <3> QED
      BY <3>2, <3>4, <3>5, <3>6
  <2> QED
    BY <2>2, <2>3
<1> QED
  BY <1>1, <1>2, <1>3

LEMMA FirstStepsKeep ==
  ASSUME IInv, verifyNoInstallation \/ installAndStartCluster \/ ConfigureStorage
               \/ setECRestoreState \/ ConfirmBackup
  PROVE  BeginInv' /\ OneInv' /\ OrderInv' /\ FinishInv'
<1> USE DEF cluster, Frame, Goto, At
<1>0. run \in RunTypes /\ cm.state \in States
  BY RunTypesHold DEF IInv
<1>1. CASE verifyNoInstallation
  <2>1. CASE k0s
    BY <1>1, <2>1, IdleRun DEF verifyNoInstallation
  <2>2. CASE ~k0s
    <3>1. /\ run'.state = "new" /\ run'.phase = "install"
          /\ UNCHANGED <<k0s, cluster, cm, modifiers, restores, joiner>>
      BY <1>0, <1>1, <2>2 DEF verifyNoInstallation, RunTypes
    <3>2. Unused
      BY <2>2 DEF IInv, BeginInv
    <3>3. BeginInv'
      BY <2>2, <3>1, <3>2, SameCluster, FirstStates DEF IInv, BeginInv
    <3>4. OneInv' /\ OrderInv' /\ FinishInv'
      BY <3>1, <3>2, SameCluster, FirstStates DEF IInv, OneInv, OrderInv, FinishInv
    <3> QED
      BY <3>3, <3>4
  <2> QED
    BY <2>1, <2>2
<1>2. CASE installAndStartCluster \/ ConfigureStorage
  <2>1. /\ k0s'
        /\ \/ run'.state = "new" /\ run'.phase = "storage"
           \/ run'.state = "confirm-backup" /\ run'.phase = "set"
        /\ UNCHANGED <<synced, installation, extensions, adminHA, controllers, cm, modifiers,
                       restores, joiner>>
    <3>1. CASE installAndStartCluster
      BY <1>0, <3>1 DEF installAndStartCluster, RunTypes
    <3>2. CASE ConfigureStorage
      <4>1. k0s
        BY <3>2 DEF ConfigureStorage, IInv, BeginInv
      <4> QED
        BY <1>0, <3>2, <4>1 DEF ConfigureStorage, RunTypes
    <3> QED
      BY <1>2, <3>1, <3>2
  <2>2. Unused
    BY <1>2 DEF installAndStartCluster, ConfigureStorage, IInv, BeginInv
  <2>3. BeginInv'
    BY <2>1, <2>2, SameCluster, FirstStates DEF IInv, BeginInv
  <2>4. OneInv' /\ OrderInv' /\ FinishInv'
    BY <2>1, <2>2, SameCluster, FirstStates DEF IInv, OneInv, OrderInv, FinishInv
  <2> QED
    BY <2>3, <2>4
<1>3. CASE setECRestoreState
  <2>1. /\ run'.state = run.state /\ run'.backup = run.backup /\ run'.phase = "run"
        /\ cm'.state = run.state /\ cm'.backup = run.backup /\ run.phase = "set"
        /\ UNCHANGED <<k0s, cluster, modifiers, restores, joiner>>
    BY <1>0, <1>3 DEF setECRestoreState, RunTypes
  <2>2. run.state # "new" /\ k0s
    BY <2>1 DEF IInv, BeginInv
  <2>3. BeginInv'
    BY <2>1, <2>2, SameCluster DEF IInv, BeginInv
  <2>4. run.state \in LaterStates \/ Unused
    BY <1>0, <2>2, FirstStates DEF IInv, BeginInv, RunTypes
  <2>5. OneInv' /\ OrderInv'
    BY <2>1, <2>4, SameCluster DEF IInv, OneInv, OrderInv
  <2>6. ~Unused => cm.state # "new"
    BY <2>2, FirstStates DEF IInv, OneInv
  <2>7. FinishInv'
    BY <2>1, <2>2, <2>6, SameCluster DEF IInv, FinishInv
  <2> QED
    BY <2>3, <2>5, <2>7
<1>4. CASE ConfirmBackup
  <2>1. CASE run' = Idle
    BY <1>4, <2>1, IdleRun DEF ConfirmBackup
  <2>2. CASE \E b \in Backups : Begin("restore-ec-install", "set", b, run.port)
    <3>1. /\ run'.state = "restore-ec-install" /\ run'.phase = "set"
          /\ run.state = "confirm-backup" /\ Unused
          /\ UNCHANGED <<k0s, cluster, cm, modifiers, restores, joiner>>
      BY <1>4, <2>2 DEF ConfirmBackup, Begin, IInv, BeginInv
    <3>2. \A b : Done("restore-ec-install", b)
      BY FirstComponent DEF Done, Components
    <3>3. BeginInv'
      BY <3>1, SameCluster, FirstStates DEF IInv, BeginInv
    <3>4. OneInv' /\ OrderInv' /\ FinishInv'
      BY <3>1, <3>2, SameCluster DEF IInv, OneInv, OrderInv, FinishInv, Unused
    <3> QED
      BY <3>3, <3>4
  <2> QED
    BY <1>4, <2>1, <2>2 DEF ConfirmBackup
<1> QED
  BY <1>1, <1>2, <1>3, <1>4

(* More is done than before, nothing less.                                *)
Grows ==
  /\ \A b \in Backups, c \in Components :
       restores[b][c] = "Completed" => restores'[b][c] = "Completed"
  /\ controllers' >= controllers
  /\ adminHA => adminHA'
  /\ extensions => extensions'

LEMMA DoneStays ==
  ASSUME TypeOK, TypeOK', Grows
  PROVE  /\ \A b \in Backups, s \in States : Done(s, b) => Done(s, b)'
         /\ \A b \in Backups : AllDone(b) => AllDone(b)'
<1>1. controllers \in Nat /\ controllers' \in Nat
  BY ConstantsAssumption DEF TypeOK
<1> QED
  BY <1>1 DEF Grows, Done, AllDone

LEMMA NamesOfBackups ==
  ASSUME TypeOK
  PROVE  /\ run.state \in LaterStates => run.backup \in Backups
         /\ cm.state \in LaterStates => cm.backup \in Backups
  BY DEF TypeOK, WithBackup

(* From one state to the next, when what the state is for is done.        *)
LEMMA NextKeeps ==
  ASSUME IInv, TypeOK', NextState, run.state \in LaterStates, run.state # "restore-app",
         run.phase # "set",
         UNCHANGED <<k0s, cm, modifiers, restores, joiner, controllers>>,
         adminHA => adminHA', extensions => extensions',
         installation'.state # "absent" => ~Unused,
         run.state \in Components /\ Applies(run.state, run.backup) =>
           restores[run.backup][run.state] = "Completed",
         run.state = "wait-for-nodes" /\ run.backup \in HighAvailability => controllers >= 3,
         run.state = "admin-console-enable-ha" /\ run.backup \in HighAvailability => adminHA',
         run.state = "restore-extensions" => extensions'
  PROVE  BeginInv' /\ OneInv' /\ OrderInv' /\ FinishInv'
<1>0. /\ run \in RunTypes /\ cm.state \in States /\ run.backup \in Backups
      /\ controllers \in Nat
  BY RunTypesHold, NamesOfBackups, ConstantsAssumption DEF IInv, TypeOK
<1>1. run'.state = NextOf(run.state) /\ run'.phase = "set" /\ run'.backup = run.backup
  BY <1>0 DEF NextState, NextOf, RunTypes
<1>2. NextOf(run.state) \in LaterStates /\ Before(NextOf(run.state)) = Before(run.state) \cup {run.state}
  BY NextOfState
<1>3. cm.state = run.state /\ cm.backup = run.backup
  BY DEF IInv, OneInv
<1>4. Grows
  BY <1>0 DEF Grows
<1>5. (\A b : Used(b)' <=> Used(b)) /\ (Unused' <=> Unused)
  BY DEF Used, Unused
<1>6. \A b \in Backups, s \in States : Done(s, b) => Done(s, b)'
  BY <1>4, DoneStays DEF IInv
<1>7. Done(run.state, run.backup)'
  <2>1. PICK s \in LaterStates, b \in Backups : s = run.state /\ b = run.backup
    BY <1>0
  <2>2. Done(s, b)'
    <3>1. Done(s, b) /\ s \in States
      BY <2>1 DEF IInv, OrderInv, LaterStates
    <3> QED
      BY <1>6, <3>1
  <2>3. Done(NextOf(s), b)'
    BY <1>2, <2>1, <2>2 DEF Done
  <2> QED
    BY <1>1, <2>1, <2>3
<1>8. BeginInv'
  BY <1>1, <1>2, <1>3, <1>5, FirstStates DEF IInv, BeginInv, At
<1>9. OneInv'
  BY <1>1, <1>2, <1>3, <1>5 DEF IInv, OneInv, OneBackup
<1>10. OrderInv'
  BY <1>0, <1>1, <1>2, <1>3, <1>6, <1>7, FirstStates, ComponentsAreLater
     DEF IInv, OrderInv, LaterStates
<1>11. FinishInv'
  BY <1>1, <1>3, <1>5, FirstStates DEF IInv, FinishInv
<1> QED
  BY <1>8, <1>9, <1>10, <1>11

LEMMA NextStepsKeep ==
  ASSUME IInv, TypeOK', NextState, Step
  PROVE  BeginInv' /\ OneInv' /\ OrderInv' /\ FinishInv'
<1> USE DEF cluster, Frame, At
<1>0. run \in RunTypes /\ run'.phase = "set"
  BY RunTypesHold DEF IInv, NextState, RunTypes
<1>1. CASE Skip
  <2>1. /\ run.state \in LaterStates /\ run.state # "restore-app"
        /\ run.state \notin {"wait-for-nodes", "restore-extensions"}
        /\ run.state = "admin-console-enable-ha" => run.backup \notin HighAvailability
        /\ ~Applies(run.state, run.backup) /\ run.phase # "set"
    BY <1>1 DEF Skip, Applies
  <2> QED
    BY <1>1, <2>1, NextKeeps DEF Skip, IInv, FinishInv
<1>2. CASE restoreReconcileInstallationFromRuntimeConfig
  <2>1. /\ run.state = "restore-ec-install" /\ run.phase \in {"after", "afterPort"}
        /\ run.state \in LaterStates
    BY <1>2, FirstStates DEF restoreReconcileInstallationFromRuntimeConfig
  <2>2. run.state \in Components /\ restores[run.backup][run.state] = "Completed"
    BY <2>1 DEF IInv, OrderInv
  <2>3. ~Unused
    BY <2>1, <2>2, NamesOfBackups DEF IInv, Unused, Used
  <2> QED
    BY <1>2, <2>1, <2>2, <2>3, NextKeeps DEF restoreReconcileInstallationFromRuntimeConfig
<1>3. CASE AfterComponent
  <2>1. /\ run.state \in LaterStates /\ run.phase = "after" /\ run.state \in Components
        /\ run.state # "restore-ec-install"
    BY <1>3, ComponentsAreLater DEF AfterComponent, AtComponent
  <2>2. run.state # "restore-app"
    BY <1>0, <1>3 DEF AfterComponent, Idle
  <2>3. run.state \notin {"wait-for-nodes", "admin-console-enable-ha", "restore-extensions"}
    BY <2>1 DEF Components
  <2>4. restores[run.backup][run.state] = "Completed"
    BY <2>1 DEF IInv, OrderInv
  <2> QED
    BY <1>3, <2>1, <2>2, <2>3, <2>4, NextKeeps DEF AfterComponent, IInv, FinishInv
<1>4. CASE waitForAdditionalNodes
  <2>1. /\ run.state = "wait-for-nodes" /\ run.phase = "run" /\ run.state \in LaterStates
        /\ run.state \notin Components
    BY <1>4, StatesByName DEF waitForAdditionalNodes, LaterStates, Components
  <2> QED
    BY <1>4, <2>1, NextKeeps DEF waitForAdditionalNodes, IInv, FinishInv
<1>5. CASE EnableAdminConsoleHA
  <2>1. /\ run.state = "admin-console-enable-ha" /\ run.phase = "run"
        /\ run.state \in LaterStates /\ run.state \notin Components
    BY <1>5, StatesByName DEF EnableAdminConsoleHA, LaterStates, Components
  <2> QED
    BY <1>5, <2>1, NextKeeps DEF EnableAdminConsoleHA, IInv, FinishInv
<1>6. CASE RestoreExtensions
  <2>1. /\ run.state = "restore-extensions" /\ run.phase = "run"
        /\ run.state \in LaterStates /\ run.state \notin Components
    BY <1>6, StatesByName DEF RestoreExtensions, LaterStates, Components
  <2> QED
    BY <1>6, <2>1, NextKeeps DEF RestoreExtensions, IInv, FinishInv
<1>7. CASE verifyNoInstallation \/ installAndStartCluster \/ ConfigureStorage
           \/ setECRestoreState \/ ConfirmBackup
  BY <1>7, FirstStepsKeep
<1>8. ~(EnsureResourceModifiers \/ CreateRestore \/ waitForVeleroRestoreCompleted)
  BY <1>0 DEF EnsureResourceModifiers, CreateRestore, waitForVeleroRestoreCompleted, Goto, Idle,
     RunTypes
<1> QED
  BY <1>1, <1>2, <1>3, <1>4, <1>5, <1>6, <1>7, <1>8 DEF Step

LEMMA AppIsLast ==
  /\ Components \ {"restore-app"} \subseteq Before("restore-app")
  /\ "restore-ec-install" \in Components \cap Before("restore-app")
  /\ \A b : Applies("restore-ec-install", b)
  BY StatesByName, IndexByName DEF Components, Before, Applies

(* A step that changes the Restore objects of the command's backup or its *)
(* addresses, and what follows in the same state.                         *)
LEMMA ComponentKeeps ==
  ASSUME IInv, TypeOK', run.state \in LaterStates, run.phase # "set",
         run'.state = run.state, run'.backup = run.backup,
         run'.phase \notin {"idle", "verify", "install", "storage"},
         UNCHANGED <<k0s, cm, joiner, controllers, adminHA, extensions>>, Grows,
         \A b \in Backups : Used(b) => Used(b)',
         \A b \in Backups \ {run.backup} : Used(b)' => Used(b),
         \A b \in Backups, c \in Components : restores'[b][c] # "none" =>
           restores[b][c] # "none" \/ (b = run.backup /\ c = run.state),
         run'.phase = "create" => run.state \in Components /\ restores'[run.backup][run.state] = "none",
         run'.phase \in {"after", "afterPort"} =>
           run.state \in Components /\ restores'[run.backup][run.state] = "Completed",
         installation'.state # "absent" => ~Unused,
         run.state = "restore-app" /\ run'.phase \in {"create", "wait", "after"} =>
           installation'.state = "Installed"
  PROVE  BeginInv' /\ OneInv' /\ OrderInv' /\ FinishInv'
<1>0. /\ run \in RunTypes /\ cm.state \in States /\ run.backup \in Backups
      /\ cm.state = run.state /\ cm.backup = run.backup /\ run.state \in States
  BY RunTypesHold, NamesOfBackups DEF IInv, OneInv, LaterStates
<1>1. k0s
  BY FirstStates DEF IInv, BeginInv
<1>2. ~Unused => ~Unused'
  BY DEF Unused
<1>3. \A b \in Backups, s \in States : Done(s, b) => Done(s, b)'
  BY DoneStays DEF IInv
<1>4. BeginInv'
  BY <1>0, <1>1, FirstStates DEF IInv, BeginInv, At
<1>5. OneInv'
  <2>1. \A b \in Backups : Used(b)' => b = run.backup
    BY DEF IInv, OneInv
  <2> QED
    BY <1>0, <2>1, FirstStates DEF OneInv, OneBackup
<1>6. OrderInv'
  <2>1. Done(run.state, run.backup)'
    <3>1. PICK s \in States, b \in Backups : s = run.state /\ b = run.backup
      BY <1>0
    <3>2. Done(s, b)'
      BY <1>3, <3>1 DEF IInv, OrderInv
    <3> QED
      BY <3>1, <3>2
  <2>2. ASSUME NEW b \in Backups, NEW c \in Components, restores'[b][c] # "none"
        PROVE  Done(c, b)'
    <3>1. c \in States
      BY ComponentsAreLater DEF LaterStates
    <3>2. CASE restores[b][c] # "none"
      BY <1>3, <3>1, <3>2 DEF IInv, OrderInv
    <3>3. CASE b = run.backup /\ c = run.state
      BY <2>1, <3>3
    <3> QED
      BY <2>2, <3>2, <3>3
  <2>3. Done(cm.state, cm.backup)'
    BY <1>0, <2>1
  <2> QED
    BY <2>1, <2>2, <2>3 DEF OrderInv
<1>7. FinishInv'
  BY <1>0, <1>2, FirstStates DEF IInv, FinishInv
<1> QED
  BY <1>4, <1>5, <1>6, <1>7

LEMMA ComponentStepsKeep ==
  ASSUME IInv, TypeOK', ~NextState,
         \/ EnsureResourceModifiers \/ CreateRestore \/ waitForVeleroRestoreCompleted
         \/ restoreReconcileInstallationFromRuntimeConfig \/ AfterComponent
  PROVE  BeginInv' /\ OneInv' /\ OrderInv' /\ FinishInv'
<1> USE DEF cluster, Frame, Goto
<1>0. /\ run \in RunTypes /\ restores \in RestoreTypes
      /\ run.state \in LaterStates => run.backup \in Backups
  BY RunTypesHold, NamesOfBackups DEF IInv, TypeOK, RestoreTypes
<1>1. CASE EnsureResourceModifiers
  <2>1. /\ run.state \in LaterStates /\ run.state \in Components /\ run.phase = "run"
        /\ run'.state = run.state /\ run'.backup = run.backup
        /\ \/ run'.phase = "wait"
           \/ run'.phase = "create" /\ restores[run.backup][run.state] = "none"
        /\ modifiers' = modifiers \/ (modifiers' = run.backup /\ modifiers = NoBackup)
        /\ UNCHANGED <<k0s, storage, synced, extensions, adminHA, controllers, cm, restores, joiner>>
    BY <1>0, <1>1, ComponentsAreLater DEF EnsureResourceModifiers, AtComponent, RunTypes
  <2>2. /\ run.state = "restore-app" => installation'.state = "Installed"
        /\ run.state # "restore-app" => installation' = installation
    BY <1>1 DEF EnsureResourceModifiers, RestoreApp, IInv, TypeOK
  <2>3. run.state = "restore-app" => ~Unused
    <3>1. run.state = "restore-app" => restores[run.backup]["restore-ec-install"] = "Completed"
      BY <2>1, AppIsLast DEF IInv, OrderInv, Done
    <3> QED
      BY <1>0, <2>1, <3>1, AppIsLast DEF Unused, Used
  <2>4. installation'.state # "absent" => ~Unused
    BY <2>2, <2>3 DEF IInv, FinishInv
  <2>5. \A b \in Backups : (Used(b) => Used(b)') /\ (b # run.backup /\ Used(b)' => Used(b))
    BY <2>1, NoBackupIsNone DEF Used
  <2>6. Grows
    BY <2>1, ConstantsAssumption DEF Grows, IInv, TypeOK
  <2> QED
    BY <2>1, <2>2, <2>4, <2>5, <2>6, ComponentKeeps
<1>2. CASE CreateRestore
  <2>1. /\ run.state \in LaterStates /\ run.state \in Components /\ run.phase = "create"
        /\ run'.state = run.state /\ run'.backup = run.backup /\ run'.phase = "wait"
        /\ UNCHANGED <<k0s, cluster, cm, modifiers, joiner>> /\ run.backup \in Backups
    BY <1>0, <1>2, ComponentsAreLater DEF CreateRestore, AtComponent, RunTypes
  <2>2. restores[run.backup][run.state] = "none"
    BY <2>1 DEF IInv, OrderInv
  <2>3. \A b \in Backups, c \in Components :
          restores'[b][c] = IF b = run.backup /\ c = run.state THEN "InProgress" ELSE restores[b][c]
    BY <1>0, <1>2 DEF CreateRestore, RestoreTypes
  <2>4. Grows
    BY <2>1, <2>2, <2>3, ConstantsAssumption DEF Grows, IInv, TypeOK
  <2>5. \A b \in Backups : (Used(b) => Used(b)') /\ (b # run.backup /\ Used(b)' => Used(b))
    BY <2>1, <2>3 DEF Used
  <2>6. /\ installation'.state # "absent" => ~Unused
        /\ run.state = "restore-app" => installation'.state = "Installed"
    BY <2>1 DEF IInv, FinishInv
  <2> QED
    BY <2>1, <2>3, <2>4, <2>5, <2>6, ComponentKeeps
<1>3. ASSUME run.state \in Components, run.phase \in {"wait", "after"},
             run'.state = run.state, run'.backup = run.backup, run'.phase \in {"after", "afterPort"},
             restores[run.backup][run.state] = "Completed", installation'.state = installation.state,
             UNCHANGED <<k0s, cm, joiner, controllers, adminHA, extensions, modifiers, restores>>
      PROVE  BeginInv' /\ OneInv' /\ OrderInv' /\ FinishInv'
  <2>1. Grows
    BY <1>3, ConstantsAssumption DEF Grows, IInv, TypeOK
  <2>2. \A b : Used(b)' <=> Used(b)
    BY <1>3 DEF Used
  <2>3. /\ installation'.state # "absent" => ~Unused
        /\ run.state = "restore-app" => installation'.state = "Installed"
    BY <1>3 DEF IInv, FinishInv
  <2>4. run.state \in LaterStates
    BY <1>3, ComponentsAreLater
  <2> QED
    BY <1>3, <2>1, <2>2, <2>3, <2>4, ComponentKeeps
<1>4. CASE waitForVeleroRestoreCompleted
  <2>1. CASE run' = Idle
    BY <1>4, <2>1, IdleRun DEF waitForVeleroRestoreCompleted
  <2>2. CASE restores[run.backup][run.state] = "Completed" /\ Goto("after")
    BY <1>0, <1>3, <1>4, <2>2 DEF waitForVeleroRestoreCompleted, AtComponent, RunTypes
  <2> QED
    BY <1>4, <2>1, <2>2 DEF waitForVeleroRestoreCompleted
<1>5. CASE restoreReconcileInstallationFromRuntimeConfig
  <2>1. /\ run.phase = "after" /\ Goto("afterPort")
        /\ installation' = [installation EXCEPT !.port = run.port]
        /\ UNCHANGED <<k0s, cm, joiner, controllers, adminHA, extensions, modifiers, restores>>
    BY <1>5 DEF restoreReconcileInstallationFromRuntimeConfig
  <2>2. run.state \in Components /\ restores[run.backup][run.state] = "Completed"
    BY <2>1 DEF IInv, OrderInv
  <2>3. installation'.state = installation.state
    BY <2>1 DEF IInv, TypeOK
  <2> QED
    BY <1>0, <1>3, <2>1, <2>2, <2>3 DEF RunTypes
<1>6. CASE AfterComponent
  <2>1. /\ run.state = "restore-app" /\ run.phase = "after" /\ cm' = NoState /\ run' = Idle
        /\ UNCHANGED <<k0s, cluster, modifiers, restores, joiner>>
        /\ run.state \in LaterStates /\ run.backup \in Backups
    BY <1>0, <1>6, FirstStates DEF AfterComponent, AtComponent
  <2>2. restores[run.backup]["restore-app"] = "Completed" /\ installation.state = "Installed"
    BY <2>1 DEF IInv, OrderInv, FinishInv
  <2>3. AllDone(run.backup)
    BY <2>1, <2>2, AppIsLast DEF IInv, OrderInv, Done, AllDone
  <2>4. \E b \in Backups : AllDone(b)'
    <3>1. PICK b \in Backups : b = run.backup
      BY <2>1
    <3> QED
      BY <2>1, <2>3, <3>1, SameCluster
  <2>5. k0s
    BY <2>1 DEF IInv, BeginInv
  <2>6. BeginInv' /\ OneInv' /\ OrderInv'
    BY <2>1, <2>5, SameCluster, FirstStates
       DEF IInv, BeginInv, OneInv, OrderInv, At, Idle, NoState
  <2>7. FinishInv'
    BY <2>1, <2>2, <2>4, SameCluster DEF IInv, FinishInv, Idle, NoState
  <2> QED
    BY <2>6, <2>7
<1> QED
  BY <1>1, <1>2, <1>4, <1>5, <1>6

(* A Velero restore ends.                                                 *)
LEMMA VeleroKeeps ==
  ASSUME IInv, TypeOK', NEW b \in Backups, NEW c \in Components, NEW r \in {"Completed", "Failed"},
         restores[b][c] = "InProgress",
         restores' = [restores EXCEPT ![b][c] = r],
         UNCHANGED <<k0s, extensions, adminHA, controllers, cm, modifiers, joiner, run>>,
         installation' = installation \/ (c = "restore-ec-install" /\ installation'.state = "Unset")
  PROVE  BeginInv' /\ OneInv' /\ OrderInv' /\ FinishInv'
<1>0. restores \in RestoreTypes /\ run \in RunTypes
      /\ (run.state \in LaterStates => run.backup \in Backups)
  BY RunTypesHold, NamesOfBackups DEF IInv, TypeOK, RestoreTypes
<1>1. \A d \in Backups, e \in Components :
        restores'[d][e] = IF d = b /\ e = c THEN r ELSE restores[d][e]
  BY <1>0 DEF RestoreTypes
<1>2. (\A d \in Backups : Used(d)' <=> Used(d)) /\ (Unused' <=> Unused) /\ Used(b)
  BY <1>1 DEF Used, Unused
<1>3. Grows
  BY <1>1, ConstantsAssumption DEF Grows, IInv, TypeOK
<1>4. /\ \A d \in Backups, s \in States : Done(s, d) => Done(s, d)'
      /\ \A d \in Backups : AllDone(d) => AllDone(d)'
  BY <1>3, DoneStays DEF IInv
<1>5. BeginInv'
  BY <1>2 DEF IInv, BeginInv, At
<1>6. OneInv'
  BY <1>2 DEF IInv, OneInv, OneBackup
<1>7. OrderInv'
  <2>1. run.state \in LaterStates => Done(run.state, run.backup)'
    <3> SUFFICES ASSUME run.state \in LaterStates PROVE Done(run.state, run.backup)'
      OBVIOUS
    <3>1. PICK s \in LaterStates, d \in Backups : s = run.state /\ d = run.backup
      BY <1>0
    <3>2. Done(s, d)'
      BY <1>4, <3>1 DEF IInv, OrderInv, LaterStates
    <3> QED
      BY <3>1, <3>2
  <2>2. cm.state \in LaterStates => Done(cm.state, cm.backup)'
    <3> SUFFICES ASSUME cm.state \in LaterStates PROVE Done(cm.state, cm.backup)'
      OBVIOUS
    <3>1. PICK s \in LaterStates, d \in Backups : s = cm.state /\ d = cm.backup
      BY NamesOfBackups DEF IInv
    <3>2. Done(s, d)'
      BY <1>4, <3>1 DEF IInv, OrderInv, LaterStates
    <3> QED
      BY <3>1, <3>2
  <2>3. \A d \in Backups, e \in Components : restores'[d][e] # "none" => Done(e, d)'
    BY <1>1, <1>4, ComponentsAreLater DEF IInv, OrderInv, LaterStates
  <2>4. /\ run.phase = "create" => run.state \in Components /\ restores'[run.backup][run.state] = "none"
        /\ run.phase \in {"after", "afterPort"} =>
             run.state \in Components /\ restores'[run.backup][run.state] = "Completed"
    BY <1>0, <1>1, ComponentsAreLater DEF IInv, OrderInv
  <2> QED
    BY <2>1, <2>2, <2>3, <2>4 DEF OrderInv
<1>8. FinishInv'
  <2>1. cm.state = "new" => c # "restore-ec-install" \/ installation' = installation
    <3> SUFFICES ASSUME cm.state = "new" PROVE c # "restore-ec-install"
      OBVIOUS
    <3>1. PICK d \in Backups : AllDone(d)
      BY <1>2 DEF IInv, FinishInv, Unused
    <3>2. restores[d]["restore-ec-install"] = "Completed"
      BY <3>1, AppIsLast DEF AllDone
    <3>3. d = b
      BY <1>2, <3>2, AppIsLast DEF IInv, OneInv, OneBackup, Used
    <3> QED
      BY <3>2, <3>3
  <2>2. run.state = "restore-app" => c # "restore-ec-install"
    <3> SUFFICES ASSUME run.state = "restore-app" PROVE c # "restore-ec-install"
      OBVIOUS
    <3>1. b = run.backup
      BY <1>2, FirstStates DEF IInv, OneInv
    <3>2. restores[b]["restore-ec-install"] = "Completed"
      BY <3>1, AppIsLast, FirstStates DEF IInv, OrderInv, Done
    <3> QED
      BY <3>2
  <2>3. \E d \in Backups : cm.state = "new" => AllDone(d)'
    BY <1>2, <1>4 DEF IInv, FinishInv, Unused
  <2>4. ~Unused
    BY <1>2 DEF Unused
  <2> QED
    BY <1>2, <2>1, <2>2, <2>3, <2>4 DEF IInv, FinishInv
<1> QED
  BY <1>5, <1>6, <1>7, <1>8

LEMMA OthersKeep ==
  ASSUME IInv, TypeOK',
         \/ Velero \/ \E b \in Backups, c \in Components : VeleroFail(b, c)
         \/ Joins
  PROVE  BeginInv' /\ OneInv' /\ OrderInv' /\ FinishInv'
<1> USE DEF cluster
<1>1. CASE VeleroSync
  <2>1. UNCHANGED <<k0s, cm, modifiers, restores, run, joiner, installation, extensions, adminHA,
                    controllers>>
    BY <1>1 DEF VeleroSync
  <2>2. BeginInv' /\ OneInv'
    BY <2>1, SameCluster DEF IInv, BeginInv, OneInv, At
  <2>3. OrderInv' /\ FinishInv'
    BY <2>1, SameCluster DEF IInv, OrderInv, FinishInv
  <2> QED
    BY <2>2, <2>3
<1>2. CASE \E b \in Backups, c \in Components : VeleroComplete(b, c)
  <2> PICK b \in Backups, c \in Components : VeleroComplete(b, c)
    BY <1>2
  <2>1. \/ installation' = installation
        \/ c = "restore-ec-install" /\ installation'.state = "Unset"
    BY DEF VeleroComplete
  <2>2. /\ restores[b][c] = "InProgress" /\ restores' = [restores EXCEPT ![b][c] = "Completed"]
        /\ UNCHANGED <<k0s, extensions, adminHA, controllers, cm, modifiers, joiner, run>>
    BY DEF VeleroComplete
  <2> QED
    BY <2>1, <2>2, VeleroKeeps
<1>3. CASE \E b \in Backups, c \in Components : VeleroFail(b, c)
  BY <1>3, VeleroKeeps DEF VeleroFail
<1>4. CASE Joins
  <2>1. /\ UNCHANGED <<k0s, cm, modifiers, restores, run, extensions>>
        /\ controllers' = controllers \/ controllers' = controllers + 1
        /\ adminHA => adminHA'
        /\ installation'.state = installation.state
    BY <1>4 DEF Joins, Join, MaybeEnableHA, EnableHA, IInv, TypeOK
  <2>2. (\A d : Used(d)' <=> Used(d)) /\ (Unused' <=> Unused)
    BY <2>1 DEF Used, Unused
  <2>3. Grows
    <3>1. controllers \in Nat
      BY ConstantsAssumption DEF IInv, TypeOK
    <3>2. controllers' >= controllers
      BY <2>1, <3>1
    <3> QED
      BY <2>1, <3>2 DEF Grows
  <2>4. /\ \A d \in Backups, s \in States : Done(s, d) => Done(s, d)'
        /\ \A d \in Backups : AllDone(d) => AllDone(d)'
    BY <2>3, DoneStays DEF IInv
  <2>5. BeginInv' /\ OneInv'
    BY <2>1, <2>2 DEF IInv, BeginInv, OneInv, OneBackup, At
  <2>6. OrderInv'
    <3>1. /\ run.state \in LaterStates => run.backup \in Backups
          /\ cm.state \in LaterStates => cm.backup \in Backups
      BY NamesOfBackups DEF IInv
    <3>2. \A s \in LaterStates : s \in States
      BY DEF LaterStates
    <3> QED
      BY <2>1, <2>4, <3>1, <3>2, ComponentsAreLater DEF IInv, OrderInv
  <2>7. joiner' # "none" => ~Unused
    BY <1>4 DEF Joins, Join, MaybeEnableHA, EnableHA, Unused, Used, IInv, FinishInv, Components
  <2>8. joiner' = "enable" => cm.state = "new"
    BY <1>4 DEF Joins, Join, MaybeEnableHA, EnableHA, CanEnableHA, NoState
  <2>9. FinishInv'
    BY <2>1, <2>2, <2>4, <2>7, <2>8 DEF IInv, FinishInv
  <2> QED
    BY <2>5, <2>6, <2>9
<1> QED
  BY <1>1, <1>2, <1>3, <1>4 DEF Velero

LEMMA IInvStep == IInv /\ [Next]_vars => IInv'
<1> SUFFICES ASSUME IInv, [Next]_vars PROVE IInv'
  OBVIOUS
<1>1. TypeOK'
  BY TypeStep DEF IInv
<1>2. UNCHANGED vars => BeginInv' /\ OneInv' /\ OrderInv' /\ FinishInv'
  BY SameCluster DEF vars, cluster, IInv, BeginInv, OneInv, OrderInv, FinishInv, At
<1>3. Step => BeginInv' /\ OneInv' /\ OrderInv' /\ FinishInv'
  <2>1. CASE NextState
    BY <1>1, <2>1, NextStepsKeep
  <2>2. CASE ~NextState
    BY <1>1, <2>2, FirstStepsKeep, ComponentStepsKeep
       DEF Step, Skip, waitForAdditionalNodes, EnableAdminConsoleHA, RestoreExtensions
  <2> QED
    BY <2>1, <2>2
<1> QED
  BY <1>1, <1>2, <1>3, StartKeeps, OthersKeep DEF Next, IInv

LEMMA Invariant == Spec => []IInv
  BY InitIInv, IInvStep, PTL DEF Spec

-----------------------------------------------------------------------------
(* Whatever is interrupted, resumed or begun anew, one cluster is restored*)
(* from one backup.                                                       *)
THEOREM OneBackupOnly == Spec => []OneBackup
<1>1. IInv => OneBackup
  BY DEF IInv, OneInv
<1> QED
  BY <1>1, Invariant, PTL

(* No component is restored before everything that it needs.              *)
THEOREM ComponentsInOrder == Spec => []RestoredInOrder
<1>1. IInv => RestoredInOrder
  <2> SUFFICES ASSUME IInv, NEW b \in Backups, NEW c \in Components, restores[b][c] # "none"
               PROVE  /\ \A d \in Components \cap Before(c) :
                           Applies(d, b) => restores[b][d] = "Completed"
                      /\ "admin-console-enable-ha" \in Before(c) /\ b \in HighAvailability =>
                           controllers >= 3 /\ adminHA
                      /\ "restore-extensions" \in Before(c) => extensions
    BY DEF RestoredInOrder
  <2>1. Done(c, b)
    BY DEF IInv, OrderInv
  <2>2. "admin-console-enable-ha" \in Before(c) => "wait-for-nodes" \in Before(c)
    <3>1. Index(c) \in Nat
      BY ComponentsAreLater, StatesByName, IndexByName DEF LaterStates
    <3> QED
      BY <3>1, StatesByName, IndexByName DEF Before
  <2> QED
    BY <2>1, <2>2 DEF Done
<1> QED
  BY <1>1, Invariant, PTL

(* The state in the configmap is forgotten only after the last component. *)
THEOREM EndIsComplete == Spec => []FinishedIsComplete
<1>1. IInv => FinishedIsComplete
  BY DEF IInv, FinishInv, FinishedIsComplete, AllDone, NoState
<1> QED
  BY <1>1, Invariant, PTL

(* A restore is whole in every state: in order up to where it is, and      *)
(* complete when it is forgotten.                                          *)
THEOREM RestoreStaysWhole == Spec => []RestoreIsWhole
<1>1. RestoredInOrder /\ FinishedIsComplete => RestoreIsWhole
  BY DEF RestoreIsWhole
<1> QED
  BY ComponentsInOrder, EndIsComplete, <1>1, PTL

(* A machine that joins never enables high availability under a restore.  *)
THEOREM NoHAUnderRestore == Spec => []NoHADuringRestore
<1>1. IInv => NoHADuringRestore
  <2> SUFFICES ASSUME IInv, joiner = "enable"
               PROVE  cm = NoState /\ installation.state = "Installed"
    BY DEF NoHADuringRestore
  <2>1. cm.state = "new" /\ installation.state = "Installed"
    BY DEF IInv, FinishInv
  <2>2. cm.backup = NoBackup
    BY <2>1, FirstStates DEF IInv, TypeOK, WithBackup
  <2> QED
    BY <2>1, <2>2 DEF IInv, TypeOK, NoState
<1> QED
  BY <1>1, Invariant, PTL
=============================================================================
