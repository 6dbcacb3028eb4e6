------------------------------ MODULE Machines ------------------------------
(***************************************************************************)
(* The commands install, join and reset on the machines of one cluster.    *)
(*                                                                         *)
(* A command is a sequence of named steps.  After any of them it may fail  *)
(* or be killed, and what it wrote stays: the next command on the machine  *)
(* finds it.  k0s is a process of its own: once started it joins the       *)
(* cluster whatever becomes of the command that started it, and etcd loses *)
(* its quorum when too many members are gone.                              *)
(*                                                                         *)
(* A machine has a set of files.  The data directory, the file that names  *)
(* it and the containerd drop-in have values, because later commands tell  *)
(* them apart.                                                             *)
(***************************************************************************)
EXTENDS Naturals, FiniteSets

CONSTANTS
    Machines,       \* the hosts
    Dirs,           \* data directories a user may choose
    DefaultDir,     \* ecv1beta1.DefaultDataDir
    None,           \* no value
    Releases,       \* minor versions of k0s in the binaries that are run
    AirGaps,        \* the values an installation may have for air gap
    Overlap,        \* whether commands may run at once on several machines
    MaxCommands,    \* commands that may be started
    MaxFaults       \* failures, kills and signals that may happen

ASSUME MachinesAssumption == IsFiniteSet(Machines)
ASSUME DirsAssumption == DefaultDir \in Dirs /\ None \notin Dirs
ASSUME NumbersAssumption == Releases \subseteq Nat /\ {MaxCommands, MaxFaults} \subseteq Nat
ASSUME FlagsAssumption == AirGaps \subseteq BOOLEAN /\ Overlap \in BOOLEAN

VARIABLES
    run,        \* run[m]: the command running on m, or Idle
    last,       \* last[m]: how the last command on m ended and what it reported
    files,      \* files[m]: the files on m
    config,     \* config[m]: the data directory in /etc/embedded-cluster/ec.yaml
    dropin,     \* dropin[m]: the schema of the containerd registry drop-in
    k0s,        \* k0s[m]: how far k0s has come
    home,       \* home[m]: what k0s was installed with
    etcd,       \* the members of etcd
    nodes,      \* the Node objects
    labelled,   \* those with the control plane label
    inst,       \* the Installation object
    broken,     \* machines whose last reset has not done all of its work
    commands,   \* commands started so far
    faults      \* failures, kills and signals so far

vars == <<run, last, files, config, dropin, k0s, home, etcd, nodes, labelled,
          inst, broken, commands, faults>>
disk == <<files, config, dropin>>
cluster == <<etcd, nodes, labelled, inst>>

Roles == {"controller", "worker"}

(* The files a command writes and a later one reads or removes.  A role    *)
(* stands for the systemd unit of k0s in that role, "services" for the     *)
(* other units and drop-ins, "settings" for those of sysctl,               *)
(* NetworkManager and firewalld.                                           *)
Files == Roles \cup {"assets", "settings", "k0s.yaml", "services", "k0s binary", "join token"}

Units(m) == files[m] \cap Roles

Schema(release) == IF release >= 36 THEN "v3" ELSE "v2"

NoHome == [dir |-> None, role |-> "worker", release |-> 0, first |-> FALSE]
NoInstallation == [state |-> "none", dir |-> None, airgap |-> FALSE, release |-> 0]

Idle == [cmd |-> "none", step |-> "none", role |-> "controller", dir |-> DefaultDir,
         release |-> 0, airgap |-> FALSE, force |-> FALSE, yes |-> FALSE,
         node |-> "unknown", signal |-> "none", tolerated |-> FALSE, events |-> {}]

NoEnd == [cmd |-> "none", outcome |-> "none", role |-> "controller", tolerated |-> FALSE,
          clean |-> TRUE, events |-> {}]

At(m, s) == run[m].step = s
Of(m, c) == run[m].cmd = c
Goto(m, s) == run' = [run EXCEPT ![m].step = s]

(* The order of the steps of install and of join.                          *)
InstallAfter ==
    [verify |-> "configure", configure |-> "initialize", initialize |-> "preflights",
     preflights |-> "config", config |-> "units", units |-> "binary", binary |-> "k0s",
     k0s |-> "start", start |-> "ready", ready |-> "node", node |-> "record",
     record |-> "registry", registry |-> "charts"]
JoinAfter ==
    [verify |-> "configure", configure |-> "initialize", initialize |-> "preflights",
     preflights |-> "token", token |-> "binary", binary |-> "registry", registry |-> "units",
     units |-> "config", config |-> "k0s", k0s |-> "start", start |-> "ready", ready |-> "node"]

Following(m) == (IF Of(m, "install") THEN InstallAfter ELSE JoinAfter)[run[m].step]
Advance(m) == Goto(m, Following(m))
Write(m, fs) == files' = [files EXCEPT ![m] = @ \cup fs]
Remove(m, fs) == files' = [files EXCEPT ![m] = @ \ fs]

(* The command on m ends.  A clean reset is not forced, does all of its    *)
(* work and leaves nothing of the machine in the cluster.                  *)
End(m, outcome, event) ==
    /\ run' = [run EXCEPT ![m] = Idle]
    /\ last' = [last EXCEPT ![m] = [cmd |-> run[m].cmd, outcome |-> outcome,
                                    role |-> run[m].role,
                                    tolerated |-> run[m].tolerated,
                                    clean |-> /\ last[m].clean /\ ~run[m].force
                                              /\ m \in broken =>
                                                    /\ outcome = "done"
                                                    /\ m \notin etcd' \cup nodes',
                                    events |-> run[m].events \cup event]]

-----------------------------------------------------------------------------
(* k0s, its API and etcd.                                                  *)

(* "halted" is a k0s that has data and does not run.                       *)
Phases == {"none", "stopped", "starting", "joined", "node", "halted"}
Up(m) == k0s[m] \in {"starting", "joined", "node"}

(* The members of etcd that run, and whether they are a quorum.            *)
Live == {m \in etcd : k0s[m] \in {"joined", "node"} /\ home[m].role = "controller"}
API == etcd # {} /\ 2 * Cardinality(Live) > Cardinality(etcd)

(* A controller uses its own API server, which needs its own etcd.         *)
Served(m) == API /\ (home[m].role = "controller" => m \in etcd)

(* The containerd of k0s 1.36 refuses the legacy schema.                   *)
DropInFits(m) == home[m].release >= 36 => dropin[m] # "v2"

(* The first controller starts a cluster.                                  *)
K0sStartsCluster(m) ==
    /\ k0s[m] = "starting" /\ home[m].first
    /\ etcd' = {m} /\ nodes' = {} /\ labelled' = {} /\ inst' = NoInstallation
    /\ k0s' = [k0s EXCEPT ![m] = "joined"]
    /\ UNCHANGED <<run, last, disk, home, broken, commands, faults>>

(* The others become members of etcd, a worker only reaches the API.       *)
K0sJoins(m) ==
    /\ k0s[m] = "starting" /\ ~home[m].first /\ API
    /\ etcd' = IF home[m].role = "controller" THEN etcd \cup {m} ELSE etcd
    /\ k0s' = [k0s EXCEPT ![m] = "joined"]
    /\ UNCHANGED <<run, last, disk, home, nodes, labelled, inst, broken, commands, faults>>

(* The kubelet registers its Node, which is labelled later.                *)
NodeRegisters(m) ==
    /\ k0s[m] = "joined" /\ Served(m) /\ DropInFits(m)
    /\ nodes' = nodes \cup {m}
    /\ k0s' = [k0s EXCEPT ![m] = "node"]
    /\ UNCHANGED <<run, last, disk, home, etcd, labelled, inst, broken, commands, faults>>

NodeIsLabelled(m) ==
    /\ Served(m) /\ m \in nodes \ labelled /\ home[m].role = "controller" /\ k0s[m] = "node"
    /\ labelled' = labelled \cup {m}
    /\ UNCHANGED <<run, last, disk, k0s, home, etcd, nodes, inst, broken, commands, faults>>

-----------------------------------------------------------------------------
(* A command is started.  Only the first machine of a cluster is           *)
(* installed, the others join it.                                          *)

Free(m) == /\ run[m] = Idle
           /\ Overlap \/ \A n \in Machines : run[n] = Idle

Begin(m, command) ==
    /\ Free(m) /\ commands < MaxCommands
    /\ run' = [run EXCEPT ![m] = command]
    /\ last' = [last EXCEPT ![m] = [NoEnd EXCEPT !.clean = last[m].clean]]
    /\ commands' = commands + 1
    /\ UNCHANGED <<disk, k0s, home, cluster, broken, faults>>

StartInstall(m, dir, release, airgap) ==
    /\ \A n \in Machines \ {m} : k0s[n] = "none" /\ run[n].cmd # "install"
    /\ Begin(m, [Idle EXCEPT !.cmd = "install", !.step = "verify", !.dir = dir,
                             !.release = release, !.airgap = airgap])

(* GetJoinToken asks the Admin Console of the cluster.                     *)
StartJoin(m, role, release) ==
    /\ API /\ inst.state # "none"
    /\ Begin(m, [Idle EXCEPT !.cmd = "join", !.step = "verify", !.role = role,
                             !.dir = inst.dir, !.release = release,
                             !.airgap = inst.airgap, !.events = {"Started"}])

(* --force implies --yes.                                                  *)
StartReset(m, force, yes) ==
    /\ force => yes
    /\ Begin(m, [Idle EXCEPT !.cmd = "reset", !.step = "runtime", !.force = force, !.yes = yes])

-----------------------------------------------------------------------------
(* The steps install and join share.                                       *)

(* Mutant: a k0s that does not run is not noticed.                         *)
IsRunning(m) == Up(m)

IsInstalled(m) == "k0s.yaml" \in files[m]

(* A machine with a k0s configuration is refused.  The metrics of install  *)
(* start when the checks have passed.                                      *)
Verify(m) ==
    /\ At(m, "verify")
    /\ IF IsInstalled(m)
       THEN End(m, "declined", IF Of(m, "join") THEN {"Failed"} ELSE {})
       ELSE /\ run' = [run EXCEPT ![m].step = Following(m),
                                  ![m].events = @ \cup {"Started"}]
            /\ UNCHANGED last
    /\ UNCHANGED <<disk, k0s, home, cluster, broken, commands, faults>>

(* Mutant: a machine that joins does not keep where its data is.           *)
ConfigureInstall(m) ==
    /\ At(m, "configure")
    /\ config' = IF Of(m, "install") THEN [config EXCEPT ![m] = run[m].dir] ELSE config
    /\ Advance(m)
    /\ UNCHANGED <<last, files, dropin, k0s, home, cluster, broken, commands, faults>>

(* The runtime config is removed and written again.  Only then does join   *)
(* compare the version of the binary with that of the cluster.             *)
Configure(m) ==
    /\ At(m, "configure")
    /\ config' = [config EXCEPT ![m] = run[m].dir]
    /\ IF Of(m, "join") /\ run[m].release # inst.release
       THEN End(m, "failed", {"Failed"})
       ELSE Advance(m) /\ UNCHANGED last
    /\ UNCHANGED <<files, dropin, k0s, home, cluster, broken, commands, faults>>

(* The binaries, the support bundle and the charts are written to the data *)
(* directory and the host is configured; module HostSetup has the steps.   *)
Initialize(m) ==
    /\ At(m, "initialize")
    /\ Write(m, {"assets", "settings"})
    /\ Advance(m)
    /\ UNCHANGED <<last, config, dropin, k0s, home, cluster, broken, commands, faults>>

(* Nothing failed, or the user goes on in spite of it.                     *)
PreflightsPass(m) ==
    /\ At(m, "preflights")
    /\ Advance(m)
    /\ UNCHANGED <<last, disk, k0s, home, cluster, broken, commands, faults>>

(* runHostPreflights returns the error of package cli; runInstall and      *)
(* runJoin compare it with the one of package preflights, and errors.As    *)
(* finds the metrics error only in one that wraps it.                      *)
(* Mutant: with the error that is compared with, the one of the metrics is *)
(* lost.                                                                   *)
PlainPreflightsError == [name |-> "preflights.ErrPreflightsHaveFail", noFail |-> TRUE]

PreflightsError == [name |-> "cli.ErrPreflightsHaveFail", noFail |-> TRUE]
Expected == "preflights.ErrPreflightsHaveFail"

(* ErrorNothingElseToAdd has no Unwrap, fmt.Errorf with %w has.            *)
Returned(err) == IF err.name = Expected
                 THEN [shown |-> FALSE, noFail |-> FALSE]
                 ELSE [shown |-> TRUE, noFail |-> err.noFail]

PreflightsFail(m) ==
    LET err == Returned(PreflightsError) IN
    /\ At(m, "preflights") /\ faults < MaxFaults
    /\ faults' = faults + 1
    /\ End(m, IF err.shown THEN "shown" ELSE "preflights",
           {"PreflightsFailed"} \cup IF err.noFail THEN {} ELSE {"Failed"})
    /\ UNCHANGED <<disk, k0s, home, cluster, broken, commands>>

(* A file that install must not find, and that join writes over.           *)
WriteK0sConfig(m) ==
    /\ At(m, "config") /\ Of(m, "install") /\ ~IsInstalled(m)
    /\ Write(m, {"k0s.yaml"})
    /\ Advance(m)
    /\ UNCHANGED <<last, config, dropin, k0s, home, cluster, broken, commands, faults>>

ApplyNetworkConfiguration(m) ==
    /\ At(m, "config") /\ Of(m, "join")
    /\ Write(m, {"k0s.yaml"})
    /\ Advance(m)
    /\ UNCHANGED <<last, config, dropin, k0s, home, cluster, broken, commands, faults>>

(* The unit of the application, the drop-ins of k0s and the local artifact *)
(* mirror.                                                                 *)
SystemdUnits(m) ==
    /\ At(m, "units")
    /\ Write(m, {"services"})
    /\ Advance(m)
    /\ UNCHANGED <<last, config, dropin, k0s, home, cluster, broken, commands, faults>>

(* The binary is moved out of the data directory.                          *)
MoveBinary(m) ==
    /\ At(m, "binary") /\ "assets" \in files[m]
    /\ Write(m, {"k0s binary"})
    /\ Advance(m)
    /\ UNCHANGED <<last, config, dropin, k0s, home, cluster, broken, commands, faults>>

(* k0s install refuses a machine that has the unit already.                *)
K0sInstall(m, first) ==
    /\ At(m, "k0s") /\ "k0s binary" \in files[m] /\ run[m].role \notin Units(m)
    /\ Write(m, {run[m].role})
    /\ k0s' = [k0s EXCEPT ![m] = "stopped"]
    /\ home' = [home EXCEPT ![m] = [dir |-> run[m].dir, role |-> run[m].role,
                                    release |-> run[m].release, first |-> first]]
    /\ Advance(m)
    /\ UNCHANGED <<last, config, dropin, cluster, broken, commands, faults>>

InstallK0s(m) == Of(m, "install") /\ K0sInstall(m, TRUE)
RunK0sInstallCommand(m) == Of(m, "join") /\ K0sInstall(m, FALSE)

StartK0s(m) ==
    /\ At(m, "start") /\ k0s[m] = "stopped"
    /\ k0s' = [k0s EXCEPT ![m] = "starting"]
    /\ Advance(m)
    /\ UNCHANGED <<last, disk, home, cluster, broken, commands, faults>>

(* The status socket of k0s answers.                                       *)
WaitForK0s(m) ==
    /\ At(m, "ready") /\ Up(m)
    /\ Advance(m)
    /\ UNCHANGED <<last, disk, k0s, home, cluster, broken, commands, faults>>

(* A controller waits for its label too.                                   *)
NodeReady(m) == Served(m) /\ m \in nodes /\ (run[m].role = "controller" => m \in labelled)

(* A joined controller may enable high availability; module                *)
(* HighAvailability has that.                                              *)
WaitForNode(m) ==
    /\ At(m, "node") /\ NodeReady(m)
    /\ IF Of(m, "install") THEN Advance(m) /\ UNCHANGED last
       ELSE End(m, "done", {"Succeeded"})
    /\ UNCHANGED <<disk, k0s, home, cluster, broken, commands, faults>>

-----------------------------------------------------------------------------
(* The steps of one of them.                                               *)

(* Mutant: a state the other components do not know.                       *)
RecordUnknownState(m) ==
    /\ At(m, "record") /\ API
    /\ inst' = [inst EXCEPT !.state = "Recorded"]
    /\ Advance(m)
    /\ UNCHANGED <<last, disk, k0s, home, etcd, nodes, labelled, broken, commands, faults>>

RecordInstallation(m) ==
    /\ At(m, "record") /\ API
    /\ inst' = [state |-> "KubernetesInstalled", dir |-> run[m].dir, airgap |-> run[m].airgap,
                release |-> run[m].release]
    /\ Advance(m)
    /\ UNCHANGED <<last, disk, k0s, home, etcd, nodes, labelled, broken, commands, faults>>

(* Only an air gapped cluster has a registry.  Its drop-in is in the       *)
(* schema of the binary that writes it.                                    *)
AddInsecureRegistry(m) ==
    /\ At(m, "registry")
    /\ dropin' = IF run[m].airgap THEN [dropin EXCEPT ![m] = Schema(run[m].release)]
                 ELSE dropin
    /\ Advance(m)
    /\ UNCHANGED <<last, files, config, k0s, home, cluster, broken, commands, faults>>

(* Add-ons and extensions are installed and the state says so; module      *)
(* Charts has the steps.                                                   *)
InstallCharts(m) ==
    /\ At(m, "charts") /\ API
    /\ inst' = [inst EXCEPT !.state = "Installed"]
    /\ End(m, "done", {"Succeeded"})
    /\ UNCHANGED <<disk, k0s, home, etcd, nodes, labelled, broken, commands, faults>>

SaveToken(m) ==
    /\ At(m, "token")
    /\ Write(m, {"join token"})
    /\ Advance(m)
    /\ UNCHANGED <<last, config, dropin, k0s, home, cluster, broken, commands, faults>>

-----------------------------------------------------------------------------
(* How install and join end early.                                         *)

Installing(m) == run[m].cmd \in {"install", "join"}

(* The step cannot be done, or what it waits for does not come in time.    *)
Blocked(m) ==
    \/ At(m, "k0s") /\ run[m].role \in Units(m)
    \/ At(m, "ready") /\ ~Up(m)
    \/ At(m, "node") /\ ~NodeReady(m)
    \/ At(m, "record") /\ ~API
    \/ At(m, "charts") /\ ~API

(* A failure is reported once the start was.  The context of the report is *)
(* cancelled when the signal handler has reported before.                  *)
FailureReport(m) ==
    IF "Started" \notin run[m].events THEN {{}}
    ELSE IF run[m].signal # "none" THEN {{}, {"Failed"}} ELSE {{"Failed"}}

GiveUp(m) ==
    /\ Installing(m) /\ Blocked(m)
    /\ \E event \in FailureReport(m) : End(m, "failed", event)
    /\ UNCHANGED <<disk, k0s, home, cluster, broken, commands, faults>>

(* What a step that is interrupted may leave: the runtime config is gone   *)
(* for a moment when it is written.                                        *)
Torn(m) == IF At(m, "configure") THEN {config, [config EXCEPT ![m] = None]} ELSE {config}

(* A step returns an error, or a program it runs dies of the signal that   *)
(* the command has caught.                                                 *)
Fail(m) ==
    /\ Installing(m)
    /\ IF run[m].signal = "none" THEN faults < MaxFaults /\ faults' = faults + 1
       ELSE UNCHANGED faults
    /\ \E event \in FailureReport(m) : End(m, "failed", event)
    /\ config' \in Torn(m)
    /\ UNCHANGED <<files, dropin, k0s, home, cluster, broken, commands>>

(* The machine loses power or the process is killed.                       *)
Kill(m) ==
    /\ run[m] # Idle /\ faults < MaxFaults
    /\ faults' = faults + 1
    /\ config' \in Torn(m)
    /\ End(m, "killed", {})
    /\ UNCHANGED <<files, dropin, k0s, home, cluster, broken, commands>>

(* An interrupt at a prompt is returned as an error.                       *)
PromptInterrupted(m) ==
    /\ Installing(m) /\ At(m, "preflights") /\ faults < MaxFaults
    /\ faults' = faults + 1
    /\ End(m, "aborted", {"Aborted"})
    /\ UNCHANGED <<disk, k0s, home, cluster, broken, commands>>

(* Mutant: the handler exits without a report.                             *)
SignalUnreported(m) ==
    /\ Installing(m) /\ "Started" \in run[m].events /\ run[m].signal = "none"
    /\ faults < MaxFaults
    /\ faults' = faults + 1
    /\ run' = [run EXCEPT ![m].signal = "caught"]
    /\ UNCHANGED <<last, disk, k0s, home, cluster, broken, commands>>

(* signalHandler is set up after the start was reported.  It reports, then *)
(* cancels the context and exits, while the command goes on.               *)
SignalCaught(m) ==
    /\ Installing(m) /\ "Started" \in run[m].events /\ run[m].signal = "none"
    /\ faults < MaxFaults
    /\ faults' = faults + 1
    /\ run' = [run EXCEPT ![m].signal = "caught", ![m].events = @ \cup {"Aborted"}]
    /\ UNCHANGED <<last, disk, k0s, home, cluster, broken, commands>>

SignalExits(m) ==
    /\ run[m].signal = "caught"
    /\ config' \in Torn(m)
    /\ End(m, "aborted", {})
    /\ UNCHANGED <<files, dropin, k0s, home, cluster, broken, commands, faults>>

-----------------------------------------------------------------------------
(* reset                                                                   *)

(* A controller with data has an admin kubeconfig, which names itself.     *)
Kubeconfig(m) == home[m].role = "controller" /\ k0s[m] \in {"joined", "node", "halted"}
Reachable(m) == Served(m) /\ k0s[m] \in {"joined", "node"}

(* InitBestRuntimeConfig: the cluster, else the file, else the default.    *)
BestDir(m) ==
    IF /\ "k0s binary" \in files[m] /\ Kubeconfig(m) /\ Reachable(m)
       /\ inst.state # "none"
    THEN inst.dir
    ELSE IF config[m] # None THEN config[m] ELSE DefaultDir

Runtime(m) ==
    /\ At(m, "runtime")
    /\ run' = [run EXCEPT ![m].step = "warning", ![m].dir = BestDir(m)]
    /\ UNCHANGED <<last, disk, k0s, home, cluster, broken, commands, faults>>

(* checkErrPrompt: with --force an error is ignored, with --yes it ends    *)
(* the command, else the user decides.                                     *)
Unless(m, err, s) ==
    \/ (err => run[m].force \/ ~run[m].yes) /\ Goto(m, s) /\ UNCHANGED last
    \/ err /\ ~run[m].force /\ End(m, "failed", {})

(* The warning about high availability needs the cluster of a kubeconfig   *)
(* that exists.  The user may decline.                                     *)
Warning(m) ==
    /\ At(m, "warning")
    /\ IF Kubeconfig(m) /\ home[m].dir = run[m].dir /\ ~Reachable(m) /\ ~run[m].force
       THEN End(m, "failed", {})
       ELSE \/ Goto(m, "host") /\ UNCHANGED last
            \/ ~run[m].force /\ ~run[m].yes /\ End(m, "declined", {})
    /\ UNCHANGED <<disk, k0s, home, cluster, broken, commands, faults>>

(* newHostInfo knows the role and the Node only from a k0s that runs.      *)
HostInfo(m) ==
    LET status == "k0s binary" \in files[m] /\ Up(m) IN
    /\ At(m, "host")
    /\ \/ status /\ run' = [run EXCEPT ![m].step = "safety", ![m].role = home[m].role,
              ![m].node = IF ~Reachable(m) THEN "error"
                          ELSE IF m \in nodes THEN "found" ELSE "missing"]
          /\ UNCHANGED last
       \/ ~status /\ (run[m].force \/ ~run[m].yes)
          /\ run' = [run EXCEPT ![m].step = "count", ![m].role = "unknown"]
          /\ UNCHANGED last
       \/ ~status /\ ~run[m].force /\ End(m, "failed", {})
    /\ UNCHANGED <<disk, k0s, home, cluster, broken, commands, faults>>

(* Mutant: only etcd is looked at.                                         *)
Healthy(m) == API

(* checkResetSafety: etcd is healthy and this is not the last controller   *)
(* of other nodes.                                                         *)
Safe(m) == API /\ (nodes \ labelled # {} => Cardinality(labelled) # 1)

Safety(m) ==
    /\ At(m, "safety")
    /\ IF run[m].role = "controller" /\ ~run[m].force /\ ~Safe(m)
       THEN End(m, "failed", {})
       ELSE Goto(m, "count") /\ UNCHANGED last
    /\ UNCHANGED <<disk, k0s, home, cluster, broken, commands, faults>>

(* The only controller is not removed from the cluster, which ends with    *)
(* it.  From here on the machine is not whole.                             *)
Controllers(m) == IF run[m].role # "unknown" /\ Reachable(m) THEN Cardinality(labelled) ELSE 0
Stays(m) == run[m].role = "controller" /\ Controllers(m) = 1

Count(m) ==
    /\ At(m, "count")
    /\ Goto(m, IF Stays(m) THEN "k0s reset" ELSE "delete node")
    /\ broken' = broken \cup {m}
    /\ UNCHANGED <<last, disk, k0s, home, cluster, commands, faults>>

(* A worker may not be allowed to delete its Node, which --yes accepts.    *)
DeleteNode(m) ==
    /\ At(m, "delete node")
    /\ IF run[m].node = "found" /\ Reachable(m)
       THEN \/ /\ nodes' = nodes \ {m} /\ labelled' = labelled \ {m}
               /\ Goto(m, "control node") /\ UNCHANGED last
            \/ /\ run[m].role = "worker"
               /\ UNCHANGED <<nodes, labelled>>
               /\ \/ Goto(m, "control node") /\ UNCHANGED last
                  \/ ~run[m].force /\ ~run[m].yes /\ End(m, "failed", {})
       ELSE /\ Unless(m, run[m].node # "missing", "control node")
            /\ UNCHANGED <<nodes, labelled>>
    /\ UNCHANGED <<disk, k0s, home, etcd, inst, broken, commands, faults>>

DeleteControlNode(m) ==
    /\ At(m, "control node")
    /\ IF run[m].role = "controller"
       THEN Unless(m, ~Reachable(m), "leave")
       ELSE Goto(m, "k0s reset") /\ UNCHANGED last
    /\ UNCHANGED <<disk, k0s, home, cluster, broken, commands, faults>>

(* A member that cannot leave is only warned about.                        *)
LeaveEtcd(m) ==
    /\ At(m, "leave")
    /\ \/ /\ Reachable(m)
          /\ etcd' = IF etcd = {m} THEN etcd ELSE etcd \ {m}
          /\ Goto(m, "k0s reset") /\ UNCHANGED faults
       \/ /\ Reachable(m) => faults < MaxFaults
          /\ faults' = IF Reachable(m) THEN faults + 1 ELSE faults
          /\ etcd' = etcd
          /\ run' = [run EXCEPT ![m].step = "k0s reset", ![m].tolerated = TRUE]
    /\ UNCHANGED <<last, disk, k0s, home, nodes, labelled, inst, broken, commands>>

(* The data of a member is gone, and the cluster with its last one.        *)
Lose(m) ==
    IF etcd = {m}
    THEN etcd' = {} /\ nodes' = {} /\ labelled' = {} /\ inst' = NoInstallation
    ELSE UNCHANGED cluster

(* stopAndResetK0s; what goes wrong is only warned about.                  *)
ResetK0s(m) ==
    LET skip == "k0s binary" \notin files[m] \/ Units(m) = {} IN
    /\ At(m, "k0s reset")
    /\ \/ skip /\ Goto(m, "firewalld") /\ UNCHANGED <<files, k0s, cluster, faults>>
       \/ ~skip /\ Goto(m, "firewalld") /\ Remove(m, Roles) /\ Lose(m)
          /\ k0s' = [k0s EXCEPT ![m] = "none"] /\ UNCHANGED faults
       \/ ~skip /\ faults < MaxFaults /\ faults' = faults + 1
          /\ run' = [run EXCEPT ![m].step = "firewalld", ![m].tolerated = TRUE]
          /\ \/ UNCHANGED k0s
             \/ Up(m) /\ k0s' = [k0s EXCEPT ![m] = "halted"]
          /\ UNCHANGED <<files, cluster>>
    /\ UNCHANGED <<last, config, dropin, home, broken, commands>>

(* The ports and zones, which no later command depends on.                 *)
ResetFirewalld(m) ==
    /\ At(m, "firewalld")
    /\ \/ Goto(m, "remove k0s.yaml") /\ UNCHANGED <<last, faults>>
       \/ /\ faults < MaxFaults /\ faults' = faults + 1
          /\ Unless(m, TRUE, "remove k0s.yaml")
    /\ UNCHANGED <<disk, dropin, k0s, home, cluster, broken, commands>>

(* The files, in the order they are removed in.                            *)
RemoveStep(m, s, fs, t) ==
    /\ At(m, s)
    /\ Remove(m, fs)
    /\ Goto(m, t)
    /\ UNCHANGED <<last, config, dropin, k0s, home, cluster, broken, commands, faults>>

RemoveFiles(m) ==
    \/ RemoveStep(m, "remove k0s.yaml", {"k0s.yaml"}, "remove services")
    \/ RemoveStep(m, "remove services", {"services"}, "remove units")
    \/ RemoveStep(m, "remove units", Roles, "remove home")
    \/ RemoveStep(m, "remove binary", {"k0s binary"}, "remove config")
    \/ RemoveStep(m, "remove settings", {"settings"}, "reboot")

(* A data directory that cannot be removed is only logged.                 *)
RemoveHome(m) ==
    /\ At(m, "remove home")
    /\ \/ Remove(m, {"assets"}) /\ UNCHANGED faults
       \/ faults < MaxFaults /\ faults' = faults + 1 /\ UNCHANGED files
    /\ Goto(m, "remove binary")
    /\ UNCHANGED <<last, config, dropin, k0s, home, cluster, broken, commands>>

RemoveConfig(m) ==
    /\ At(m, "remove config")
    /\ config' = [config EXCEPT ![m] = None]
    /\ Goto(m, "remove settings")
    /\ UNCHANGED <<last, files, dropin, k0s, home, cluster, broken, commands, faults>>

(* Without its units k0s does not start again.                             *)
Reboot(m) ==
    /\ At(m, "reboot")
    /\ k0s' = [k0s EXCEPT ![m] = "none"]
    /\ Lose(m)
    /\ End(m, "done", {})
    /\ broken' = broken \ {m}
    /\ home' = [home EXCEPT ![m] = NoHome]
    /\ UNCHANGED <<disk, commands, faults>>

ResetFails(m) ==
    /\ Of(m, "reset") /\ faults < MaxFaults
    /\ run[m].step \notin {"leave", "k0s reset", "firewalld", "remove home"}
    /\ faults' = faults + 1
    /\ End(m, "failed", {})
    /\ UNCHANGED <<disk, k0s, home, cluster, broken, commands>>

-----------------------------------------------------------------------------
Init ==
    /\ run = [m \in Machines |-> Idle]
    /\ last = [m \in Machines |-> NoEnd]
    /\ files = [m \in Machines |-> {}]
    /\ config = [m \in Machines |-> None]
    /\ dropin = [m \in Machines |-> "none"]
    /\ k0s = [m \in Machines |-> "none"]
    /\ home = [m \in Machines |-> NoHome]
    /\ etcd = {} /\ nodes = {} /\ labelled = {}
    /\ inst = NoInstallation
    /\ broken = {}
    /\ commands = 0 /\ faults = 0

Start(m) ==
    \/ \E dir \in Dirs, release \in Releases, airgap \in AirGaps :
          StartInstall(m, dir, release, airgap)
    \/ \E role \in Roles, release \in Releases : StartJoin(m, role, release)
    \/ \E force, yes \in BOOLEAN : StartReset(m, force, yes)

Step(m) ==
    \/ Verify(m) \/ Configure(m) \/ Initialize(m)
    \/ PreflightsPass(m) \/ WriteK0sConfig(m) \/ ApplyNetworkConfiguration(m)
    \/ SystemdUnits(m)
    \/ MoveBinary(m) \/ InstallK0s(m) \/ RunK0sInstallCommand(m) \/ StartK0s(m) \/ WaitForK0s(m)
    \/ WaitForNode(m) \/ RecordInstallation(m) \/ AddInsecureRegistry(m)
    \/ InstallCharts(m) \/ SaveToken(m) \/ GiveUp(m)
    \/ SignalExits(m) \/ Runtime(m) \/ Warning(m) \/ HostInfo(m) \/ Safety(m)
    \/ Count(m) \/ DeleteNode(m) \/ DeleteControlNode(m) \/ LeaveEtcd(m)
    \/ ResetK0s(m) \/ ResetFirewalld(m) \/ RemoveFiles(m) \/ RemoveHome(m)
    \/ RemoveConfig(m) \/ Reboot(m)

Fault(m) == \/ PreflightsFail(m) \/ Fail(m) \/ Kill(m) \/ PromptInterrupted(m)
            \/ SignalCaught(m) \/ ResetFails(m)

Environment(m) == K0sStartsCluster(m) \/ K0sJoins(m) \/ NodeRegisters(m) \/ NodeIsLabelled(m)

Next == \E m \in Machines : Start(m) \/ Step(m) \/ Fault(m) \/ Environment(m)

Spec == Init /\ [][Next]_vars

(* Every command and k0s go on.                                            *)
Fairness == \A m \in Machines : WF_vars(Step(m)) /\ WF_vars(Environment(m))

FairSpec == Spec /\ Fairness

-----------------------------------------------------------------------------
(* Properties                                                              *)

Dir == Dirs \cup {None}
Cmds == {"none", "install", "join", "reset"}
Events == {"Started", "PreflightsFailed", "Succeeded", "Failed", "Aborted"}

(* The steps of the commands.  Those of reset are the ones before it       *)
(* changes anything, the ones at which units of k0s may be left, and the   *)
(* ones after.                                                             *)
InstallSteps == DOMAIN InstallAfter \cup {"charts"}
JoinSteps == DOMAIN JoinAfter \cup {"node"}
ResetLooks == {"runtime", "warning", "host", "safety", "count"}
ResetLeaves == {"delete node", "control node", "leave", "k0s reset", "firewalld",
                "remove k0s.yaml", "remove services", "remove units"}
ResetEnds == {"remove home", "remove binary", "remove config", "remove settings", "reboot"}
ResetSteps == ResetLooks \cup ResetLeaves \cup ResetEnds
Steps == {"none"} \cup InstallSteps \cup JoinSteps \cup ResetSteps

Command == [cmd : Cmds, step : Steps, role : Roles \cup {"unknown"}, dir : Dir,
            release : Releases \cup {0}, airgap : BOOLEAN, force : BOOLEAN, yes : BOOLEAN,
            node : {"unknown", "error", "missing", "found"},
            signal : {"none", "caught"}, tolerated : BOOLEAN, events : SUBSET Events]

Ended == [cmd : Cmds, role : Roles \cup {"unknown"},
          outcome : {"none", "done", "declined", "failed", "killed",
                     "aborted", "shown", "preflights"},
          tolerated : BOOLEAN, clean : BOOLEAN, events : SUBSET Events]

(* Every variable keeps its type, the state of the code's commands is that *)
(* of the machine they run on.                                             *)
TypeOK ==
    /\ run \in [Machines -> Command]
    /\ last \in [Machines -> Ended]
    /\ files \in [Machines -> SUBSET Files]
    /\ config \in [Machines -> Dir]
    /\ dropin \in [Machines -> {"none", "v2", "v3"}]
    /\ k0s \in [Machines -> Phases]
    /\ home \in [Machines -> [dir : Dir, role : Roles, release : Releases \cup {0},
                           first : BOOLEAN]]
    /\ etcd \subseteq Machines /\ labelled \subseteq nodes /\ nodes \subseteq Machines
    /\ inst \in [state : {"none", "KubernetesInstalled", "Installed"}, dir : Dir,
                airgap : BOOLEAN, release : Releases \cup {0}]
    /\ broken \subseteq Machines
    /\ commands \in 0..MaxCommands /\ faults \in 0..MaxFaults

BeforeK0s(m) ==
    \/ run[m].step \in {"configure", "initialize", "preflights",
                       "token", "config", "units", "binary", "k0s"}
    \/ At(m, "registry") /\ Of(m, "join")

(* An install or a join that was let in finds no k0s on the machine: what  *)
(* an earlier command left of k0s, however it ended, is always detected,   *)
(* except after a reset that was cut short.                                *)
Accepted ==
    \A m \in Machines : Installing(m) /\ BeforeK0s(m) /\ m \notin broken => Units(m) = {}

(* reset removes the data of the k0s that is on the machine: it finds the  *)
(* directory k0s was installed with, whichever of the commands failed and  *)
(* whether or not the cluster answers, as long as commands run one after   *)
(* the other: a join does not tell one cluster of the machines from the    *)
(* next.                                                                   *)
FindsData ==
    ~Overlap => \A m \in Machines :
        Units(m) # {} /\ m \notin broken => BestDir(m) = home[m].dir

Clean == \A m \in Machines : last[m].clean /\ ~run[m].force
Joined(w) == /\ k0s[w] = "node" /\ home[w].role = "worker"
             /\ last[w].cmd = "join" /\ last[w].outcome = "done"

(* Workers that joined do not lose their last controller to a reset, as    *)
(* long as commands run one after the other and every reset was a clean    *)
(* one.  A forced reset is not checked.  One that was cut short, or during *)
(* which k0s came up, may leave the Node of a controller that is gone, and *)
(* its label counts as another controller in the next reset.               *)
LastController ==
    ~Overlap /\ Clean /\ (\E w \in Machines : Joined(w)) => Live # {}

(* What the metrics say of a command that was not killed: that it started  *)
(* and how it ended.                                                       *)
EndIsReported ==
    \A m \in Machines : "Started" \in last[m].events /\ last[m].outcome # "killed"
        => last[m].events \cap {"Succeeded", "Failed", "PreflightsFailed", "Aborted"} # {}

(* An installation that the preflights stopped does not count as one that  *)
(* failed (ErrorNoFail).                                                   *)
PreflightsNotFailed ==
    \A m \in Machines : ~({"PreflightsFailed", "Failed"} \subseteq last[m].events)

(* A reset that completed leaves no member in etcd for a machine that is   *)
(* gone, which would count against the quorum.  It does not hold for a     *)
(* controller whose join failed once k0s had added it to etcd: beside one  *)
(* labelled controller reset takes it for the only one.                    *)
LeavesEtcd ==
    \A m \in Machines : /\ last[m].cmd = "reset" /\ last[m].outcome = "done"
                        /\ last[m].role = "controller" /\ ~last[m].tolerated
        => m \notin etcd

(* What a command leaves on a machine, however it ended, is found by the   *)
(* next one: by an install or a join that must not go on, and by reset.    *)
LeftoversFound ==
    /\ TypeOK
    /\ Accepted
    /\ FindsData

(* Each command that was not killed is reported with the end it had, also  *)
(* when a signal or the preflights end it.                                 *)
MetricsAreTrue ==
    /\ EndIsReported
    /\ PreflightsNotFailed
=============================================================================
