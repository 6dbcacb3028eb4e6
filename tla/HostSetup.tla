----------------------------- MODULE HostSetup -----------------------------
(***************************************************************************)
(* What install and join change on a host before k0s runs, what reset      *)
(* takes back, and what a reboot makes of it.                              *)
(*                                                                         *)
(* Most of it exists twice: in a file, and in the kernel, in firewalld or  *)
(* in systemd, which read the file at other times.  A command may fail or  *)
(* be killed in any of its steps, some failures are tolerated, and the     *)
(* next command finds what was left.                                       *)
(***************************************************************************)
EXTENDS Naturals

CONSTANTS
    Configs,        \* runtime configs: [dir, port, pods, services, proxy, airgap]
    DefaultDir,     \* ecv1beta1.DefaultDataDir
    Keys,           \* the kernel limits of dynamicSysctlConstraints
    Modules,        \* the kernel modules of the embedded list
    Ports,          \* the ports opened in the default zone
    Hosts,          \* hosts: [firewalld, manager, modules, limits]
    None,           \* no value
    MaxCommands,    \* commands that may be started
    MaxFaults,      \* failures and kills
    MaxReboots,     \* reboots of the user
    MaxRaises       \* times the user raises a limit

ASSUME ConfigsAssumption ==
    None \notin Configs /\ \A c \in Configs : c.airgap \in BOOLEAN
ASSUME HostsAssumption ==
    \A h \in Hosts : /\ h.firewalld \in {"active", "inactive", "absent"}
                     /\ h.manager \in BOOLEAN /\ h.modules \subseteq Modules
                     /\ h.limits \in [Keys -> 0..2]
ASSUME BoundsAssumption == {MaxCommands, MaxFaults, MaxReboots, MaxRaises} \subseteq Nat

VARIABLES
    host,       \* what the host has, and the limits its kernel starts with
    cmd,        \* the command that runs, or Idle
    last,       \* how the last one ended
    ec,         \* /etc/embedded-cluster/ec.yaml
    placed,     \* placed[d][f]: the file f in the data directory d
    copies,     \* binaries that were moved aside
    kernel,     \* the limits and modules in force
    conf,       \* the files of sysctl, modules-load and NetworkManager
    managed,    \* NetworkManager has read its file
    permanent,  \* the configuration of firewalld in its files
    runtime,    \* the one in force
    services,   \* the k0s configuration and the drop-ins of k0s
    mirror,     \* the local artifact mirror in systemd
    prepared,   \* the config the host was prepared for, nothing tolerated
    fresh,      \* the host was not rebooted since
    commands, faults, reboots, raises

files == <<ec, placed, copies>>
system == <<kernel, conf, managed>>
firewall == <<permanent, runtime>>
systemd == <<services, mirror>>
history == <<prepared, fresh>>
bounds == <<commands, faults, reboots, raises>>
state == <<files, system, firewall, systemd>>
hostVars == <<host, cmd, last, state, history, bounds>>

Dirs == {c.dir : c \in Configs} \cup {DefaultDir}
Files == {"self", "binaries", "kubectl", "support", "airgap"}
NoFiles == [f \in Files |-> "none"]

(* A limit is as low as the kernel's own, as high as the constraint wants  *)
(* it, or what the user has raised it to.                                  *)
Wanted == 1
Raised == 2

NoZone == [exists |-> FALSE, accept |-> FALSE, sources |-> {}, interfaces |-> FALSE, ports |-> {}]
NoServices == [k0s |-> FALSE, linked |-> FALSE, proxy |-> None]
NoMirror == [unit |-> FALSE, dropin |-> None, loaded |-> None, enabled |-> FALSE,
             process |-> "down", serves |-> None]

Idle == [name |-> "none", step |-> "none", config |-> None, own |-> FALSE, force |-> FALSE,
         yes |-> FALSE, tolerated |-> {}, seen |-> 0, err |-> FALSE, half |-> FALSE,
         clean |-> FALSE]
NoEnd == [name |-> "none", outcome |-> "none", tolerated |-> {}, err |-> FALSE, half |-> FALSE,
          clean |-> FALSE]

(* The step after s in ConfigureHost and initializeInstall, initializeJoin; *)
(* install writes the k0s configuration before the units and join after    *)
(* them.                                                                   *)
AfterUnits(s) ==
    CASE s = "units" -> "mirrorUnit"            [] s = "mirrorUnit" -> "startMirror"
      [] s = "startMirror" -> "wait"
      [] s = "wait" -> IF cmd.name = "install" THEN "done" ELSE "k0sConfig"
      [] OTHER -> IF cmd.name = "install" THEN "units" ELSE "done"
AfterSetup(s) ==
    CASE s = "runtimeConfig" -> "self"          [] s = "self" -> "binaries"
      [] s = "binaries" -> "kubectl"             [] s = "kubectl" -> "support"
      [] s = "support" -> "airgap"               [] s = "airgap" -> "static"
      [] s = "static" -> "dynamic"               [] s = "dynamic" -> "load"
      [] s = "load" -> "modulesFile"            [] s = "modulesFile" -> "modprobe"
      [] s = "modprobe" -> "managerFile"        [] s = "managerFile" -> "managerRestart"
      [] s = "managerRestart" -> "zone"         [] s = "zone" -> "entries"
      [] s = "entries" -> "ports"                [] s = "ports" -> "reload"
      [] s = "reload" -> IF cmd.name = "install" THEN "k0sConfig" ELSE "units"
      [] OTHER -> AfterUnits(s)
AfterReset(s) ==
    CASE s = "resetZone" -> "resetPorts"       [] s = "resetPorts" -> "resetReload"
      [] s = "resetReload" -> "removeK0sConfig" [] s = "removeK0sConfig" -> "stopMirror"
      [] s = "stopMirror" -> "removeMirror"    [] s = "removeMirror" -> "removeUnits"
      [] s = "removeUnits" -> "removeHome"     [] s = "removeHome" -> "removeManagerFile"
      [] s = "removeManagerFile" -> "removeConfig"
      [] s = "removeConfig" -> "removeStatic"  [] s = "removeStatic" -> "reboot"
      [] OTHER -> "done"

At(s) == cmd.step = s
Following(s) == IF cmd.name = "reset" THEN AfterReset(s) ELSE AfterSetup(s)

(* Failures of these steps are only logged; the ones that follow in the    *)
(* same function are skipped.                                              *)
Tolerated == [sysctl |-> {"static", "dynamic", "load"},
              modules |-> {"modulesFile", "modprobe"},
              firewalld |-> {"zone", "entries", "ports", "reload"}]
LastOf == [sysctl |-> "load", modules |-> "modprobe", firewalld |-> "reload"]

End(c, outcome) ==
    /\ cmd' = Idle
    /\ last' = [name |-> c.name, outcome |-> outcome, tolerated |-> c.tolerated,
                err |-> c.err, half |-> c.half, clean |-> c.clean]

(* The command goes on with c after the step s.                            *)
Continue(c, s) ==
    IF Following(s) = "done" THEN End(c, "done")
    ELSE cmd' = [c EXCEPT !.step = Following(s)] /\ UNCHANGED last
Advance == Continue(cmd, cmd.step)

-----------------------------------------------------------------------------
(* A command is started.                                                   *)

(* The link named after the application is written anew by every setup and *)
(* bothers none.                                                           *)
NoK0sServices == ~services.k0s /\ services.proxy = None

Begin(c) ==
    /\ cmd = Idle /\ commands < MaxCommands
    /\ commands' = commands + 1
    /\ cmd' = [c EXCEPT !.clean = NoK0sServices /\ mirror.process = "down"]
    /\ last' = NoEnd
    /\ prepared' = None
    /\ UNCHANGED <<host, state, fresh, faults, reboots, raises>>

(* verifyNoInstallation: a host with a k0s configuration is refused.  The  *)
(* binary that is run may be the one in the data directory.                *)
StartSetup(name, config, own) ==
    /\ ~services.k0s
    /\ own => placed[config.dir]["self"] = "whole"
    /\ Begin([Idle EXCEPT !.name = name, !.step = "runtimeConfig", !.config = config,
                          !.own = own])

(* --force implies --yes.  "half" is a zone that a setup which was cut     *)
(* short has created and not loaded.                                       *)
StartReset(force, yes) ==
    /\ force => yes
    /\ Begin([Idle EXCEPT !.name = "reset", !.force = force, !.yes = yes,
                          !.step = IF host.firewalld = "absent" THEN "removeK0sConfig"
                                   ELSE "resetZone",
                          !.half = permanent.exists # runtime.exists])

-----------------------------------------------------------------------------
(* Files                                                                   *)

WriteRuntimeConfig ==
    /\ At("runtimeConfig")
    /\ ec' = cmd.config
    /\ Advance
    /\ UNCHANGED <<host, placed, copies, system, firewall, systemd, history, bounds>>

Dir == cmd.config.dir
Place(f, is) == placed' = [placed EXCEPT ![Dir][f] = is]

(* Mutant: a file that exists is not written again.                        *)
OursUnlessThere(f) == At(f) /\ (placed[Dir][f] # "none" \/ (f = "self" /\ cmd.own))

(* Ourselves does nothing when the binary that runs is the one in the data *)
(* directory.                                                              *)
Ours(f) == At(f) /\ f = "self" /\ cmd.own

(* A binary that exists is moved aside, as it may run; the copy is removed *)
(* when the new one is written.                                            *)
MaterializeBinary(f) ==
    /\ At(f)
    /\ IF Ours(f) THEN UNCHANGED <<placed, copies>>
       ELSE /\ Place(f, "whole")
            /\ copies' = IF placed[Dir][f] = "none" THEN copies ELSE copies \ {<<Dir, f>>}
    /\ Advance
    /\ UNCHANGED <<host, ec, system, firewall, systemd, history, bounds>>

(* kubectl is a script that is removed and written again.  The images and  *)
(* charts come out of the bundle, or from the cluster that is joined.      *)
MaterializeFile(f) ==
    /\ At(f)
    /\ IF f = "airgap" /\ ~cmd.config.airgap THEN UNCHANGED placed ELSE Place(f, "whole")
    /\ Advance
    /\ UNCHANGED <<host, ec, copies, system, firewall, systemd, history, bounds>>

Materialize == (\E f \in {"self", "binaries"} : MaterializeBinary(f))
               \/ (\E f \in {"kubectl", "support", "airgap"} : MaterializeFile(f))

-----------------------------------------------------------------------------
(* The kernel and NetworkManager                                           *)

StaticSysctl ==
    /\ At("static")
    /\ conf' = [conf EXCEPT !.static = TRUE]
    /\ Advance
    /\ UNCHANGED <<host, files, kernel, managed, firewall, systemd, history, bounds>>

(* Mutant: the operator of the constraints is the other one.               *)
NeedsUpdateMax(k) == kernel.limits[k] > Wanted

(* The file names the limits that are lower than wanted now.               *)
NeedsUpdate(k) == kernel.limits[k] < Wanted

DynamicSysctl ==
    /\ At("dynamic")
    /\ conf' = [conf EXCEPT !.dynamic = [k \in Keys |-> NeedsUpdate(k)]]
    /\ Advance
    /\ UNCHANGED <<host, files, kernel, managed, firewall, systemd, history, bounds>>

(* sysctl --system.                                                        *)
Loaded == [kernel EXCEPT !.limits = [k \in Keys |-> IF conf.dynamic[k] THEN Wanted ELSE @[k]]]
LoadSysctl ==
    /\ At("load")
    /\ kernel' = Loaded
    /\ Advance
    /\ UNCHANGED <<host, files, conf, managed, firewall, systemd, history, bounds>>

ModulesFile ==
    /\ At("modulesFile")
    /\ conf' = [conf EXCEPT !.modules = TRUE]
    /\ Advance
    /\ UNCHANGED <<host, files, kernel, managed, firewall, systemd, history, bounds>>

(* A module the kernel does not have is skipped.                           *)
Modprobe ==
    /\ At("modprobe")
    /\ kernel' = [kernel EXCEPT !.modules = @ \cup host.modules]
    /\ Advance
    /\ UNCHANGED <<host, files, conf, managed, firewall, systemd, history, bounds>>

(* NetworkManager leaves the interfaces of calico alone, when it runs.     *)
ManagerFile ==
    /\ At("managerFile")
    /\ conf' = IF host.manager THEN [conf EXCEPT !.manager = TRUE] ELSE conf
    /\ Advance
    /\ UNCHANGED <<host, files, kernel, managed, firewall, systemd, history, bounds>>

RestartManager ==
    /\ At("managerRestart")
    /\ managed' = conf.manager
    /\ Advance
    /\ UNCHANGED <<host, files, kernel, conf, firewall, systemd, history, bounds>>

-----------------------------------------------------------------------------
(* firewalld                                                               *)

(* The host is prepared when nothing was tolerated.                        *)
Prepare(c) ==
    /\ prepared' = IF c.tolerated = {} THEN c.config ELSE None
    /\ fresh' = (c.tolerated = {})

(* ZoneExists asks for the zone in force, NewZone creates it in the files. *)
ZoneExists == runtime.exists

SkipFirewalld ==
    /\ At("zone") /\ host.firewalld # "active"
    /\ Prepare(cmd)
    /\ Continue(cmd, "reload")
    /\ UNCHANGED <<host, state, bounds>>

CreateZone ==
    /\ At("zone") /\ host.firewalld = "active" /\ (ZoneExists \/ ~permanent.exists)
    /\ permanent' = [permanent EXCEPT !.exists = TRUE]
    /\ Advance
    /\ UNCHANGED <<host, files, system, runtime, systemd, history, bounds>>

(* A zone that has files and is not in force cannot be created again.      *)
ZoneConflict ==
    /\ At("zone") /\ host.firewalld = "active" /\ ~ZoneExists /\ permanent.exists
    /\ Continue([cmd EXCEPT !.tolerated = @ \cup {"firewalld"}], "reload")
    /\ UNCHANGED <<host, state, history, bounds>>

(* The target, the networks of pods and services, and the interfaces of    *)
(* calico, in this order.                                                  *)
Entries(n) ==
    [permanent EXCEPT !.accept = @ \/ n >= 1,
                      !.sources = @ \cup (IF n >= 2 THEN {cmd.config.pods} ELSE {})
                                    \cup (IF n >= 3 THEN {cmd.config.services} ELSE {}),
                      !.interfaces = @ \/ n >= 4]

ZoneEntries ==
    /\ At("entries")
    /\ permanent' = Entries(4)
    /\ Advance
    /\ UNCHANGED <<host, files, system, runtime, systemd, history, bounds>>

OpenPorts ==
    /\ At("ports")
    /\ permanent' = [permanent EXCEPT !.ports = Ports]
    /\ Advance
    /\ UNCHANGED <<host, files, system, runtime, systemd, history, bounds>>

ReloadFirewalld ==
    /\ At("reload")
    /\ runtime' = permanent
    /\ Prepare(cmd)
    /\ Advance
    /\ UNCHANGED <<host, files, system, permanent, systemd, bounds>>

-----------------------------------------------------------------------------
(* systemd                                                                 *)

WriteK0sConfig ==
    /\ At("k0sConfig")
    /\ services' = [services EXCEPT !.k0s = TRUE]
    /\ Advance
    /\ UNCHANGED <<host, files, system, firewall, mirror, history, bounds>>

(* The link named after the application, and the proxy when there is one.  *)
CreateSystemdUnitFiles ==
    /\ At("units")
    /\ services' = [services EXCEPT !.linked = TRUE,
           !.proxy = IF cmd.config.proxy = None THEN @ ELSE cmd.config.proxy]
    /\ Advance
    /\ UNCHANGED <<host, files, system, firewall, mirror, history, bounds>>

(* Mutant: the unit is started, but not enabled.                           *)
MirrorUnitForNow ==
    /\ At("mirrorUnit")
    /\ mirror' = [mirror EXCEPT !.unit = TRUE, !.dropin = cmd.config, !.loaded = cmd.config]
    /\ Advance
    /\ UNCHANGED <<host, files, system, firewall, services, history, bounds>>

(* The unit and its drop-in with the port and the directory are written,   *)
(* read by systemd and enabled.                                            *)
MirrorUnit ==
    /\ At("mirrorUnit")
    /\ mirror' = [mirror EXCEPT !.unit = TRUE, !.dropin = cmd.config, !.loaded = cmd.config,
                                !.enabled = TRUE]
    /\ Advance
    /\ UNCHANGED <<host, files, system, firewall, services, history, bounds>>

(* The process that systemd starts; without its binary it is restarted     *)
(* every few seconds.                                                      *)
Launched(m, config) ==
    [m EXCEPT !.serves = config,
              !.process = IF config # None /\ placed[config.dir]["binaries"] = "whole" THEN "up"
                          ELSE "restarting"]

(* systemctl start does nothing to a service that runs.                    *)
StartMirror ==
    /\ At("startMirror")
    /\ mirror' = IF mirror.process = "down" THEN Launched(mirror, mirror.loaded) ELSE mirror
    /\ Advance
    /\ UNCHANGED <<host, files, system, firewall, services, history, bounds>>

(* Mutant: once more than that.                                            *)
LookAtMirrorLonger ==
    /\ At("wait")
    /\ IF mirror.process = "up"
       THEN IF cmd.seen = 3 THEN Advance
            ELSE cmd' = [cmd EXCEPT !.seen = @ + 1] /\ UNCHANGED last
       ELSE cmd' = [cmd EXCEPT !.seen = 0, !.err = TRUE] /\ UNCHANGED last
    /\ UNCHANGED <<host, state, history, bounds>>

(* waitForLocalArtifactMirror: seen up three times in a row.               *)
LookAtMirror ==
    /\ At("wait")
    /\ IF mirror.process = "up"
       THEN IF cmd.seen = 2 THEN Advance
            ELSE cmd' = [cmd EXCEPT !.seen = @ + 1] /\ UNCHANGED last
       ELSE cmd' = [cmd EXCEPT !.seen = 0, !.err = TRUE] /\ UNCHANGED last
    /\ UNCHANGED <<host, state, history, bounds>>

(* The attempts run out; the last error there was is returned.             *)
MirrorNotUp ==
    /\ At("wait") /\ cmd.err
    /\ End(cmd, "failed")
    /\ UNCHANGED <<host, state, history, bounds>>

MirrorCrashes ==
    /\ mirror.process = "up" /\ faults < MaxFaults
    /\ faults' = faults + 1
    /\ mirror' = [mirror EXCEPT !.process = "restarting"]
    /\ UNCHANGED <<host, cmd, last, files, system, firewall, services, history, commands, reboots,
                   raises>>

(* Restart=always; systemd uses what it has read last.                     *)
MirrorRestarts ==
    /\ mirror.process = "restarting" /\ Launched(mirror, mirror.loaded) # mirror
    /\ mirror' = Launched(mirror, mirror.loaded)
    /\ UNCHANGED <<host, cmd, last, files, system, firewall, services, history, bounds>>

-----------------------------------------------------------------------------
(* reset, from where k0s is gone                                           *)

(* Every command of firewalld fails when it does not run.                  *)
Answers == host.firewalld = "active"

(* A step of ResetFirewalld that works, or is remembered as an error.      *)
ResetStep(s, effect) ==
    /\ At(s)
    /\ \/ Answers /\ permanent' = effect /\ Advance /\ UNCHANGED faults
       \/ /\ IF Answers THEN faults < MaxFaults /\ faults' = faults + 1 ELSE UNCHANGED faults
          /\ permanent' = permanent
          /\ Continue([cmd EXCEPT !.err = TRUE], s)
    /\ UNCHANGED <<host, files, system, runtime, systemd, history, commands, reboots, raises>>

(* A zone that is not in force is not deleted.                             *)
ResetZone == ResetStep("resetZone",
                       IF ZoneExists THEN [NoZone EXCEPT !.ports = permanent.ports] ELSE permanent)
ResetPorts == ResetStep("resetPorts", [permanent EXCEPT !.ports = {}])

(* The end of ResetFirewalld and checkErrPrompt: with --force an error is  *)
(* ignored, with --yes it ends the command, else the user decides.         *)
Resume(c) ==
    \/ (c.err => c.force \/ ~c.yes) /\ Continue(c, "resetReload")
    \/ c.err /\ ~c.force /\ End(c, "failed")

ResetReload ==
    /\ At("resetReload")
    /\ \/ Answers /\ runtime' = permanent /\ Resume(cmd) /\ UNCHANGED faults
       \/ /\ IF Answers THEN faults < MaxFaults /\ faults' = faults + 1 ELSE UNCHANGED faults
          /\ runtime' = runtime
          /\ Resume([cmd EXCEPT !.err = TRUE])
    /\ UNCHANGED <<host, files, system, permanent, systemd, history, commands, reboots, raises>>

RemoveK0sConfig ==
    /\ At("removeK0sConfig")
    /\ services' = [services EXCEPT !.k0s = FALSE]
    /\ Advance
    /\ UNCHANGED <<host, files, system, firewall, mirror, history, bounds>>

(* The mirror is stopped when its unit is there.                           *)
StopMirror ==
    /\ At("stopMirror")
    /\ mirror' = IF mirror.unit THEN [mirror EXCEPT !.process = "down", !.serves = None] ELSE mirror
    /\ Advance
    /\ UNCHANGED <<host, files, system, firewall, services, history, bounds>>

RemoveMirror ==
    /\ At("removeMirror")
    /\ mirror' = [mirror EXCEPT !.unit = FALSE, !.dropin = None]
    /\ Advance
    /\ UNCHANGED <<host, files, system, firewall, services, history, bounds>>

(* Mutant: the directory of the drop-ins stays.                            *)
RemoveUnitsButDropIns ==
    /\ At("removeUnits")
    /\ UNCHANGED services
    /\ Advance
    /\ UNCHANGED <<host, files, system, firewall, mirror, history, bounds>>

(* The drop-ins and units of k0s; the link named after the application     *)
(* stays, and dangles.                                                     *)
RemoveUnits ==
    /\ At("removeUnits")
    /\ services' = [services EXCEPT !.proxy = None]
    /\ Advance
    /\ UNCHANGED <<host, files, system, firewall, mirror, history, bounds>>

(* The data directory of the runtime config; a failure is only logged.     *)
RemoveHome ==
    LET dir == IF ec = None THEN DefaultDir ELSE ec.dir IN
    /\ At("removeHome")
    /\ \/ /\ placed' = [placed EXCEPT ![dir] = NoFiles]
          /\ copies' = {c \in copies : c[1] # dir}
          /\ UNCHANGED faults
       \/ faults < MaxFaults /\ faults' = faults + 1 /\ UNCHANGED <<placed, copies>>
    /\ Advance
    /\ UNCHANGED <<host, ec, system, firewall, systemd, history, commands, reboots, raises>>

RemoveManagerFile ==
    /\ At("removeManagerFile")
    /\ conf' = [conf EXCEPT !.manager = FALSE]
    /\ Advance
    /\ UNCHANGED <<host, files, kernel, managed, firewall, systemd, history, bounds>>

RemoveRuntimeConfig ==
    /\ At("removeConfig")
    /\ ec' = None
    /\ Advance
    /\ UNCHANGED <<host, placed, copies, system, firewall, systemd, history, bounds>>

(* The other files of sysctl and modules-load stay.                        *)
RemoveStatic ==
    /\ At("removeStatic")
    /\ conf' = [conf EXCEPT !.static = FALSE]
    /\ Advance
    /\ UNCHANGED <<host, files, kernel, managed, firewall, systemd, history, bounds>>

(* What a host has after it was booted.                                    *)
Boot ==
    /\ kernel' = [limits |-> [k \in Keys |-> IF conf.dynamic[k] THEN Wanted ELSE host.limits[k]],
                  modules |-> IF conf.modules THEN host.modules ELSE {}]
    /\ managed' = conf.manager
    /\ runtime' = permanent
    /\ mirror' = IF mirror.unit /\ mirror.enabled
                 THEN Launched([mirror EXCEPT !.loaded = mirror.dropin], mirror.dropin)
                 ELSE [mirror EXCEPT !.process = "down", !.serves = None, !.loaded = None]
    /\ fresh' = FALSE

RebootAtEnd ==
    /\ At("reboot")
    /\ Boot
    /\ Advance
    /\ UNCHANGED <<host, files, conf, permanent, services, prepared, bounds>>

-----------------------------------------------------------------------------
(* Failures and kills                                                      *)

(* What a step of a setup that did not come to its end has done.           *)
PartOfBinary(f, is) == At(f) /\ ~Ours(f) /\ Place(f, is)
Part ==
    \/ /\ At("runtimeConfig") /\ ec' = None
       /\ UNCHANGED <<placed, system, firewall>>
    \/ /\ \/ \E f \in {"self", "binaries"}, is \in {"none", "torn"} : PartOfBinary(f, is)
          \/ \E is \in {"none", "torn"} : At("kubectl") /\ Place("kubectl", is)
          \/ At("support") /\ Place("support", "torn")
          \/ At("airgap") /\ cmd.config.airgap /\ Place("airgap", "torn")
       /\ UNCHANGED <<ec, system, firewall>>
    \/ /\ At("dynamic") /\ conf' = [conf EXCEPT !.dynamic = [k \in Keys |-> FALSE]]
       /\ UNCHANGED <<files, kernel, managed, firewall>>
    \/ /\ \/ At("load") /\ kernel' = Loaded
          \/ At("modprobe") /\ \E some \in SUBSET host.modules :
                kernel' = [kernel EXCEPT !.modules = @ \cup some]
       /\ UNCHANGED <<files, conf, managed, firewall>>
    \/ /\ \/ At("entries") /\ \E n \in 0..3 : permanent' = Entries(n)
          \/ At("ports") /\ \E some \in SUBSET Ports :
                permanent' = [permanent EXCEPT !.ports = @ \cup some]
       /\ UNCHANGED <<files, system, runtime>>
    \/ UNCHANGED <<ec, placed, system, firewall>>

(* A binary that was moved aside before it was not written again.          *)
Moved == {f \in {"self", "binaries"} :
             At(f) /\ placed[Dir][f] # "none" /\ placed'[Dir][f] # placed[Dir][f]}

(* The deferred functions run: the copies are removed.                     *)
Fail ==
    /\ cmd.name \in {"install", "join"} /\ faults < MaxFaults
    /\ ~At("wait") /\ (At("zone") => host.firewalld = "active")
    /\ faults' = faults + 1
    /\ Part
    /\ copies' = copies \ {<<Dir, f>> : f \in Moved}
    /\ IF \E g \in DOMAIN Tolerated : cmd.step \in Tolerated[g]
       THEN LET g == CHOOSE x \in DOMAIN Tolerated : cmd.step \in Tolerated[x]
            IN  Continue([cmd EXCEPT !.tolerated = @ \cup {g}], LastOf[g])
       ELSE End(cmd, "failed")
    /\ UNCHANGED <<host, systemd, history, commands, reboots, raises>>

Kill ==
    /\ cmd # Idle /\ faults < MaxFaults
    /\ faults' = faults + 1
    /\ IF cmd.name = "reset" THEN UNCHANGED <<files, system, firewall>>
       ELSE Part /\ copies' = copies \cup {<<Dir, f>> : f \in Moved}
    /\ End(cmd, "killed")
    /\ UNCHANGED <<host, systemd, history, commands, reboots, raises>>

(* A file cannot be removed or a service not be stopped.                   *)
ResetFails ==
    /\ cmd.name = "reset" /\ faults < MaxFaults
    /\ ~At("resetZone") /\ ~At("resetPorts") /\ ~At("resetReload") /\ ~At("removeHome")
    /\ faults' = faults + 1
    /\ End(cmd, "failed")
    /\ UNCHANGED <<host, state, history, commands, reboots, raises>>

(* The user reboots the host, or raises a limit, between commands.         *)
Reboot ==
    /\ cmd = Idle /\ reboots < MaxReboots
    /\ reboots' = reboots + 1
    /\ Boot
    /\ UNCHANGED <<host, cmd, last, files, conf, permanent, services, prepared, commands, faults,
                   raises>>

RaiseLimit(k) ==
    /\ cmd = Idle /\ raises < MaxRaises
    /\ raises' = raises + 1
    /\ kernel' = [kernel EXCEPT !.limits[k] = Raised]
    /\ UNCHANGED <<host, cmd, last, files, conf, managed, firewall, systemd, history, commands,
                   faults, reboots>>

-----------------------------------------------------------------------------
InitHost ==
    /\ host \in Hosts
    /\ cmd = Idle /\ last = NoEnd
    /\ ec = None /\ placed = [d \in Dirs |-> NoFiles] /\ copies = {}
    /\ kernel = [limits |-> host.limits, modules |-> {}]
    /\ conf = [static |-> FALSE, dynamic |-> [k \in Keys |-> FALSE], modules |-> FALSE,
               manager |-> FALSE]
    /\ managed = FALSE
    /\ permanent = NoZone /\ runtime = NoZone
    /\ services = NoServices /\ mirror = NoMirror
    /\ prepared = None /\ fresh = FALSE
    /\ commands = 0 /\ faults = 0 /\ reboots = 0 /\ raises = 0

Step ==
    \/ WriteRuntimeConfig \/ Materialize \/ StaticSysctl \/ DynamicSysctl \/ LoadSysctl
    \/ ModulesFile \/ Modprobe \/ ManagerFile \/ RestartManager \/ SkipFirewalld \/ CreateZone
    \/ ZoneConflict \/ ZoneEntries \/ OpenPorts \/ ReloadFirewalld \/ WriteK0sConfig
    \/ CreateSystemdUnitFiles \/ MirrorUnit \/ StartMirror \/ LookAtMirror \/ MirrorNotUp
    \/ ResetZone \/ ResetPorts \/ ResetReload \/ RemoveK0sConfig \/ StopMirror \/ RemoveMirror
    \/ RemoveUnits \/ RemoveHome \/ RemoveManagerFile \/ RemoveRuntimeConfig \/ RemoveStatic
    \/ RebootAtEnd

Surroundings == \/ MirrorCrashes \/ MirrorRestarts \/ Fail \/ Kill \/ ResetFails \/ Reboot
                \/ \E k \in Keys : RaiseLimit(k)

StartCommand ==
    \/ \E name \in {"install", "join"}, config \in Configs, own \in BOOLEAN :
          StartSetup(name, config, own)
    \/ \E force, yes \in BOOLEAN : StartReset(force, yes)

NextHost == StartCommand \/ Step \/ Surroundings

HostSpec == InitHost /\ [][NextHost]_hostVars

-----------------------------------------------------------------------------
(* Properties                                                              *)

Config == Configs \cup {None}
Zone == [exists : BOOLEAN, accept : BOOLEAN, interfaces : BOOLEAN, ports : SUBSET Ports,
         sources : SUBSET ({c.pods : c \in Configs} \cup {c.services : c \in Configs})]

(* Every variable keeps its type; a copy is the copy of a binary.          *)
HostTypeOK ==
    /\ host \in Hosts
    /\ cmd.name \in {"none", "install", "join", "reset"} /\ cmd.config \in Config
    /\ cmd.tolerated \subseteq DOMAIN Tolerated /\ cmd.seen \in 0..2
    /\ last.outcome \in {"none", "done", "failed", "killed"}
    /\ ec \in Config
    /\ placed \in [Dirs -> [Files -> {"none", "torn", "whole"}]]
    /\ copies \subseteq Dirs \X {"self", "binaries"}
    /\ kernel \in [limits : [Keys -> 0..2], modules : SUBSET Modules]
    /\ conf \in [static : BOOLEAN, dynamic : [Keys -> BOOLEAN], modules : BOOLEAN,
                 manager : BOOLEAN]
    /\ managed \in BOOLEAN
    /\ permanent \in Zone /\ runtime \in Zone
    /\ services \in [k0s : BOOLEAN, linked : BOOLEAN, proxy : {c.proxy : c \in Configs} \cup {None}]
    /\ mirror \in [unit : BOOLEAN, dropin : Config, loaded : Config, enabled : BOOLEAN,
                   process : {"down", "up", "restarting"}, serves : Config]
    /\ prepared \in Config /\ fresh \in BOOLEAN
    /\ commands \in 0..MaxCommands /\ faults \in 0..MaxFaults
    /\ reboots \in 0..MaxReboots /\ raises \in 0..MaxRaises

(* On a host that was prepared the limits are high enough until the next   *)
(* reboot.                                                                 *)
LimitsRaised == prepared # None /\ fresh => \A k \in Keys : kernel.limits[k] >= Wanted

(* They stay so: "ensuring proper operation of applications that monitor   *)
(* filesystem events".  It does not hold: a second command on the host     *)
(* writes a file without the limits that the first one raised.             *)
LimitsSurviveReboot == prepared # None => \A k \in Keys : kernel.limits[k] >= Wanted

(* On a host that was prepared every file is whole, whatever an earlier    *)
(* command tore, the modules are loaded, NetworkManager leaves calico      *)
(* alone and firewalld lets in what the runtime config names; and this     *)
(* holds after every reboot.                                               *)
HostPrepared ==
    prepared # None =>
        /\ ec = prepared
        /\ \A f \in Files \ (IF prepared.airgap THEN {} ELSE {"airgap"}) :
              placed[prepared.dir][f] = "whole"
        /\ host.modules \subseteq kernel.modules
        /\ host.manager => managed
        /\ host.firewalld = "active" =>
              /\ runtime.exists /\ runtime.accept /\ runtime.interfaces
              /\ {prepared.pods, prepared.services} \subseteq runtime.sources
              /\ Ports \subseteq runtime.ports

(* A reset that comes to its end leaves no k0s service and no mirror, in   *)
(* systemd's memory or in its files, none of the files it removes and no   *)
(* setting of NetworkManager, also after a command that was cut short; and *)
(* if it met no error, nothing of the installer's in firewalld, in force   *)
(* or in its files, except when the zone was created and never loaded.     *)
(* What it leaves is the link named after the application, the file of     *)
(* the dynamic limits and the list of modules.                             *)
UndoneByReset ==
    last.name = "reset" /\ last.outcome = "done" =>
        /\ NoK0sServices /\ ec = None
        /\ mirror.process = "down" /\ ~mirror.unit /\ mirror.loaded = None
        /\ ~conf.static /\ ~conf.manager /\ ~managed
        /\ ~last.err /\ ~last.half => permanent = NoZone /\ runtime = NoZone

(* After a setup that found no service of an earlier one, the mirror runs  *)
(* with the port and the directory of the runtime config and k0s has its   *)
(* proxy, also after a crash of the mirror or a reboot.                    *)
ServicesFollowConfig ==
    last.name \in {"install", "join"} /\ last.outcome = "done" /\ last.clean =>
        /\ mirror.process # "down" /\ mirror.serves = ec
        /\ services = [k0s |-> TRUE, linked |-> TRUE, proxy |-> ec.proxy]

(* What install and join promise of a host, whatever earlier commands,     *)
(* kills and reboots left on it: limits, files, firewall and services.     *)
SetupHolds ==
    /\ HostTypeOK
    /\ LimitsRaised
    /\ HostPrepared
    /\ ServicesFollowConfig
=============================================================================
