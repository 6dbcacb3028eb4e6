--------------------------- MODULE CommandProofs ----------------------------
(***************************************************************************)
(* What the commands of a machine promise at both ends of a join: of the   *)
(* host before k0s runs on it (HostSetup), and of the registry when the    *)
(* third controller is there and high availability is enabled              *)
(* (HighAvailability).                                                     *)
(*                                                                         *)
(* HostSetup holds for every set of hosts, runtime configs, limits and     *)
(* modules, and any number of commands, failures, kills and reboots.       *)
(* HighAvailability holds for every number of commands, images and         *)
(* failures, when commands follow one another and the registry's pod is    *)
(* gone once it is scaled down.                                            *)
(***************************************************************************)
EXTENDS HostSetup, HighAvailability, TLAPS

-----------------------------------------------------------------------------
(* The inductive invariant of HostSetup, in parts: where the command is,   *)
(* and what it has done to each part of the host when it is there.         *)

SetupSteps == {"runtimeConfig", "self", "binaries", "kubectl", "support", "airgap", "static",
               "dynamic", "load", "modulesFile", "modprobe", "managerFile", "managerRestart",
               "zone", "entries", "ports", "reload", "k0sConfig", "units", "mirrorUnit",
               "startMirror", "wait"}
ResetSteps == {"resetZone", "resetPorts", "resetReload", "removeK0sConfig", "stopMirror",
               "removeMirror", "removeUnits", "removeHome", "removeManagerFile",
               "removeConfig", "removeStatic", "reboot"}

(* How far a setup is before its units, and a reset.                       *)
Rank[s \in SetupSteps] ==
    CASE s = "runtimeConfig" -> 1   [] s = "self" -> 2           [] s = "binaries" -> 3
      [] s = "kubectl" -> 4          [] s = "support" -> 5        [] s = "airgap" -> 6
      [] s = "static" -> 7           [] s = "dynamic" -> 8        [] s = "load" -> 9
      [] s = "modulesFile" -> 10    [] s = "modprobe" -> 11      [] s = "managerFile" -> 12
      [] s = "managerRestart" -> 13 [] s = "zone" -> 14          [] s = "entries" -> 15
      [] s = "ports" -> 16           [] s = "reload" -> 17        [] OTHER -> 18
ResetRank[s \in ResetSteps] ==
    CASE s = "resetZone" -> 1       [] s = "resetPorts" -> 2    [] s = "resetReload" -> 3
      [] s = "removeK0sConfig" -> 4  [] s = "stopMirror" -> 5    [] s = "removeMirror" -> 6
      [] s = "removeUnits" -> 7     [] s = "removeHome" -> 8    [] s = "removeManagerFile" -> 9
      [] s = "removeConfig" -> 10   [] s = "removeStatic" -> 11 [] OTHER -> 12

InSetup == cmd.name \in {"install", "join"}
InReset == cmd.name = "reset"

Groups == {"sysctl", "modules", "firewalld"}
CommandType == [name : {"none", "install", "join", "reset"}, config : Config,
                step : {"none"} \cup SetupSteps \cup ResetSteps, own : BOOLEAN, force : BOOLEAN,
                yes : BOOLEAN, tolerated : SUBSET Groups, seen : 0..2, err : BOOLEAN,
                half : BOOLEAN, clean : BOOLEAN]
EndType == [name : {"none", "install", "join", "reset"},
            outcome : {"none", "done", "failed", "killed"}, tolerated : SUBSET Groups,
            err : BOOLEAN, half : BOOLEAN, clean : BOOLEAN]

(* A command is in one of its own steps, and the end of the last one is    *)
(* known only between two commands.                                        *)
CommandInv ==
    /\ cmd \in CommandType /\ last \in EndType
    /\ cmd.name = "none" => cmd = Idle
    /\ InSetup => cmd.config \in Configs /\ cmd.step \in SetupSteps
    /\ InReset => cmd.step \in ResetSteps
    /\ cmd.name # "none" => last = NoEnd

(* Past a step of a setup the file it writes is whole; the binary that     *)
(* runs is not written again when it is the one in the data directory.     *)
FilesDone(c, n) ==
    /\ n > 1 => ec = c
    /\ n > 2 => placed[c.dir]["self"] = "whole"
    /\ n > 3 => placed[c.dir]["binaries"] = "whole"
    /\ n > 4 => placed[c.dir]["kubectl"] = "whole"
    /\ n > 5 => placed[c.dir]["support"] = "whole"
    /\ n > 6 /\ c.airgap => placed[c.dir]["airgap"] = "whole"
FilesInv ==
    InSetup => /\ FilesDone(cmd.config, Rank[cmd.step])
               /\ cmd.own => placed[cmd.config.dir]["self"] = "whole"

(* Past a step that was not tolerated the kernel has what the step is for; *)
(* NetworkManager has read its file.                                       *)
SystemDone(tolerated, n) ==
    /\ n = 9 => \A k \in Keys : kernel.limits[k] >= Wanted \/ conf.dynamic[k]
    /\ n > 9 /\ "sysctl" \notin tolerated => \A k \in Keys : kernel.limits[k] >= Wanted
    /\ n > 10 /\ "modules" \notin tolerated => conf.modules
    /\ n > 11 /\ "modules" \notin tolerated => host.modules \subseteq kernel.modules
    /\ n > 12 => (host.manager => conf.manager)
    /\ n > 13 => managed = conf.manager
SystemInv == InSetup => SystemDone(cmd.tolerated, Rank[cmd.step])

(* What a setup writes about its zone before it reloads; a zone without a  *)
(* name has nothing in it, and firewalld keeps nothing when it does not    *)
(* run.                                                                    *)
ZoneDone(c, n) ==
    /\ n \in 15..17 => host.firewalld = "active" /\ permanent.exists
    /\ n \in 16..17 => /\ permanent.accept /\ permanent.interfaces
                       /\ {c.pods, c.services} \subseteq permanent.sources
    /\ n = 17 => Ports \subseteq permanent.ports
ZoneInv ==
    /\ InSetup => ZoneDone(cmd.config, Rank[cmd.step])
    /\ host.firewalld # "active" => permanent = NoZone /\ runtime = NoZone
    /\ ~permanent.exists => ~permanent.accept /\ ~permanent.interfaces /\ permanent.sources = {}

(* A host that is prepared stays so: its files also say what is in force.  *)
Admits(zone, c) ==
    /\ zone.exists /\ zone.accept /\ zone.interfaces
    /\ {c.pods, c.services} \subseteq zone.sources
    /\ Ports \subseteq zone.ports
Furnished(c) ==
    /\ ec = c
    /\ \A f \in Files \ (IF c.airgap THEN {} ELSE {"airgap"}) : placed[c.dir][f] = "whole"
    /\ host.modules \subseteq kernel.modules /\ conf.modules
    /\ host.manager => managed /\ conf.manager
Opened(c) == host.firewalld = "active" => Admits(runtime, c) /\ Admits(permanent, c)
PreparedInv ==
    prepared # None =>
        /\ cmd.name # "none" => InSetup /\ Rank[cmd.step] = 18
        /\ Furnished(prepared) /\ Opened(prepared)
        /\ fresh => \A k \in Keys : kernel.limits[k] >= Wanted

(* Without a unit the mirror does not run.                                 *)
MirrorInv ==
    /\ ~mirror.unit => mirror.process = "down"
    /\ InSetup /\ At("startMirror") => mirror.unit
    /\ InReset /\ At("removeMirror") => mirror.process = "down"

(* What a setup has made of the services when it found none.               *)
Started == At("wait") \/ (cmd.name = "join" /\ At("k0sConfig"))
HasUnit == At("startMirror") \/ Started
HasLink == At("mirrorUnit") \/ HasUnit
HasK0s  == cmd.name = "install" /\ (At("units") \/ HasLink)
Follows(config) == /\ mirror.unit /\ mirror.enabled
                   /\ mirror.dropin = config /\ mirror.loaded = config
Serves(config) == mirror.process # "down" /\ mirror.serves = config
ServicesInv ==
    InSetup /\ cmd.clean =>
        /\ ~Started => mirror.process = "down"
        /\ HasUnit => Follows(cmd.config)
        /\ Started => Serves(cmd.config)
        /\ (services.k0s <=> HasK0s) /\ (HasLink => services.linked)
        /\ services.proxy = IF HasLink THEN cmd.config.proxy ELSE None
EndInv ==
    last.name \in {"install", "join"} /\ last.outcome = "done" /\ last.clean =>
        /\ ec # None /\ Follows(ec) /\ Serves(ec)
        /\ services.k0s /\ services.linked /\ services.proxy = ec.proxy

(* What a reset has taken back.                                            *)
ZoneUndone(n) ==
    /\ n = 1 => permanent.exists = runtime.exists
    /\ n = 2 => ~permanent.exists
    /\ n > 2 => permanent = NoZone
    /\ n > 3 => runtime = NoZone
Undone(n) ==
    /\ n > 4 => ~services.k0s
    /\ n > 6 => ~mirror.unit
    /\ n > 7 => services.proxy = None
    /\ n > 9 => ~conf.manager
    /\ n > 10 => ec = None
    /\ n > 11 => ~conf.static
ResetInv ==
    InReset => /\ ~cmd.err /\ ~cmd.half => ZoneUndone(ResetRank[cmd.step])
               /\ Undone(ResetRank[cmd.step])

-----------------------------------------------------------------------------
(* Steps follow one another.                                               *)

LEMMA StepsOfSetup == 
  ASSUME InSetup
  PROVE  /\ Following("runtimeConfig") = "self" /\ Following("self") = "binaries"
         /\ Following("binaries") = "kubectl" /\ Following("kubectl") = "support"
         /\ Following("support") = "airgap" /\ Following("airgap") = "static"
         /\ Following("static") = "dynamic" /\ Following("dynamic") = "load"
         /\ Following("load") = "modulesFile" /\ Following("modulesFile") = "modprobe"
         /\ Following("modprobe") = "managerFile"
         /\ Following("managerFile") = "managerRestart"
         /\ Following("managerRestart") = "zone" /\ Following("zone") = "entries"
         /\ Following("entries") = "ports" /\ Following("ports") = "reload"
         /\ Following("units") = "mirrorUnit" /\ Following("mirrorUnit") = "startMirror"
         /\ Following("startMirror") = "wait"
         /\ cmd.name = "install" => /\ Following("reload") = "k0sConfig"
                                    /\ Following("k0sConfig") = "units"
                                    /\ Following("wait") = "done"
         /\ cmd.name = "join" => /\ Following("reload") = "units"
                                 /\ Following("wait") = "k0sConfig"
                                 /\ Following("k0sConfig") = "done"
  BY DEF InSetup, Following, AfterSetup, AfterUnits

LEMMA StepsOfReset ==
  ASSUME InReset
  PROVE  /\ Following("resetZone") = "resetPorts" /\ Following("resetPorts") = "resetReload"
         /\ Following("resetReload") = "removeK0sConfig"
         /\ Following("removeK0sConfig") = "stopMirror"
         /\ Following("stopMirror") = "removeMirror"
         /\ Following("removeMirror") = "removeUnits"
         /\ Following("removeUnits") = "removeHome"
         /\ Following("removeHome") = "removeManagerFile"
         /\ Following("removeManagerFile") = "removeConfig"
         /\ Following("removeConfig") = "removeStatic"
         /\ Following("removeStatic") = "reboot" /\ Following("reboot") = "done"
  BY DEF InReset, Following, AfterReset

LEMMA Ranks ==
  /\ Rank["runtimeConfig"] = 1 /\ Rank["self"] = 2 /\ Rank["binaries"] = 3
  /\ Rank["kubectl"] = 4 /\ Rank["support"] = 5 /\ Rank["airgap"] = 6 /\ Rank["static"] = 7
  /\ Rank["dynamic"] = 8 /\ Rank["load"] = 9 /\ Rank["modulesFile"] = 10
  /\ Rank["modprobe"] = 11 /\ Rank["managerFile"] = 12 /\ Rank["managerRestart"] = 13
  /\ Rank["zone"] = 14 /\ Rank["entries"] = 15 /\ Rank["ports"] = 16 /\ Rank["reload"] = 17
  /\ Rank["k0sConfig"] = 18 /\ Rank["units"] = 18 /\ Rank["mirrorUnit"] = 18
  /\ Rank["startMirror"] = 18 /\ Rank["wait"] = 18
  BY DEF Rank, SetupSteps

LEMMA ResetRanks ==
  /\ ResetRank["resetZone"] = 1 /\ ResetRank["resetPorts"] = 2
  /\ ResetRank["resetReload"] = 3 /\ ResetRank["removeK0sConfig"] = 4
  /\ ResetRank["stopMirror"] = 5 /\ ResetRank["removeMirror"] = 6
  /\ ResetRank["removeUnits"] = 7 /\ ResetRank["removeHome"] = 8
  /\ ResetRank["removeManagerFile"] = 9 /\ ResetRank["removeConfig"] = 10
  /\ ResetRank["removeStatic"] = 11 /\ ResetRank["reboot"] = 12
  BY DEF ResetRank, ResetSteps

(* A setup goes on with its next step, or ends after its last one.         *)
LEMMA SetupSucceeds ==
  ASSUME InSetup, NEW s \in SetupSteps
  PROVE  /\ Following(s) \in SetupSteps \cup {"done"}
         /\ Following(s) # "done" => Rank[Following(s)] = IF Rank[s] = 18 THEN 18 ELSE Rank[s] + 1
         /\ Following(s) = "done" => /\ Rank[s] = 18
                                     /\ cmd.name = "install" => s = "wait"
                                     /\ cmd.name = "join" => s = "k0sConfig"
<1>1. Following(s) \in SetupSteps \cup {"done"}
  BY StepsOfSetup DEF InSetup, SetupSteps
<1>2. Following(s) # "done" => Rank[Following(s)] = IF Rank[s] = 18 THEN 18 ELSE Rank[s] + 1
  BY StepsOfSetup, Ranks DEF InSetup, SetupSteps
<1>3. Following(s) = "done" => /\ Rank[s] = 18
                               /\ cmd.name = "install" => s = "wait"
                               /\ cmd.name = "join" => s = "k0sConfig"
  BY StepsOfSetup, Ranks DEF InSetup, SetupSteps
<1> QED
  BY <1>1, <1>2, <1>3

LEMMA ResetSucceeds ==
  ASSUME InReset, NEW s \in ResetSteps
  PROVE  /\ Following(s) \in ResetSteps \cup {"done"}
         /\ Following(s) # "done" => ResetRank[Following(s)] = ResetRank[s] + 1
         /\ Following(s) = "done" => s = "reboot"
  BY StepsOfReset, ResetRanks DEF ResetSteps

LEMMA RankTypes ==
  (\A s \in SetupSteps : Rank[s] \in 1..18) /\ (\A s \in ResetSteps : ResetRank[s] \in 1..12)
  BY DEF Rank, ResetRank

-----------------------------------------------------------------------------
(* How a command moves.                                                    *)

LEMMA InOneCommand ==
  ASSUME CommandInv
  PROVE  /\ cmd.step \in SetupSteps => InSetup
         /\ cmd.step \in ResetSteps => InReset
         /\ ~(InSetup /\ InReset)
         /\ cmd # Idle => InSetup \/ InReset
<1>1. Idle.name = "none" /\ Idle.step = "none"
  BY DEF Idle
<1>2. cmd.name \in {"none", "install", "join", "reset"}
  BY DEF CommandInv, CommandType
<1>3. cmd.name = "none" => cmd.step = "none"
  BY <1>1 DEF CommandInv
<1>4. \A s \in SetupSteps : s \notin ResetSteps /\ s # "none"
  BY DEF SetupSteps, ResetSteps
<1>5. "none" \notin ResetSteps
  BY DEF ResetSteps
<1>6. ~(InSetup /\ InReset) /\ (cmd.name # "none" => InSetup \/ InReset)
  BY <1>2 DEF InSetup, InReset
<1>7. (InSetup => cmd.step \in SetupSteps) /\ (InReset => cmd.step \in ResetSteps)
      /\ (cmd.name = "none" => cmd = Idle)
  BY DEF CommandInv
<1> QED
  BY <1>3, <1>4, <1>5, <1>6, <1>7

LEMMA IdleTypes == Idle \in CommandType /\ NoEnd \in EndType /\ Idle.name = "none"
<1>1. Idle \in CommandType
  BY DEF Idle, CommandType, Config
<1>2. NoEnd \in EndType
  BY DEF NoEnd, EndType
<1> QED
  BY <1>1, <1>2 DEF Idle

LEMMA Ends ==
  ASSUME CommandInv, NEW c \in CommandType, NEW outcome \in {"none", "done", "failed", "killed"},
         End(c, outcome)
  PROVE  CommandInv'
<1>1. last' \in EndType
  BY DEF End, EndType, CommandType
<1> QED
  BY <1>1, IdleTypes DEF End, CommandInv, InSetup, InReset

LEMMA Continues ==
  ASSUME CommandInv, NEW c \in CommandType, c.name = cmd.name, c.config = cmd.config, NEW s,
         (InSetup /\ s \in SetupSteps) \/ (InReset /\ s \in ResetSteps),
         Continue(c, s)
  PROVE  CommandInv'
<1>1. CASE Following(s) = "done"
  BY <1>1, Ends DEF Continue
<1>2. CASE Following(s) # "done"
  <2>1. cmd' = [c EXCEPT !.step = Following(s)] /\ last' = last
    BY <1>2 DEF Continue
  <2>2. cmd'.name = cmd.name /\ cmd'.config = cmd.config /\ cmd'.step = Following(s)
    BY <2>1 DEF CommandType
  <2>3. Following(s) \in SetupSteps \cup ResetSteps /\ (InSetup => Following(s) \in SetupSteps)
                                /\ (InReset => Following(s) \in ResetSteps)
    BY <1>2, SetupSucceeds, ResetSucceeds, InOneCommand
  <2>4. cmd' \in CommandType
    BY <2>1, <2>3 DEF CommandType
  <2> QED
    BY <2>1, <2>2, <2>3, <2>4 DEF CommandInv, InSetup, InReset
<1> QED
  BY <1>1, <1>2

LEMMA Advances ==
  ASSUME CommandInv, cmd.step \in SetupSteps \cup ResetSteps, Advance
  PROVE  CommandInv'
<1>1. cmd \in CommandType /\ Continue(cmd, cmd.step)
  BY DEF CommandInv, Advance
<1>2. (InSetup /\ cmd.step \in SetupSteps) \/ (InReset /\ cmd.step \in ResetSteps)
  BY InOneCommand
<1> QED
  BY <1>1, <1>2, Continues

(* A command that changes in what it tolerates, has seen or remembers.     *)
LEMMA Changes ==
  ASSUME CommandInv
  PROVE  /\ [cmd EXCEPT !.err = TRUE] \in CommandType
         /\ \A g \in Groups : [cmd EXCEPT !.tolerated = @ \cup {g}] \in CommandType
         /\ cmd.seen # 2 => [cmd EXCEPT !.seen = @ + 1] \in CommandType
         /\ [cmd EXCEPT !.seen = 0, !.err = TRUE] \in CommandType
<1>1. cmd \in CommandType
  BY DEF CommandInv
<1>2. [cmd EXCEPT !.err = TRUE] \in CommandType
  BY <1>1 DEF CommandType
<1>3. \A g \in Groups : [cmd EXCEPT !.tolerated = @ \cup {g}] \in CommandType
  BY <1>1 DEF CommandType
<1>4. cmd.seen # 2 => [cmd EXCEPT !.seen = @ + 1] \in CommandType
  BY <1>1 DEF CommandType
<1>5. [cmd EXCEPT !.seen = 0, !.err = TRUE] \in CommandType
  <2>1. [cmd EXCEPT !.seen = 0] \in CommandType
    BY <1>1 DEF CommandType
  <2>2. \A c \in CommandType : [c EXCEPT !.err = TRUE] \in CommandType
    BY DEF CommandType
  <2>3. [cmd EXCEPT !.seen = 0, !.err = TRUE] = [[cmd EXCEPT !.seen = 0] EXCEPT !.err = TRUE]
    BY <1>1 DEF CommandType
  <2> QED
    BY <2>1, <2>2, <2>3
<1> QED
  BY <1>2, <1>3, <1>4, <1>5

(* A command changes one field at a time.                                  *)
LEMMA Fields ==
  ASSUME NEW c \in CommandType
  PROVE  /\ \A name \in {"install", "join", "reset"} : [c EXCEPT !.name = name] \in CommandType
         /\ \A step \in SetupSteps \cup ResetSteps : [c EXCEPT !.step = step] \in CommandType
         /\ \A config \in Configs : [c EXCEPT !.config = config] \in CommandType
         /\ \A b \in BOOLEAN : /\ [c EXCEPT !.own = b] \in CommandType
                               /\ [c EXCEPT !.force = b] \in CommandType
                               /\ [c EXCEPT !.yes = b] \in CommandType
                               /\ [c EXCEPT !.half = b] \in CommandType
                               /\ [c EXCEPT !.clean = b] \in CommandType
<1>1. \A name \in {"install", "join", "reset"} : [c EXCEPT !.name = name] \in CommandType
  BY DEF CommandType
<1>2. \A step \in SetupSteps \cup ResetSteps : [c EXCEPT !.step = step] \in CommandType
  BY DEF CommandType
<1>3. \A config \in Configs : [c EXCEPT !.config = config] \in CommandType
  BY DEF CommandType, Config
<1>4. \A b \in BOOLEAN : [c EXCEPT !.own = b] \in CommandType
  BY DEF CommandType
<1>5. \A b \in BOOLEAN : [c EXCEPT !.force = b] \in CommandType
  BY DEF CommandType
<1>6. \A b \in BOOLEAN : [c EXCEPT !.yes = b] \in CommandType
  BY DEF CommandType
<1>7. \A b \in BOOLEAN : [c EXCEPT !.half = b] \in CommandType
  BY DEF CommandType
<1>8. \A b \in BOOLEAN : [c EXCEPT !.clean = b] \in CommandType
  BY DEF CommandType
<1> QED
  BY <1>1, <1>2, <1>3, <1>4, <1>5, <1>6, <1>7, <1>8

LEMMA Begins ==
  ASSUME CommandInv, NEW c \in CommandType, Begin(c)
  PROVE  /\ cmd' \in CommandType /\ last' = NoEnd
         /\ cmd'.name = c.name /\ cmd'.config = c.config /\ cmd'.step = c.step
         /\ cmd'.own = c.own /\ cmd'.tolerated = c.tolerated /\ cmd'.err = c.err
         /\ cmd'.half = c.half
         /\ cmd'.clean <=> NoK0sServices /\ mirror.process = "down"
<1> DEFINE clean == NoK0sServices /\ mirror.process = "down"
<1>1. cmd' = [c EXCEPT !.clean = clean] /\ last' = NoEnd
  BY DEF Begin
<1>2. clean \in BOOLEAN
  OBVIOUS
<1> HIDE DEF clean
<1>3. /\ cmd' \in CommandType
      /\ cmd'.name = c.name /\ cmd'.config = c.config /\ cmd'.step = c.step
      /\ cmd'.own = c.own /\ cmd'.tolerated = c.tolerated /\ cmd'.err = c.err
      /\ cmd'.half = c.half
  BY <1>1, <1>2 DEF CommandType
<1>4. cmd'.clean = clean
  BY <1>1 DEF CommandType
<1> QED
  BY <1>1, <1>3, <1>4 DEF clean

LEMMA SetupStarts ==
  ASSUME CommandInv, NEW name \in {"install", "join"}, NEW config \in Configs, NEW own \in BOOLEAN,
         StartSetup(name, config, own)
  PROVE  /\ CommandInv' /\ InSetup' /\ ~InReset'
         /\ cmd'.config = config /\ cmd'.step = "runtimeConfig"
         /\ cmd'.own => placed[config.dir]["self"] = "whole"
         /\ cmd'.clean <=> NoK0sServices /\ mirror.process = "down"
         /\ prepared' = None /\ ~services.k0s /\ last' = NoEnd
         /\ cmd = Idle /\ UNCHANGED <<host, state>>
<1> DEFINE c == [Idle EXCEPT !.name = name, !.step = "runtimeConfig", !.config = config,
                             !.own = own]
<1>1. c \in CommandType /\ c.name = name /\ c.step = "runtimeConfig" /\ c.config = config
      /\ c.own = own
  <2>1. c = [[[[Idle EXCEPT !.name = name] EXCEPT !.step = "runtimeConfig"]
              EXCEPT !.config = config] EXCEPT !.own = own]
    OBVIOUS
  <2>2. c \in CommandType
    BY <2>1, IdleTypes, Fields DEF SetupSteps, Config
  <2>3. c.name = name /\ c.step = "runtimeConfig" /\ c.config = config /\ c.own = own
    BY IdleTypes DEF CommandType
  <2> QED
    BY <2>2, <2>3
<1>2. Begin(c) /\ ~services.k0s /\ (own => placed[config.dir]["self"] = "whole")
  BY DEF StartSetup
<1>3. prepared' = None /\ cmd = Idle /\ UNCHANGED <<host, state>>
  BY <1>2 DEF Begin
<1> HIDE DEF c
<1>4. /\ cmd' \in CommandType /\ last' = NoEnd
      /\ cmd'.name = name /\ cmd'.config = config /\ cmd'.step = "runtimeConfig"
      /\ cmd'.own = own /\ (cmd'.clean <=> NoK0sServices /\ mirror.process = "down")
  BY <1>1, <1>2, Begins
<1>5. CommandInv' /\ InSetup' /\ ~InReset'
  BY <1>4, IdleTypes DEF CommandInv, InSetup, InReset, SetupSteps
<1> QED
  BY <1>2, <1>3, <1>4, <1>5

LEMMA ResetStarts ==
  ASSUME CommandInv, NEW force \in BOOLEAN, NEW yes \in BOOLEAN, StartReset(force, yes)
  PROVE  /\ CommandInv' /\ InReset' /\ ~InSetup'
         /\ cmd'.step = (IF host.firewalld = "absent" THEN "removeK0sConfig" ELSE "resetZone")
         /\ ~cmd'.half => permanent.exists = runtime.exists
         /\ prepared' = None /\ last' = NoEnd
         /\ cmd = Idle /\ UNCHANGED <<host, state>>
<1> DEFINE half == permanent.exists # runtime.exists
           step == IF host.firewalld = "absent" THEN "removeK0sConfig" ELSE "resetZone"
           c == [Idle EXCEPT !.name = "reset", !.force = force, !.yes = yes, !.step = step,
                             !.half = half]
<1>1. half \in BOOLEAN /\ step \in ResetSteps
  BY DEF ResetSteps
<1>2. Begin(c)
  BY DEF StartReset
<1>3. prepared' = None /\ cmd = Idle /\ UNCHANGED <<host, state>>
  BY <1>2 DEF Begin
<1> HIDE DEF half, step
<1>4. c \in CommandType /\ c.name = "reset" /\ c.step = step /\ c.half = half
  <2>1. c = [[[[[Idle EXCEPT !.name = "reset"] EXCEPT !.force = force] EXCEPT !.yes = yes]
              EXCEPT !.step = step] EXCEPT !.half = half]
    OBVIOUS
  <2>2. c \in CommandType
    BY <1>1, <2>1, IdleTypes, Fields
  <2>3. c.name = "reset" /\ c.step = step /\ c.half = half
    BY IdleTypes DEF CommandType
  <2> QED
    BY <2>2, <2>3
<1> HIDE DEF c
<1>5. cmd' \in CommandType /\ cmd'.name = "reset" /\ cmd'.step = step /\ cmd'.half = half
      /\ last' = NoEnd
  BY <1>2, <1>4, Begins
<1>6. CommandInv' /\ InReset' /\ ~InSetup'
  BY <1>1, <1>5, IdleTypes DEF CommandInv, InSetup, InReset
<1> QED
  BY <1>3, <1>5, <1>6 DEF half, step

(* The steps of a setup that come to their end without a tolerated failure *)
(* or an error, and those of a reset.                                      *)
SetupStep ==
    \/ WriteRuntimeConfig \/ Materialize \/ StaticSysctl \/ DynamicSysctl \/ LoadSysctl
    \/ ModulesFile \/ Modprobe \/ ManagerFile \/ RestartManager \/ CreateZone \/ ZoneEntries
    \/ OpenPorts \/ ReloadFirewalld \/ WriteK0sConfig \/ CreateSystemdUnitFiles \/ MirrorUnit
    \/ StartMirror
RemoveStep ==
    \/ RemoveK0sConfig \/ StopMirror \/ RemoveMirror \/ RemoveUnits \/ RemoveHome
    \/ RemoveManagerFile \/ RemoveRuntimeConfig \/ RemoveStatic \/ RebootAtEnd
ResetZoneStep == ResetZone \/ ResetPorts \/ ResetReload

LEMMA SetupStepAdvances ==
  ASSUME CommandInv, SetupStep
  PROVE  InSetup /\ cmd.step \in SetupSteps /\ Advance /\ CommandInv'
<1>1. cmd.step \in SetupSteps /\ Advance
  <2>1. CASE Materialize
    BY <2>1 DEF Materialize, MaterializeBinary, MaterializeFile, At, SetupSteps
  <2>2. CASE WriteRuntimeConfig \/ StaticSysctl \/ DynamicSysctl \/ LoadSysctl
             \/ ModulesFile \/ Modprobe \/ ManagerFile \/ RestartManager
    BY <2>2 DEF WriteRuntimeConfig, StaticSysctl, DynamicSysctl, LoadSysctl, ModulesFile,
       Modprobe, ManagerFile, RestartManager, At, SetupSteps
  <2>3. CASE CreateZone \/ ZoneEntries \/ OpenPorts \/ ReloadFirewalld \/ WriteK0sConfig
             \/ CreateSystemdUnitFiles \/ MirrorUnit \/ StartMirror
    BY <2>3 DEF CreateZone, ZoneEntries, OpenPorts, ReloadFirewalld, WriteK0sConfig,
       CreateSystemdUnitFiles, MirrorUnit, StartMirror, At, SetupSteps
  <2> QED
    BY <2>1, <2>2, <2>3 DEF SetupStep
<1> QED
  BY <1>1, InOneCommand, Advances

LEMMA RemoveStepAdvances ==
  ASSUME CommandInv, RemoveStep
  PROVE  InReset /\ cmd.step \in ResetSteps /\ Advance /\ CommandInv'
<1>1. cmd.step \in ResetSteps /\ Advance
  BY DEF RemoveStep, RemoveK0sConfig, StopMirror, RemoveMirror, RemoveUnits, RemoveHome,
     RemoveManagerFile, RemoveRuntimeConfig, RemoveStatic, RebootAtEnd, At, ResetSteps
<1> QED
  BY <1>1, InOneCommand, Advances

LEMMA Tolerances ==
  /\ DOMAIN Tolerated = Groups
  /\ Tolerated["sysctl"] = {"static", "dynamic", "load"} /\ LastOf["sysctl"] = "load"
  /\ Tolerated["modules"] = {"modulesFile", "modprobe"} /\ LastOf["modules"] = "modprobe"
  /\ Tolerated["firewalld"] = {"zone", "entries", "ports", "reload"}
  /\ LastOf["firewalld"] = "reload"
  BY DEF Tolerated, LastOf, Groups

(* A setup goes on after c as the same command, at the step after s.       *)
GoesOn(c, s) ==
  /\ cmd'.step = Following(s) /\ cmd'.name = cmd.name /\ cmd'.config = cmd.config
  /\ cmd'.own = cmd.own /\ cmd'.clean = cmd.clean /\ cmd'.tolerated = c.tolerated
  /\ Following(s) \in SetupSteps /\ InSetup'
  /\ Rank[cmd'.step] = IF Rank[s] = 18 THEN 18 ELSE Rank[s] + 1
  /\ last' = last

LEMMA SetupGoesOn ==
  ASSUME CommandInv, InSetup, NEW c \in CommandType, NEW s \in SetupSteps, Continue(c, s),
         c.name = cmd.name, c.config = cmd.config, c.own = cmd.own, c.clean = cmd.clean
  PROVE  \/ GoesOn(c, s)
         \/ End(c, "done") /\ Following(s) = "done"
<1>1. CASE Following(s) = "done"
  BY <1>1 DEF Continue
<1>2. CASE Following(s) # "done"
  <2>1. cmd' = [c EXCEPT !.step = Following(s)] /\ last' = last
    BY <1>2 DEF Continue
  <2>2. /\ cmd'.step = Following(s) /\ cmd'.name = cmd.name /\ cmd'.config = cmd.config
        /\ cmd'.own = cmd.own /\ cmd'.clean = cmd.clean /\ cmd'.tolerated = c.tolerated
    BY <2>1 DEF CommandType
  <2> QED
    BY <1>2, <2>1, <2>2, SetupSucceeds DEF GoesOn, InSetup
<1> QED
  BY <1>1, <1>2

LEMMA SetupStepGoesOn ==
  ASSUME CommandInv, SetupStep
  PROVE  \/ GoesOn(cmd, cmd.step)
         \/ End(cmd, "done") /\ Following(cmd.step) = "done"
<1>1. InSetup /\ cmd.step \in SetupSteps /\ Continue(cmd, cmd.step) /\ cmd \in CommandType
  BY SetupStepAdvances DEF Advance, CommandInv
<1> QED
  BY <1>1, SetupGoesOn

(* A step that fails ends the command, or what follows it in its function  *)
(* is skipped.                                                             *)
LEMMA FailGoesOn ==
  ASSUME CommandInv, Fail
  PROVE  /\ CommandInv' /\ InSetup /\ ~InReset'
         /\ \/ End(cmd, "failed")
            \/ /\ cmd.step \in {"static", "dynamic", "load"}
               /\ GoesOn([cmd EXCEPT !.tolerated = @ \cup {"sysctl"}], "load")
            \/ /\ cmd.step \in {"modulesFile", "modprobe"}
               /\ GoesOn([cmd EXCEPT !.tolerated = @ \cup {"modules"}], "modprobe")
            \/ /\ cmd.step \in {"zone", "entries", "ports", "reload"}
               /\ GoesOn([cmd EXCEPT !.tolerated = @ \cup {"firewalld"}], "reload")
<1>1. InSetup /\ ~InReset /\ cmd \in CommandType /\ cmd.name # "none"
  BY DEF Fail, InSetup, InReset, CommandInv
<1>2. CASE End(cmd, "failed")
  <2>1. CommandInv'
    BY <1>1, <1>2, Ends
  <2> QED
    BY <1>1, <1>2, <2>1, IdleTypes DEF End, InReset
<1>3. CASE ~End(cmd, "failed")
  <2> DEFINE g == CHOOSE x \in DOMAIN Tolerated : cmd.step \in Tolerated[x]
             c == [cmd EXCEPT !.tolerated = @ \cup {g}]
  <2>1. (\E x \in DOMAIN Tolerated : cmd.step \in Tolerated[x]) /\ Continue(c, LastOf[g])
    BY <1>3 DEF Fail
  <2>2. g \in Groups /\ cmd.step \in Tolerated[g]
    BY <2>1, Tolerances
  <2> HIDE DEF g
  <2>3. c \in CommandType
    BY <2>2, Changes
  <2>4. c.name = cmd.name /\ c.config = cmd.config /\ c.own = cmd.own /\ c.clean = cmd.clean
    BY <1>1 DEF CommandType
  <2>5. LastOf[g] \in SetupSteps /\ Following(LastOf[g]) # "done"
    BY <1>1, <2>2, Tolerances, StepsOfSetup DEF Groups, SetupSteps, InSetup
  <2>6. CommandInv'
    BY <1>1, <2>1, <2>3, <2>4, <2>5, Continues
  <2>7. GoesOn(c, LastOf[g])
    BY <1>1, <2>1, <2>3, <2>4, <2>5, SetupGoesOn
  <2>8. ~InReset'
    BY <2>7 DEF GoesOn, InReset, InSetup
  <2>9. CASE g = "sysctl"
    BY <1>1, <2>2, <2>6, <2>7, <2>8, <2>9, Tolerances
  <2>10. CASE g = "modules"
    BY <1>1, <2>2, <2>6, <2>7, <2>8, <2>10, Tolerances
  <2>11. CASE g = "firewalld"
    BY <1>1, <2>2, <2>6, <2>7, <2>8, <2>11, Tolerances
  <2> QED
    BY <2>2, <2>9, <2>10, <2>11 DEF Groups
<1> QED
  BY <1>2, <1>3

LEMMA ZoneStepGoesOn ==
  ASSUME CommandInv, SkipFirewalld \/ ZoneConflict
  PROVE  /\ CommandInv' /\ InSetup /\ ~InReset'
         /\ SkipFirewalld => GoesOn(cmd, "reload")
         /\ ZoneConflict => GoesOn([cmd EXCEPT !.tolerated = @ \cup {"firewalld"}], "reload")
<1> DEFINE d == [cmd EXCEPT !.tolerated = @ \cup {"firewalld"}]
<1>1. cmd.step = "zone" /\ cmd.step \in SetupSteps /\ "reload" \in SetupSteps
  BY DEF SkipFirewalld, ZoneConflict, At, SetupSteps
<1>2. InSetup /\ cmd \in CommandType
  BY <1>1, InOneCommand DEF CommandInv
<1>3. Following("reload") # "done"
  BY <1>2, StepsOfSetup DEF InSetup
<1>4. d \in CommandType
  BY Changes DEF Groups
<1>5. d.name = cmd.name /\ d.config = cmd.config /\ d.own = cmd.own /\ d.clean = cmd.clean
  BY <1>2 DEF CommandType
<1>6. (SkipFirewalld => Continue(cmd, "reload")) /\ (ZoneConflict => Continue(d, "reload"))
  BY DEF SkipFirewalld, ZoneConflict
<1> HIDE DEF d
<1>7. CommandInv'
  BY <1>1, <1>2, <1>4, <1>5, <1>6, Continues
<1>8. /\ SkipFirewalld => GoesOn(cmd, "reload")
      /\ ZoneConflict => GoesOn(d, "reload")
  BY <1>1, <1>2, <1>3, <1>4, <1>5, <1>6, SetupGoesOn
<1>9. ~InReset'
  BY <1>8 DEF GoesOn, InSetup, InReset
<1> QED
  BY <1>2, <1>7, <1>8, <1>9 DEF d

(* The looks at the mirror.                                                *)
Looks == /\ cmd'.step = cmd.step /\ cmd'.name = cmd.name /\ cmd'.config = cmd.config
         /\ cmd'.own = cmd.own /\ cmd'.clean = cmd.clean /\ cmd'.tolerated = cmd.tolerated
         /\ last' = last /\ InSetup'
LEMMA LookGoesOn ==
  ASSUME CommandInv, LookAtMirror
  PROVE  /\ CommandInv' /\ InSetup /\ ~InReset' /\ At("wait")
         /\ \/ Looks
            \/ mirror.process = "up" /\ GoesOn(cmd, "wait")
            \/ mirror.process = "up" /\ End(cmd, "done") /\ Following("wait") = "done"
<1>1. At("wait") /\ "wait" \in SetupSteps /\ InSetup /\ cmd \in CommandType
  BY InOneCommand DEF LookAtMirror, At, SetupSteps, CommandInv
<1>2. CASE mirror.process = "up" /\ cmd.seen = 2
  <2>1. Advance
    BY <1>2 DEF LookAtMirror
  <2>2. CommandInv' /\ Continue(cmd, "wait")
    BY <1>1, <2>1, Advances DEF At, Advance
  <2>3. \/ GoesOn(cmd, "wait")
        \/ End(cmd, "done") /\ Following("wait") = "done"
    BY <1>1, <2>2, SetupGoesOn
  <2>4. ~InReset'
    BY <2>3, IdleTypes DEF GoesOn, End, InSetup, InReset
  <2> QED
    BY <1>1, <1>2, <2>2, <2>3, <2>4
<1>3. CASE ~(mirror.process = "up" /\ cmd.seen = 2)
  <2>1. /\ \/ cmd' = [cmd EXCEPT !.seen = @ + 1] /\ cmd.seen # 2
           \/ cmd' = [cmd EXCEPT !.seen = 0, !.err = TRUE]
        /\ last' = last
    BY <1>3 DEF LookAtMirror
  <2>2. cmd' \in CommandType
    BY <2>1, Changes
  <2>3. /\ cmd'.step = cmd.step /\ cmd'.name = cmd.name /\ cmd'.config = cmd.config
        /\ cmd'.own = cmd.own /\ cmd'.clean = cmd.clean /\ cmd'.tolerated = cmd.tolerated
    BY <1>1, <2>1 DEF CommandType
  <2>4. CommandInv' /\ Looks
    BY <1>1, <2>1, <2>2, <2>3 DEF CommandInv, InSetup, InReset, Looks
  <2> QED
    BY <1>1, <2>4 DEF Looks, InSetup, InReset
<1> QED
  BY <1>2, <1>3

(* A reset goes on.                                                        *)
ResetGoesOn(c, s) ==
  /\ cmd'.step = Following(s) /\ cmd'.half = cmd.half /\ cmd'.err = c.err
  /\ Following(s) \in ResetSteps /\ InReset' /\ ~InSetup'
  /\ ResetRank[cmd'.step] = ResetRank[s] + 1
  /\ last' = last

LEMMA ResetContinues ==
  ASSUME CommandInv, InReset, NEW c \in CommandType, NEW s \in ResetSteps, Continue(c, s),
         c.name = cmd.name, c.half = cmd.half
  PROVE  ResetGoesOn(c, s) \/ (End(c, "done") /\ s = "reboot")
<1>1. CASE Following(s) = "done"
  BY <1>1, ResetSucceeds DEF Continue
<1>2. CASE Following(s) # "done"
  <2>1. cmd' = [c EXCEPT !.step = Following(s)] /\ last' = last
    BY <1>2 DEF Continue
  <2>2. cmd'.step = Following(s) /\ cmd'.name = cmd.name /\ cmd'.half = cmd.half /\ cmd'.err = c.err
    BY <2>1 DEF CommandType
  <2> QED
    BY <1>2, <2>1, <2>2, ResetSucceeds DEF ResetGoesOn, InReset, InSetup
<1> QED
  BY <1>1, <1>2

LEMMA RemoveStepGoesOn ==
  ASSUME CommandInv, RemoveStep
  PROVE  ResetGoesOn(cmd, cmd.step) \/ (End(cmd, "done") /\ cmd.step = "reboot")
<1>1. InReset /\ cmd.step \in ResetSteps /\ Continue(cmd, cmd.step) /\ cmd \in CommandType
  BY RemoveStepAdvances DEF Advance, CommandInv
<1> QED
  BY <1>1, ResetContinues

(* A step of the firewall that works leaves the error as it was; one that  *)
(* does not is remembered.                                                 *)
LEMMA ResetZoneStepGoesOn ==
  ASSUME CommandInv, ResetZoneStep
  PROVE  /\ CommandInv' /\ InReset /\ ~InSetup'
         /\ cmd.step \in {"resetZone", "resetPorts", "resetReload"}
         /\ \/ ResetGoesOn(cmd, cmd.step)
            \/ ResetGoesOn([cmd EXCEPT !.err = TRUE], cmd.step)
            \/ End(cmd, "failed")
            \/ End([cmd EXCEPT !.err = TRUE], "failed")
         /\ ~(InReset' /\ cmd'.err) /\ InReset' =>
               /\ Answers
               /\ ResetZone => permanent' = IF ZoneExists THEN [NoZone EXCEPT !.ports = permanent.ports]
                                            ELSE permanent
               /\ ResetPorts => permanent' = [permanent EXCEPT !.ports = {}]
               /\ ResetReload => runtime' = permanent
               /\ ~cmd.err
<1> DEFINE d == [cmd EXCEPT !.err = TRUE]
<1>1. cmd.step \in {"resetZone", "resetPorts", "resetReload"}
  BY DEF ResetZoneStep, ResetZone, ResetPorts, ResetReload, ResetStep, At
<1>2. cmd.step \in ResetSteps /\ cmd.step # "reboot" /\ InReset /\ cmd \in CommandType
  BY <1>1, InOneCommand DEF ResetSteps, CommandInv
<1>3. d \in CommandType /\ d.name = cmd.name /\ d.half = cmd.half /\ d.config = cmd.config /\ d.err
  <2>1. d \in CommandType
    BY Changes
  <2> QED
    BY <1>2, <2>1 DEF CommandType
<1>4. \/ /\ \/ Continue(cmd, cmd.step)
            \/ End(cmd, "failed")
         /\ Answers
         /\ ResetZone => permanent' = IF ZoneExists THEN [NoZone EXCEPT !.ports = permanent.ports]
                                      ELSE permanent
         /\ ResetPorts => permanent' = [permanent EXCEPT !.ports = {}]
         /\ ResetReload => runtime' = permanent
      \/ Continue(d, cmd.step) \/ End(d, "failed")
  BY DEF ResetZoneStep, ResetZone, ResetPorts, ResetReload, ResetStep, Resume, Advance, At
<1> HIDE DEF d
<1>5. \/ /\ \/ ResetGoesOn(cmd, cmd.step)
            \/ End(cmd, "failed")
         /\ Answers
         /\ ResetZone => permanent' = IF ZoneExists THEN [NoZone EXCEPT !.ports = permanent.ports]
                                      ELSE permanent
         /\ ResetPorts => permanent' = [permanent EXCEPT !.ports = {}]
         /\ ResetReload => runtime' = permanent
      \/ ResetGoesOn(d, cmd.step) \/ End(d, "failed")
  BY <1>2, <1>3, <1>4, ResetContinues
<1>6. CommandInv'
  BY <1>2, <1>3, <1>4, Continues, Ends
<1>7. ~InSetup'
  BY <1>5, IdleTypes DEF ResetGoesOn, End, InSetup
<1>8. \A c, o : End(c, o) => ~InReset'
  BY IdleTypes DEF End, InReset
<1>9. (ResetGoesOn(cmd, cmd.step) => cmd'.err = cmd.err)
      /\ (ResetGoesOn(d, cmd.step) => cmd'.err)
  BY <1>3 DEF ResetGoesOn
<1> QED
  BY <1>1, <1>2, <1>5, <1>6, <1>7, <1>8, <1>9 DEF d

LEMMA EndsIdle ==
  ASSUME NEW c, NEW outcome, End(c, outcome)
  PROVE  /\ cmd' = Idle /\ ~InSetup' /\ ~InReset' /\ last'.name = c.name
         /\ last'.outcome = outcome /\ last'.err = c.err /\ last'.half = c.half
         /\ last'.clean = c.clean
  BY IdleTypes DEF End, InSetup, InReset

(* The ends that are not the end of the last step.                         *)
Stops == MirrorNotUp \/ Kill \/ ResetFails
LEMMA StopsEnd ==
  ASSUME CommandInv, Stops
  PROVE  /\ CommandInv' /\ cmd' = Idle /\ ~InSetup' /\ ~InReset' /\ last'.outcome # "done"
         /\ cmd # Idle
<1>1. cmd \in CommandType
  BY DEF CommandInv
<1>2. End(cmd, "failed") \/ End(cmd, "killed")
  BY DEF Stops, MirrorNotUp, Kill, ResetFails
<1>3. CommandInv'
  BY <1>1, <1>2, Ends
<1>4. cmd # Idle
  BY InOneCommand, IdleTypes DEF Stops, MirrorNotUp, Kill, ResetFails, Idle, At
<1> QED
  BY <1>2, <1>3, <1>4, EndsIdle

(* What goes on while no command moves.                                    *)
Between == MirrorCrashes \/ MirrorRestarts \/ Reboot \/ \E k \in Keys : RaiseLimit(k)
LEMMA BetweenKeeps == Between => UNCHANGED <<host, cmd, last>>
  BY DEF Between, MirrorCrashes, MirrorRestarts, Reboot, RaiseLimit

LEMMA NextKinds ==
  ASSUME NextHost
  PROVE  \/ \E name \in {"install", "join"}, config \in Configs, own \in BOOLEAN :
               StartSetup(name, config, own)
         \/ \E force, yes \in BOOLEAN : StartReset(force, yes)
         \/ SetupStep \/ SkipFirewalld \/ ZoneConflict \/ LookAtMirror
         \/ ResetZoneStep \/ RemoveStep \/ Fail \/ Stops \/ Between
  BY DEF NextHost, StartCommand, Step, Surroundings, SetupStep, ResetZoneStep, RemoveStep, Stops,
     Between

LEMMA CommandStep ==
  ASSUME CommandInv, [NextHost]_hostVars
  PROVE  CommandInv'
<1>1. CASE UNCHANGED hostVars
  BY <1>1 DEF hostVars, CommandInv, InSetup, InReset
<1>2. CASE Between
  BY <1>2, BetweenKeeps DEF CommandInv, InSetup, InReset
<1>3. ASSUME NextHost, ~Between PROVE CommandInv'
  BY <1>3, NextKinds, SetupStarts, ResetStarts, SetupStepAdvances, ZoneStepGoesOn, LookGoesOn,
     ResetZoneStepGoesOn, RemoveStepAdvances, FailGoesOn, StopsEnd
<1> QED
  BY <1>1, <1>2, <1>3

LEMMA CommandInit == InitHost => CommandInv
  BY IdleTypes DEF InitHost, CommandInv, InSetup, InReset

-----------------------------------------------------------------------------
(* What a step leaves alone.                                               *)

Starts ==
    \/ \E name \in {"install", "join"}, config \in Configs, own \in BOOLEAN :
          StartSetup(name, config, own)
    \/ \E force, yes \in BOOLEAN : StartReset(force, yes)
Boots == RebootAtEnd \/ Reboot
Raises == \E k \in Keys : RaiseLimit(k)

LEMMA StartsKeep == Starts => UNCHANGED <<host, files, system, firewall, services, mirror>>
  BY Zenon DEF Starts, StartSetup, StartReset, Begin, state, systemd

LEMMA SetupStepKeeps ==
  ASSUME SetupStep
  PROVE  /\ UNCHANGED <<host, bounds>>
         /\ WriteRuntimeConfig \/ Materialize \/ UNCHANGED files
         /\ \/ StaticSysctl \/ DynamicSysctl \/ LoadSysctl \/ ModulesFile \/ Modprobe
            \/ ManagerFile \/ RestartManager \/ UNCHANGED system
         /\ CreateZone \/ ZoneEntries \/ OpenPorts \/ ReloadFirewalld \/ UNCHANGED firewall
         /\ WriteK0sConfig \/ CreateSystemdUnitFiles \/ UNCHANGED services
         /\ MirrorUnit \/ StartMirror \/ UNCHANGED mirror
         /\ ReloadFirewalld \/ UNCHANGED history
<1> USE DEF files, system, firewall, systemd, history, bounds
<1>1. CASE WriteRuntimeConfig
  BY <1>1 DEF WriteRuntimeConfig
<1>2. CASE Materialize
  BY <1>2 DEF Materialize, MaterializeBinary, MaterializeFile
<1>3. CASE StaticSysctl \/ DynamicSysctl \/ LoadSysctl \/ ModulesFile \/ Modprobe
           \/ ManagerFile \/ RestartManager
  BY <1>3 DEF StaticSysctl, DynamicSysctl, LoadSysctl, ModulesFile, Modprobe, ManagerFile,
     RestartManager
<1>4. CASE CreateZone \/ ZoneEntries \/ OpenPorts \/ ReloadFirewalld
  BY <1>4 DEF CreateZone, ZoneEntries, OpenPorts, ReloadFirewalld
<1>5. CASE WriteK0sConfig \/ CreateSystemdUnitFiles \/ MirrorUnit \/ StartMirror
  BY <1>5 DEF WriteK0sConfig, CreateSystemdUnitFiles, MirrorUnit, StartMirror
<1> QED
  BY <1>1, <1>2, <1>3, <1>4, <1>5 DEF SetupStep

LEMMA LooksKeep ==
  ASSUME SkipFirewalld \/ ZoneConflict \/ LookAtMirror
  PROVE  /\ UNCHANGED <<host, files, system, firewall, services, mirror, bounds>>
         /\ SkipFirewalld \/ UNCHANGED history
  BY DEF SkipFirewalld, ZoneConflict, LookAtMirror, state, systemd, history

LEMMA ResetZoneStepKeeps ==
  ASSUME ResetZoneStep
  PROVE  /\ UNCHANGED <<host, files, system, services, mirror, history>>
         /\ UNCHANGED <<commands, reboots, raises>>
         /\ faults' = faults \/ (faults < MaxFaults /\ faults' = faults + 1)
         /\ ResetReload \/ UNCHANGED runtime
         /\ ResetZone \/ ResetPorts \/ UNCHANGED permanent
  BY DEF ResetZoneStep, ResetZone, ResetPorts, ResetReload, ResetStep, systemd

LEMMA RemoveStepKeeps ==
  ASSUME RemoveStep
  PROVE  /\ UNCHANGED host
         /\ UNCHANGED <<commands, reboots, raises>>
         /\ faults' = faults \/ (faults < MaxFaults /\ faults' = faults + 1)
         /\ RemoveHome \/ RemoveRuntimeConfig \/ UNCHANGED files
         /\ RemoveManagerFile \/ RemoveStatic \/ RebootAtEnd \/ UNCHANGED system
         /\ RebootAtEnd \/ UNCHANGED firewall
         /\ RemoveK0sConfig \/ RemoveUnits \/ UNCHANGED services
         /\ StopMirror \/ RemoveMirror \/ RebootAtEnd \/ UNCHANGED mirror
         /\ RebootAtEnd \/ UNCHANGED history
<1> USE DEF files, system, firewall, systemd, history, bounds
<1>1. CASE RemoveK0sConfig \/ StopMirror \/ RemoveMirror \/ RemoveUnits
  BY <1>1 DEF RemoveK0sConfig, StopMirror, RemoveMirror, RemoveUnits
<1>2. CASE RemoveHome \/ RemoveManagerFile \/ RemoveRuntimeConfig \/ RemoveStatic
  BY <1>2 DEF RemoveHome, RemoveManagerFile, RemoveRuntimeConfig, RemoveStatic
<1>3. CASE RebootAtEnd
  BY <1>3 DEF RebootAtEnd, Boot
<1> QED
  BY <1>1, <1>2, <1>3 DEF RemoveStep

LEMMA StopsKeep ==
  ASSUME Stops
  PROVE  /\ UNCHANGED <<host, services, mirror, history>>
         /\ UNCHANGED <<commands, reboots, raises>>
         /\ faults' = faults \/ (faults < MaxFaults /\ faults' = faults + 1)
         /\ Kill \/ UNCHANGED <<files, system, firewall>>
<1> USE DEF files, system, firewall, systemd, state, history, bounds
<1>1. CASE MirrorNotUp \/ ResetFails
  BY <1>1 DEF MirrorNotUp, ResetFails
<1>2. CASE Kill
  BY <1>2 DEF Kill
<1> QED
  BY <1>1, <1>2 DEF Stops

LEMMA BetweenChanges ==
  ASSUME Between
  PROVE  /\ UNCHANGED <<files, services, permanent, conf, prepared>>
         /\ Reboot \/ Raises \/ UNCHANGED system
         /\ Reboot \/ UNCHANGED <<firewall, history>>
         /\ MirrorCrashes \/ MirrorRestarts \/ Reboot \/ UNCHANGED mirror
<1> USE DEF files, system, firewall, systemd, history, bounds
<1>1. CASE MirrorCrashes \/ MirrorRestarts
  BY <1>1 DEF MirrorCrashes, MirrorRestarts
<1>2. CASE Reboot
  BY <1>2 DEF Reboot, Boot
<1>3. CASE Raises
  BY <1>3 DEF Raises, RaiseLimit
<1> QED
  BY <1>1, <1>2, <1>3 DEF Between, Raises

(* What a step that does not come to its end does, by the part of the host *)
(* it does it to.                                                          *)
PartOfFiles ==
    \/ UNCHANGED <<ec, placed>>
    \/ At("runtimeConfig") /\ ec' = None /\ UNCHANGED placed
    \/ \E f \in Files, is \in {"none", "torn"} :
          /\ At(f) /\ (f = "self" => ~cmd.own) /\ (f = "airgap" => cmd.config.airgap)
          /\ Place(f, is) /\ UNCHANGED ec
PartOfSystem ==
    \/ UNCHANGED system
    \/ At("dynamic") /\ conf' = [conf EXCEPT !.dynamic = [k \in Keys |-> FALSE]]
       /\ UNCHANGED <<kernel, managed>>
    \/ At("load") /\ kernel' = Loaded /\ UNCHANGED <<conf, managed>>
    \/ /\ At("modprobe") /\ UNCHANGED <<conf, managed>>
       /\ \E some \in SUBSET host.modules : kernel' = [kernel EXCEPT !.modules = @ \cup some]
PartOfZone ==
    \/ UNCHANGED firewall
    \/ At("entries") /\ (\E n \in 0..3 : permanent' = Entries(n)) /\ UNCHANGED runtime
    \/ /\ At("ports") /\ UNCHANGED runtime
       /\ \E some \in SUBSET Ports : permanent' = [permanent EXCEPT !.ports = @ \cup some]

LEMMA Parts == Part => PartOfFiles /\ PartOfSystem /\ PartOfZone
<1> SUFFICES ASSUME Part PROVE PartOfFiles /\ PartOfSystem /\ PartOfZone
  OBVIOUS
<1> USE DEF system, firewall
<1>1. CASE /\ At("runtimeConfig") /\ ec' = None
           /\ UNCHANGED <<placed, system, firewall>>
  BY <1>1 DEF PartOfFiles, PartOfSystem, PartOfZone
<1>2. CASE /\ \/ \E f \in {"self", "binaries"}, is \in {"none", "torn"} : PartOfBinary(f, is)
              \/ \E is \in {"none", "torn"} : At("kubectl") /\ Place("kubectl", is)
              \/ At("support") /\ Place("support", "torn")
              \/ At("airgap") /\ cmd.config.airgap /\ Place("airgap", "torn")
           /\ UNCHANGED <<ec, system, firewall>>
  <2>1. PartOfFiles
    BY <1>2 DEF PartOfFiles, PartOfBinary, Ours, Files, At
  <2> QED
    BY <1>2, <2>1 DEF PartOfSystem, PartOfZone
<1>3. CASE /\ At("dynamic") /\ conf' = [conf EXCEPT !.dynamic = [k \in Keys |-> FALSE]]
           /\ UNCHANGED <<files, kernel, managed, firewall>>
  BY <1>3 DEF PartOfFiles, PartOfSystem, PartOfZone, files
<1>4. CASE /\ \/ At("load") /\ kernel' = Loaded
              \/ At("modprobe") /\ \E some \in SUBSET host.modules :
                    kernel' = [kernel EXCEPT !.modules = @ \cup some]
           /\ UNCHANGED <<files, conf, managed, firewall>>
  BY <1>4 DEF PartOfFiles, PartOfSystem, PartOfZone, files
<1>5. CASE /\ \/ At("entries") /\ \E n \in 0..3 : permanent' = Entries(n)
              \/ At("ports") /\ \E some \in SUBSET Ports :
                    permanent' = [permanent EXCEPT !.ports = @ \cup some]
           /\ UNCHANGED <<files, system, runtime>>
  BY <1>5 DEF PartOfFiles, PartOfSystem, PartOfZone, files
<1>6. CASE UNCHANGED <<ec, placed, system, firewall>>
  BY <1>6 DEF PartOfFiles, PartOfSystem, PartOfZone
<1> QED
  BY <1>1, <1>2, <1>3, <1>4, <1>5, <1>6 DEF Part

(* A command that fails or is killed leaves a part of its step.            *)
LEMMA CutShort ==
  ASSUME CommandInv, Fail \/ Kill
  PROVE  /\ UNCHANGED <<host, services, mirror, history>>
         /\ UNCHANGED <<commands, reboots, raises>>
         /\ faults < MaxFaults /\ faults' = faults + 1
         /\ \/ InSetup /\ PartOfFiles /\ PartOfSystem /\ PartOfZone
               /\ (copies' = copies \ {<<Dir, f>> : f \in Moved}
                   \/ copies' = copies \cup {<<Dir, f>> : f \in Moved})
            \/ ~InSetup /\ UNCHANGED <<files, system, firewall>>
<1>1. CASE Fail
  <2>1. InSetup /\ Part /\ copies' = copies \ {<<Dir, f>> : f \in Moved}
    BY <1>1, FailGoesOn DEF Fail
  <2>2. /\ UNCHANGED <<host, services, mirror, history>>
        /\ UNCHANGED <<commands, reboots, raises>>
        /\ faults < MaxFaults /\ faults' = faults + 1
    BY <1>1 DEF Fail, systemd
  <2> QED
    BY <2>1, <2>2, Parts
<1>2. CASE Kill
  <2>1. /\ UNCHANGED <<host, services, mirror, history>>
        /\ UNCHANGED <<commands, reboots, raises>>
        /\ faults < MaxFaults /\ faults' = faults + 1
    BY <1>2 DEF Kill, systemd
  <2>2. InSetup \/ InReset
    BY <1>2, InOneCommand DEF Kill
  <2>3. CASE InReset
    BY <1>2, <2>1, <2>3, InOneCommand DEF Kill, InReset
  <2>4. CASE InSetup
    <3>1. Part /\ copies' = copies \cup {<<Dir, f>> : f \in Moved}
      BY <1>2, <2>4 DEF Kill, InSetup
    <3> QED
      BY <2>1, <2>4, <3>1, Parts
  <2> QED
    BY <2>2, <2>3, <2>4
<1> QED
  BY <1>1, <1>2

-----------------------------------------------------------------------------
(* Types.                                                                  *)

FileTypes ==
    /\ ec \in Config
    /\ placed \in [Dirs -> [Files -> {"none", "torn", "whole"}]]
    /\ copies \subseteq Dirs \X {"self", "binaries"}

LEMMA DirsOfConfigs ==
  /\ \A c \in Configs : c.dir \in Dirs /\ c # None /\ c.airgap \in BOOLEAN
  /\ DefaultDir \in Dirs
  BY ConfigsAssumption DEF Dirs

LEMMA PlaceKeeps ==
  ASSUME FileTypes, CommandInv, InSetup, NEW f \in Files, NEW is \in {"none", "torn", "whole"},
         Place(f, is)
  PROVE  /\ placed' \in [Dirs -> [Files -> {"none", "torn", "whole"}]]
         /\ placed'[Dir][f] = is
         /\ \A g \in Files : g # f => placed'[Dir][g] = placed[Dir][g]
<1>1. Dir \in Dirs
  BY DirsOfConfigs DEF Dir, CommandInv
<1> DEFINE d == [placed[Dir] EXCEPT ![f] = is]
<1>2. placed' = [placed EXCEPT ![Dir] = d]
  BY DEF Place
<1>3. d \in [Files -> {"none", "torn", "whole"}]
  BY <1>1 DEF FileTypes
<1>4. d[f] = is /\ \A g \in Files : g # f => d[g] = placed[Dir][g]
  BY <1>1 DEF FileTypes
<1> HIDE DEF d
<1>5. placed' \in [Dirs -> [Files -> {"none", "torn", "whole"}]] /\ placed'[Dir] = d
  BY <1>1, <1>2, <1>3 DEF FileTypes
<1> QED
  BY <1>4, <1>5

LEMMA FileTypesStep ==
  ASSUME CommandInv, FileTypes, [NextHost]_hostVars
  PROVE  FileTypes'
<1> DEFINE B == {"self", "binaries"}
           M == {<<Dir, f>> : f \in Moved}
<1>1. CASE UNCHANGED files
  BY <1>1 DEF files, FileTypes
<1>2. CASE WriteRuntimeConfig
  <2>1. cmd.config \in Config /\ ec' = cmd.config /\ UNCHANGED <<placed, copies>>
    BY <1>2, SetupStepAdvances DEF WriteRuntimeConfig, CommandInv, SetupStep, Config
  <2> QED
    BY <2>1 DEF FileTypes
<1>3. CASE Materialize
  <2>1. InSetup
    BY <1>3, SetupStepAdvances DEF SetupStep
  <2>2. /\ UNCHANGED ec
        /\ UNCHANGED placed \/ \E f \in Files : Place(f, "whole")
        /\ copies' = copies \/ \E f \in B : copies' = copies \ {<<Dir, f>>}
    BY <1>3 DEF Materialize, MaterializeBinary, MaterializeFile, Files
  <2>3. placed' \in [Dirs -> [Files -> {"none", "torn", "whole"}]]
    BY <2>1, <2>2, PlaceKeeps DEF FileTypes
  <2> QED
    BY <2>2, <2>3 DEF FileTypes
<1>4. CASE RemoveHome
  <2> DEFINE dir == IF ec = None THEN DefaultDir ELSE ec.dir
  <2>1. dir \in Dirs
    BY DirsOfConfigs DEF FileTypes, Config
  <2>2. NoFiles \in [Files -> {"none", "torn", "whole"}]
    BY DEF NoFiles
  <2>3. /\ UNCHANGED ec
        /\ placed' = placed \/ placed' = [placed EXCEPT ![dir] = NoFiles]
        /\ copies' \subseteq copies
    BY <1>4 DEF RemoveHome
  <2> HIDE DEF dir
  <2> QED
    BY <2>1, <2>2, <2>3 DEF FileTypes
<1>5. CASE RemoveRuntimeConfig
  BY <1>5 DEF RemoveRuntimeConfig, FileTypes, Config
<1>6. CASE Fail \/ Kill
  <2>1. CASE UNCHANGED files
    BY <2>1 DEF files, FileTypes
  <2>2. CASE /\ InSetup /\ PartOfFiles
             /\ copies' = copies \ M \/ copies' = copies \cup M
    <3>1. Dir \in Dirs
      BY <2>2, DirsOfConfigs DEF Dir, CommandInv
    <3>2. copies' \subseteq Dirs \X B
      BY <2>2, <3>1 DEF Moved, FileTypes
    <3>3. ec' \in Config
      BY <2>2 DEF PartOfFiles, FileTypes, Config
    <3>4. placed' = placed \/ \E f \in Files, is \in {"none", "torn"} : Place(f, is)
      BY <2>2 DEF PartOfFiles
    <3>5. placed' \in [Dirs -> [Files -> {"none", "torn", "whole"}]]
      BY <2>2, <3>4, PlaceKeeps DEF FileTypes
    <3> QED
      BY <3>2, <3>3, <3>5 DEF FileTypes
  <2> QED
    BY <1>6, <2>1, <2>2, CutShort
<1>7. CASE UNCHANGED hostVars
  BY <1>1, <1>7 DEF hostVars, state
<1>8. CASE NextHost
  BY <1>1, <1>2, <1>3, <1>4, <1>5, <1>6, <1>8, NextKinds, StartsKeep, SetupStepKeeps, LooksKeep,
     ResetZoneStepKeeps, RemoveStepKeeps, StopsKeep, BetweenChanges DEF Starts
<1> QED
  BY <1>7, <1>8

SystemTypes ==
    /\ host \in Hosts
    /\ kernel \in [limits : [Keys -> 0..2], modules : SUBSET Modules]
    /\ conf \in [static : BOOLEAN, dynamic : [Keys -> BOOLEAN], modules : BOOLEAN, manager : BOOLEAN]
    /\ managed \in BOOLEAN

LEMMA HostOf ==
  ASSUME host \in Hosts
  PROVE  /\ host.firewalld \in {"active", "inactive", "absent"} /\ host.manager \in BOOLEAN
         /\ host.modules \subseteq Modules /\ host.limits \in [Keys -> 0..2]
  BY HostsAssumption

(* What is in force after the files of sysctl are read.                    *)
LEMMA LoadedIs ==
  ASSUME SystemTypes
  PROVE  /\ Loaded \in [limits : [Keys -> 0..2], modules : SUBSET Modules]
         /\ Loaded.modules = kernel.modules
         /\ \A k \in Keys : Loaded.limits[k] = IF conf.dynamic[k] THEN Wanted ELSE kernel.limits[k]
<1> DEFINE limits == [k \in Keys |-> IF conf.dynamic[k] THEN Wanted ELSE kernel.limits[k]]
<1>1. Loaded = [kernel EXCEPT !.limits = limits]
  BY DEF Loaded
<1>2. limits \in [Keys -> 0..2]
  BY DEF SystemTypes, Wanted
<1>3. \A k \in Keys : limits[k] = IF conf.dynamic[k] THEN Wanted ELSE kernel.limits[k]
  OBVIOUS
<1> HIDE DEF limits
<1>4. Loaded.limits = limits /\ Loaded.modules = kernel.modules
  BY <1>1 DEF SystemTypes
<1>5. Loaded \in [limits : [Keys -> 0..2], modules : SUBSET Modules]
  BY <1>1, <1>2 DEF SystemTypes
<1> QED
  BY <1>3, <1>4, <1>5

LEMMA RaisedIs ==
  ASSUME SystemTypes, NEW k \in Keys, RaiseLimit(k)
  PROVE  /\ kernel' \in [limits : [Keys -> 0..2], modules : SUBSET Modules]
         /\ kernel'.modules = kernel.modules
         /\ \A l \in Keys : kernel'.limits[l] = IF l = k THEN Raised ELSE kernel.limits[l]
<1> DEFINE limits == [kernel.limits EXCEPT ![k] = Raised]
<1>1. kernel' = [kernel EXCEPT !.limits = limits]
  BY DEF RaiseLimit
<1>2. limits \in [Keys -> 0..2]
  BY DEF SystemTypes, Raised
<1>3. \A l \in Keys : limits[l] = IF l = k THEN Raised ELSE kernel.limits[l]
  BY DEF SystemTypes
<1> HIDE DEF limits
<1>4. kernel'.limits = limits /\ kernel'.modules = kernel.modules
  BY <1>1 DEF SystemTypes
<1>5. kernel' \in [limits : [Keys -> 0..2], modules : SUBSET Modules]
  BY <1>1, <1>2 DEF SystemTypes
<1> QED
  BY <1>3, <1>4, <1>5

LEMMA BootIs ==
  ASSUME SystemTypes, Boot
  PROVE  /\ kernel' \in [limits : [Keys -> 0..2], modules : SUBSET Modules]
         /\ conf.modules => kernel'.modules = host.modules
         /\ managed' = conf.manager /\ managed' \in BOOLEAN
<1> DEFINE limits == [k \in Keys |-> IF conf.dynamic[k] THEN Wanted ELSE host.limits[k]]
           modules == IF conf.modules THEN host.modules ELSE {}
<1>1. kernel' = [limits |-> limits, modules |-> modules] /\ managed' = conf.manager
  BY DEF Boot
<1>2. limits \in [Keys -> 0..2] /\ modules \in SUBSET Modules
  BY HostOf DEF SystemTypes, Wanted
<1> HIDE DEF limits
<1> QED
  BY <1>1, <1>2 DEF SystemTypes

LEMMA DynamicTypes ==
  ASSUME SystemTypes, NEW f \in [Keys -> BOOLEAN], conf' = [conf EXCEPT !.dynamic = f]
  PROVE  /\ conf' \in [static : BOOLEAN, dynamic : [Keys -> BOOLEAN], modules : BOOLEAN, manager : BOOLEAN]
         /\ conf'.dynamic = f /\ conf'.modules = conf.modules /\ conf'.manager = conf.manager
  BY DEF SystemTypes

LEMMA SystemTypesStep ==
  ASSUME CommandInv, SystemTypes, [NextHost]_hostVars
  PROVE  SystemTypes'
<1>1. CASE UNCHANGED <<host, system>>
  BY <1>1 DEF system, SystemTypes
<1>2. CASE StaticSysctl \/ ModulesFile \/ ManagerFile \/ RemoveManagerFile \/ RemoveStatic
  BY <1>2 DEF StaticSysctl, ModulesFile, ManagerFile, RemoveManagerFile, RemoveStatic, SystemTypes
<1>3. CASE DynamicSysctl
  <2> DEFINE f == [k \in Keys |-> NeedsUpdate(k)]
  <2>1. conf' = [conf EXCEPT !.dynamic = f] /\ UNCHANGED <<host, kernel, managed>>
    BY <1>3 DEF DynamicSysctl
  <2>2. f \in [Keys -> BOOLEAN]
    BY DEF NeedsUpdate
  <2> HIDE DEF f
  <2> QED
    BY <2>1, <2>2, DynamicTypes DEF SystemTypes
<1>4. CASE LoadSysctl
  BY <1>4, LoadedIs DEF LoadSysctl, SystemTypes
<1>5. CASE Modprobe
  BY <1>5, HostOf DEF Modprobe, SystemTypes
<1>6. CASE RestartManager
  BY <1>6 DEF RestartManager, SystemTypes
<1>7. CASE RebootAtEnd \/ Reboot
  BY <1>7, BootIs DEF RebootAtEnd, Reboot, SystemTypes
<1>8. CASE Raises
  <2>1. PICK k \in Keys : RaiseLimit(k)
    BY <1>8 DEF Raises
  <2> QED
    BY <2>1, RaisedIs DEF RaiseLimit, SystemTypes
<1>9. CASE Fail \/ Kill
  <2>1. UNCHANGED host /\ (PartOfSystem \/ UNCHANGED system)
    BY <1>9, CutShort
  <2>2. CASE UNCHANGED system
    BY <1>1, <2>1, <2>2
  <2>3. CASE conf' = [conf EXCEPT !.dynamic = [k \in Keys |-> FALSE]] /\ UNCHANGED <<kernel, managed>>
    <3> DEFINE f == [k \in Keys |-> FALSE]
    <3>1. f \in [Keys -> BOOLEAN]
      OBVIOUS
    <3>2. conf' = [conf EXCEPT !.dynamic = f]
      BY <2>3
    <3> HIDE DEF f
    <3> QED
      BY <2>1, <2>3, <3>1, <3>2, DynamicTypes DEF SystemTypes
  <2>4. CASE kernel' = Loaded /\ UNCHANGED <<conf, managed>>
    BY <2>1, <2>4, LoadedIs DEF SystemTypes
  <2>5. CASE /\ UNCHANGED <<conf, managed>>
             /\ \E some \in SUBSET host.modules : kernel' = [kernel EXCEPT !.modules = @ \cup some]
    BY <2>1, <2>5, HostOf DEF SystemTypes
  <2> QED
    BY <2>1, <2>2, <2>3, <2>4, <2>5 DEF PartOfSystem
<1>10. CASE UNCHANGED hostVars
  BY <1>1, <1>10 DEF hostVars, state
<1>11. CASE NextHost
  BY <1>1, <1>2, <1>3, <1>4, <1>5, <1>6, <1>7, <1>8, <1>9, <1>11, NextKinds, StartsKeep,
     SetupStepKeeps, LooksKeep, ResetZoneStepKeeps, RemoveStepKeeps, StopsKeep, BetweenChanges,
     BetweenKeeps DEF Starts
<1> QED
  BY <1>10, <1>11

ZoneTypes == permanent \in Zone /\ runtime \in Zone

LEMMA NoZoneIs ==
  /\ NoZone \in Zone /\ ~NoZone.exists /\ ~NoZone.accept /\ ~NoZone.interfaces
  /\ NoZone.sources = {} /\ NoZone.ports = {}
  BY DEF NoZone, Zone

(* A zone is what its fields say.                                          *)
LEMMA SameZone ==
  ASSUME NEW z \in Zone, NEW y \in Zone, z.exists = y.exists, z.accept = y.accept,
         z.interfaces = y.interfaces, z.sources = y.sources, z.ports = y.ports
  PROVE  z = y
  BY DEF Zone

LEMMA ZoneFields ==
  ASSUME NEW z \in Zone
  PROVE  /\ [z EXCEPT !.exists = TRUE] \in Zone
         /\ \A ports \in SUBSET Ports : [z EXCEPT !.ports = ports] \in Zone
         /\ \A b \in BOOLEAN : [z EXCEPT !.accept = b] \in Zone /\ [z EXCEPT !.interfaces = b] \in Zone
         /\ \A sources \in SUBSET ({c.pods : c \in Configs} \cup {c.services : c \in Configs}) :
               [z EXCEPT !.sources = sources] \in Zone
<1>1. [z EXCEPT !.exists = TRUE] \in Zone
  BY DEF Zone
<1>2. \A ports \in SUBSET Ports : [z EXCEPT !.ports = ports] \in Zone
  BY DEF Zone
<1>3. \A b \in BOOLEAN : [z EXCEPT !.accept = b] \in Zone
  BY DEF Zone
<1>4. \A b \in BOOLEAN : [z EXCEPT !.interfaces = b] \in Zone
  BY DEF Zone
<1>5. \A sources \in SUBSET ({c.pods : c \in Configs} \cup {c.services : c \in Configs}) :
         [z EXCEPT !.sources = sources] \in Zone
  BY DEF Zone
<1> QED
  BY <1>1, <1>2, <1>3, <1>4, <1>5

(* The entries that are written add to the zone.                           *)
LEMMA EntriesAre ==
  ASSUME ZoneTypes, CommandInv, InSetup, NEW n \in 0..4
  PROVE  /\ Entries(n) \in Zone /\ Entries(n).exists = permanent.exists
         /\ Entries(n).ports = permanent.ports
         /\ n = 4 => /\ Entries(n).accept /\ Entries(n).interfaces
                     /\ {cmd.config.pods, cmd.config.services} \subseteq Entries(n).sources
<1> DEFINE accept == permanent.accept \/ n >= 1
           interfaces == permanent.interfaces \/ n >= 4
           sources == permanent.sources \cup (IF n >= 2 THEN {cmd.config.pods} ELSE {})
                                        \cup (IF n >= 3 THEN {cmd.config.services} ELSE {})
<1>1. Entries(n) = [[[permanent EXCEPT !.accept = accept] EXCEPT !.sources = sources]
                    EXCEPT !.interfaces = interfaces]
  BY DEF Entries
<1>2. accept \in BOOLEAN /\ interfaces \in BOOLEAN
  OBVIOUS
<1>3. sources \in SUBSET ({c.pods : c \in Configs} \cup {c.services : c \in Configs})
  <2>1. cmd.config \in Configs
    BY DEF CommandInv
  <2>2. /\ cmd.config.pods \in {c.pods : c \in Configs}
        /\ cmd.config.services \in {c.services : c \in Configs}
    BY <2>1
  <2>3. permanent.sources \subseteq {c.pods : c \in Configs} \cup {c.services : c \in Configs}
    BY DEF ZoneTypes, Zone
  <2> QED
    BY <2>2, <2>3
<1>4. n = 4 => accept /\ interfaces /\ {cmd.config.pods, cmd.config.services} \subseteq sources
  OBVIOUS
<1> HIDE DEF accept, interfaces, sources
<1>5. Entries(n) \in Zone
  BY Zenon, <1>1, <1>2, <1>3, ZoneFields DEF ZoneTypes
<1>6. /\ Entries(n).exists = permanent.exists /\ Entries(n).ports = permanent.ports
      /\ Entries(n).accept = accept /\ Entries(n).interfaces = interfaces
      /\ Entries(n).sources = sources
  BY <1>1 DEF ZoneTypes, Zone
<1> QED
  BY <1>4, <1>5, <1>6

LEMMA ZoneTypesStep ==
  ASSUME CommandInv, ZoneTypes, [NextHost]_hostVars
  PROVE  ZoneTypes'
<1>1. CASE UNCHANGED firewall
  BY <1>1 DEF firewall, ZoneTypes
<1>2. CASE CreateZone \/ OpenPorts \/ ReloadFirewalld
  BY <1>2, ZoneFields DEF CreateZone, OpenPorts, ReloadFirewalld, ZoneTypes
<1>3. CASE ZoneEntries
  <2>1. InSetup
    BY <1>3, SetupStepAdvances DEF SetupStep
  <2> QED
    BY <1>3, <2>1, EntriesAre DEF ZoneEntries, ZoneTypes
<1>4. CASE ResetZoneStep
  <2>1. permanent.ports \in SUBSET Ports
    BY DEF ZoneTypes, Zone
  <2>2. \/ permanent' = permanent \/ permanent' = [permanent EXCEPT !.ports = {}]
        \/ permanent' = [NoZone EXCEPT !.ports = permanent.ports]
    BY <1>4 DEF ResetZoneStep, ResetZone, ResetPorts, ResetReload, ResetStep
  <2>3. permanent' \in Zone
    BY <2>1, <2>2, ZoneFields, NoZoneIs DEF ZoneTypes
  <2>4. runtime' = runtime \/ runtime' = permanent
    BY <1>4, ResetZoneStepKeeps DEF ResetReload
  <2> QED
    BY <2>3, <2>4 DEF ZoneTypes
<1>5. CASE RebootAtEnd \/ Reboot
  BY <1>5 DEF RebootAtEnd, Reboot, Boot, ZoneTypes
<1>6. CASE Fail \/ Kill
  <2>1. (InSetup /\ PartOfZone) \/ UNCHANGED firewall
    BY <1>6, CutShort
  <2>2. CASE InSetup /\ (\E n \in 0..3 : permanent' = Entries(n)) /\ UNCHANGED runtime
    <3>1. PICK n \in 0..3 : permanent' = Entries(n)
      BY <2>2
    <3> QED
      BY <2>2, <3>1, EntriesAre DEF ZoneTypes
  <2>3. CASE /\ UNCHANGED runtime
             /\ \E some \in SUBSET Ports : permanent' = [permanent EXCEPT !.ports = @ \cup some]
    <3>1. PICK some \in SUBSET Ports : permanent' = [permanent EXCEPT !.ports = @ \cup some]
      BY <2>3
    <3>2. permanent.ports \cup some \in SUBSET Ports
      BY DEF ZoneTypes, Zone
    <3> QED
      BY <2>3, <3>1, <3>2, ZoneFields DEF ZoneTypes
  <2> QED
    BY <1>1, <2>1, <2>2, <2>3 DEF PartOfZone
<1>7. CASE UNCHANGED hostVars
  BY <1>1, <1>7 DEF hostVars, state
<1>8. CASE NextHost
  BY <1>1, <1>2, <1>3, <1>4, <1>5, <1>6, <1>8, NextKinds, StartsKeep, SetupStepKeeps, LooksKeep,
     ResetZoneStepKeeps, RemoveStepKeeps, StopsKeep, BetweenChanges DEF Starts
<1> QED
  BY <1>7, <1>8

ServiceTypes ==
    /\ services \in [k0s : BOOLEAN, linked : BOOLEAN, proxy : {c.proxy : c \in Configs} \cup {None}]
    /\ mirror \in [unit : BOOLEAN, dropin : Config, loaded : Config, enabled : BOOLEAN,
                   process : {"down", "up", "restarting"}, serves : Config]

(* The process that is launched serves what it was given and is not down.  *)
LEMMA LaunchedIs ==
  ASSUME NEW m \in [unit : BOOLEAN, dropin : Config, loaded : Config, enabled : BOOLEAN,
                    process : {"down", "up", "restarting"}, serves : Config],
         NEW config \in Config
  PROVE  /\ Launched(m, config) \in [unit : BOOLEAN, dropin : Config, loaded : Config,
                enabled : BOOLEAN, process : {"down", "up", "restarting"}, serves : Config]
         /\ Launched(m, config).process # "down" /\ Launched(m, config).serves = config
         /\ Launched(m, config).unit = m.unit /\ Launched(m, config).enabled = m.enabled
         /\ Launched(m, config).dropin = m.dropin /\ Launched(m, config).loaded = m.loaded
<1> DEFINE p == IF config # None /\ placed[config.dir]["binaries"] = "whole" THEN "up" ELSE "restarting"
<1>1. p \in {"up", "restarting"}
  OBVIOUS
<1>2. Launched(m, config) = [m EXCEPT !.serves = config, !.process = p]
  BY DEF Launched
<1> HIDE DEF p
<1>3. Launched(m, config) = [[m EXCEPT !.serves = config] EXCEPT !.process = p]
  BY <1>2
<1>4. [m EXCEPT !.serves = config] \in [unit : BOOLEAN, dropin : Config, loaded : Config,
         enabled : BOOLEAN, process : {"down", "up", "restarting"}, serves : Config]
  OBVIOUS
<1>5. Launched(m, config) \in [unit : BOOLEAN, dropin : Config, loaded : Config,
         enabled : BOOLEAN, process : {"down", "up", "restarting"}, serves : Config]
  BY <1>1, <1>3, <1>4
<1> QED
  BY <1>1, <1>2, <1>5

(* What a boot makes of the mirror.                                        *)
LEMMA MirrorBoots ==
  ASSUME ServiceTypes, Boot
  PROVE  /\ mirror' \in [unit : BOOLEAN, dropin : Config, loaded : Config, enabled : BOOLEAN,
                         process : {"down", "up", "restarting"}, serves : Config]
         /\ mirror'.unit = mirror.unit /\ mirror'.enabled = mirror.enabled
         /\ mirror'.dropin = mirror.dropin
         /\ mirror.unit /\ mirror.enabled => /\ mirror'.loaded = mirror.dropin
                                             /\ mirror'.serves = mirror.dropin
                                             /\ mirror'.process # "down"
         /\ ~(mirror.unit /\ mirror.enabled) => /\ mirror'.process = "down"
                                                /\ mirror'.loaded = None
<1>1. mirror.dropin \in Config
  BY DEF ServiceTypes
<1>2. CASE mirror.unit /\ mirror.enabled
  <2> DEFINE m == [mirror EXCEPT !.loaded = mirror.dropin]
  <2>1. m \in [unit : BOOLEAN, dropin : Config, loaded : Config, enabled : BOOLEAN,
               process : {"down", "up", "restarting"}, serves : Config]
    BY <1>1 DEF ServiceTypes
  <2>2. m.unit = mirror.unit /\ m.enabled = mirror.enabled /\ m.dropin = mirror.dropin
        /\ m.loaded = mirror.dropin
    BY DEF ServiceTypes
  <2>3. mirror' = Launched(m, mirror.dropin)
    BY <1>2 DEF Boot
  <2> HIDE DEF m
  <2> QED
    BY <1>1, <1>2, <2>1, <2>2, <2>3, LaunchedIs
<1>3. CASE ~(mirror.unit /\ mirror.enabled)
  <2>1. mirror' = [[[mirror EXCEPT !.process = "down"] EXCEPT !.serves = None] EXCEPT !.loaded = None]
    BY <1>3 DEF Boot
  <2>2. None \in Config
    BY DEF Config
  <2> QED
    BY <1>3, <2>1, <2>2 DEF ServiceTypes
<1> QED
  BY <1>2, <1>3

LEMMA ServiceTypesStep ==
  ASSUME CommandInv, ServiceTypes, [NextHost]_hostVars
  PROVE  ServiceTypes'
<1>1. CASE UNCHANGED <<services, mirror>>
  BY <1>1 DEF ServiceTypes
<1>2. CASE (WriteK0sConfig \/ CreateSystemdUnitFiles \/ RemoveK0sConfig \/ RemoveUnits) /\ UNCHANGED mirror
  <2>1. cmd.config.proxy \in {c.proxy : c \in Configs} \/ ~CreateSystemdUnitFiles
    <3>1. CreateSystemdUnitFiles => cmd.config \in Configs
      BY SetupStepAdvances DEF SetupStep, CommandInv
    <3> QED
      BY <3>1
  <2> QED
    BY <1>2, <2>1 DEF ServiceTypes, WriteK0sConfig, CreateSystemdUnitFiles, RemoveK0sConfig,
       RemoveUnits
<1>3. CASE MirrorUnit
  <2>1. cmd.config \in Config
    BY <1>3, SetupStepAdvances DEF SetupStep, CommandInv, Config
  <2>2. mirror' = [[[[mirror EXCEPT !.unit = TRUE] EXCEPT !.dropin = cmd.config]
                    EXCEPT !.loaded = cmd.config] EXCEPT !.enabled = TRUE]
    BY <1>3 DEF MirrorUnit
  <2> QED
    BY <1>3, <2>1, <2>2 DEF MirrorUnit, ServiceTypes
<1>4. CASE StartMirror \/ MirrorRestarts
  <2>1. UNCHANGED services /\ (mirror' = mirror \/ mirror' = Launched(mirror, mirror.loaded))
    BY <1>4 DEF StartMirror, MirrorRestarts
  <2>2. mirror.loaded \in Config
    BY DEF ServiceTypes
  <2> QED
    BY <2>1, <2>2, LaunchedIs DEF ServiceTypes
<1>5. CASE MirrorCrashes \/ StopMirror \/ RemoveMirror
  <2>1. None \in Config
    BY DEF Config
  <2> QED
    BY <1>5, <2>1 DEF MirrorCrashes, StopMirror, RemoveMirror, ServiceTypes
<1>6. CASE RebootAtEnd \/ Reboot
  BY <1>6, MirrorBoots DEF RebootAtEnd, Reboot, ServiceTypes
<1>7. CASE UNCHANGED hostVars
  BY <1>1, <1>7 DEF hostVars, state, systemd
<1>8. CASE NextHost
  <2>1. WriteK0sConfig \/ CreateSystemdUnitFiles \/ RemoveK0sConfig \/ RemoveUnits => UNCHANGED mirror
    BY DEF WriteK0sConfig, CreateSystemdUnitFiles, RemoveK0sConfig, RemoveUnits
  <2> QED
    BY <1>1, <1>2, <1>3, <1>4, <1>5, <1>6, <1>8, <2>1, NextKinds, StartsKeep, SetupStepKeeps,
       LooksKeep, ResetZoneStepKeeps, RemoveStepKeeps, StopsKeep, BetweenChanges, CutShort DEF Starts
<1> QED
  BY <1>7, <1>8

CountTypes ==
    /\ prepared \in Config /\ fresh \in BOOLEAN
    /\ commands \in 0..MaxCommands /\ faults \in 0..MaxFaults
    /\ reboots \in 0..MaxReboots /\ raises \in 0..MaxRaises

LEMMA BoundsAre == MaxCommands \in Nat /\ MaxFaults \in Nat /\ MaxReboots \in Nat /\ MaxRaises \in Nat
  BY BoundsAssumption

LEMMA CountTypesStep ==
  ASSUME CommandInv, CountTypes, [NextHost]_hostVars
  PROVE  CountTypes'
<1> USE BoundsAre
<1> DEFINE Counts == /\ commands' \in 0..MaxCommands /\ faults' \in 0..MaxFaults
                     /\ reboots' \in 0..MaxReboots /\ raises' \in 0..MaxRaises
           History == prepared' \in Config /\ fresh' \in BOOLEAN
<1>1. CASE UNCHANGED hostVars
  BY <1>1 DEF hostVars, history, bounds, CountTypes
<1>2. CASE Starts
  <2>1. /\ commands < MaxCommands /\ commands' = commands + 1
        /\ UNCHANGED <<fresh, faults, reboots, raises>> /\ prepared' = None
    BY Zenon, <1>2 DEF Starts, StartSetup, StartReset, Begin
  <2> QED
    BY <2>1 DEF CountTypes, Config
<1>3. ASSUME SetupStep \/ SkipFirewalld \/ ZoneConflict \/ LookAtMirror PROVE CountTypes'
  <2>1. UNCHANGED bounds
    BY <1>3, SetupStepKeeps, LooksKeep
  <2>2. UNCHANGED history \/ Prepare(cmd)
    BY <1>3, SetupStepKeeps, LooksKeep DEF ReloadFirewalld, SkipFirewalld
  <2>3. cmd.config \in Config
    BY <1>3, SetupStepAdvances, ZoneStepGoesOn, LookGoesOn DEF CommandInv, Config
  <2>4. History
    BY <2>2, <2>3 DEF Prepare, history, CountTypes, Config
  <2> QED
    BY <2>1, <2>4 DEF bounds, CountTypes
<1>4. ASSUME ResetZoneStep \/ RemoveStep \/ Stops \/ Fail PROVE CountTypes'
  <2>1. UNCHANGED <<commands, reboots, raises>>
        /\ (faults' = faults \/ (faults < MaxFaults /\ faults' = faults + 1))
    BY <1>4, ResetZoneStepKeeps, RemoveStepKeeps, StopsKeep, CutShort
  <2>2. Counts
    BY <2>1 DEF CountTypes
  <2>3. UNCHANGED history \/ RebootAtEnd
    BY <1>4, ResetZoneStepKeeps, RemoveStepKeeps, StopsKeep, CutShort
  <2>4. History
    BY <2>3 DEF RebootAtEnd, Boot, history, CountTypes
  <2> QED
    BY <2>2, <2>4 DEF CountTypes
<1>5. CASE Between
  <2>1. /\ commands' = commands /\ prepared' = prepared
        /\ fresh' = fresh \/ fresh' = FALSE
        /\ faults' = faults \/ (faults < MaxFaults /\ faults' = faults + 1)
        /\ reboots' = reboots \/ (reboots < MaxReboots /\ reboots' = reboots + 1)
        /\ raises' = raises \/ (raises < MaxRaises /\ raises' = raises + 1)
    BY <1>5 DEF Between, MirrorCrashes, MirrorRestarts, Reboot, Boot, RaiseLimit, history, bounds
  <2>2. Counts
    BY <2>1 DEF CountTypes
  <2>3. History
    BY <2>1 DEF CountTypes
  <2> QED
    BY <2>2, <2>3 DEF CountTypes
<1> QED
  BY <1>1, <1>2, <1>3, <1>4, <1>5, NextKinds DEF Starts

Types == FileTypes /\ SystemTypes /\ ZoneTypes /\ ServiceTypes /\ CountTypes

LEMMA TypesInit == InitHost => Types
<1> SUFFICES ASSUME InitHost PROVE Types
  OBVIOUS
<1>1. FileTypes
  BY DEF InitHost, FileTypes, Config, NoFiles
<1>2. SystemTypes
  BY HostOf DEF InitHost, SystemTypes
<1>3. ZoneTypes
  BY NoZoneIs DEF InitHost, ZoneTypes
<1>4. ServiceTypes
  BY DEF InitHost, ServiceTypes, NoServices, NoMirror, Config
<1>5. CountTypes
  <2>1. /\ commands = 0 /\ faults = 0 /\ reboots = 0 /\ raises = 0
        /\ fresh = FALSE /\ prepared = None
    BY DEF InitHost
  <2>2. commands \in 0..MaxCommands /\ faults \in 0..MaxFaults
    BY <2>1, BoundsAre
  <2>3. reboots \in 0..MaxReboots /\ raises \in 0..MaxRaises
    BY <2>1, BoundsAre
  <2>4. prepared \in Config /\ fresh \in BOOLEAN
    BY <2>1 DEF Config
  <2> QED
    BY <2>2, <2>3, <2>4 DEF CountTypes
<1> QED
  BY <1>1, <1>2, <1>3, <1>4, <1>5 DEF Types

LEMMA TypesStep ==
  ASSUME CommandInv, Types, [NextHost]_hostVars
  PROVE  Types'
  BY FileTypesStep, SystemTypesStep, ZoneTypesStep, ServiceTypesStep, CountTypesStep DEF Types

LEMMA TypesAre == CommandInv /\ Types => HostTypeOK
  BY Tolerances DEF CommandInv, CommandType, EndType, Types, FileTypes, SystemTypes, ZoneTypes,
     ServiceTypes, CountTypes, HostTypeOK, Groups

-----------------------------------------------------------------------------
(* What a setup that goes on has done.                                     *)

LEMMA NotInSetup ==
  ASSUME CommandInv,
         ResetZoneStep \/ RemoveStep \/ Stops \/ \E force, yes \in BOOLEAN : StartReset(force, yes)
  PROVE  ~InSetup'
<1>1. RemoveStep => ~InSetup'
  BY RemoveStepGoesOn, EndsIdle DEF ResetGoesOn
<1> QED
  BY <1>1, ResetZoneStepGoesOn, StopsEnd, ResetStarts

LEMMA RankOf ==
  ASSUME CommandInv
  PROVE  (InSetup => Rank[cmd.step] \in 1..18) /\ (InReset => ResetRank[cmd.step] \in 1..12)
  BY RankTypes DEF CommandInv

(* A failure that is tolerated is past the files.                          *)
LEMMA ToleratedFail ==
  ASSUME CommandInv, Fail, InSetup'
  PROVE  /\ InSetup /\ Rank[cmd.step] \in {7, 8, 9, 10, 11, 14, 15, 16, 17}
         /\ cmd'.config = cmd.config /\ cmd'.own = cmd.own /\ cmd'.clean = cmd.clean
         /\ \/ /\ cmd.step \in {"static", "dynamic", "load"} /\ Rank[cmd'.step] = 10
               /\ cmd'.tolerated = cmd.tolerated \cup {"sysctl"}
            \/ /\ cmd.step \in {"modulesFile", "modprobe"} /\ Rank[cmd'.step] = 12
               /\ cmd'.tolerated = cmd.tolerated \cup {"modules"}
            \/ /\ cmd.step \in {"zone", "entries", "ports", "reload"} /\ Rank[cmd'.step] = 18
               /\ cmd'.tolerated = cmd.tolerated \cup {"firewalld"}
         /\ UNCHANGED <<ec, placed>>
<1>1. \A g : [cmd EXCEPT !.tolerated = @ \cup {g}].tolerated = cmd.tolerated \cup {g}
  BY DEF CommandInv, CommandType
<1>2. InSetup /\ ~End(cmd, "failed")
  BY FailGoesOn, EndsIdle
<1>3. \/ /\ cmd.step \in {"static", "dynamic", "load"} /\ Rank[cmd'.step] = 10
         /\ cmd'.tolerated = cmd.tolerated \cup {"sysctl"}
      \/ /\ cmd.step \in {"modulesFile", "modprobe"} /\ Rank[cmd'.step] = 12
         /\ cmd'.tolerated = cmd.tolerated \cup {"modules"}
      \/ /\ cmd.step \in {"zone", "entries", "ports", "reload"} /\ Rank[cmd'.step] = 18
         /\ cmd'.tolerated = cmd.tolerated \cup {"firewalld"}
  BY <1>1, <1>2, FailGoesOn, Ranks DEF GoesOn
<1>4. cmd'.config = cmd.config /\ cmd'.own = cmd.own /\ cmd'.clean = cmd.clean
  BY <1>2, FailGoesOn DEF GoesOn
<1>5. Rank[cmd.step] \in {7, 8, 9, 10, 11, 14, 15, 16, 17}
  BY <1>3, Ranks
<1>6. PartOfFiles
  BY <1>2, CutShort
<1>7. \A f \in Files : cmd.step # f
  BY <1>3 DEF Files
<1>8. UNCHANGED <<ec, placed>>
  BY <1>3, <1>6, <1>7 DEF PartOfFiles, At
<1> QED
  BY <1>2, <1>3, <1>4, <1>5, <1>8

(* A setup that has its files keeps them.                                  *)
LEMMA FilesKept ==
  ASSUME CommandInv, CommandInv', FilesInv, UNCHANGED <<ec, placed>>,
         InSetup' => /\ InSetup /\ cmd'.config = cmd.config /\ cmd'.own = cmd.own
                     /\ Rank[cmd'.step] = Rank[cmd.step] \/ Rank[cmd.step] > 6
  PROVE  FilesInv'
<1> SUFFICES ASSUME InSetup' PROVE FilesInv'
  BY DEF FilesInv
<1>1. Rank[cmd.step] \in 1..18
  BY RankOf
<1>2. FilesDone(cmd.config, Rank[cmd.step]) /\ (cmd.own => placed[cmd.config.dir]["self"] = "whole")
  BY DEF FilesInv
<1>3. FilesDone(cmd.config, Rank[cmd'.step])
  BY <1>1, <1>2 DEF FilesDone
<1>4. FilesDone(cmd.config, Rank[cmd.step])'
  BY <1>3 DEF FilesDone
<1> QED
  BY <1>2, <1>4 DEF FilesInv

(* Each of the first steps adds its file.                                  *)
LEMMA FilesPlaced ==
  ASSUME CommandInv, CommandInv', Types, FilesInv, Materialize
  PROVE  FilesInv'
<1>1. InSetup /\ cmd.step \in SetupSteps /\ cmd.config \in Configs
  BY SetupStepAdvances DEF SetupStep, CommandInv
<1>2. PICK f \in Files :
        /\ At(f) /\ UNCHANGED ec
        /\ \/ Place(f, "whole")
           \/ UNCHANGED placed /\ f = "self" /\ cmd.own
           \/ UNCHANGED placed /\ f = "airgap" /\ ~cmd.config.airgap
  BY DEF Materialize, MaterializeBinary, MaterializeFile, Ours, Files
<1>3. cmd.step = f
  BY <1>2 DEF At
<1>4. GoesOn(cmd, f)
  <2>1. Following(f) # "done"
    BY <1>1, StepsOfSetup DEF Files
  <2> QED
    BY <1>3, <2>1, SetupStepGoesOn DEF SetupStep
<1>5. Rank[f] \in 2..6 /\ Rank[cmd'.step] = Rank[f] + 1
  BY <1>4, Ranks DEF GoesOn, Files
<1>6. /\ cmd'.config = cmd.config /\ cmd'.own = cmd.own
      /\ FilesDone(cmd.config, Rank[f]) /\ (cmd.own => placed[Dir]["self"] = "whole")
  BY <1>1, <1>3, <1>4 DEF FilesInv, GoesOn, Dir
<1> DEFINE Whole(g) == placed[Dir][g] = "whole"
           WholeNow(g) == placed'[Dir][g] = "whole"
<1>7. /\ (f # "airgap" \/ cmd.config.airgap) /\ (f # "self" \/ ~cmd.own) => WholeNow(f)
      /\ \A g \in Files : Whole(g) => WholeNow(g)
  <2>1. CASE Place(f, "whole")
    BY <1>1, <2>1, PlaceKeeps DEF Types
  <2>2. CASE UNCHANGED placed
    BY <1>2, <2>2, <1>1, PlaceKeeps DEF Types
  <2> QED
    BY <1>2, <2>1, <2>2
<1>8. cmd.own => WholeNow("self")
  BY <1>6, <1>7 DEF Files
<1>9. FilesDone(cmd.config, Rank[f] + 1)'
  <2>0. ec' = cmd.config
    BY <1>2, <1>5, <1>6 DEF FilesDone
  <2>1. f = "self" => WholeNow("self")
    BY <1>7, <1>8
  <2>2. f = "airgap" /\ cmd.config.airgap => WholeNow("airgap")
    BY <1>7
  <2>3. /\ Rank[f] > 2 => WholeNow("self")
        /\ Rank[f] > 3 => WholeNow("binaries")
        /\ Rank[f] > 4 => WholeNow("kubectl")
        /\ Rank[f] > 5 => WholeNow("support")
    BY <1>6, <1>7 DEF FilesDone, Files, Dir
  <2>4. /\ Rank["self"] = 2 /\ Rank["binaries"] = 3 /\ Rank["kubectl"] = 4
        /\ Rank["support"] = 5 /\ Rank["airgap"] = 6
    BY Ranks
  <2>5. f \in {"self", "binaries", "kubectl", "support", "airgap"}
    BY DEF Files
  <2>6. f \notin {"self", "airgap"} => WholeNow(f)
    BY <1>7
  <2> HIDE DEF WholeNow
  <2>7. LET n == Rank[f] + 1 IN
          /\ n > 2 => WholeNow("self")
          /\ n > 3 => WholeNow("binaries")
          /\ n > 4 => WholeNow("kubectl")
          /\ n > 5 => WholeNow("support")
          /\ n > 6 /\ cmd.config.airgap => WholeNow("airgap")
    BY <2>1, <2>2, <2>3, <2>4, <2>5, <2>6
  <2> QED
    BY <1>5, <1>6, <2>0, <2>7 DEF FilesDone, WholeNow, Dir
<1> QED
  BY <1>5, <1>6, <1>8, <1>9 DEF FilesInv, Dir

LEMMA FilesInvStep ==
  ASSUME CommandInv, Types, FilesInv, [NextHost]_hostVars
  PROVE  FilesInv'
<1>1. CommandInv'
  BY CommandStep
<1>2. ASSUME UNCHANGED <<cmd, files>> PROVE FilesInv'
  BY <1>2 DEF files, FilesInv, FilesDone, InSetup
<1>3. ASSUME NEW name \in {"install", "join"}, NEW config \in Configs, NEW own \in BOOLEAN,
             StartSetup(name, config, own)
      PROVE  FilesInv'
  BY <1>3, SetupStarts, Ranks DEF FilesInv, FilesDone, state, files
<1>4. CASE WriteRuntimeConfig
  <2>1. InSetup /\ cmd.step = "runtimeConfig"
    BY <1>4, SetupStepAdvances DEF SetupStep, WriteRuntimeConfig, At
  <2>2. GoesOn(cmd, cmd.step)
    BY <1>4, <2>1, SetupStepGoesOn, StepsOfSetup DEF SetupStep
  <2>3. Rank[cmd'.step] = 2 /\ cmd'.config = cmd.config /\ cmd'.own = cmd.own
    BY <2>1, <2>2, Ranks DEF GoesOn
  <2>4. ec' = cmd.config /\ UNCHANGED placed
    BY <1>4 DEF WriteRuntimeConfig
  <2> QED
    BY <2>1, <2>3, <2>4 DEF FilesInv, FilesDone
<1>5. CASE Materialize
  BY <1>1, <1>5, FilesPlaced
<1>6. ASSUME SetupStep, ~WriteRuntimeConfig, ~Materialize PROVE FilesInv'
  <2>1. cmd.step \notin {"runtimeConfig", "self", "binaries", "kubectl", "support", "airgap"}
    BY <1>6 DEF SetupStep, StaticSysctl, DynamicSysctl, LoadSysctl, ModulesFile, Modprobe,
       ManagerFile, RestartManager, CreateZone, ZoneEntries, OpenPorts, ReloadFirewalld,
       WriteK0sConfig, CreateSystemdUnitFiles, MirrorUnit, StartMirror, At
  <2>2. Rank[cmd.step] > 6
    BY <1>6, <2>1, SetupStepAdvances, Ranks DEF SetupSteps
  <2>3. UNCHANGED <<ec, placed>>
    BY <1>6, SetupStepKeeps DEF files
  <2>4. InSetup' => InSetup /\ cmd'.config = cmd.config /\ cmd'.own = cmd.own
    BY <1>6, SetupStepAdvances, SetupStepGoesOn, EndsIdle DEF GoesOn
  <2> QED
    BY <1>1, <2>2, <2>3, <2>4, FilesKept
<1>7. CASE SkipFirewalld \/ ZoneConflict \/ LookAtMirror
  <2>1. UNCHANGED <<ec, placed>>
    BY <1>7, LooksKeep DEF files
  <2>2. Rank[cmd.step] > 6
    BY <1>7, Ranks DEF SkipFirewalld, ZoneConflict, LookAtMirror, At
  <2>3. InSetup' => InSetup /\ cmd'.config = cmd.config /\ cmd'.own = cmd.own
    BY <1>7, ZoneStepGoesOn, LookGoesOn, EndsIdle DEF GoesOn, Looks
  <2> QED
    BY <1>1, <2>1, <2>2, <2>3, FilesKept
<1>8. CASE Fail
  BY <1>1, <1>8, ToleratedFail, FilesKept DEF FilesInv
<1>9. ASSUME ~InSetup' PROVE FilesInv'
  BY <1>9 DEF FilesInv
<1>10. CASE Between
  BY <1>2, <1>10, BetweenKeeps, BetweenChanges
<1>11. CASE UNCHANGED hostVars
  BY <1>2, <1>11 DEF hostVars, state
<1> QED
  BY <1>3, <1>4, <1>5, <1>6, <1>7, <1>8, <1>9, <1>10, <1>11, NextKinds, NotInSetup

LEMMA SetupStepRank ==
  ASSUME CommandInv, SetupStep, InSetup'
  PROVE  /\ InSetup /\ Rank[cmd'.step] = IF Rank[cmd.step] = 18 THEN 18 ELSE Rank[cmd.step] + 1
         /\ cmd'.tolerated = cmd.tolerated /\ cmd'.config = cmd.config /\ cmd'.clean = cmd.clean
         /\ cmd'.name = cmd.name /\ cmd'.step = Following(cmd.step)
  BY SetupStepAdvances, SetupStepGoesOn, EndsIdle DEF GoesOn

(* What SystemDone says of a later step, by what is unchanged.             *)
LEMMA SystemKept ==
  ASSUME CommandInv, CommandInv', SystemInv,
         InSetup' => /\ InSetup /\ cmd.tolerated \subseteq cmd'.tolerated
                     /\ \/ Rank[cmd'.step] < 9
                        \/ /\ UNCHANGED <<host, kernel, conf, managed>>
                           /\ \/ Rank[cmd'.step] = Rank[cmd.step]
                              \/ Rank[cmd.step] > 13 /\ Rank[cmd'.step] > 13
  PROVE  SystemInv'
<1> SUFFICES ASSUME InSetup' PROVE SystemInv'
  BY DEF SystemInv
<1>1. Rank[cmd.step] \in 1..18 /\ Rank[cmd'.step] \in 1..18
  BY RankTypes DEF CommandInv
<1>2. SystemDone(cmd.tolerated, Rank[cmd.step])
  BY DEF SystemInv
<1>3. CASE Rank[cmd'.step] < 9
  BY <1>1, <1>3 DEF SystemInv, SystemDone
<1>4. CASE /\ UNCHANGED <<host, kernel, conf, managed>>
           /\ \/ Rank[cmd'.step] = Rank[cmd.step]
              \/ Rank[cmd.step] > 13 /\ Rank[cmd'.step] > 13
  <2>1. SystemDone(cmd'.tolerated, Rank[cmd'.step])
    BY <1>1, <1>2, <1>4 DEF SystemDone
  <2> QED
    BY <1>4, <2>1 DEF SystemInv, SystemDone
<1> QED
  BY <1>3, <1>4

LEMMA SystemInvStep ==
  ASSUME CommandInv, Types, SystemInv, [NextHost]_hostVars
  PROVE  SystemInv'
<1> DEFINE r == Rank[cmd.step]
           t == Rank[cmd'.step]
<1>1. CommandInv'
  BY CommandStep
<1>2. ASSUME ~InSetup' PROVE SystemInv'
  BY <1>2 DEF SystemInv
<1>3. ASSUME UNCHANGED <<host, cmd, system>> PROVE SystemInv'
  BY <1>3 DEF system, SystemInv, SystemDone, InSetup
<1>4. ASSUME NEW name \in {"install", "join"}, NEW config \in Configs, NEW own \in BOOLEAN,
             StartSetup(name, config, own)
      PROVE  SystemInv'
  BY <1>4, SetupStarts, Ranks DEF SystemInv, SystemDone
<1>5. ASSUME SetupStep, InSetup' PROVE SystemInv'
  <2>1. /\ InSetup /\ t = (IF r = 18 THEN 18 ELSE r + 1) /\ r \in 1..18
        /\ cmd'.tolerated = cmd.tolerated /\ UNCHANGED host
        /\ SystemDone(cmd.tolerated, r)
    BY <1>5, SetupStepRank, SetupStepKeeps, RankOf DEF SystemInv
  <2>2. CASE r < 8
    BY <1>1, <1>5, <2>1, <2>2, SystemKept
  <2>3. CASE DynamicSysctl
    <3>1. r = 8
      BY <2>3, Ranks DEF DynamicSysctl, At
    <3>2. conf' = [conf EXCEPT !.dynamic = [k \in Keys |-> NeedsUpdate(k)]] /\ UNCHANGED kernel
      BY <2>3 DEF DynamicSysctl
    <3>3. \A k \in Keys : kernel.limits[k] < Wanted => conf'.dynamic[k]
      BY <3>2 DEF NeedsUpdate, Types, SystemTypes
    <3>4. \A k \in Keys : kernel.limits[k] \in 0..2
      BY DEF Types, SystemTypes
    <3>5. \A k \in Keys : kernel'.limits[k] >= Wanted \/ conf'.dynamic[k]
      BY <3>2, <3>3, <3>4 DEF Wanted
    <3> QED
      BY <2>1, <3>1, <3>5 DEF SystemInv, SystemDone
  <2>4. CASE LoadSysctl
    <3>1. r = 9 /\ kernel' = Loaded
      BY <2>4, Ranks DEF LoadSysctl, At
    <3>2. \A k \in Keys : kernel.limits[k] >= Wanted \/ conf.dynamic[k]
      BY <2>1, <3>1 DEF SystemDone
    <3>3. \A k \in Keys : kernel'.limits[k] >= Wanted
      BY <3>1, <3>2, LoadedIs DEF Types, Wanted
    <3> QED
      BY <2>1, <3>1, <3>3 DEF SystemInv, SystemDone
  <2>5. CASE ModulesFile
    <3>1. r = 10 /\ conf' = [conf EXCEPT !.modules = TRUE] /\ UNCHANGED kernel
      BY <2>5, Ranks DEF ModulesFile, At
    <3>2. conf'.modules
      BY <3>1 DEF Types, SystemTypes
    <3> QED
      BY <2>1, <3>1, <3>2 DEF SystemInv, SystemDone
  <2>6. CASE Modprobe
    <3>1. r = 11 /\ kernel' = [kernel EXCEPT !.modules = @ \cup host.modules] /\ UNCHANGED conf
      BY <2>6, Ranks DEF Modprobe, At
    <3>2. kernel'.limits = kernel.limits /\ host.modules \subseteq kernel'.modules
      BY <3>1 DEF Types, SystemTypes
    <3> QED
      BY <2>1, <3>1, <3>2 DEF SystemInv, SystemDone
  <2>7. CASE ManagerFile
    <3>1. /\ r = 12 /\ UNCHANGED kernel
          /\ conf' = IF host.manager THEN [conf EXCEPT !.manager = TRUE] ELSE conf
      BY <2>7, Ranks DEF ManagerFile, At
    <3>2. conf'.modules = conf.modules /\ (host.manager => conf'.manager)
      BY <3>1 DEF Types, SystemTypes
    <3> QED
      BY <2>1, <3>1, <3>2 DEF SystemInv, SystemDone
  <2>8. CASE RestartManager
    <3>1. r = 13 /\ managed' = conf.manager /\ UNCHANGED <<kernel, conf>>
      BY <2>8, Ranks DEF RestartManager, At
    <3> QED
      BY <2>1, <3>1 DEF SystemInv, SystemDone
  <2>9. CASE r > 13
    <3>1. UNCHANGED system
      BY <1>5, <2>9, SetupStepKeeps, Ranks DEF StaticSysctl, DynamicSysctl, LoadSysctl,
         ModulesFile, Modprobe, ManagerFile, RestartManager, At
    <3> QED
      BY <1>1, <1>5, <2>1, <2>9, <3>1, SystemKept DEF system
  <2>10. r \in 8..13 => \/ DynamicSysctl \/ LoadSysctl \/ ModulesFile \/ Modprobe
                        \/ ManagerFile \/ RestartManager
    BY <1>5, Ranks DEF SetupStep, WriteRuntimeConfig, Materialize, MaterializeBinary,
       MaterializeFile, StaticSysctl, CreateZone, ZoneEntries, OpenPorts, ReloadFirewalld,
       WriteK0sConfig, CreateSystemdUnitFiles, MirrorUnit, StartMirror, At
  <2> QED
    BY <2>1, <2>2, <2>3, <2>4, <2>5, <2>6, <2>7, <2>8, <2>9, <2>10
<1>6. ASSUME SkipFirewalld \/ ZoneConflict \/ LookAtMirror, InSetup' PROVE SystemInv'
  <2>1. UNCHANGED <<host, kernel, conf, managed>>
    BY <1>6, LooksKeep DEF system
  <2>2. r > 13
    BY <1>6, Ranks DEF SkipFirewalld, ZoneConflict, LookAtMirror, At
  <2>3. InSetup /\ t > 13 /\ cmd.tolerated \subseteq cmd'.tolerated
    <3>1. cmd \in CommandType
      BY DEF CommandInv
    <3>2. [cmd EXCEPT !.tolerated = @ \cup {"firewalld"}].tolerated = cmd.tolerated \cup {"firewalld"}
      BY <3>1 DEF CommandType
    <3> QED
      BY <1>6, <2>2, <3>2, ZoneStepGoesOn, LookGoesOn, EndsIdle, Ranks DEF GoesOn, Looks, At
  <2> QED
    BY <1>1, <2>1, <2>2, <2>3, SystemKept
<1>7. ASSUME Fail, InSetup' PROVE SystemInv'
  <2>1. InSetup /\ UNCHANGED host /\ PartOfSystem /\ r \in 1..18 /\ SystemDone(cmd.tolerated, r)
    BY <1>7, CutShort, ToleratedFail, RankOf DEF SystemInv
  <2>2. CASE cmd.step \in {"static", "dynamic", "load"}
    <3>1. t = 10 /\ "sysctl" \in cmd'.tolerated
      BY <1>7, <2>2, ToleratedFail
    <3> QED
      BY <3>1 DEF SystemInv, SystemDone
  <2>3. CASE cmd.step \in {"modulesFile", "modprobe"}
    <3>1. t = 12 /\ cmd'.tolerated = cmd.tolerated \cup {"modules"} /\ r > 9
      BY <1>7, <2>3, ToleratedFail, Ranks
    <3>2. kernel'.limits = kernel.limits
      BY <2>1, <2>3 DEF PartOfSystem, At, system, Types, SystemTypes
    <3> QED
      BY <2>1, <3>1, <3>2 DEF SystemInv, SystemDone
  <2>4. CASE cmd.step \in {"zone", "entries", "ports", "reload"}
    <3>1. t = 18 /\ cmd'.tolerated = cmd.tolerated \cup {"firewalld"} /\ r > 13
      BY <1>7, <2>4, ToleratedFail, Ranks
    <3>2. UNCHANGED <<kernel, conf, managed>>
      BY <2>1, <2>4 DEF PartOfSystem, At, system
    <3> QED
      BY <1>1, <2>1, <3>1, <3>2, SystemKept
  <2> QED
    BY <1>7, <2>2, <2>3, <2>4, ToleratedFail
<1>8. ASSUME Between, InSetup' PROVE SystemInv'
  <2>1. UNCHANGED <<host, cmd>> /\ cmd # Idle
    BY <1>8, BetweenKeeps, IdleTypes DEF InSetup
  <2>2. UNCHANGED system
    BY <1>8, <2>1, BetweenChanges DEF Reboot, Raises, RaiseLimit
  <2> QED
    BY <1>3, <2>1, <2>2
<1>9. CASE UNCHANGED hostVars
  BY <1>3, <1>9 DEF hostVars, state
<1> QED
  BY <1>2, <1>4, <1>5, <1>6, <1>7, <1>8, <1>9, NextKinds, NotInSetup

(* Where firewalld does not run nothing is written, and a zone that is not *)
(* there has no entries.                                                   *)
Quiet == host.firewalld # "active" => permanent = NoZone /\ runtime = NoZone
Blank == ~permanent.exists =>
            ~permanent.accept /\ ~permanent.interfaces /\ permanent.sources = {}

Written == InSetup => ZoneDone(cmd.config, Rank[cmd.step])

LEMMA ZoneSteps ==
  ASSUME CommandInv, Types, ZoneInv,
         ZoneEntries \/ OpenPorts \/ ReloadFirewalld \/ (InSetup /\ (At("entries") \/ At("ports")))
  PROVE  InSetup /\ host.firewalld = "active" /\ permanent.exists
<1>1. InSetup
  BY SetupStepAdvances DEF SetupStep
<1>2. cmd.step \in {"entries", "ports", "reload"}
  BY DEF ZoneEntries, OpenPorts, ReloadFirewalld, At
<1> QED
  BY <1>1, <1>2, Ranks DEF ZoneInv, ZoneDone

LEMMA QuietStep ==
  ASSUME CommandInv, Types, ZoneInv, [NextHost]_hostVars
  PROVE  Quiet'
<1>1. Quiet
  BY DEF Quiet, ZoneInv
<1>2. UNCHANGED host
  BY NextKinds, StartsKeep, SetupStepKeeps, LooksKeep, ResetZoneStepKeeps, RemoveStepKeeps,
     StopsKeep, CutShort, BetweenKeeps DEF hostVars, Starts
<1>3. CASE UNCHANGED firewall
  BY <1>1, <1>2, <1>3 DEF firewall, Quiet
<1>4. ASSUME host.firewalld = "active" PROVE Quiet'
  BY <1>2, <1>4 DEF Quiet
<1>5. ASSUME host.firewalld # "active", ResetZoneStep \/ Boots PROVE Quiet'
  <2>1. permanent = NoZone /\ runtime = NoZone
    BY <1>5, <1>1 DEF Quiet
  <2>2. permanent' = permanent /\ (runtime' = runtime \/ runtime' = permanent)
    BY <1>5 DEF ResetZoneStep, ResetZone, ResetPorts, ResetReload, ResetStep, Answers, Boots,
       RebootAtEnd, Reboot, Boot
  <2> QED
    BY <1>2, <2>1, <2>2 DEF Quiet
<1>6. CASE CreateZone \/ ZoneEntries \/ OpenPorts \/ ReloadFirewalld
  BY <1>4, <1>6, ZoneSteps DEF CreateZone
<1>7. CASE Fail \/ Kill
  <2>1. UNCHANGED firewall \/ (InSetup /\ (At("entries") \/ At("ports")))
    BY <1>7, CutShort DEF PartOfZone
  <2> QED
    BY <1>3, <1>4, <2>1, ZoneSteps
<1>8. CASE UNCHANGED hostVars
  BY <1>3, <1>8 DEF hostVars, state
<1>9. CASE NextHost
  BY <1>3, <1>4, <1>5, <1>6, <1>7, <1>9, NextKinds, StartsKeep, SetupStepKeeps, LooksKeep,
     RemoveStepKeeps, StopsKeep, BetweenChanges DEF Starts, Boots
<1> QED
  BY <1>8, <1>9

LEMMA BlankStep ==
  ASSUME CommandInv, Types, ZoneInv, [NextHost]_hostVars
  PROVE  Blank'
<1>1. Blank
  BY DEF Blank, ZoneInv
<1>2. CASE UNCHANGED permanent
  BY <1>1, <1>2 DEF Blank
<1>3. ASSUME permanent'.exists PROVE Blank'
  BY <1>3 DEF Blank
<1>4. CASE CreateZone \/ ZoneEntries \/ OpenPorts \/ ReloadFirewalld
  <2>1. CASE CreateZone
    BY <1>3, <2>1 DEF CreateZone, Types, ZoneTypes, Zone
  <2>2. CASE ZoneEntries
    BY <1>3, <2>2, ZoneSteps, EntriesAre DEF ZoneEntries, Types
  <2>3. CASE OpenPorts
    BY <1>3, <2>3, ZoneSteps DEF OpenPorts, Types, ZoneTypes, Zone
  <2>4. CASE ReloadFirewalld
    BY <1>2, <2>4 DEF ReloadFirewalld
  <2> QED
    BY <1>4, <2>1, <2>2, <2>3, <2>4
<1>5. CASE ResetZoneStep
  <2>1. \/ permanent' = permanent \/ permanent' = [permanent EXCEPT !.ports = {}]
        \/ permanent' = [NoZone EXCEPT !.ports = permanent.ports]
    BY <1>5 DEF ResetZoneStep, ResetZone, ResetPorts, ResetReload, ResetStep
  <2>2. permanent' = [permanent EXCEPT !.ports = {}] => Blank'
    BY <1>1 DEF Blank, Types, ZoneTypes, Zone
  <2>3. permanent' = [NoZone EXCEPT !.ports = permanent.ports] => Blank'
    BY DEF Blank, NoZone
  <2> QED
    BY <1>2, <2>1, <2>2, <2>3
<1>6. CASE Fail \/ Kill
  <2>1. CASE /\ InSetup /\ (At("entries") \/ At("ports"))
             /\ PartOfZone
    <3>1. permanent.exists /\ InSetup
      BY <2>1, ZoneSteps
    <3>2. ASSUME NEW n \in 0..3, permanent' = Entries(n) PROVE permanent'.exists
      <4>1. ZoneTypes /\ n \in 0..4
        BY DEF Types
      <4>2. Entries(n).exists = permanent.exists
        BY <3>1, <4>1, EntriesAre
      <4> QED
        BY <3>1, <3>2, <4>2
    <3>3. ASSUME NEW some, permanent' = [permanent EXCEPT !.ports = @ \cup some] PROVE permanent'.exists
      BY <3>1, <3>3 DEF Types, ZoneTypes, Zone
    <3> QED
      BY <1>2, <1>3, <2>1, <3>2, <3>3 DEF PartOfZone, firewall
  <2>2. UNCHANGED permanent \/ (InSetup /\ (At("entries") \/ At("ports")) /\ PartOfZone)
    BY <1>6, CutShort DEF PartOfZone, firewall
  <2> QED
    BY <1>2, <2>1, <2>2
<1>7. CASE Boots
  BY <1>2, <1>7 DEF Boots, RebootAtEnd, Reboot
<1>8. CASE UNCHANGED hostVars
  BY <1>2, <1>8 DEF hostVars, state, firewall
<1>9. CASE NextHost
  BY <1>2, <1>4, <1>5, <1>6, <1>7, <1>9, NextKinds, StartsKeep, SetupStepKeeps, LooksKeep,
     RemoveStepKeeps, StopsKeep, BetweenChanges DEF Starts, Boots, firewall
<1> QED
  BY <1>8, <1>9

LEMMA ZoneInvStep ==
  ASSUME CommandInv, Types, ZoneInv, [NextHost]_hostVars
  PROVE  ZoneInv'
<1> DEFINE r == Rank[cmd.step]
           t == Rank[cmd'.step]
<1>0. CommandInv'
  BY CommandStep
<1>1. ASSUME ~InSetup' PROVE Written'
  BY <1>1 DEF Written
<1>2. ASSUME t \notin 15..17 PROVE Written'
  BY <1>2, <1>0, RankTypes DEF Written, ZoneDone, CommandInv
<1>3. ASSUME UNCHANGED <<host, cmd, permanent>> PROVE Written'
  BY <1>3 DEF Written, ZoneInv, ZoneDone, InSetup
<1>4. ASSUME SetupStep, InSetup' PROVE Written'
  <2>1. /\ InSetup /\ t = (IF r = 18 THEN 18 ELSE r + 1) /\ r \in 1..18 /\ UNCHANGED host
        /\ cmd'.config = cmd.config /\ ZoneDone(cmd.config, r)
    BY <1>4, SetupStepRank, SetupStepKeeps, RankOf DEF ZoneInv
  <2>2. CASE CreateZone
    <3>1. r = 14 /\ host.firewalld = "active" /\ permanent'.exists
      BY <2>2, Ranks DEF CreateZone, At, Types, ZoneTypes, Zone
    <3> QED
      BY <2>1, <3>1 DEF Written, ZoneDone
  <2>3. CASE ZoneEntries
    <3>1. r = 15 /\ host.firewalld = "active" /\ permanent.exists /\ permanent' = Entries(4)
      BY <2>3, ZoneSteps, Ranks DEF ZoneEntries, At
    <3>2. ZoneTypes /\ 4 \in 0..4
      BY DEF Types
    <3>3. /\ Entries(4).exists /\ Entries(4).accept /\ Entries(4).interfaces
          /\ {cmd.config.pods, cmd.config.services} \subseteq Entries(4).sources
      BY <2>1, <3>1, <3>2, EntriesAre
    <3> QED
      BY <2>1, <3>1, <3>3 DEF Written, ZoneDone
  <2>4. CASE OpenPorts
    <3>1. r = 16 /\ permanent' = [permanent EXCEPT !.ports = Ports]
      BY <2>4, Ranks DEF OpenPorts, At
    <3>2. /\ permanent'.exists = permanent.exists /\ permanent'.accept = permanent.accept
          /\ permanent'.interfaces = permanent.interfaces
          /\ permanent'.sources = permanent.sources /\ permanent'.ports = Ports
      BY <3>1 DEF Types, ZoneTypes, Zone
    <3> QED
      BY <2>1, <3>1, <3>2 DEF Written, ZoneDone
  <2>5. r \in 14..16 => CreateZone \/ ZoneEntries \/ OpenPorts
    BY <1>4, Ranks DEF SetupStep, WriteRuntimeConfig, Materialize, MaterializeBinary,
       MaterializeFile, StaticSysctl, DynamicSysctl, LoadSysctl, ModulesFile, Modprobe, ManagerFile,
       RestartManager, ReloadFirewalld, WriteK0sConfig, CreateSystemdUnitFiles, MirrorUnit,
       StartMirror, At
  <2>6. r \notin 14..16 => t \notin 15..17
    BY <2>1
  <2> QED
    BY <1>2, <2>2, <2>3, <2>4, <2>5, <2>6
<1>5. ASSUME SkipFirewalld \/ ZoneConflict \/ LookAtMirror, InSetup' PROVE Written'
  <2>1. t = 18
    BY <1>5, ZoneStepGoesOn, LookGoesOn, EndsIdle, Ranks DEF GoesOn, Looks, At
  <2> QED
    BY <1>2, <2>1
<1>6. ASSUME Fail, InSetup' PROVE Written'
  <2>1. t \in {10, 12, 18}
    BY <1>6, ToleratedFail
  <2> QED
    BY <1>2, <2>1
<1>7. ASSUME NEW name \in {"install", "join"}, NEW config \in Configs, NEW own \in BOOLEAN,
             StartSetup(name, config, own)
      PROVE  Written'
  <2>1. t = 1
    BY <1>7, SetupStarts, Ranks
  <2> QED
    BY <1>2, <2>1
<1>8. ASSUME Between PROVE Written'
  <2>1. UNCHANGED <<host, cmd, last>> /\ UNCHANGED <<files, services, permanent, conf, prepared>>
    BY <1>8, BetweenKeeps, BetweenChanges
  <2>2. UNCHANGED <<host, cmd, permanent>>
    BY <2>1
  <2> QED
    BY <1>3, <2>2
<1>9. ASSUME UNCHANGED hostVars PROVE Written'
  <2>1. UNCHANGED <<host, cmd, permanent>>
    BY <1>9 DEF hostVars, state, firewall
  <2> QED
    BY <1>3, <2>1
<1>10. Written'
  BY <1>1, <1>4, <1>5, <1>6, <1>7, <1>8, <1>9, NextKinds, NotInSetup
<1> QED
  BY <1>10, QuietStep, BlankStep DEF Written, ZoneInv, Quiet, Blank

-----------------------------------------------------------------------------
(* A host that is prepared.                                                *)

LEMMA PreparedIs == PreparedInv => LimitsRaised /\ HostPrepared
  BY DEF PreparedInv, Furnished, Opened, Admits, LimitsRaised, HostPrepared

(* A setup that comes to the end of ConfigureHost and tolerated nothing    *)
(* has everything but the firewall.                                        *)
LEMMA FurnishedHost ==
  ASSUME CommandInv, Types, FilesInv, SystemInv, InSetup, Rank[cmd.step] > 13, cmd.tolerated = {}
  PROVE  /\ Furnished(cmd.config)
         /\ \A k \in Keys : kernel.limits[k] >= Wanted
<1> DEFINE r == Rank[cmd.step]
<1>1. r \in 14..18 /\ FilesDone(cmd.config, r) /\ SystemDone({}, r)
  BY RankOf DEF FilesInv, SystemInv
<1> HIDE DEF r
<1>2. /\ ec = cmd.config
      /\ \A f \in {"self", "binaries", "kubectl", "support"} : placed[cmd.config.dir][f] = "whole"
      /\ cmd.config.airgap => placed[cmd.config.dir]["airgap"] = "whole"
  BY <1>1 DEF FilesDone
<1>3. /\ \A k \in Keys : kernel.limits[k] >= Wanted
      /\ host.modules \subseteq kernel.modules /\ conf.modules
      /\ host.manager => managed /\ conf.manager
  BY <1>1 DEF SystemDone
<1>4. \A f \in Files \ (IF cmd.config.airgap THEN {} ELSE {"airgap"}) :
         placed[cmd.config.dir][f] = "whole"
  BY <1>2 DEF Files
<1> QED
  BY <1>2, <1>3, <1>4 DEF Furnished

(* What a step that leaves the host alone keeps.                           *)
LEMMA PreparedKept ==
  ASSUME PreparedInv, UNCHANGED <<host, ec, placed, kernel, conf, managed, permanent, runtime>>,
         UNCHANGED <<prepared, fresh>>,
         prepared # None /\ cmd'.name # "none" => InSetup' /\ Rank[cmd'.step] = 18
  PROVE  PreparedInv'
  BY DEF PreparedInv, Furnished, Opened, Admits

LEMMA NotPrepared ==
  ASSUME PreparedInv, cmd.name # "none", ~(InSetup /\ Rank[cmd.step] = 18)
  PROVE  prepared = None
  BY DEF PreparedInv

LEMMA PreparedStep ==
  ASSUME CommandInv, Types, FilesInv, SystemInv, ZoneInv, PreparedInv, [NextHost]_hostVars
  PROVE  PreparedInv'
<1>1. CommandInv' /\ (InSetup => cmd.name # "none") /\ (InReset => cmd.name # "none")
  BY CommandStep DEF InSetup, InReset
<1>2. CASE prepared' = None
  BY <1>2 DEF PreparedInv
<1>3. CASE UNCHANGED hostVars
  BY <1>3 DEF hostVars, state, files, system, firewall, history, PreparedInv, Furnished, Opened,
     Admits, InSetup
<1>4. CASE Starts
  BY <1>2, <1>4, SetupStarts, ResetStarts DEF Starts
<1>5. ASSUME InSetup, Rank[cmd.step] = 17 \/ Rank[cmd.step] = 14, Prepare(cmd),
             InSetup', Rank[cmd'.step] = 18, UNCHANGED <<host, ec, placed, kernel, conf, managed>>,
             permanent' = permanent,
             host.firewalld = "active" => Admits(permanent, cmd.config) /\ runtime' = permanent
      PROVE  PreparedInv'
  <2>1. CASE cmd.tolerated = {}
    <3>1. prepared' = cmd.config /\ fresh'
      BY <1>5, <2>1 DEF Prepare
    <3>2. Furnished(cmd.config) /\ \A k \in Keys : kernel.limits[k] >= Wanted
      BY <1>5, <2>1, FurnishedHost
    <3>3. Furnished(prepared)' /\ \A k \in Keys : kernel'.limits[k] >= Wanted
      BY <1>5, <3>1, <3>2 DEF Furnished
    <3>4. Opened(prepared)'
      BY <1>5, <3>1 DEF Opened, Admits
    <3> QED
      BY <1>5, <3>3, <3>4 DEF PreparedInv
  <2>2. CASE cmd.tolerated # {}
    BY <1>2, <1>5, <2>2 DEF Prepare
  <2> QED
    BY <2>1, <2>2
<1>6. CASE SkipFirewalld
  <2>1. InSetup /\ Rank[cmd.step] = 14 /\ InSetup' /\ Rank[cmd'.step] = 18
    BY <1>6, ZoneStepGoesOn, Ranks DEF GoesOn, SkipFirewalld, At
  <2>2. UNCHANGED <<host, ec, placed, kernel, conf, managed>> /\ permanent' = permanent
    BY <1>6, LooksKeep DEF files, system, firewall
  <2>3. Prepare(cmd) /\ host.firewalld # "active"
    BY <1>6 DEF SkipFirewalld
  <2> QED
    BY <1>5, <2>1, <2>2, <2>3
<1>7. CASE ReloadFirewalld
  <2>1. InSetup /\ cmd.step = "reload" /\ GoesOn(cmd, "reload")
    BY <1>7, SetupStepAdvances, SetupStepGoesOn, StepsOfSetup
       DEF SetupStep, ReloadFirewalld, At, InSetup
  <2>2. Rank[cmd.step] = 17 /\ InSetup' /\ Rank[cmd'.step] = 18
    BY <2>1, Ranks DEF GoesOn
  <2>3. /\ UNCHANGED <<host, ec, placed, kernel, conf, managed>> /\ permanent' = permanent
        /\ runtime' = permanent /\ Prepare(cmd)
    BY <1>7 DEF ReloadFirewalld, files, system
  <2>4. Admits(permanent, cmd.config)
    BY <2>1, <2>2 DEF ZoneInv, ZoneDone, Admits
  <2> QED
    BY <1>5, <2>1, <2>2, <2>3, <2>4
<1>8. ASSUME SetupStep, ~ReloadFirewalld PROVE PreparedInv'
  <2>1. UNCHANGED <<prepared, fresh>> /\ InSetup /\ UNCHANGED host
    BY <1>8, SetupStepKeeps, SetupStepAdvances DEF history
  <2>2. CASE prepared = None
    BY <1>2, <2>1, <2>2
  <2>3. CASE prepared # None
    <3>1. Rank[cmd.step] = 18
      BY <1>1, <2>1, <2>3, NotPrepared
    <3>2. UNCHANGED <<files, system, firewall>>
      BY <1>8, <3>1, SetupStepKeeps, Ranks DEF WriteRuntimeConfig, Materialize,
         MaterializeBinary, MaterializeFile, StaticSysctl, DynamicSysctl, LoadSysctl, ModulesFile,
         Modprobe, ManagerFile, RestartManager, CreateZone, ZoneEntries, OpenPorts, At
    <3>3. InSetup' => Rank[cmd'.step] = 18
      BY <1>8, <3>1, SetupStepRank
    <3>4. cmd'.name # "none" => InSetup'
      BY <1>1, <1>8, SetupStepGoesOn, EndsIdle, IdleTypes DEF GoesOn
    <3> QED
      BY <2>1, <3>2, <3>3, <3>4, PreparedKept DEF files, system, firewall
  <2> QED
    BY <2>2, <2>3
<1>9. CASE ZoneConflict
  <2>1. prepared' = prepared /\ InSetup /\ Rank[cmd.step] = 14
    BY <1>9, ZoneStepGoesOn, Ranks DEF ZoneConflict, At, history
  <2> QED
    BY <1>1, <1>2, <2>1, NotPrepared
<1>10. CASE LookAtMirror
  <2>1. UNCHANGED <<host, files, system, firewall, history>>
    BY <1>10, LooksKeep DEF LookAtMirror, SkipFirewalld, state
  <2>2. cmd'.name # "none" => InSetup' /\ Rank[cmd'.step] = 18
    BY <1>10, LookGoesOn, EndsIdle, IdleTypes, Ranks DEF Looks, GoesOn, At
  <2> QED
    BY <2>1, <2>2, PreparedKept DEF files, system, firewall, history
<1>11. CASE ResetZoneStep
  <2>1. prepared' = prepared /\ InReset
    BY <1>11, ResetZoneStepKeeps, ResetZoneStepGoesOn DEF history
  <2> QED
    BY <1>1, <1>2, <2>1, NotPrepared, InOneCommand
<1>12. CASE RemoveStep
  <2>1. prepared' = prepared /\ InReset
    BY <1>12, RemoveStepKeeps, RemoveStepAdvances DEF history, RebootAtEnd
  <2> QED
    BY <1>1, <1>2, <2>1, NotPrepared, InOneCommand
<1>13. CASE Fail \/ Stops
  <2>1. prepared' = prepared /\ UNCHANGED <<prepared, fresh, host>> /\ cmd.name # "none"
    BY <1>1, <1>13, CutShort, StopsKeep, FailGoesOn, StopsEnd, InOneCommand DEF history
  <2>2. CASE prepared = None
    BY <1>2, <2>1, <2>2
  <2>3. CASE prepared # None
    <3>1. InSetup /\ Rank[cmd.step] = 18
      BY <2>1, <2>3, NotPrepared
    <3>2. \A s \in SetupSteps : Rank[s] = 18 =>
             /\ s \notin Files
             /\ s \notin {"runtimeConfig", "dynamic", "load", "modprobe", "entries", "ports"}
      BY Ranks DEF Files
    <3>3. UNCHANGED <<ec, placed>> /\ UNCHANGED system /\ UNCHANGED firewall
      BY <1>13, <3>1, <3>2, CutShort, StopsKeep DEF Stops, files, PartOfFiles, PartOfSystem,
         PartOfZone, At, CommandInv
    <3>4. cmd'.name # "none" => InSetup' /\ Rank[cmd'.step] = 18
      BY <1>1, <1>13, <3>1, ToleratedFail, FailGoesOn, StopsEnd, EndsIdle, IdleTypes DEF GoesOn
    <3> QED
      BY <2>1, <3>3, <3>4, PreparedKept DEF system, firewall
  <2> QED
    BY <2>2, <2>3
<1>14. CASE Between
  <2>1. /\ UNCHANGED <<host, cmd, last>>
        /\ UNCHANGED <<files, services, permanent, conf, prepared>>
    BY <1>14, BetweenKeeps, BetweenChanges
  <2>2. CASE UNCHANGED <<system, firewall, history>>
    BY <2>1, <2>2, PreparedKept DEF files, system, firewall, history, PreparedInv, InSetup
  <2>3. CASE Reboot
    <3>1. Boot /\ fresh' = FALSE /\ runtime' = permanent /\ cmd = Idle
      BY <2>3 DEF Reboot, Boot
    <3>2. /\ conf.modules => kernel'.modules = host.modules
          /\ managed' = conf.manager
      BY <3>1, BootIs DEF Types
    <3>3. ASSUME prepared # None PROVE Furnished(prepared)' /\ Opened(prepared)'
      BY <2>1, <3>1, <3>2, <3>3 DEF PreparedInv, Furnished, Opened, Admits, files
    <3> QED
      BY <2>1, <3>1, <3>3, IdleTypes DEF PreparedInv
  <2>4. CASE Raises
    <3>1. PICK k \in Keys : RaiseLimit(k)
      BY <2>4 DEF Raises
    <3>2. /\ kernel'.modules = kernel.modules
          /\ \A l \in Keys : kernel'.limits[l] = IF l = k THEN Raised ELSE kernel.limits[l]
      BY <3>1, RaisedIs DEF Types
    <3>3. UNCHANGED <<managed, runtime, fresh>> /\ cmd = Idle
      BY <3>1 DEF RaiseLimit, firewall, history
    <3>4. ASSUME prepared # None PROVE Furnished(prepared)' /\ Opened(prepared)'
      BY <2>1, <3>2, <3>3, <3>4 DEF PreparedInv, Furnished, Opened, Admits, files
    <3>5. ASSUME prepared # None, fresh PROVE \A l \in Keys : kernel'.limits[l] >= Wanted
      BY <3>2, <3>5 DEF PreparedInv, Raised, Wanted
    <3> QED
      BY <2>1, <3>3, <3>4, <3>5, IdleTypes DEF PreparedInv
  <2> QED
    BY <1>14, <2>2, <2>3, <2>4, BetweenChanges DEF Between, Raises, MirrorCrashes, MirrorRestarts
<1> QED
  BY <1>3, <1>4, <1>6, <1>7, <1>8, <1>9, <1>10, <1>11, <1>12, <1>13, <1>14, NextKinds DEF Starts

-----------------------------------------------------------------------------
(* The services.                                                           *)

(* How a setup comes to where it is.                                       *)
Same == /\ cmd'.name = cmd.name /\ cmd'.config = cmd.config /\ cmd'.clean = cmd.clean
        /\ InSetup
Early == /\ Rank[cmd.step] < 18 /\ UNCHANGED <<services, mirror>>
         /\ \/ Rank[cmd'.step] < 18
            \/ cmd'.step = IF cmd.name = "install" THEN "k0sConfig" ELSE "units"
Later == \/ WriteK0sConfig /\ cmd.name = "install" /\ cmd'.step = "units"
         \/ CreateSystemdUnitFiles /\ cmd'.step = "mirrorUnit"
         \/ MirrorUnit /\ cmd'.step = "startMirror"
         \/ StartMirror /\ cmd'.step = "wait"
         \/ LookAtMirror /\ cmd'.step = "wait"
         \/ /\ LookAtMirror /\ mirror.process = "up"
            /\ cmd.name = "join" /\ cmd'.step = "k0sConfig"

LEMMA SetupMoves ==
  ASSUME CommandInv, NextHost, InSetup'
  PROVE  \/ \E name \in {"install", "join"}, config \in Configs, own \in BOOLEAN :
               StartSetup(name, config, own)
         \/ Between
         \/ Same /\ (Early \/ Later)
<1>1. CASE SetupStep
  <2>1. InSetup /\ cmd.step \in SetupSteps /\ GoesOn(cmd, cmd.step)
    BY <1>1, SetupStepAdvances, SetupStepGoesOn, EndsIdle
  <2>2. Same /\ cmd'.step = Following(cmd.step)
    BY <2>1 DEF Same, GoesOn
  <2>3. CASE WriteK0sConfig
    <3>1. cmd.step = "k0sConfig"
      BY <2>3 DEF WriteK0sConfig, At
    <3>2. cmd.name = "install" /\ cmd'.step = "units"
      BY <2>1, <2>2, <3>1, StepsOfSetup DEF GoesOn, InSetup, SetupSteps
    <3> QED
      BY <2>2, <2>3, <3>2 DEF Later
  <2>4. CASE CreateSystemdUnitFiles \/ MirrorUnit \/ StartMirror
    BY <2>1, <2>2, <2>4, StepsOfSetup DEF CreateSystemdUnitFiles, MirrorUnit, StartMirror, At, Later
  <2>5. ASSUME ~WriteK0sConfig, ~CreateSystemdUnitFiles, ~MirrorUnit, ~StartMirror
        PROVE  Early
    <3>1. UNCHANGED services /\ UNCHANGED mirror
      BY <1>1, <2>5, SetupStepKeeps
    <3>2. cmd.step \notin {"k0sConfig", "units", "mirrorUnit", "startMirror", "wait"}
      BY <1>1, <2>5 DEF SetupStep, WriteRuntimeConfig, Materialize, MaterializeBinary,
         MaterializeFile, StaticSysctl, DynamicSysctl, LoadSysctl, ModulesFile, Modprobe,
         ManagerFile, RestartManager, CreateZone, ZoneEntries, OpenPorts, ReloadFirewalld, At
    <3>3. Rank[cmd.step] < 18 /\ (Rank[cmd.step] = 17 => cmd.step = "reload")
      BY <2>1, <3>2, Ranks DEF SetupSteps
    <3>4. Rank[cmd'.step] = Rank[cmd.step] + 1 /\ Rank[cmd.step] \in 1..17
      BY <2>1, <3>3, RankOf DEF GoesOn
    <3>5. cmd.step = "reload" => cmd'.step = IF cmd.name = "install" THEN "k0sConfig" ELSE "units"
      BY <2>1, <2>2, StepsOfSetup DEF InSetup
    <3>6. Rank[cmd.step] = 17 \/ Rank[cmd'.step] < 18
      BY <3>4
    <3> QED
      BY <3>1, <3>3, <3>5, <3>6 DEF Early
  <2> QED
    BY <2>2, <2>3, <2>4, <2>5
<1>2. CASE SkipFirewalld \/ ZoneConflict
  <2>1. /\ InSetup /\ cmd.step = "zone" /\ cmd'.step = Following("reload")
        /\ cmd'.name = cmd.name /\ cmd'.config = cmd.config /\ cmd'.clean = cmd.clean
    BY <1>2, ZoneStepGoesOn DEF SkipFirewalld, ZoneConflict, At, GoesOn
  <2>2. cmd'.step = IF cmd.name = "install" THEN "k0sConfig" ELSE "units"
    BY <2>1, StepsOfSetup DEF InSetup
  <2>3. UNCHANGED <<services, mirror>>
    BY <1>2, LooksKeep
  <2> QED
    BY <2>1, <2>2, <2>3, Ranks DEF Same, Early
<1>3. CASE LookAtMirror
  <2>1. InSetup /\ cmd.step = "wait" /\ (Looks \/ (mirror.process = "up" /\ GoesOn(cmd, "wait")))
    BY <1>3, LookGoesOn, EndsIdle DEF At
  <2>2. CASE Looks
    BY <1>3, <2>1, <2>2 DEF Looks, Same, Later
  <2>3. CASE mirror.process = "up" /\ GoesOn(cmd, "wait")
    <3>1. cmd.name = "join" /\ cmd'.step = "k0sConfig"
      BY <2>1, <2>3, StepsOfSetup DEF GoesOn, InSetup, SetupSteps
    <3> QED
      BY <1>3, <2>1, <2>3, <3>1 DEF GoesOn, Same, Later
  <2> QED
    BY <2>1, <2>2, <2>3
<1>4. CASE Fail
  <2>1. /\ InSetup /\ UNCHANGED <<services, mirror>> /\ Rank[cmd.step] < 18
        /\ Rank[cmd'.step] < 18 \/ cmd'.step = Following("reload")
    <3>1. /\ InSetup /\ UNCHANGED services /\ UNCHANGED mirror
          /\ Rank[cmd.step] \in {7, 8, 9, 10, 11, 14, 15, 16, 17}
      BY <1>4, CutShort, ToleratedFail
    <3>2. Rank[cmd'.step] = 10 \/ Rank[cmd'.step] = 12 \/ cmd'.step = Following("reload")
      BY <1>4, FailGoesOn, EndsIdle, Ranks DEF GoesOn
    <3> QED
      BY <3>1, <3>2
  <2>2. cmd'.name = cmd.name /\ cmd'.config = cmd.config /\ cmd'.clean = cmd.clean
    BY <1>4, FailGoesOn, EndsIdle DEF GoesOn
  <2>3. Following("reload") = IF cmd.name = "install" THEN "k0sConfig" ELSE "units"
    BY <2>1, StepsOfSetup DEF InSetup
  <2> QED
    BY <2>1, <2>2, <2>3 DEF Same, Early
<1> QED
  BY <1>1, <1>2, <1>3, <1>4, NextKinds, NotInSetup

(* A reset comes to removeMirror when it has stopped the mirror.           *)
LEMMA ResetMoves ==
  ASSUME CommandInv, NextHost, InReset', cmd'.step = "removeMirror"
  PROVE  StopMirror \/ Between
<1>1. CASE RemoveStep
  <2>1. cmd'.step = Following(cmd.step) /\ InReset /\ cmd.step \in ResetSteps
    BY <1>1, RemoveStepGoesOn, RemoveStepAdvances, EndsIdle DEF ResetGoesOn
  <2>2. cmd.step = "stopMirror"
    BY <2>1, StepsOfReset DEF ResetSteps
  <2> QED
    BY <1>1, <2>2 DEF RemoveStep, RemoveK0sConfig, RemoveMirror, RemoveUnits, RemoveHome,
       RemoveManagerFile, RemoveRuntimeConfig, RemoveStatic, RebootAtEnd, At
<1>2. CASE ResetZoneStep
  <2>1. cmd.step \in {"resetZone", "resetPorts", "resetReload"} /\ InReset
        /\ cmd'.step = Following(cmd.step)
    BY <1>2, ResetZoneStepGoesOn, EndsIdle DEF ResetGoesOn
  <2> QED
    BY <2>1, StepsOfReset
<1>3. CASE \E force, yes \in BOOLEAN : StartReset(force, yes)
  BY <1>3, ResetStarts
<1>4. SetupStep \/ SkipFirewalld \/ ZoneConflict \/ LookAtMirror \/ Fail \/ Stops => ~InReset'
  <2>1. SetupStep => ~InReset'
    BY SetupStepGoesOn, EndsIdle DEF GoesOn, InSetup, InReset
  <2> QED
    BY <2>1, ZoneStepGoesOn, LookGoesOn, FailGoesOn, StopsEnd
<1> QED
  BY <1>1, <1>2, <1>3, <1>4, NextKinds, SetupStarts

LEMMA MirrorStep ==
  ASSUME CommandInv, Types, MirrorInv, [NextHost]_hostVars
  PROVE  MirrorInv'
<1>1. ASSUME UNCHANGED <<cmd, mirror>> PROVE MirrorInv'
  BY <1>1 DEF MirrorInv, InSetup, InReset, At
<1>2. ~mirror'.unit => mirror'.process = "down"
  <2>1. CASE UNCHANGED mirror
    BY <2>1 DEF MirrorInv
  <2>2. CASE MirrorUnit
    BY <2>2 DEF MirrorUnit, Types, ServiceTypes
  <2>3. CASE StartMirror \/ MirrorRestarts \/ MirrorCrashes
    <3>1. mirror.unit
      BY <2>3, SetupStepAdvances
         DEF SetupStep, StartMirror, MirrorRestarts, MirrorCrashes, MirrorInv
    <3>2. mirror.loaded \in Config
      BY DEF Types, ServiceTypes
    <3>3. mirror'.unit = mirror.unit
      BY <2>3, <3>2, LaunchedIs DEF StartMirror, MirrorRestarts, MirrorCrashes, Types, ServiceTypes
    <3> QED
      BY <3>1, <3>3
  <2>4. CASE StopMirror \/ RemoveMirror
    <3>1. RemoveMirror => mirror.process = "down"
      BY RemoveStepAdvances DEF RemoveStep, RemoveMirror, MirrorInv
    <3> QED
      BY <2>4, <3>1 DEF StopMirror, RemoveMirror, MirrorInv, Types, ServiceTypes
  <2>5. CASE RebootAtEnd \/ Reboot
    BY <2>5, MirrorBoots DEF RebootAtEnd, Reboot, Types
  <2>6. CASE UNCHANGED hostVars
    BY <2>1, <2>6 DEF hostVars, state, systemd
  <2>7. CASE NextHost
    BY <2>1, <2>2, <2>3, <2>4, <2>5, <2>7, NextKinds, StartsKeep, SetupStepKeeps, LooksKeep,
       ResetZoneStepKeeps, RemoveStepKeeps, StopsKeep, BetweenChanges, CutShort DEF Starts
  <2> QED
    BY <2>6, <2>7
<1>3. CASE UNCHANGED hostVars
  BY <1>1, <1>3 DEF hostVars, state, systemd
<1>4. CASE NextHost /\ Between
  <2>1. UNCHANGED cmd
    BY <1>4, BetweenKeeps
  <2>2. InSetup /\ At("startMirror") => mirror'.unit
    <3>1. mirror.loaded \in Config
      BY DEF Types, ServiceTypes
    <3>2. Boot => mirror'.unit = mirror.unit
      BY MirrorBoots DEF Types
    <3>3. mirror'.unit = mirror.unit
      BY <1>4, <3>1, <3>2, LaunchedIs, BetweenChanges
         DEF MirrorRestarts, MirrorCrashes, Types, ServiceTypes, Reboot
    <3> QED
      BY <3>3 DEF MirrorInv
  <2>3. InReset /\ At("removeMirror") => mirror'.process = "down"
    BY <1>4, <2>1, BetweenChanges, IdleTypes
       DEF MirrorInv, MirrorCrashes, MirrorRestarts, Reboot, InReset
  <2> QED
    BY <1>2, <2>1, <2>2, <2>3 DEF MirrorInv, InSetup, InReset, At
<1>5. CASE NextHost /\ ~Between
  <2>1. ASSUME InSetup', cmd'.step = "startMirror" PROVE mirror'.unit
    <3>1. MirrorUnit
      BY <1>5, <2>1, SetupMoves, SetupStarts, Ranks DEF Early, Later
    <3> QED
      BY <3>1 DEF MirrorUnit, Types, ServiceTypes
  <2>2. ASSUME InReset', cmd'.step = "removeMirror" PROVE mirror'.process = "down"
    BY <1>5, <2>2, ResetMoves DEF StopMirror, MirrorInv, Types, ServiceTypes
  <2> QED
    BY <1>2, <2>1, <2>2 DEF MirrorInv, At
<1> QED
  BY <1>3, <1>4, <1>5

(* What goes on in systemd while no command moves changes neither the      *)
(* configuration of the mirror nor what a process that runs serves.        *)
LEMMA MirrorBetween ==
  ASSUME Types, Between, NEW c \in Config
  PROVE  /\ services' = services
         /\ Follows(c) => Follows(c)'
         /\ Follows(c) /\ Serves(c) => Serves(c)'
         /\ cmd # Idle /\ mirror.process = "down" => mirror'.process = "down"
<1>1. services' = services
  BY BetweenChanges
<1>2. CASE UNCHANGED mirror
  BY <1>1, <1>2 DEF Follows, Serves
<1>3. CASE MirrorCrashes
  BY <1>1, <1>3 DEF MirrorCrashes, Follows, Serves, Types, ServiceTypes
<1>4. CASE MirrorRestarts
  <2>1. mirror.loaded \in Config /\ mirror.process = "restarting"
    BY <1>4 DEF Types, ServiceTypes, MirrorRestarts
  <2>2. /\ mirror'.process # "down" /\ mirror'.serves = mirror.loaded
        /\ mirror'.unit = mirror.unit /\ mirror'.enabled = mirror.enabled
        /\ mirror'.dropin = mirror.dropin /\ mirror'.loaded = mirror.loaded
    BY <1>4, <2>1, LaunchedIs DEF MirrorRestarts, Types, ServiceTypes
  <2> QED
    BY <1>1, <2>1, <2>2 DEF Follows, Serves
<1>5. CASE Reboot
  <2>1. cmd = Idle /\ Boot
    BY <1>5 DEF Reboot
  <2>2. /\ mirror'.unit = mirror.unit /\ mirror'.enabled = mirror.enabled
        /\ mirror'.dropin = mirror.dropin
        /\ mirror.unit /\ mirror.enabled => /\ mirror'.loaded = mirror.dropin
                                            /\ mirror'.serves = mirror.dropin
                                            /\ mirror'.process # "down"
    BY <2>1, MirrorBoots DEF Types
  <2> QED
    BY <1>1, <2>1, <2>2 DEF Follows, Serves
<1> QED
  BY <1>2, <1>3, <1>4, <1>5, BetweenChanges

LateSteps == {"k0sConfig", "units", "mirrorUnit", "startMirror", "wait"}
LEMMA EarlySteps ==
  ASSUME NEW s \in SetupSteps
  PROVE  Rank[s] < 18 <=> s \notin LateSteps
  BY Ranks DEF SetupSteps, LateSteps

LEMMA ServicesStep ==
  ASSUME CommandInv, Types, ServicesInv, [NextHost]_hostVars
  PROVE  ServicesInv'
<1> USE DEF At, Started, HasUnit, HasLink, HasK0s, LateSteps
<1>1. /\ CommandInv'
      /\ services \in [k0s : BOOLEAN, linked : BOOLEAN,
                       proxy : {c.proxy : c \in Configs} \cup {None}]
  BY CommandStep DEF Types, ServiceTypes
<1>2. CASE UNCHANGED hostVars
  BY <1>2 DEF hostVars, state, systemd, ServicesInv, InSetup, Follows, Serves
<1> SUFFICES ASSUME NextHost, InSetup', cmd'.clean
             PROVE  ServicesInv'
  BY <1>2 DEF ServicesInv
<1>3. cmd'.step \in SetupSteps /\ cmd'.config \in Configs
  BY <1>1 DEF CommandInv
<1>4. ASSUME NEW name \in {"install", "join"}, NEW config \in Configs, NEW own \in BOOLEAN,
             StartSetup(name, config, own)
      PROVE  ServicesInv'
  <2>1. NoK0sServices /\ mirror.process = "down" /\ cmd'.step = "runtimeConfig"
        /\ UNCHANGED services /\ UNCHANGED mirror
    BY <1>4, SetupStarts DEF state, systemd
  <2> QED
    BY <2>1 DEF ServicesInv, NoK0sServices
<1>5. CASE Between
  <2>1. UNCHANGED cmd /\ cmd # Idle /\ InSetup /\ cmd.clean /\ cmd.config \in Config
    BY <1>3, <1>5, BetweenKeeps, IdleTypes DEF InSetup, Config
  <2>2. /\ services' = services
        /\ Follows(cmd.config) => Follows(cmd.config)'
        /\ Follows(cmd.config) /\ Serves(cmd.config) => Serves(cmd.config)'
        /\ mirror.process = "down" => mirror'.process = "down"
    <3>1. /\ services' = services
          /\ mirror.process = "down" => mirror'.process = "down"
      BY <1>5, <2>1, MirrorBetween
    <3>2. \A c \in Config : /\ Follows(c) => Follows(c)'
                            /\ Follows(c) /\ Serves(c) => Serves(c)'
      BY <1>5, MirrorBetween
    <3> QED
      BY <2>1, <3>1, <3>2 DEF Follows, Serves
  <2>3. /\ ~Started => mirror.process = "down"
        /\ HasUnit => Follows(cmd.config)
        /\ Started => Serves(cmd.config)
        /\ (services.k0s <=> HasK0s) /\ (HasLink => services.linked)
        /\ services.proxy = IF HasLink THEN cmd.config.proxy ELSE None
    BY <2>1 DEF ServicesInv
  <2> QED
    BY <2>1, <2>2, <2>3 DEF ServicesInv
<1>6. ASSUME Same, Early \/ Later PROVE ServicesInv'
  <2>1. /\ InSetup /\ cmd.clean /\ cmd.config \in Configs /\ cmd.step \in SetupSteps
        /\ cmd'.name = cmd.name /\ cmd'.config = cmd.config /\ cmd.name \in {"install", "join"}
    BY <1>6 DEF Same, CommandInv, InSetup
  <2>2. /\ ~Started => mirror.process = "down"
        /\ HasUnit => Follows(cmd.config)
        /\ Started => Serves(cmd.config)
        /\ (services.k0s <=> HasK0s) /\ (HasLink => services.linked)
        /\ services.proxy = IF HasLink THEN cmd.config.proxy ELSE None
    BY <2>1 DEF ServicesInv
  <2>3. CASE Early
    <3>1. cmd.step \notin LateSteps /\ UNCHANGED services /\ UNCHANGED mirror
      BY <2>1, <2>3, EarlySteps DEF Early
    <3>2. \/ cmd'.step \notin LateSteps
          \/ cmd'.step = IF cmd.name = "install" THEN "k0sConfig" ELSE "units"
      BY <1>3, <2>3, EarlySteps DEF Early
    <3> QED
      BY <2>1, <2>2, <3>1, <3>2 DEF ServicesInv
  <2>4. CASE WriteK0sConfig /\ cmd.name = "install" /\ cmd'.step = "units"
    <3>1. UNCHANGED mirror /\ services' = [services EXCEPT !.k0s = TRUE] /\ cmd.step = "k0sConfig"
      BY <2>4 DEF WriteK0sConfig
    <3>2. services'.k0s /\ services'.linked = services.linked /\ services'.proxy = services.proxy
      BY <1>1, <3>1
    <3> QED
      BY <2>1, <2>2, <2>4, <3>1, <3>2 DEF ServicesInv
  <2>5. CASE CreateSystemdUnitFiles /\ cmd'.step = "mirrorUnit"
    <3>1. /\ UNCHANGED mirror /\ cmd.step = "units"
          /\ services' = [[services EXCEPT !.linked = TRUE] EXCEPT
                            !.proxy = IF cmd.config.proxy = None THEN @ ELSE cmd.config.proxy]
      BY <2>5 DEF CreateSystemdUnitFiles
    <3>2. services.proxy = None
      BY <2>2, <3>1
    <3>3. /\ services'.k0s = services.k0s /\ services'.linked
          /\ services'.proxy = cmd.config.proxy
      BY <1>1, <3>1, <3>2
    <3> QED
      BY <2>1, <2>2, <2>5, <3>1, <3>3 DEF ServicesInv
  <2>6. CASE MirrorUnit /\ cmd'.step = "startMirror"
    <3>1. /\ UNCHANGED services /\ cmd.step = "mirrorUnit"
          /\ mirror' = [mirror EXCEPT !.unit = TRUE, !.dropin = cmd.config, !.loaded = cmd.config,
                                      !.enabled = TRUE]
      BY <2>6 DEF MirrorUnit
    <3>2. Follows(cmd.config)' /\ mirror'.process = mirror.process
      BY <2>1, <3>1 DEF Follows, Types, ServiceTypes
    <3> QED
      BY <2>1, <2>2, <2>6, <3>1, <3>2 DEF ServicesInv
  <2>7. CASE StartMirror /\ cmd'.step = "wait"
    <3>1. UNCHANGED services /\ cmd.step = "startMirror" /\ Follows(cmd.config)
          /\ mirror' = Launched(mirror, mirror.loaded)
      BY <2>2, <2>7 DEF StartMirror
    <3>2. mirror.loaded \in Config
      BY DEF Types, ServiceTypes
    <3>3. Follows(cmd.config)' /\ Serves(cmd.config)'
      BY <2>1, <3>1, <3>2, LaunchedIs DEF Follows, Serves, Types, ServiceTypes
    <3> QED
      BY <2>1, <2>2, <2>7, <3>1, <3>3 DEF ServicesInv
  <2>8. CASE LookAtMirror
    <3>1. UNCHANGED services /\ UNCHANGED mirror /\ cmd.step = "wait"
      BY <2>8, LooksKeep DEF LookAtMirror
    <3>2. cmd'.step = "wait" \/ (cmd.name = "join" /\ cmd'.step = "k0sConfig")
      BY <1>6, <2>8, <3>1, EarlySteps, <2>1
         DEF Early, Later, WriteK0sConfig, CreateSystemdUnitFiles, MirrorUnit, StartMirror
    <3> QED
      BY <2>1, <2>2, <3>1, <3>2 DEF ServicesInv, Follows, Serves
  <2> QED
    BY <1>6, <2>3, <2>4, <2>5, <2>6, <2>7, <2>8 DEF Later
<1> QED
  BY <1>4, <1>5, <1>6, SetupMoves

(* A setup ends when it has the mirror up, and join when it has written    *)
(* the k0s configuration after that.                                       *)
LEMMA SetupDone ==
  ASSUME CommandInv, NextHost, last'.name \in {"install", "join"}, last'.outcome = "done"
  PROVE  \/ UNCHANGED last /\ Between
         \/ /\ InSetup /\ last'.clean = cmd.clean /\ At("wait") /\ cmd.name = "install"
            /\ LookAtMirror
         \/ /\ InSetup /\ last'.clean = cmd.clean /\ At("k0sConfig") /\ cmd.name = "join"
            /\ WriteK0sConfig
<1>0. NoEnd.name = "none" /\ (InSetup => last = NoEnd) /\ (InReset => last = NoEnd)
      /\ (InSetup => cmd.step \in SetupSteps)
      /\ (InReset => cmd.name = "reset")
  BY DEF NoEnd, CommandInv, InSetup, InReset
<1>1. CASE SetupStep
  <2>1. InSetup /\ End(cmd, "done") /\ Following(cmd.step) = "done" /\ cmd.step \in SetupSteps
    BY <1>0, <1>1, SetupStepAdvances, SetupStepGoesOn DEF GoesOn
  <2>2. cmd.step = "k0sConfig" /\ cmd.name = "join"
    <3>1. cmd.step # "wait"
      BY <1>1 DEF SetupStep, WriteRuntimeConfig, Materialize, MaterializeBinary,
         MaterializeFile, StaticSysctl, DynamicSysctl, LoadSysctl, ModulesFile, Modprobe,
         ManagerFile, RestartManager, CreateZone, ZoneEntries, OpenPorts, ReloadFirewalld,
         WriteK0sConfig, CreateSystemdUnitFiles, MirrorUnit, StartMirror, At
    <3> QED
      BY <2>1, <3>1, SetupSucceeds DEF InSetup
  <2>3. WriteK0sConfig
    BY <1>1, <2>2 DEF SetupStep, WriteRuntimeConfig, Materialize, MaterializeBinary,
       MaterializeFile, StaticSysctl, DynamicSysctl, LoadSysctl, ModulesFile, Modprobe,
       ManagerFile, RestartManager, CreateZone, ZoneEntries, OpenPorts, ReloadFirewalld,
       CreateSystemdUnitFiles, MirrorUnit, StartMirror, At
  <2> QED
    BY <2>1, <2>2, <2>3, EndsIdle DEF At
<1>2. CASE LookAtMirror
  <2>1. InSetup /\ At("wait") /\ End(cmd, "done") /\ Following("wait") = "done"
    BY <1>0, <1>2, LookGoesOn DEF Looks, GoesOn
  <2>2. cmd.name = "install"
    BY <2>1, StepsOfSetup DEF InSetup
  <2> QED
    BY <1>2, <2>1, <2>2, EndsIdle
<1>3. ~(SkipFirewalld \/ ZoneConflict \/ Fail \/ Stops \/ Starts)
  <2>1. SkipFirewalld \/ ZoneConflict => last' = last /\ InSetup
    BY ZoneStepGoesOn DEF GoesOn
  <2>2. Fail => (last' = last \/ last'.outcome = "failed") /\ InSetup
    BY FailGoesOn, EndsIdle DEF GoesOn
  <2>3. Starts => last' = NoEnd
    BY SetupStarts, ResetStarts DEF Starts
  <2> QED
    BY <1>0, <2>1, <2>2, <2>3, StopsEnd
<1>4. ~(ResetZoneStep \/ RemoveStep)
  <2>1. ResetZoneStep => InReset /\ (last' = last \/ last'.outcome = "failed")
    BY ResetZoneStepGoesOn, EndsIdle DEF ResetGoesOn
  <2>2. RemoveStep => InReset /\ (last' = last \/ last'.name = cmd.name)
    BY RemoveStepAdvances, RemoveStepGoesOn, EndsIdle DEF ResetGoesOn
  <2> QED
    BY <1>0, <2>1, <2>2
<1> QED
  BY <1>1, <1>2, <1>3, <1>4, NextKinds, BetweenKeeps DEF Starts

LEMMA EndInvStep ==
  ASSUME CommandInv, Types, FilesInv, ServicesInv, EndInv, [NextHost]_hostVars
  PROVE  EndInv'
<1> USE DEF At, Started, HasUnit, HasLink, HasK0s
<1>1. CASE UNCHANGED hostVars
  BY <1>1 DEF hostVars, state, files, systemd, EndInv, Follows, Serves
<1> SUFFICES ASSUME NextHost, last'.name \in {"install", "join"}, last'.outcome = "done", last'.clean
             PROVE  EndInv'
  BY <1>1 DEF EndInv
<1>2. services \in [k0s : BOOLEAN, linked : BOOLEAN, proxy : {c.proxy : c \in Configs} \cup {None}]
      /\ ec \in Config
  BY DEF Types, ServiceTypes, FileTypes
<1>3. CASE UNCHANGED last /\ Between
  <2>1. /\ ec # None /\ Follows(ec) /\ Serves(ec)
        /\ services.k0s /\ services.linked /\ services.proxy = ec.proxy
    BY <1>3 DEF EndInv
  <2>2. services' = services /\ ec' = ec
    BY <1>3, BetweenChanges DEF files
  <2>3. Follows(ec)' /\ Serves(ec)'
    BY <1>2, <1>3, <2>1, <2>2, MirrorBetween DEF Follows, Serves
  <2> QED
    BY <2>1, <2>2, <2>3 DEF EndInv
<1>4. ASSUME InSetup, last'.clean = cmd.clean,
             (At("wait") /\ cmd.name = "install" /\ LookAtMirror)
             \/ (At("k0sConfig") /\ cmd.name = "join" /\ WriteK0sConfig)
      PROVE  EndInv'
  <2>1. ec = cmd.config /\ cmd.config \in Configs /\ cmd.config # None
    <3>1. FilesDone(cmd.config, 18) /\ cmd.config \in Configs
      BY <1>4, Ranks DEF FilesInv, CommandInv
    <3> QED
      BY <3>1, ConfigsAssumption DEF FilesDone
  <2>2. /\ Follows(cmd.config) /\ Serves(cmd.config) /\ services.linked
        /\ services.proxy = cmd.config.proxy /\ (cmd.name = "install" => services.k0s)
    BY <1>4 DEF ServicesInv
  <2>3. UNCHANGED mirror /\ ec' = ec
    BY <1>4, LooksKeep DEF WriteK0sConfig, files
  <2>4. services'.k0s /\ services'.linked = services.linked /\ services'.proxy = services.proxy
    BY <1>2, <1>4, <2>2, LooksKeep DEF WriteK0sConfig
  <2> QED
    BY <2>1, <2>2, <2>3, <2>4 DEF EndInv, Follows, Serves
<1> QED
  BY <1>3, <1>4, SetupDone

LEMMA ServicesAre ==
  ASSUME Types, EndInv
  PROVE  ServicesFollowConfig
<1>1. services \in [k0s : BOOLEAN, linked : BOOLEAN, proxy : {c.proxy : c \in Configs} \cup {None}]
  BY DEF Types, ServiceTypes
<1>2. ASSUME services.k0s, services.linked, services.proxy = ec.proxy
      PROVE  services = [k0s |-> TRUE, linked |-> TRUE, proxy |-> ec.proxy]
  BY <1>1, <1>2
<1> QED
  BY <1>2 DEF EndInv, ServicesFollowConfig, Serves

-----------------------------------------------------------------------------
(* What a reset takes back.                                                *)

(* A reset starts with the firewall, or behind it where there is none.     *)
LEMMA ResetBegins ==
  ASSUME CommandInv, Types, ZoneInv, NEW force \in BOOLEAN, NEW yes \in BOOLEAN,
         StartReset(force, yes)
  PROVE  ResetInv'
<1>1. /\ ~cmd'.half => permanent.exists = runtime.exists
      /\ UNCHANGED permanent /\ UNCHANGED runtime
      /\ cmd'.step = (IF host.firewalld = "absent" THEN "removeK0sConfig" ELSE "resetZone")
  BY ResetStarts DEF state, firewall
<1>2. host.firewalld = "absent" => permanent = NoZone /\ runtime = NoZone
  BY DEF ZoneInv
<1>3. ResetRank[cmd'.step] = IF host.firewalld = "absent" THEN 4 ELSE 1
  BY <1>1, ResetRanks
<1> QED
  BY <1>1, <1>2, <1>3 DEF ResetInv, ZoneUndone, Undone

(* Each of the three steps of ResetFirewalld.                              *)
LEMMA ZoneIsUndone ==
  ASSUME CommandInv, Types, ZoneInv, ResetInv, ResetZoneStep
  PROVE  ResetInv'
<1> SUFFICES ASSUME InReset' PROVE ResetInv'
  BY DEF ResetInv
<1> DEFINE r == ResetRank[cmd.step]
           t == ResetRank[cmd'.step]
<1>1. /\ InReset /\ cmd.step \in {"resetZone", "resetPorts", "resetReload"}
      /\ ResetGoesOn(cmd, cmd.step) \/ ResetGoesOn([cmd EXCEPT !.err = TRUE], cmd.step)
  BY ResetZoneStepGoesOn, EndsIdle
<1>2. t = r + 1 /\ r \in 1..3 /\ cmd'.half = cmd.half
  <2>1. r \in 1..3
    BY <1>1, ResetRanks
  <2>2. t = r + 1 /\ cmd'.half = cmd.half
    BY <1>1 DEF ResetGoesOn
  <2> QED
    BY <2>1, <2>2
<1>3. Undone(ResetRank[cmd.step])'
  BY <1>2 DEF Undone
<1>4. ASSUME ~cmd'.err, ~cmd'.half PROVE ZoneUndone(ResetRank[cmd.step])'
  <2>1. /\ ~cmd.err
        /\ ResetZone => permanent' = IF ZoneExists THEN [NoZone EXCEPT !.ports = permanent.ports]
                                     ELSE permanent
        /\ ResetPorts => permanent' = [permanent EXCEPT !.ports = {}]
        /\ ResetReload => runtime' = permanent
    BY <1>4, ResetZoneStepGoesOn
  <2>2. ZoneUndone(r)
    BY <1>1, <1>2, <1>4, <2>1 DEF ResetInv
  <2>3. permanent \in Zone
    BY DEF Types, ZoneTypes
  <2>4. CASE ResetZone
    <3>1. r = 1
      BY <2>4, ResetRanks DEF ResetZone, ResetStep, At
    <3>2. permanent.exists = runtime.exists
      BY <2>2, <3>1 DEF ZoneUndone
    <3>3. ~permanent'.exists
      BY <2>1, <2>4, <3>2 DEF ZoneExists, NoZone
    <3> QED
      BY <1>2, <3>1, <3>3 DEF ZoneUndone
  <2>5. CASE ResetPorts
    <3>1. r = 2 /\ permanent' = [permanent EXCEPT !.ports = {}]
      BY <2>1, <2>5, ResetRanks DEF ResetPorts, ResetStep, At
    <3>2. ~permanent.exists /\ ~permanent.accept /\ ~permanent.interfaces /\ permanent.sources = {}
      BY <2>2, <3>1 DEF ZoneUndone, ZoneInv
    <3>3. permanent' \in Zone /\ permanent'.exists = permanent.exists
          /\ permanent'.accept = permanent.accept /\ permanent'.sources = permanent.sources
          /\ permanent'.interfaces = permanent.interfaces /\ permanent'.ports = {}
      BY <2>3, <3>1 DEF Zone
    <3>4. permanent.exists = FALSE /\ permanent.accept = FALSE /\ permanent.interfaces = FALSE
      BY <2>3, <3>2 DEF Zone
    <3>5. NoZone \in Zone /\ NoZone.exists = FALSE /\ NoZone.accept = FALSE
          /\ NoZone.interfaces = FALSE /\ NoZone.sources = {} /\ NoZone.ports = {}
      BY DEF NoZone, Zone
    <3>6. permanent' = NoZone
      BY <3>2, <3>3, <3>4, <3>5, SameZone
    <3> QED
      BY <1>2, <3>1, <3>6 DEF ZoneUndone
  <2>6. CASE ResetReload
    <3>1. r = 3 /\ permanent' = permanent /\ runtime' = permanent
      BY <2>1, <2>6, ResetRanks DEF ResetReload, At
    <3>2. permanent = NoZone
      BY <2>2, <3>1 DEF ZoneUndone
    <3> QED
      BY <1>2, <3>1, <3>2 DEF ZoneUndone
  <2> QED
    BY <2>4, <2>5, <2>6 DEF ResetZoneStep
<1> QED
  BY <1>3, <1>4 DEF ResetInv, ZoneUndone, Undone

(* Each of the steps that remove a file or a service adds to what is       *)
(* undone; none brings back what another one removed.                      *)
LEMMA MoreIsUndone ==
  ASSUME CommandInv, Types, ResetInv, RemoveStep, ~RebootAtEnd
  PROVE  ResetInv'
<1> SUFFICES ASSUME InReset' PROVE ResetInv'
  BY DEF ResetInv
<1> DEFINE r == ResetRank[cmd.step]
           t == ResetRank[cmd'.step]
<1>1. InReset /\ ResetGoesOn(cmd, cmd.step)
  BY RemoveStepAdvances, RemoveStepGoesOn, EndsIdle
<1>2. t = r + 1 /\ cmd'.half = cmd.half /\ cmd'.err = cmd.err
  BY <1>1 DEF ResetGoesOn
<1>3. /\ cmd.step \in {"removeK0sConfig", "stopMirror", "removeMirror", "removeUnits",
                       "removeHome", "removeManagerFile", "removeConfig", "removeStatic"}
  BY DEF RemoveStep, RemoveK0sConfig, StopMirror, RemoveMirror, RemoveUnits, RemoveHome,
     RemoveManagerFile, RemoveRuntimeConfig, RemoveStatic, At
<1>4. r \in 4..11
  BY <1>3, ResetRanks
<1>5. Undone(r) /\ (~cmd.err /\ ~cmd.half => ZoneUndone(r))
  BY <1>1 DEF ResetInv
<1>6. UNCHANGED permanent /\ UNCHANGED runtime
  BY RemoveStepKeeps DEF firewall
<1>7. ~cmd.err /\ ~cmd.half => ZoneUndone(ResetRank[cmd.step])'
  BY <1>2, <1>4, <1>5, <1>6 DEF ZoneUndone
<1>8. /\ services \in [k0s : BOOLEAN, linked : BOOLEAN, proxy : {c.proxy : c \in Configs} \cup {None}]
      /\ mirror \in [unit : BOOLEAN, dropin : Config, loaded : Config, enabled : BOOLEAN,
                     process : {"down", "up", "restarting"}, serves : Config]
      /\ conf \in [static : BOOLEAN, dynamic : [Keys -> BOOLEAN], modules : BOOLEAN, manager : BOOLEAN]
  BY DEF Types, ServiceTypes, SystemTypes
<1>9. CASE RemoveK0sConfig
  <2>1. r = 4 /\ ~services'.k0s
    BY <1>8, <1>9, ResetRanks DEF RemoveK0sConfig, At
  <2> QED
    BY <1>2, <1>7, <2>1 DEF ResetInv, ZoneUndone, Undone
<1>10. CASE StopMirror
  <2>1. r = 5 /\ UNCHANGED services
    BY <1>10, ResetRanks DEF StopMirror, At
  <2> QED
    BY <1>2, <1>5, <1>7, <2>1 DEF ResetInv, ZoneUndone, Undone
<1>11. CASE RemoveMirror
  <2>1. r = 6 /\ ~mirror'.unit /\ UNCHANGED services
    BY <1>8, <1>11, ResetRanks DEF RemoveMirror, At
  <2> QED
    BY <1>2, <1>5, <1>7, <2>1 DEF ResetInv, ZoneUndone, Undone
<1>12. CASE RemoveUnits
  <2>1. r = 7 /\ UNCHANGED mirror /\ services' = [services EXCEPT !.proxy = None]
    BY <1>12, ResetRanks DEF RemoveUnits, At
  <2>2. services'.k0s = services.k0s /\ services'.proxy = None
    BY <1>8, <2>1
  <2> QED
    BY <1>2, <1>5, <1>7, <2>1, <2>2 DEF ResetInv, ZoneUndone, Undone
<1>13. CASE RemoveHome
  <2>1. r = 8 /\ UNCHANGED services /\ UNCHANGED mirror
    BY <1>13, ResetRanks DEF RemoveHome, At, systemd
  <2> QED
    BY <1>2, <1>5, <1>7, <2>1 DEF ResetInv, ZoneUndone, Undone
<1>14. CASE RemoveManagerFile
  <2>1. r = 9 /\ UNCHANGED services /\ UNCHANGED mirror /\ ~conf'.manager
    BY <1>8, <1>14, ResetRanks DEF RemoveManagerFile, At, systemd
  <2> QED
    BY <1>2, <1>5, <1>7, <2>1 DEF ResetInv, ZoneUndone, Undone
<1>15. CASE RemoveRuntimeConfig
  <2>1. r = 10 /\ UNCHANGED services /\ UNCHANGED mirror /\ UNCHANGED conf /\ ec' = None
    BY <1>15, ResetRanks DEF RemoveRuntimeConfig, At, systemd, system
  <2> QED
    BY <1>2, <1>5, <1>7, <2>1 DEF ResetInv, ZoneUndone, Undone
<1>16. CASE RemoveStatic
  <2>1. r = 11 /\ UNCHANGED services /\ UNCHANGED mirror /\ ec' = ec
        /\ conf'.manager = conf.manager /\ ~conf'.static
    BY <1>8, <1>16, ResetRanks DEF RemoveStatic, At, systemd, files
  <2> QED
    BY <1>2, <1>5, <1>7, <2>1 DEF ResetInv, ZoneUndone, Undone
<1> QED
  BY <1>9, <1>10, <1>11, <1>12, <1>13, <1>14, <1>15, <1>16 DEF RemoveStep

LEMMA ResetInvStep ==
  ASSUME CommandInv, Types, ZoneInv, ResetInv, [NextHost]_hostVars
  PROVE  ResetInv'
<1>1. ASSUME ~InReset' PROVE ResetInv'
  BY <1>1 DEF ResetInv
<1>2. CASE UNCHANGED hostVars
  BY <1>2 DEF hostVars, state, files, system, firewall, systemd, ResetInv, InReset, ZoneUndone,
     Undone
<1>3. CASE RebootAtEnd
  <2>1. cmd.step = "reboot" /\ RemoveStep /\ InReset
    BY <1>3, RemoveStepAdvances DEF RebootAtEnd, At, RemoveStep
  <2>2. ~InReset'
    BY <2>1, RemoveStepGoesOn, StepsOfReset, EndsIdle DEF ResetGoesOn, ResetSteps
  <2> QED
    BY <1>1, <2>2
<1>4. ASSUME Between, InReset' PROVE ResetInv'
  <2>1. UNCHANGED cmd /\ cmd # Idle /\ InReset
    BY <1>4, BetweenKeeps, IdleTypes DEF InReset
  <2>2. /\ UNCHANGED services /\ UNCHANGED permanent /\ UNCHANGED conf /\ UNCHANGED runtime
        /\ ec' = ec
    BY <1>4, <2>1, BetweenChanges DEF Reboot, files, firewall
  <2>3. mirror'.unit = mirror.unit
    <3>1. mirror.loaded \in Config
      BY DEF Types, ServiceTypes
    <3> QED
      BY <1>4, <2>1, <3>1, LaunchedIs, BetweenChanges
         DEF Reboot, MirrorCrashes, MirrorRestarts, Types, ServiceTypes
  <2> QED
    BY <2>1, <2>2, <2>3 DEF ResetInv, ZoneUndone, Undone
<1>5. ASSUME SetupStep \/ SkipFirewalld \/ ZoneConflict \/ LookAtMirror \/ Fail \/ Stops
      PROVE  ~InReset'
  <2>1. SetupStep => ~InReset'
    BY SetupStepGoesOn, EndsIdle DEF GoesOn, InSetup, InReset
  <2> QED
    BY <1>5, <2>1, ZoneStepGoesOn, LookGoesOn, FailGoesOn, StopsEnd
<1>6. CASE NextHost
  BY <1>1, <1>3, <1>4, <1>5, <1>6, NextKinds, SetupStarts, ResetBegins, ZoneIsUndone, MoreIsUndone
<1> QED
  BY <1>2, <1>6

(* A reset ends with its reboot.                                           *)
LEMMA ResetDone ==
  ASSUME CommandInv, NextHost, last'.name = "reset", last'.outcome = "done"
  PROVE  \/ UNCHANGED last /\ Between
         \/ /\ InReset /\ last'.err = cmd.err /\ last'.half = cmd.half
            /\ cmd.step = "reboot" /\ RebootAtEnd
<1>0. NoEnd.name = "none" /\ (InSetup => last = NoEnd /\ cmd.name # "reset")
      /\ (InReset => last = NoEnd)
  BY DEF NoEnd, CommandInv, InSetup, InReset
<1>1. CASE RemoveStep
  <2>1. InReset /\ End(cmd, "done") /\ cmd.step = "reboot"
    BY <1>0, <1>1, RemoveStepAdvances, RemoveStepGoesOn DEF ResetGoesOn
  <2>2. RebootAtEnd
    BY <1>1, <2>1 DEF RemoveStep, RemoveK0sConfig, StopMirror, RemoveMirror, RemoveUnits,
       RemoveHome, RemoveManagerFile, RemoveRuntimeConfig, RemoveStatic, At
  <2> QED
    BY <2>1, <2>2, EndsIdle
<1>2. ~ResetZoneStep
  <2>1. ResetZoneStep => InReset /\ (last' = last \/ last'.outcome = "failed")
    BY ResetZoneStepGoesOn, EndsIdle DEF ResetGoesOn
  <2> QED
    BY <1>0, <2>1
<1>3. ~(SetupStep \/ SkipFirewalld \/ ZoneConflict \/ LookAtMirror \/ Fail \/ Stops \/ Starts)
  <2>1. SkipFirewalld \/ ZoneConflict => last' = last /\ InSetup
    BY ZoneStepGoesOn DEF GoesOn
  <2>2. Fail => (last' = last \/ last'.outcome = "failed") /\ InSetup
    BY FailGoesOn, EndsIdle DEF GoesOn
  <2>3. Starts => last' = NoEnd
    BY SetupStarts, ResetStarts DEF Starts
  <2>4. SetupStep \/ LookAtMirror => (last' = last \/ last'.name = cmd.name) /\ InSetup
    BY SetupStepAdvances, SetupStepGoesOn, LookGoesOn, EndsIdle DEF GoesOn, Looks
  <2> QED
    BY <1>0, <2>1, <2>2, <2>3, <2>4, StopsEnd
<1> QED
  BY <1>1, <1>2, <1>3, NextKinds, BetweenKeeps DEF Starts

LEMMA UndoneStep ==
  ASSUME CommandInv, Types, MirrorInv, ResetInv, UndoneByReset, [NextHost]_hostVars
  PROVE  UndoneByReset'
<1>1. CASE UNCHANGED hostVars
  BY <1>1 DEF hostVars, state, files, system, firewall, systemd, UndoneByReset, NoK0sServices
<1> SUFFICES ASSUME NextHost, last'.name = "reset", last'.outcome = "done"
             PROVE  UndoneByReset'
  BY <1>1 DEF UndoneByReset
<1>2. CASE UNCHANGED last /\ Between
  <2>1. /\ ~last.err /\ ~last.half => permanent = NoZone /\ runtime = NoZone
        /\ NoK0sServices /\ ec = None
        /\ mirror.process = "down" /\ ~mirror.unit /\ mirror.loaded = None
        /\ ~conf.static /\ ~conf.manager /\ ~managed
    BY <1>2 DEF UndoneByReset
  <2>2. UNCHANGED <<last, files, services, permanent, conf, prepared>>
    BY <1>2, BetweenChanges
  <2>3. CASE Reboot
    <3>1. Boot
      BY <2>3 DEF Reboot
    <3>2. runtime' = permanent /\ managed' = conf.manager
      BY <3>1 DEF Boot
    <3>3. mirror'.process = "down" /\ ~mirror'.unit /\ mirror'.loaded = None
      BY <2>1, <3>1, MirrorBoots DEF Types
    <3> QED
      BY <2>1, <2>2, <3>2, <3>3 DEF UndoneByReset, NoK0sServices, files
  <2>4. CASE Raises
    <3>1. UNCHANGED managed /\ UNCHANGED runtime /\ UNCHANGED mirror
      BY <2>4 DEF Raises, RaiseLimit, firewall, systemd
    <3> QED
      BY <2>1, <2>2, <3>1 DEF UndoneByReset, NoK0sServices, files
  <2>5. ~MirrorCrashes /\ ~MirrorRestarts
    BY <2>1 DEF MirrorCrashes, MirrorRestarts
  <2> QED
    BY <1>2, <2>3, <2>4, <2>5 DEF Between, Raises
<1>3. ASSUME InReset, last'.err = cmd.err, last'.half = cmd.half, cmd.step = "reboot", RebootAtEnd
      PROVE  UndoneByReset'
  <2>1. (~cmd.err /\ ~cmd.half => ZoneUndone(12)) /\ Undone(12)
    BY <1>3, ResetRanks DEF ResetInv
  <2>2. /\ ~cmd.err /\ ~cmd.half => permanent = NoZone
        /\ NoK0sServices /\ ~mirror.unit /\ ec = None /\ ~conf.static /\ ~conf.manager
    BY <2>1 DEF ZoneUndone, Undone, NoK0sServices
  <2>3. /\ Boot /\ UNCHANGED permanent /\ UNCHANGED services /\ ec' = ec /\ UNCHANGED conf
    BY <1>3 DEF RebootAtEnd, files
  <2>4. runtime' = permanent /\ managed' = conf.manager
    BY <2>3 DEF Boot
  <2>5. mirror'.process = "down" /\ ~mirror'.unit /\ mirror'.loaded = None
    BY <2>2, <2>3, MirrorBoots DEF Types
  <2> QED
    BY <1>3, <2>2, <2>3, <2>4, <2>5 DEF UndoneByReset, NoK0sServices
<1> QED
  BY <1>2, <1>3, ResetDone

-----------------------------------------------------------------------------
(* Every step keeps every part, and the parts are what is promised.        *)

HostInv ==
    /\ CommandInv /\ Types /\ FilesInv /\ SystemInv /\ ZoneInv
    /\ PreparedInv /\ MirrorInv /\ ServicesInv /\ EndInv /\ ResetInv /\ UndoneByReset

LEMMA HostInvInit == InitHost => HostInv
<1> SUFFICES ASSUME InitHost PROVE HostInv
  OBVIOUS
<1>1. CommandInv /\ Types
  BY CommandInit, TypesInit
<1>2. cmd.name = "none" /\ last.name = "none"
  BY IdleTypes DEF InitHost, NoEnd
<1>3. ~InSetup /\ ~InReset
  BY <1>2 DEF InSetup, InReset
<1>4. ZoneInv
  BY <1>3, NoZoneIs DEF InitHost, ZoneInv
<1>5. MirrorInv
  BY <1>3 DEF InitHost, MirrorInv, NoMirror
<1>6. FilesInv /\ SystemInv /\ PreparedInv /\ ServicesInv /\ EndInv /\ ResetInv /\ UndoneByReset
  BY <1>2, <1>3 DEF InitHost, FilesInv, SystemInv, PreparedInv, ServicesInv, EndInv, ResetInv,
     UndoneByReset
<1> QED
  BY <1>1, <1>4, <1>5, <1>6 DEF HostInv

LEMMA HostInvStep == HostInv /\ [NextHost]_hostVars => HostInv'
<1> SUFFICES ASSUME HostInv, [NextHost]_hostVars PROVE HostInv'
  OBVIOUS
<1>1. CommandInv' /\ Types'
  BY CommandStep, TypesStep DEF HostInv
<1>2. FilesInv' /\ SystemInv' /\ ZoneInv'
  BY FilesInvStep, SystemInvStep, ZoneInvStep DEF HostInv
<1>3. PreparedInv' /\ MirrorInv' /\ ServicesInv' /\ EndInv'
  BY PreparedStep, MirrorStep, ServicesStep, EndInvStep DEF HostInv
<1>4. ResetInv' /\ UndoneByReset'
  BY ResetInvStep, UndoneStep DEF HostInv
<1> QED
  BY <1>1, <1>2, <1>3, <1>4 DEF HostInv

LEMMA HostInvCorrect == HostSpec => []HostInv
  BY HostInvInit, HostInvStep, PTL DEF HostSpec

(* What install and join promise of the host before k0s runs: when every   *)
(* step of ConfigureHost was done the files are whole, the limits, modules *)
(* and the firewall are as wanted and stay so after a reboot, and the      *)
(* services follow the runtime config, whatever earlier commands, kills    *)
(* and reboots left there.                                                 *)
THEOREM HostIsPrepared == HostSpec => []SetupHolds
<1>1. HostInv => SetupHolds
  BY TypesAre, PreparedIs, ServicesAre DEF HostInv, SetupHolds
<1> QED
  BY <1>1, HostInvCorrect, PTL

(* A reset that comes to its end leaves no k0s service, no mirror and none *)
(* of the files it removes, and, if it met no error, nothing of the        *)
(* installer's in firewalld, also after a setup that was cut short         *)
(* anywhere but between the creation of the zone and its load.             *)
THEOREM ResetUndoes == HostSpec => []UndoneByReset
<1>1. HostInv => UndoneByReset
  BY DEF HostInv
<1> QED
  BY <1>1, HostInvCorrect, PTL

-----------------------------------------------------------------------------
(* HighAvailability: the steps of the commands keep the types.             *)

LEMMA TypeInit == Init => TypeOK
<1> SUFFICES ASSUME Init PROVE TypeOK
  OBVIOUS
<1>1. NoPod \in [phase: {"none", "pending", "running", "succeeded", "failed"}, files: SUBSET Images]
  BY DEF NoPod
<1>2. pc \in [Commands -> Steps] /\ spent \in [{"errors", "kills", "podFails"} -> Nat]
  BY DEF Init, Steps
<1>3. ha \in BOOLEAN /\ adminHA \in BOOLEAN
  BY DEF Init
<1>4. /\ replicas \in 0..2 /\ store \in Stores /\ serving \subseteq Stores
      /\ disk \subseteq Images /\ s3 \subseteq Images
      /\ pushed \subseteq Images /\ late \subseteq pushed
      /\ good \subseteq HAReleases /\ pending \subseteq HAReleases /\ deferred \subseteq Commands
      /\ pod = NoPod
  BY DEF Init, Stores
<1> QED
  BY <1>1, <1>2, <1>3, <1>4 DEF TypeOK

LEMMA SpendTypes ==
  ASSUME TypeOK, NEW b \in {"errors", "kills", "podFails"}, NEW bound, Spend(b, bound)
  PROVE  spent' \in [{"errors", "kills", "podFails"} -> Nat]
  BY DEF TypeOK, Spend

LEMMA GotoTypes ==
  ASSUME TypeOK, NEW c \in Commands, NEW step \in Steps, Goto(c, step)
  PROVE  pc' \in [Commands -> Steps]
  BY DEF TypeOK, Goto

LEMMA LeaveTypes ==
  ASSUME TypeOK, NEW c \in Commands, Leave(c)
  PROVE  pc' \in [Commands -> Steps]
  BY GotoTypes DEF Leave, Steps, Ended

LEMMA EndTypes ==
  ASSUME TypeOK, NEW c \in Commands, NEW how \in Ended, EndAs(c, how)
  PROVE  pc' \in [Commands -> Steps] /\ deferred' \subseteq Commands
  BY GotoTypes DEF EndAs, Steps, TypeOK

(* The steps that touch neither the registry nor helm's releases.         *)
LEMMA TypeOutside ==
  ASSUME TypeOK, NEW c \in Commands,
         Start(c) \/ CanEnableHA(c) \/ EnableHA(c) \/ ensureSeaweedfs(c) \/ HelmRefuses(c)
           \/ SetHighAvailability(c)
  PROVE  TypeOK'
<1> USE DEF registry, data, helm, run
<1>1. pc' \in [Commands -> Steps]
  BY GotoTypes, LeaveTypes DEF Start, CanEnableHA, EnableHA, ensureSeaweedfs, HelmRefuses,
     SetHighAvailability, Steps, Ended
<1>2. /\ ha' \in BOOLEAN
      /\ deferred' \subseteq Commands
      /\ UNCHANGED <<adminHA, registry, data, pod, helm, spent>>
  BY DEF Start, CanEnableHA, EnableHA, ensureSeaweedfs, HelmRefuses, SetHighAvailability, TypeOK
<1> QED
  BY <1>1, <1>2 DEF TypeOK

LEMMA TypeMigration ==
  ASSUME TypeOK, NEW c \in Commands,
         scaleRegistryDown(c) \/ maybeDeleteDataMigrationPod(c) \/ ensureDataMigrationPod(c)
           \/ monitorPodStatus(c)
  PROVE  TypeOK'
<1> USE DEF registry, data, helm, run
<1>1. pc' \in [Commands -> Steps]
  BY GotoTypes, LeaveTypes DEF scaleRegistryDown, maybeDeleteDataMigrationPod,
     ensureDataMigrationPod, monitorPodStatus, Steps
<1>2. /\ replicas' \in 0..2
      /\ pod' = pod \/ pod' = NoPod \/ pod' = [pod EXCEPT !.phase = "pending"]
      /\ UNCHANGED <<ha, adminHA, store, serving, data, helm, run>>
  BY DEF scaleRegistryDown, maybeDeleteDataMigrationPod, ensureDataMigrationPod,
     monitorPodStatus, TypeOK
<1>3. pod' \in [phase: {"none", "pending", "running", "succeeded", "failed"}, files: SUBSET Images]
  BY <1>2 DEF TypeOK, NoPod
<1> QED
  BY <1>1, <1>2, <1>3 DEF TypeOK

LEMMA TypeHelm ==
  ASSUME TypeOK, NEW c \in Commands,
         enableRegistryHA(c) \/ RegistryIsUp(c) \/ RegistryIsNotUp(c) \/ EnableAdminConsoleHA(c)
           \/ AdminConsoleIsUp(c) \/ AdminConsoleIsNotUp(c)
  PROVE  TypeOK'
<1> USE DEF registry, data, helm, run
<1>1. pc' \in [Commands -> Steps]
  BY GotoTypes, LeaveTypes DEF enableRegistryHA, RegistryIsUp, RegistryIsNotUp,
     EnableAdminConsoleHA, AdminConsoleIsUp, AdminConsoleIsNotUp, Steps
<1>2. spent' \in [{"errors", "kills", "podFails"} -> Nat]
  <2>1. CASE RegistryIsNotUp(c) \/ AdminConsoleIsNotUp(c)
    BY <2>1, SpendTypes DEF RegistryIsNotUp, AdminConsoleIsNotUp
  <2>2. CASE ~RegistryIsNotUp(c) /\ ~AdminConsoleIsNotUp(c)
    BY <2>2 DEF enableRegistryHA, RegistryIsUp, EnableAdminConsoleHA, AdminConsoleIsUp, TypeOK
  <2> QED
    BY <2>1, <2>2
<1>3. /\ replicas' \in 0..2 /\ store' \in Stores /\ disk' \subseteq Images
      /\ adminHA' \in BOOLEAN
  <2>1. CASE enableRegistryHA(c) \/ RegistryIsUp(c) \/ RegistryIsNotUp(c)
    BY <2>1 DEF enableRegistryHA, RegistryIsUp, RegistryIsNotUp, TypeOK, Stores
  <2>2. CASE EnableAdminConsoleHA(c) \/ AdminConsoleIsUp(c)
    BY <2>2 DEF EnableAdminConsoleHA, AdminConsoleIsUp, TypeOK
  <2>3. CASE AdminConsoleIsNotUp(c)
    <3>1. adminHA' = adminHA \/ adminHA' = ("console" \in good)
      BY <2>3 DEF AdminConsoleIsNotUp
    <3>2. adminHA \in BOOLEAN /\ ("console" \in good) \in BOOLEAN
      BY DEF TypeOK
    <3>3. adminHA' \in BOOLEAN
      BY <3>1, <3>2, Zenon
    <3> QED
      BY <2>3, <3>3 DEF AdminConsoleIsNotUp, TypeOK
  <2> QED
    BY <2>1, <2>2, <2>3
<1>4. /\ good' \subseteq HAReleases /\ pending' \subseteq HAReleases
      /\ UNCHANGED <<ha, serving, s3, pushed, late, pod, deferred>>
  BY DEF enableRegistryHA, RegistryIsUp, RegistryIsNotUp, EnableAdminConsoleHA,
     AdminConsoleIsUp, AdminConsoleIsNotUp, TypeOK, HAReleases
<1> QED
  BY <1>1, <1>2, <1>3, <1>4 DEF TypeOK

LEMMA TypeEnd ==
  ASSUME TypeOK, NEW c \in Commands,
         maybeScaleRegistryBackOnFailure(c) \/ CannotScaleBack(c) \/ CallFails(c)
           \/ CommandKilled(c)
  PROVE  TypeOK'
<1> USE DEF registry, data, helm, run
<1>1. pc' \in [Commands -> Steps] /\ deferred' \subseteq Commands
  BY EndTypes, LeaveTypes DEF maybeScaleRegistryBackOnFailure, CannotScaleBack, CallFails,
     CommandKilled, Ended, TypeOK
<1>2. spent' \in [{"errors", "kills", "podFails"} -> Nat]
  <2>1. CASE CannotScaleBack(c) \/ CallFails(c)
    BY <2>1, SpendTypes DEF CannotScaleBack, CallFails
  <2>2. CASE CommandKilled(c)
    BY <2>2, SpendTypes DEF CommandKilled
  <2>3. CASE maybeScaleRegistryBackOnFailure(c)
    BY <2>3 DEF maybeScaleRegistryBackOnFailure, TypeOK
  <2> QED
    BY <2>1, <2>2, <2>3
<1>3. /\ replicas' \in 0..2 /\ pending' \subseteq HAReleases
      /\ pod' = pod \/ pod' = NoPod
      /\ UNCHANGED <<ha, adminHA, store, serving, data, good>>
  <2>1. CASE maybeScaleRegistryBackOnFailure(c)
    BY <2>1 DEF maybeScaleRegistryBackOnFailure, TypeOK
  <2>2. CASE CannotScaleBack(c)
    BY <2>2 DEF CannotScaleBack, TypeOK
  <2>3. CASE CallFails(c)
    BY <2>3 DEF CallFails, PodMayGo, TypeOK
  <2>4. CASE CommandKilled(c)
    <3>1. pending' \subseteq HAReleases
      BY <2>4 DEF CommandKilled, HAReleases, TypeOK
    <3> QED
      BY <2>4, <3>1 DEF CommandKilled, PodMayGo, TypeOK
  <2> QED
    BY <2>1, <2>2, <2>3, <2>4
<1>4. pod' \in [phase: {"none", "pending", "running", "succeeded", "failed"}, files: SUBSET Images]
  BY <1>3 DEF TypeOK, NoPod
<1> QED
  BY <1>1, <1>2, <1>3, <1>4 DEF TypeOK

LEMMA TypeCommand ==
  ASSUME TypeOK, NEW c \in Commands,
         Start(c) \/ Command(c) \/ CommandError(c) \/ CommandKilled(c)
  PROVE  TypeOK'
  BY TypeOutside, TypeMigration, TypeHelm, TypeEnd DEF Command, CommandError

LEMMA TypeOthers ==
  ASSUME TypeOK,
         RegistryStarts \/ RegistryStops \/ Pod \/ PodFails
           \/ (\E i \in Images : PushToDisk(i) \/ PushToS3(i))
  PROVE  TypeOK'
<1> USE DEF registry, data, helm, run
<1>1. CASE RegistryStarts \/ RegistryStops
  BY <1>1 DEF RegistryStarts, RegistryStops, TypeOK
<1>2. CASE PodStarts \/ RegistryData
  BY <1>2 DEF PodStarts, RegistryData, TypeOK
<1>3. CASE PodFails
  BY <1>3, SpendTypes DEF PodFails, TypeOK
<1>4. CASE \E i \in Images : UploadObject(i)
  BY <1>4 DEF UploadObject, TypeOK
<1>5. CASE \E i \in Images : PushToDisk(i) \/ PushToS3(i)
  BY <1>5 DEF PushToDisk, PushToS3, TypeOK
<1> QED
  BY <1>1, <1>2, <1>3, <1>4, <1>5 DEF Pod

LEMMA TypeStep == TypeOK /\ [Next]_vars => TypeOK'
<1>1. TypeOK /\ UNCHANGED vars => TypeOK'
  BY DEF TypeOK, vars, registry, data, helm, run
<1> QED
  BY <1>1, TypeCommand, TypeOthers DEF Next

(* Every variable keeps its type, in any number of commands that overlap  *)
(* as they like.                                                          *)
THEOREM TypeCorrect == Spec => []TypeOK
  BY TypeInit, TypeStep, PTL DEF Spec

-----------------------------------------------------------------------------
(* Commands one after another.                                            *)
Active(c)  == pc[c] \notin {"none"} \cup Ended
OneCommand == \A c, d \in Commands : Active(c) /\ Active(d) => c = d

(* What a wanted pod accepted is in one of the stores, and in S3 once the  *)
(* registry is configured to serve from there, which is when it has two    *)
(* replicas and what a release of helm's that was once good has.           *)
Kept == pushed \ late

RegistryInv ==
  /\ store = "s3" <=> replicas = 2
  /\ "registry" \in good => store = "s3"
  /\ Kept \subseteq disk \cup s3
  /\ store = "s3" => Kept \subseteq s3

(* From the decision to migrate until the registry is upgraded it is       *)
(* configured to keep its images on its disk, and once it is scaled down   *)
(* none of its pods is wanted: what the command's own pod has started from *)
(* is all there is to copy, whatever a pod that lingers accepts.           *)
Migrating == {"seaweedfs", "scaleDown", "deletePod", "createPod", "monitor", "registryHA"}
Down      == {"deletePod", "createPod", "monitor", "registryHA"}

MigrationInv ==
  \A c \in Commands :
    /\ pc[c] \in Migrating => AirGap /\ store = "disk"
    /\ pc[c] \in Down => replicas = 0
    /\ pc[c] = "monitor" /\ pod.phase = "running" => Kept \subseteq pod.files \cup s3
    /\ pc[c] = "monitor" /\ pod.phase = "succeeded" => Kept \subseteq s3
    /\ pc[c] = "registryHA" => Kept \subseteq s3
    /\ pc[c] = "registryWait" => store = "s3"

(* A command that goes past its check found the flag unset, and nobody     *)
(* else sets it; what the Installation says last is so by then.            *)
FlagInv ==
  /\ \A c \in Commands :
       /\ Active(c) /\ pc[c] \notin {"check", "scaleBack"} => ~ha
       /\ pc[c] \in {"adminHA", "adminWait", "setHA"} /\ AirGap => store = "s3"
       /\ pc[c] \in {"adminWait", "setHA"} => adminHA
  /\ HAIsComplete

SequentialInv == TypeOK /\ OneCommand /\ RegistryInv /\ MigrationInv /\ FlagInv

LEMMA SequentialInit == Init => SequentialInv
<1> SUFFICES ASSUME Init PROVE SequentialInv
  OBVIOUS
<1>1. TypeOK
  BY TypeInit
<1>2. OneCommand /\ MigrationInv
  BY DEF Init, OneCommand, Active, MigrationInv, Migrating, Down, Ended
<1>3. RegistryInv /\ FlagInv
  BY DEF Init, RegistryInv, Kept, FlagInv, HAIsComplete
<1> QED
  BY <1>1, <1>2, <1>3 DEF SequentialInv

(* A command that takes a step is the only one that runs, and so the only *)
(* one that the invariant speaks of before and after it.                  *)
LEMMA StepOfOne ==
  ASSUME TypeOK, OneCommand, NEW c \in Commands, Active(c) \/ \A d \in Commands : ~Active(d),
         NEW step, Goto(c, step)
  PROVE  /\ OneCommand'
         /\ pc'[c] = step
         /\ \A d \in Commands : d # c => pc'[d] \in {"none"} \cup Ended
<1>1. \A d \in Commands : d # c => pc[d] \in {"none"} \cup Ended
  BY DEF OneCommand, Active
<1>2. pc'[c] = step /\ \A d \in Commands : d # c => pc'[d] = pc[d]
  BY DEF TypeOK, Goto
<1> QED
  BY <1>1, <1>2 DEF OneCommand, Active

LEMMA LeaveOfOne ==
  ASSUME TypeOK, OneCommand, NEW c \in Commands, Active(c), Leave(c)
  PROVE  /\ OneCommand'
         /\ pc'[c] \in {"scaleBack", "ended"}
         /\ \A d \in Commands : d # c => pc'[d] \in {"none"} \cup Ended
  BY StepOfOne DEF Leave

LEMMA StartStep ==
  ASSUME ~Overlap, SequentialInv, NEW c \in Commands, Start(c)
  PROVE  SequentialInv'
<1> USE DEF SequentialInv, registry, data, helm, run
<1>1. TypeOK'
  BY TypeCommand
<1>2. /\ OneCommand' /\ pc'[c] = "check"
      /\ \A d \in Commands : d # c => pc'[d] \in {"none"} \cup Ended
  BY StepOfOne DEF Start, Active
<1>3. UNCHANGED <<ha, adminHA, registry, data, pod, helm>>
  BY DEF Start
<1>4. RegistryInv'
  BY <1>3 DEF RegistryInv, Kept
<1>5. MigrationInv'
  BY <1>2 DEF MigrationInv, Migrating, Down, Ended
<1>6. FlagInv'
  BY <1>2, <1>3 DEF FlagInv, HAIsComplete, Active, Ended
<1> QED
  BY <1>1, <1>2, <1>4, <1>5, <1>6

(* The steps before the registry is touched.                              *)
LEMMA BeforeStep ==
  ASSUME SequentialInv, NEW c \in Commands,
         CanEnableHA(c) \/ EnableHA(c) \/ ensureSeaweedfs(c)
  PROVE  SequentialInv'
<1> USE DEF SequentialInv, registry, data, helm, run
<1>1. TypeOK' /\ Active(c)
  BY TypeCommand DEF Command, CanEnableHA, EnableHA, ensureSeaweedfs, Active, Ended
<1>2. UNCHANGED <<ha, adminHA, registry, data, pod, helm>>
  BY DEF CanEnableHA, EnableHA, ensureSeaweedfs
<1>3. /\ OneCommand' /\ pc'[c] \in {"ended", "start", "seaweedfs", "scaleDown", "adminHA"}
      /\ \A d \in Commands : d # c => pc'[d] \in {"none"} \cup Ended
  BY <1>1, StepOfOne DEF CanEnableHA, EnableHA, ensureSeaweedfs
<1>4. /\ pc'[c] \in {"seaweedfs", "scaleDown"} => AirGap /\ store = "disk"
      /\ pc'[c] = "adminHA" /\ AirGap => store = "s3"
      /\ pc'[c] # "ended" => ~ha
  BY <1>1 DEF CanEnableHA, EnableHA, ensureSeaweedfs, IsRegistryHA, Goto, TypeOK, Stores,
     RegistryInv, MigrationInv, Migrating, FlagInv
<1>5. RegistryInv'
  BY <1>2 DEF RegistryInv, Kept
<1>6. MigrationInv'
  BY <1>2, <1>3, <1>4 DEF MigrationInv, Migrating, Down, Ended
<1>7. FlagInv'
  BY <1>2, <1>3, <1>4 DEF FlagInv, HAIsComplete, Active, Ended
<1> QED
  BY <1>1, <1>3, <1>5, <1>6, <1>7

(* The migration.  The pod is the command's own from createPod on.        *)
LEMMA MigrationStep ==
  ASSUME SequentialInv, NEW c \in Commands,
         scaleRegistryDown(c) \/ maybeDeleteDataMigrationPod(c) \/ ensureDataMigrationPod(c)
           \/ monitorPodStatus(c)
  PROVE  SequentialInv'
<1> USE DEF SequentialInv, registry, data, helm, run
<1>1. TypeOK'
  BY TypeCommand DEF Command
<1>2. /\ Active(c) /\ pc[c] \in Migrating
      /\ UNCHANGED <<ha, adminHA, store, data, helm>>
  BY DEF Active, Migrating, Ended, scaleRegistryDown, maybeDeleteDataMigrationPod,
     ensureDataMigrationPod, monitorPodStatus
<1>3. AirGap /\ store = "disk" /\ ~ha
  BY <1>2 DEF MigrationInv, Migrating, FlagInv
<1>4. /\ OneCommand'
      /\ pc'[c] \in {"deletePod", "createPod", "monitor", "registryHA", "scaleBack", "ended"}
      /\ \A d \in Commands : d # c => pc'[d] \in {"none"} \cup Ended
  BY <1>2, StepOfOne, LeaveOfOne DEF scaleRegistryDown, maybeDeleteDataMigrationPod,
     ensureDataMigrationPod, monitorPodStatus
<1>5. replicas' = 0
  BY DEF scaleRegistryDown, maybeDeleteDataMigrationPod, ensureDataMigrationPod,
     monitorPodStatus, MigrationInv, Down
<1>6. /\ pc'[c] = "monitor" => pod'.phase = "pending"
      /\ pc'[c] = "registryHA" => Kept \subseteq s3
  <2>1. CASE ensureDataMigrationPod(c)
    BY <1>2, <2>1, LeaveOfOne DEF ensureDataMigrationPod, Goto, TypeOK
  <2>2. CASE monitorPodStatus(c)
    BY <1>2, <2>2, StepOfOne, LeaveOfOne DEF monitorPodStatus, MigrationInv
  <2>3. CASE scaleRegistryDown(c) \/ maybeDeleteDataMigrationPod(c)
    BY <1>2, <2>3, StepOfOne DEF scaleRegistryDown, maybeDeleteDataMigrationPod
  <2> QED
    BY <2>1, <2>2, <2>3
<1>7. RegistryInv'
  BY <1>2, <1>3, <1>5 DEF RegistryInv, Kept
<1>8. MigrationInv'
  BY <1>2, <1>3, <1>4, <1>5, <1>6 DEF MigrationInv, Migrating, Down, Ended, Kept
<1>9. FlagInv'
  BY <1>2, <1>3, <1>4 DEF FlagInv, HAIsComplete, Ended
<1> QED
  BY <1>1, <1>4, <1>7, <1>8, <1>9

(* helm upgrades the registry.  Everything is in S3 before it begins, so   *)
(* that nothing is lost with the disk, and a registry that is rolled back  *)
(* is migrated anew.                                                       *)
LEMMA RegistryStep ==
  ASSUME SequentialInv, NEW c \in Commands,
         enableRegistryHA(c) \/ RegistryIsUp(c) \/ RegistryIsNotUp(c)
  PROVE  SequentialInv'
<1> USE DEF SequentialInv, registry, data, helm, run
<1>1. TypeOK'
  BY TypeCommand DEF Command, CommandError
<1>2. /\ Active(c) /\ UNCHANGED <<ha, adminHA, pod, s3, pushed, late>>
  BY DEF Active, Ended, enableRegistryHA, RegistryIsUp, RegistryIsNotUp
<1>3. ~ha /\ Kept \subseteq s3
  BY <1>2 DEF FlagInv, MigrationInv, RegistryInv, enableRegistryHA, RegistryIsUp, RegistryIsNotUp
<1>4. /\ OneCommand' /\ pc'[c] \in {"registryWait", "adminHA", "scaleBack", "ended"}
      /\ \A d \in Commands : d # c => pc'[d] \in {"none"} \cup Ended
  BY <1>2, StepOfOne, LeaveOfOne DEF enableRegistryHA, RegistryIsUp, RegistryIsNotUp
<1>5. /\ store' = "s3" <=> replicas' = 2
      /\ "registry" \in good' => store' = "s3"
      /\ pc'[c] \in {"registryWait", "adminHA"} => store' = "s3"
  <2>1. CASE enableRegistryHA(c)
    BY <2>1 DEF enableRegistryHA
  <2>2. CASE RegistryIsUp(c)
    BY <2>2 DEF RegistryIsUp, RegistryInv, MigrationInv
  <2>3. CASE RegistryIsNotUp(c)
    <3>1. store = "s3" /\ replicas = 2 /\ good' = good
      BY <2>3 DEF RegistryIsNotUp, RegistryInv, MigrationInv
    <3>2. pc'[c] \in {"scaleBack", "ended"}
      BY <1>2, <2>3, LeaveOfOne DEF RegistryIsNotUp
    <3> QED
      BY <2>3, <3>1, <3>2 DEF RegistryIsNotUp
  <2> QED
    BY <2>1, <2>2, <2>3
<1>6. RegistryInv'
  BY <1>2, <1>3, <1>5 DEF RegistryInv, Kept
<1>7. MigrationInv'
  BY <1>4, <1>5 DEF MigrationInv, Migrating, Down, Ended
<1>8. FlagInv'
  BY <1>2, <1>3, <1>4, <1>5 DEF FlagInv, HAIsComplete, Ended
<1> QED
  BY <1>1, <1>4, <1>6, <1>7, <1>8

(* helm upgrades the admin console, and the Installation is updated.      *)
LEMMA ConsoleStep ==
  ASSUME SequentialInv, NEW c \in Commands,
         EnableAdminConsoleHA(c) \/ AdminConsoleIsUp(c) \/ AdminConsoleIsNotUp(c)
           \/ SetHighAvailability(c)
  PROVE  SequentialInv'
<1> USE DEF SequentialInv, registry, data, helm, run
<1>1. TypeOK'
  BY TypeCommand DEF Command, CommandError
<1>2. Active(c) /\ pc[c] \in {"adminHA", "adminWait", "setHA"}
  BY DEF Active, Ended, EnableAdminConsoleHA, AdminConsoleIsUp, AdminConsoleIsNotUp,
     SetHighAvailability
<1>3. /\ UNCHANGED <<registry, data, pod>>
      /\ "registry" \in good' => "registry" \in good
  BY DEF EnableAdminConsoleHA, AdminConsoleIsUp, AdminConsoleIsNotUp, SetHighAvailability
<1>4. ~ha /\ (AirGap => store = "s3" /\ replicas = 2)
  BY <1>2 DEF FlagInv, RegistryInv
<1>5. /\ OneCommand' /\ pc'[c] \in {"adminWait", "setHA", "scaleBack", "ended"}
      /\ \A d \in Commands : d # c => pc'[d] \in {"none"} \cup Ended
  BY <1>2, StepOfOne, LeaveOfOne DEF EnableAdminConsoleHA, AdminConsoleIsUp,
     AdminConsoleIsNotUp, SetHighAvailability
<1>6. /\ ha' => adminHA'
      /\ pc'[c] \in {"adminWait", "setHA"} => adminHA' /\ ~ha'
  <2>1. CASE EnableAdminConsoleHA(c)
    BY <1>4, <2>1 DEF EnableAdminConsoleHA
  <2>2. CASE AdminConsoleIsUp(c)
    BY <1>4, <2>2 DEF AdminConsoleIsUp, FlagInv
  <2>3. CASE AdminConsoleIsNotUp(c)
    BY <1>2, <1>4, <2>3, LeaveOfOne DEF AdminConsoleIsNotUp
  <2>4. CASE SetHighAvailability(c)
    BY <1>2, <2>4, LeaveOfOne DEF SetHighAvailability, FlagInv
  <2> QED
    BY <2>1, <2>2, <2>3, <2>4
<1>7. RegistryInv'
  BY <1>3 DEF RegistryInv, Kept
<1>8. MigrationInv'
  BY <1>5 DEF MigrationInv, Migrating, Down, Ended
<1>9. FlagInv'
  BY <1>3, <1>4, <1>5, <1>6 DEF FlagInv, HAIsComplete, Active, Ended
<1> QED
  BY <1>1, <1>5, <1>7, <1>8, <1>9

(* However a command ends, it ends with the registry as it is or with the *)
(* one replica that serves the disk.                                      *)
LEMMA EndStep ==
  ASSUME SequentialInv, NEW c \in Commands,
         maybeScaleRegistryBackOnFailure(c) \/ CannotScaleBack(c) \/ HelmRefuses(c)
           \/ CallFails(c) \/ CommandKilled(c)
  PROVE  SequentialInv'
<1> USE DEF SequentialInv, registry, data, helm, run
<1>1. TypeOK'
  BY TypeCommand DEF Command, CommandError
<1>2. /\ Active(c) /\ UNCHANGED <<ha, adminHA, data, store, good>>
  BY DEF Active, Ended, maybeScaleRegistryBackOnFailure, CannotScaleBack, HelmRefuses, CallFails,
     CommandKilled
<1>3. /\ OneCommand' /\ pc'[c] \in {"scaleBack"} \cup Ended
      /\ \A d \in Commands : d # c => pc'[d] \in {"none"} \cup Ended
  BY <1>2, StepOfOne, LeaveOfOne DEF maybeScaleRegistryBackOnFailure, CannotScaleBack,
     HelmRefuses, CallFails, CommandKilled, EndAs, Ended
<1>4. replicas' = replicas \/ (replicas = 0 /\ replicas' = 1)
  BY DEF maybeScaleRegistryBackOnFailure, CannotScaleBack, HelmRefuses, CallFails, CommandKilled
<1>5. RegistryInv'
  BY <1>2, <1>4 DEF RegistryInv, Kept
<1>6. MigrationInv'
  BY <1>3 DEF MigrationInv, Migrating, Down, Ended
<1>7. FlagInv'
  BY <1>2, <1>3, <1>4 DEF FlagInv, HAIsComplete, Active, Ended
<1> QED
  BY <1>1, <1>3, <1>5, <1>6, <1>7

(* What a pod of the registry accepts for the disk while the registry is   *)
(* scaled down or on S3 is late; all else is in a store that is copied or  *)
(* served.                                                                 *)
LEMMA PushStep ==
  ASSUME SequentialInv, NEW i \in Images, PushToDisk(i) \/ PushToS3(i)
  PROVE  SequentialInv'
<1> USE DEF SequentialInv, registry, data, helm, run
<1>1. TypeOK'
  BY TypeOthers
<1>2. UNCHANGED <<ha, adminHA, registry, pod, helm, pc>>
  BY DEF PushToDisk, PushToS3
<1>3. OneCommand' /\ FlagInv'
  BY <1>2 DEF OneCommand, Active, FlagInv, HAIsComplete
<1>4. CASE PushToS3(i)
  <2>1. s3' = s3 \cup {i} /\ disk' = disk /\ Kept' \subseteq Kept \cup {i}
    BY <1>4 DEF PushToS3, Kept
  <2>2. RegistryInv'
    BY <1>2, <2>1 DEF RegistryInv
  <2>3. MigrationInv'
    BY <1>2, <2>1 DEF MigrationInv
  <2> QED
    BY <1>1, <1>3, <2>2, <2>3
<1>5. CASE PushToDisk(i) /\ IsWanted("disk")
  <2>1. /\ s3' = s3 /\ disk' = disk \cup {i} /\ Kept' \subseteq Kept \cup {i}
        /\ store = "disk" /\ replicas > 0
    BY <1>5 DEF PushToDisk, IsWanted, Kept
  <2>2. RegistryInv'
    BY <1>2, <2>1 DEF RegistryInv
  <2>3. \A c \in Commands : pc[c] \notin Down
    BY <2>1 DEF MigrationInv
  <2>4. MigrationInv'
    BY <1>2, <2>3 DEF MigrationInv, Down
  <2> QED
    BY <1>1, <1>3, <2>2, <2>4
<1>6. CASE PushToDisk(i) /\ ~IsWanted("disk")
  <2>1. s3' = s3 /\ disk \subseteq disk' /\ Kept' = Kept
    BY <1>6 DEF PushToDisk, Kept, TypeOK
  <2>2. RegistryInv'
    BY <1>2, <2>1 DEF RegistryInv
  <2>3. MigrationInv'
    BY <1>2, <2>1 DEF MigrationInv
  <2> QED
    BY <1>1, <1>3, <2>2, <2>3
<1> QED
  BY <1>4, <1>5, <1>6

LEMMA OthersStep ==
  ASSUME SequentialInv, RegistryStarts \/ RegistryStops \/ Pod \/ PodFails
  PROVE  SequentialInv'
<1> USE DEF SequentialInv, registry, data, helm, run
<1>1. TypeOK'
  BY TypeOthers
<1>2. /\ UNCHANGED <<ha, adminHA, replicas, store, disk, pushed, late, good, pc>>
      /\ s3 \subseteq s3'
  BY DEF RegistryStarts, RegistryStops, Pod, PodStarts, RegistryData, UploadObject, PodFails
<1>3. OneCommand' /\ FlagInv'
  BY <1>2 DEF OneCommand, Active, FlagInv, HAIsComplete
<1>4. RegistryInv'
  BY <1>2 DEF RegistryInv, Kept
<1>5. \/ pod' = pod
      \/ pod' = [phase |-> "running", files |-> disk]
      \/ pod'.phase = "succeeded" /\ pod.phase = "running" /\ pod.files \subseteq s3
      \/ pod'.phase = "failed"
  BY DEF RegistryStarts, RegistryStops, Pod, PodStarts, RegistryData, UploadObject, PodFails
<1>6. MigrationInv'
  BY <1>2, <1>5 DEF MigrationInv, RegistryInv, Kept
<1> QED
  BY <1>1, <1>3, <1>4, <1>6

LEMMA SequentialStep ==
  ASSUME ~Overlap PROVE SequentialInv /\ [Next]_vars => SequentialInv'
<1> SUFFICES ASSUME SequentialInv, [Next]_vars PROVE SequentialInv'
  OBVIOUS
<1>1. ASSUME NEW c \in Commands, Start(c) \/ Command(c) \/ CommandError(c) \/ CommandKilled(c)
      PROVE  SequentialInv'
  BY <1>1, StartStep, BeforeStep, MigrationStep, RegistryStep, ConsoleStep, EndStep
     DEF Command, CommandError
<1>2. CASE RegistryStarts \/ RegistryStops \/ Pod \/ PodFails
  BY <1>2, OthersStep
<1>3. CASE \E i \in Images : PushToDisk(i) \/ PushToS3(i)
  BY <1>3, PushStep
<1>4. CASE UNCHANGED vars
  BY <1>4 DEF vars, registry, data, helm, run, SequentialInv, TypeOK, OneCommand, Active,
     RegistryInv, Kept, MigrationInv, FlagInv, HAIsComplete
<1> QED
  BY <1>1, <1>2, <1>3, <1>4 DEF Next

(* When commands follow one another, whatever a wanted pod of the registry *)
(* has accepted is in one of its stores, and in S3 once it is configured   *)
(* to serve from there, through any number of migrations that fail, are    *)
(* killed, rolled back or begun again.                                     *)
THEOREM ImagesAreKept == ASSUME ~Overlap PROVE Spec => []NoImageLeftBehind
<1>1. SequentialInv => NoImageLeftBehind
  BY DEF SequentialInv, RegistryInv, Kept, NoImageLeftBehind
<1>2. SequentialInv /\ [Next]_vars => SequentialInv'
  BY SequentialStep
<1> QED
  BY SequentialInit, <1>1, <1>2, PTL DEF Spec

(* When commands follow one another, the Installation says that it is     *)
(* highly available only when the registry and the admin console are.     *)
THEOREM FlagIsTrue == ASSUME ~Overlap PROVE Spec => []HAIsComplete
<1>1. SequentialInv => HAIsComplete
  BY DEF SequentialInv, FlagInv
<1>2. SequentialInv /\ [Next]_vars => SequentialInv'
  BY SequentialStep
<1> QED
  BY SequentialInit, <1>1, <1>2, PTL DEF Spec

=============================================================================
