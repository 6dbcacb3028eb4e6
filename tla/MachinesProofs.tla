--------------------------- MODULE MachinesProofs ---------------------------
(***************************************************************************)
(* Proofs about Machines, for any machines, data directories, releases,    *)
(* commands and faults.                                                    *)
(*                                                                         *)
(* The first part goes by machine: what lies on the disk at each step of   *)
(* its command, and what the command has reported.  To that comes what the *)
(* cluster knows of the data directory when commands run one after the     *)
(* other.                                                                  *)
(*                                                                         *)
(* The second part follows the controllers.  A reset that goes on to       *)
(* change anything has seen etcd with a quorum and more than one label; if *)
(* it were the last member that runs, the quorum would make it the only    *)
(* member, and labels are only on members, so there would be one label.    *)
(* That labels are only on members is what clean resets keep.              *)
(***************************************************************************)
EXTENDS Machines, FiniteSetTheorems, TLAPS

(* The command on m is at one of its steps.                                *)
StepOK(m) ==
    /\ run[m].cmd = "none" => run[m] = Idle
    /\ Of(m, "install") => run[m].step \in InstallSteps /\ run[m].role = "controller"
    /\ Of(m, "join") => run[m].step \in JoinSteps /\ run[m].role \in Roles
    /\ Of(m, "reset") => run[m].step \in ResetSteps
    /\ Installing(m) /\ ~Overlap => run[m].dir \in Dirs

(* The steps from the runtime config to k0s.                               *)
Configured(m) == Installing(m) /\ BeforeK0s(m) /\ ~At(m, "configure")

(* Those of them at which the configuration of k0s is written.             *)
K0sConfigured(m) == \/ Installing(m) /\ At(m, "k0s")
                    \/ Of(m, "install") /\ run[m].step \in {"units", "binary"}

(* The steps of an install from the start of k0s on.                       *)
AfterK0s(m) == Of(m, "install")
               /\ run[m].step \in {"start", "ready", "node", "record", "registry", "charts"}

(* What is on the disk of a machine that no reset has begun to clean, and  *)
(* what a command counts on.                                               *)
DiskOK(m) ==
    /\ Units(m) # {} /\ m \notin broken =>
          /\ "k0s.yaml" \in files[m]
          /\ config[m] = home[m].dir
          /\ ~Overlap => home[m].dir \in Dirs
    /\ Installing(m) /\ BeforeK0s(m) /\ m \notin broken => Units(m) = {}
    /\ Configured(m) => config[m] = run[m].dir
    /\ K0sConfigured(m) => "k0s.yaml" \in files[m]
    /\ Of(m, "reset") /\ run[m].step \in ResetLeaves \cup ResetEnds => m \in broken
    /\ Of(m, "reset") /\ run[m].step \in ResetEnds => Units(m) = {}
    /\ AfterK0s(m) => home[m].dir = run[m].dir

(* What a running command has reported, and what the last one did.         *)
EventsOK(m) ==
    /\ run[m].events \subseteq {"Started", "Aborted"}
    /\ ~Installing(m) => run[m].events = {}
    /\ Of(m, "install") /\ At(m, "verify") => run[m].events = {}
    /\ run[m].signal # "none" => "Aborted" \in run[m].events
    /\ "Started" \in last[m].events /\ last[m].outcome # "killed"
       => last[m].events \cap {"Succeeded", "Failed", "PreflightsFailed", "Aborted"} # {}
    /\ ~({"PreflightsFailed", "Failed"} \subseteq last[m].events)

Local(m) == StepOK(m) /\ DiskOK(m) /\ EventsOK(m)
LocalInv == \A m \in Machines : Local(m)

(* The steps of an install after the Installation object is recorded.      *)
Recorded(m) == Of(m, "install") /\ run[m].step \in {"registry", "charts"}

(* A cluster has one data directory, as long as commands run one after the *)
(* other.                                                                  *)
ClusterInv == ~Overlap =>
    /\ \A m, n \in Machines : run[m].cmd # "none" /\ run[n].cmd # "none" => m = n
    /\ \A m, n \in Machines : Of(m, "install") /\ n # m => k0s[n] = "none"
    /\ \A m \in Machines : Recorded(m) => inst.state # "none" /\ k0s[m] \in {"joined", "node"}
    /\ inst.state # "none" =>
       /\ inst.dir \in Dirs
       /\ \A m \in Machines :
             /\ Of(m, "join") => run[m].dir = inst.dir
             /\ ~home[m].first /\ k0s[m] # "none" => home[m].dir = inst.dir
             /\ k0s[m] \in {"joined", "node"} => home[m].dir = inst.dir

IInv == TypeOK /\ LocalInv /\ ClusterInv
-----------------------------------------------------------------------------
(* What the parts of the steps do.                                         *)

(* The steps that follow one another.                                      *)
LEMMA InstallFollows ==
    /\ InstallAfter["verify"] = "configure" /\ InstallAfter["configure"] = "initialize"
    /\ InstallAfter["initialize"] = "preflights" /\ InstallAfter["preflights"] = "config"
    /\ InstallAfter["config"] = "units" /\ InstallAfter["units"] = "binary"
    /\ InstallAfter["binary"] = "k0s" /\ InstallAfter["k0s"] = "start"
    /\ InstallAfter["start"] = "ready" /\ InstallAfter["ready"] = "node"
    /\ InstallAfter["node"] = "record" /\ InstallAfter["record"] = "registry"
    /\ InstallAfter["registry"] = "charts"
  BY DEF InstallAfter

LEMMA JoinFollows ==
    /\ JoinAfter["verify"] = "configure" /\ JoinAfter["configure"] = "initialize"
    /\ JoinAfter["initialize"] = "preflights" /\ JoinAfter["preflights"] = "token"
    /\ JoinAfter["token"] = "binary" /\ JoinAfter["binary"] = "registry"
    /\ JoinAfter["registry"] = "units" /\ JoinAfter["units"] = "config"
    /\ JoinAfter["config"] = "k0s" /\ JoinAfter["k0s"] = "start"
    /\ JoinAfter["start"] = "ready" /\ JoinAfter["ready"] = "node"
  BY DEF JoinAfter

LEMMA StepNames ==
    /\ InstallSteps = {"verify", "configure", "initialize", "preflights", "config", "units",
                       "binary", "k0s", "start", "ready", "node", "record", "registry", "charts"}
    /\ JoinSteps = {"verify", "configure", "initialize", "preflights", "token", "binary",
                    "registry", "units", "config", "k0s", "start", "ready", "node"}
  BY DEF InstallSteps, JoinSteps, InstallAfter, JoinAfter

LEMMA AllSteps ==
    Steps = {"none", "verify", "configure", "initialize", "preflights", "config", "units",
             "binary", "k0s", "start", "ready", "node", "record", "registry", "charts", "token",
             "runtime", "warning", "host", "safety", "count", "delete node", "control node",
             "leave", "k0s reset", "firewalld", "remove k0s.yaml", "remove services",
             "remove units", "remove home", "remove binary", "remove config",
             "remove settings", "reboot"}
  BY ZenonT(60), StepNames DEF Steps, ResetSteps, ResetLooks, ResetLeaves, ResetEnds

(* The fields of the command on m that a change of its step leaves alone.  *)
SameCommand(m) ==
    /\ run'[m].cmd = run[m].cmd /\ run'[m].role = run[m].role /\ run'[m].dir = run[m].dir
    /\ run'[m].events = run[m].events /\ run'[m].signal = run[m].signal

LEMMA StepOfCommand ==
    ASSUME NEW c \in Command, NEW s \in Steps
    PROVE  LET d == [c EXCEPT !.step = s] IN
           /\ d \in Command /\ d.step = s
           /\ d.cmd = c.cmd /\ d.role = c.role /\ d.dir = c.dir
           /\ d.events = c.events /\ d.signal = c.signal
  BY DEF Command

LEMMA GotoEffect ==
    ASSUME TypeOK, NEW m \in Machines, NEW s \in Steps, Goto(m, s)
    PROVE  /\ run' \in [Machines -> Command]
           /\ run'[m].step = s /\ SameCommand(m)
           /\ \A n \in Machines \ {m} : run'[n] = run[n]
  <1> DEFINE d == [run[m] EXCEPT !.step = s]
  <1>1. run \in [Machines -> Command] /\ run' = [run EXCEPT ![m] = d]
    BY DEF TypeOK, Goto
  <1>2. d \in Command /\ d.step = s /\ d.cmd = run[m].cmd /\ d.role = run[m].role
        /\ d.dir = run[m].dir /\ d.events = run[m].events /\ d.signal = run[m].signal
    BY <1>1, StepOfCommand
  <1> HIDE DEF d
  <1> QED
    BY <1>1, <1>2 DEF SameCommand

LEMMA IdleIsCommand == Idle \in Command
  <1>1. DefaultDir \in Dir
    BY DirsAssumption DEF Dir
  <1>3. {} \in SUBSET Events
    OBVIOUS
  <1>4. "none" \in Steps
    BY DEF Steps
  <1>2. 0 \in Releases \cup {0} /\ "controller" \in Roles \cup {"unknown"} /\ "none" \in Cmds
    BY DEF Roles, Cmds
  <1> QED
    BY <1>1, <1>2, <1>3, <1>4 DEF Idle, Command

LEMMA EndEffect ==
    ASSUME TypeOK, NEW m \in Machines, NEW event \in SUBSET Events,
           NEW outcome \in {"done", "declined", "failed", "killed",
                            "aborted", "shown", "preflights"},
           End(m, outcome, event)
    PROVE  /\ run' \in [Machines -> Command] /\ last' \in [Machines -> Ended]
           /\ run'[m] = Idle
           /\ last'[m].outcome = outcome /\ last'[m].events = run[m].events \cup event
           /\ \A n \in Machines \ {m} : run'[n] = run[n] /\ last'[n] = last[n]
  <1> DEFINE e == [cmd |-> run[m].cmd, outcome |-> outcome,
                   role |-> run[m].role,
                   tolerated |-> run[m].tolerated,
                   clean |-> /\ last[m].clean /\ ~run[m].force
                             /\ m \in broken =>
                                   /\ outcome = "done"
                                   /\ m \notin etcd' \cup nodes',
                   events |-> run[m].events \cup event]
  <1>1. run \in [Machines -> Command] /\ last \in [Machines -> Ended]
    BY DEF TypeOK
  <1>2. run' = [run EXCEPT ![m] = Idle] /\ last' = [last EXCEPT ![m] = e]
    BY DEF End
  <1>3. run[m] \in Command
    BY <1>1
  <1>4. e \in Ended /\ e.outcome = outcome /\ e.events = run[m].events \cup event
    BY <1>3 DEF Command, Ended
  <1> HIDE DEF e
  <1> QED
    BY <1>1, <1>2, <1>4, IdleIsCommand

(* The step tells the command.                                             *)
LEMMA StepTells ==
    ASSUME TypeOK, NEW m \in Machines, StepOK(m)
    PROVE  /\ run[m].cmd \in Cmds
           /\ run[m].step \in InstallSteps \cup JoinSteps => Installing(m)
           /\ run[m].step \in ResetSteps => Of(m, "reset")
  <1>1. run[m].cmd \in Cmds
    BY DEF TypeOK, Command
  <1>2. run[m].cmd = "none" => run[m].step = "none"
    BY DEF StepOK, Idle
  <1>3. /\ "none" \notin InstallSteps \cup JoinSteps \cup ResetSteps
        /\ (InstallSteps \cup JoinSteps) \cap ResetSteps = {}
    BY StepNames DEF ResetSteps, ResetLooks, ResetLeaves, ResetEnds
  <1> QED
    BY <1>1, <1>2, <1>3 DEF StepOK, Of, Installing, Cmds

(* The step of an install or a join that follows.                          *)
LEMMA FollowingStep ==
    ASSUME NEW m \in Machines, StepOK(m), Installing(m),
           Of(m, "install") => ~At(m, "charts"), Of(m, "join") => ~At(m, "node")
    PROVE  /\ Following(m) \in Steps
           /\ Of(m, "install") => Following(m) \in InstallSteps
           /\ Of(m, "join") => Following(m) \in JoinSteps
           /\ Of(m, "install") => Following(m) = InstallAfter[run[m].step]
           /\ Of(m, "join") => Following(m) = JoinAfter[run[m].step]
  <1>1. CASE Of(m, "install")
    <2>1. Following(m) = InstallAfter[run[m].step] /\ run[m].step \in InstallSteps \ {"charts"}
      BY <1>1 DEF Following, StepOK, At
    <2>2. Following(m) \in InstallSteps
      BY <2>1, StepNames, InstallFollows
    <2> QED
      BY <1>1, <2>1, <2>2 DEF Of, Steps
  <1>2. CASE Of(m, "join")
    <2>1. Following(m) = JoinAfter[run[m].step] /\ run[m].step \in JoinSteps \ {"node"}
      BY <1>2 DEF Following, StepOK, At, Of
    <2>2. Following(m) \in JoinSteps
      BY <2>1, StepNames, JoinFollows
    <2> QED
      BY <1>2, <2>1, <2>2 DEF Of, Steps
  <1> QED
    BY <1>1, <1>2 DEF Installing, Of

(* What a step of m leaves alone on the other machines.                    *)
Others(m) == \A n \in Machines \ {m} :
    /\ run'[n] = run[n] /\ last'[n] = last[n] /\ files'[n] = files[n]
    /\ config'[n] = config[n] /\ home'[n] = home[n]
    /\ n \in broken' <=> n \in broken

(* A step that begins no command, joins no machine and records nothing     *)
(* does not change what the machines of a cluster agree on.                *)
ClusterKept == ~Overlap =>
    /\ \A n \in Machines :
          /\ \/ run'[n].cmd = "none"
             \/ /\ run'[n].cmd = run[n].cmd
                /\ Of(n, "join") => run'[n].dir = run[n].dir
                /\ Recorded(n)' => Recorded(n)
          /\ home'[n] = home[n] \/ k0s'[n] = "none"
          /\ k0s'[n] # "none" => k0s[n] # "none"
          /\ k0s'[n] \in {"joined", "node"} => k0s[n] \in {"joined", "node"}
    /\ inst'.state # "none" => inst.state # "none" /\ inst'.dir = inst.dir
    /\ \/ \E n \in Machines : Of(n, "reset")
       \/ /\ inst.state # "none" => inst'.state # "none"
          /\ \A n \in Machines : k0s[n] \in {"joined", "node"} => k0s'[n] \in {"joined", "node"}

Kept(m) == TypeOK' /\ Local(m)' /\ Others(m) /\ ClusterKept

LEMMA OthersLocal ==
    ASSUME LocalInv, NEW m \in Machines, Others(m), Local(m)'
    PROVE  LocalInv'
  <1> SUFFICES ASSUME NEW n \in Machines, n # m, Local(n)
               PROVE  Local(n)'
    BY DEF LocalInv
  <1>1. /\ run'[n] = run[n] /\ last'[n] = last[n] /\ files'[n] = files[n]
        /\ config'[n] = config[n] /\ home'[n] = home[n]
        /\ n \in broken' <=> n \in broken
    BY DEF Others
  <1>2. StepOK(n)'
    BY <1>1 DEF Local, StepOK, Of, Installing
  <1>3. DiskOK(n)'
    BY <1>1 DEF Local, DiskOK, Units, Installing, BeforeK0s, Configured, K0sConfigured,
       AfterK0s, Of, At
  <1>4. EventsOK(n)'
    BY <1>1 DEF Local, EventsOK, Installing, Of, At
  <1> QED
    BY <1>2, <1>3, <1>4 DEF Local

LEMMA KeptCluster ==
    ASSUME TypeOK, ClusterInv, ClusterKept
    PROVE  ClusterInv'
  BY DEF ClusterInv, ClusterKept, Recorded, Of

LEMMA KeptInv ==
    ASSUME IInv, NEW m \in Machines, Kept(m)
    PROVE  IInv'
  BY OthersLocal, KeptCluster DEF IInv, Kept

-----------------------------------------------------------------------------
(* How the command on m goes on and how it ends.                           *)

(* An install or a join goes on, and adds files other than the units of    *)
(* k0s.                                                                    *)
LEMMA AdvanceLocal ==
    ASSUME TypeOK, NEW m \in Machines, Local(m), Installing(m), Advance(m),
           NEW fs, fs \cap Roles = {}, files'[m] = files[m] \cup fs,
           config'[m] = config[m], home'[m] = home[m], last'[m] = last[m],
           m \in broken' <=> m \in broken,
           run[m].step \notin {"verify", "configure", "k0s", "charts"},
           Of(m, "join") => ~At(m, "node"),
           At(m, "config") => "k0s.yaml" \in fs
    PROVE  /\ Local(m)' /\ run' \in [Machines -> Command] /\ SameCommand(m)
           /\ \A n \in Machines \ {m} : run'[n] = run[n]
           /\ Recorded(m)' => Recorded(m) \/ At(m, "record")
  <1> DEFINE s == Following(m)
  <1>1. /\ s \in Steps
        /\ Of(m, "install") => s \in InstallSteps /\ s = InstallAfter[run[m].step]
        /\ Of(m, "join") => s \in JoinSteps /\ s = JoinAfter[run[m].step]
    BY FollowingStep DEF Local, At
  <1>2. /\ run' \in [Machines -> Command] /\ run'[m].step = s /\ SameCommand(m)
        /\ \A n \in Machines \ {m} : run'[n] = run[n]
    BY <1>1, GotoEffect DEF Advance
  <1>3. /\ Of(m, "install") => run[m].step \in InstallSteps
        /\ Of(m, "join") => run[m].step \in JoinSteps
    BY DEF Local, StepOK
  <1> HIDE DEF s
  <1>4. StepOK(m)'
    BY <1>1, <1>2 DEF Local, StepOK, SameCommand, Of, Installing
  <1>5. DiskOK(m)'
    <2>1. BeforeK0s(m)' => BeforeK0s(m) /\ ~At(m, "configure")
      BY <1>1, <1>2, <1>3, StepNames, InstallFollows, JoinFollows
         DEF Installing, Of, At, SameCommand, BeforeK0s
    <2>2. K0sConfigured(m)' => K0sConfigured(m) \/ At(m, "config")
      BY <1>1, <1>2, <1>3, StepNames, InstallFollows, JoinFollows
         DEF Installing, Of, At, SameCommand, K0sConfigured
    <2>3. AfterK0s(m)' => AfterK0s(m)
      BY <1>1, <1>2, <1>3, StepNames, InstallFollows
         DEF Installing, Of, At, SameCommand, AfterK0s
    <2>4. Units(m)' = Units(m) /\ ("k0s.yaml" \in files[m] => "k0s.yaml" \in files'[m])
          /\ (At(m, "config") => "k0s.yaml" \in files'[m])
      BY DEF Units
    <2>5. /\ run'[m].cmd = run[m].cmd /\ run'[m].dir = run[m].dir
          /\ run[m].cmd # "reset"
      BY <1>2 DEF SameCommand, Installing
    <2> QED
      BY <2>1, <2>2, <2>3, <2>4, <2>5 DEF Local, DiskOK, Installing, Of, Configured
  <1>6. EventsOK(m)'
    <2>1. s # "verify"
      BY <1>1, <1>3, StepNames, InstallFollows, JoinFollows DEF Installing, Of, At
    <2> QED
      BY <1>2, <2>1 DEF Local, EventsOK, SameCommand, Of, Installing, At
  <1>7. Recorded(m)' => Recorded(m) \/ At(m, "record")
    BY <1>1, <1>2, <1>3, StepNames, InstallFollows DEF Recorded, Of, At, SameCommand
  <1> QED
    BY <1>2, <1>4, <1>5, <1>6, <1>7 DEF Local

(* A command ends.  What it has done on the disk stays.                    *)
LEMMA EndLocal ==
    ASSUME TypeOK, NEW m \in Machines, Local(m), NEW event \in SUBSET Events,
           NEW outcome \in {"done", "declined", "failed", "killed",
                            "aborted", "shown", "preflights"},
           End(m, outcome, event), UNCHANGED <<files, home, broken>>, config' \in Torn(m),
           "Started" \in run[m].events \cup event /\ outcome # "killed"
             => (run[m].events \cup event)
                  \cap {"Succeeded", "Failed", "PreflightsFailed", "Aborted"} # {},
           ~({"PreflightsFailed", "Failed"} \subseteq event)
    PROVE  /\ Local(m)' /\ Others(m)
           /\ run' \in [Machines -> Command] /\ last' \in [Machines -> Ended]
           /\ config' \in [Machines -> Dir]
           /\ run'[m] = Idle /\ \A n \in Machines \ {m} : run'[n] = run[n]
  <1>1. /\ run' \in [Machines -> Command] /\ last' \in [Machines -> Ended]
        /\ run'[m] = Idle
        /\ last'[m].outcome = outcome /\ last'[m].events = run[m].events \cup event
        /\ \A n \in Machines \ {m} : run'[n] = run[n] /\ last'[n] = last[n]
    BY EndEffect
  <1>2. /\ config' \in [Machines -> Dir]
        /\ ~At(m, "configure") => config' = config
        /\ \A n \in Machines \ {m} : config'[n] = config[n]
    BY DEF Torn, TypeOK, Dir
  <1>3. StepOK(m)'
    BY <1>1 DEF StepOK, Of, Installing, Idle
  <1>4. DiskOK(m)'
    <2>1. At(m, "configure") => Installing(m) /\ BeforeK0s(m)
      BY StepTells, StepNames DEF Local, At, BeforeK0s
    <2>2. Units(m) # {} /\ m \notin broken => "k0s.yaml" \in files[m]
             /\ config'[m] = home[m].dir /\ (~Overlap => home[m].dir \in Dirs)
      BY <1>2, <2>1 DEF Local, DiskOK
    <2>3. ~Installing(m)' /\ ~Of(m, "reset")' /\ ~Of(m, "install")'
      BY <1>1 DEF Installing, Of, Idle
    <2> QED
      BY <2>2, <2>3 DEF DiskOK, Units, Configured, K0sConfigured, AfterK0s, Installing, Of
  <1>5. EventsOK(m)'
    <2>1. run[m].events \subseteq {"Started", "Aborted"}
      BY DEF Local, EventsOK
    <2>2. run'[m].events = {} /\ run'[m].signal = "none"
      BY <1>1 DEF Idle
    <2> QED
      BY <1>1, <2>1, <2>2 DEF EventsOK
  <1>6. Others(m)
    BY <1>1, <1>2 DEF Others
  <1> QED
    BY <1>1, <1>2, <1>3, <1>4, <1>5, <1>6 DEF Local

(* A reset goes on: it looks at the machine or it cleans it.               *)
LEMMA ResetLocal ==
    ASSUME TypeOK, NEW m \in Machines, Local(m), Of(m, "reset"),
           run' \in [Machines -> Command], run'[m].cmd = "reset",
           run'[m].events = run[m].events, run'[m].signal = run[m].signal,
           run'[m].step \in ResetSteps, last'[m] = last[m],
           \/ /\ run'[m].step \in ResetLooks
              /\ files'[m] = files[m] /\ config'[m] = config[m] /\ home'[m] = home[m]
              /\ m \in broken' <=> m \in broken
           \/ m \in broken' /\ (run'[m].step \in ResetEnds => files'[m] \cap Roles = {})
    PROVE  Local(m)'
  <1>1. StepOK(m)'
    BY DEF StepOK, Of, Installing
  <1>2. ResetLooks \cap (ResetLeaves \cup ResetEnds) = {}
    BY DEF ResetLooks, ResetLeaves, ResetEnds
  <1>3. DiskOK(m)'
    BY <1>2 DEF Local, DiskOK, Units, Configured, K0sConfigured, AfterK0s, Installing, Of
  <1>4. EventsOK(m)'
    BY DEF Local, EventsOK, Installing, Of
  <1> QED
    BY <1>1, <1>3, <1>4 DEF Local

-----------------------------------------------------------------------------
(* The steps of install and join.                                          *)

(* A step that writes files, but no unit of k0s.                           *)
LEMMA WriteStep ==
    ASSUME TypeOK, NEW m \in Machines, Local(m), NEW fs \in SUBSET (Files \ Roles),
           Advance(m), Write(m, fs), At(m, "config") => "k0s.yaml" \in fs,
           run[m].step \in {"initialize", "config", "units", "binary", "token"},
           UNCHANGED <<last, config, dropin, k0s, home, cluster, broken, commands, faults>>
    PROVE  Kept(m)
  <1>1. Installing(m)
    BY StepTells, StepNames DEF Local
  <1>2. /\ files' \in [Machines -> SUBSET Files] /\ files'[m] = files[m] \cup fs
        /\ \A n \in Machines \ {m} : files'[n] = files[n]
    BY DEF Write, TypeOK
  <1>3. /\ Local(m)' /\ run' \in [Machines -> Command] /\ SameCommand(m)
        /\ \A n \in Machines \ {m} : run'[n] = run[n]
        /\ Recorded(m)' => Recorded(m)
    BY <1>1, <1>2, AdvanceLocal DEF At
  <1>4. TypeOK'
    BY <1>2, <1>3 DEF TypeOK, cluster
  <1>5. ClusterKept
    BY <1>3 DEF ClusterKept, Recorded, Of, SameCommand, cluster
  <1> QED
    BY <1>2, <1>3, <1>4, <1>5 DEF Kept, Others

(* A step that leaves the disk alone but for the drop-in.                  *)
LEMMA WaitStep ==
    ASSUME TypeOK, NEW m \in Machines, Local(m), Advance(m),
           run[m].step \in {"preflights", "start", "ready", "node", "registry"},
           At(m, "node") => Of(m, "install"),
           dropin' \in [Machines -> {"none", "v2", "v3"}],
           k0s' \in [Machines -> Phases],
           \A n \in Machines : k0s'[n] = k0s[n] \/ (k0s[n] = "stopped" /\ k0s'[n] = "starting"),
           UNCHANGED <<last, files, config, home, cluster, broken, commands, faults>>
    PROVE  Kept(m)
  <1>1. Installing(m) /\ files'[m] = files[m] \cup {} /\ {} \cap Roles = {}
    BY StepTells, StepNames DEF Local
  <1>a. /\ Of(m, "join") => ~At(m, "node")
        /\ ~At(m, "config") /\ ~At(m, "record")
        /\ run[m].step \notin {"verify", "configure", "k0s", "charts"}
    BY DEF At, Of
  <1>b. /\ config'[m] = config[m] /\ home'[m] = home[m] /\ last'[m] = last[m]
        /\ m \in broken' <=> m \in broken
    OBVIOUS
  <1>2. /\ Local(m)' /\ run' \in [Machines -> Command] /\ SameCommand(m)
        /\ \A n \in Machines \ {m} : run'[n] = run[n]
        /\ Recorded(m)' => Recorded(m)
    BY <1>1, <1>a, <1>b, AdvanceLocal
  <1>3. TypeOK'
    BY <1>2 DEF TypeOK, cluster
  <1>4. ClusterKept
    BY <1>2 DEF ClusterKept, Recorded, Of, SameCommand, cluster
  <1> QED
    BY <1>2, <1>3, <1>4 DEF Kept, Others

LEMMA WriteSteps ==
    ASSUME TypeOK, NEW m \in Machines, Local(m),
           \/ Initialize(m) \/ WriteK0sConfig(m) \/ ApplyNetworkConfiguration(m)
           \/ SystemdUnits(m) \/ MoveBinary(m) \/ SaveToken(m)
    PROVE  Kept(m)
  <1> Files \ Roles = {"assets", "settings", "k0s.yaml", "services", "k0s binary", "join token"}
    BY DEF Files, Roles
  <1>1. CASE Initialize(m)
    BY <1>1, WriteStep DEF Initialize, At
  <1>2. CASE WriteK0sConfig(m) \/ ApplyNetworkConfiguration(m)
    BY <1>2, WriteStep DEF WriteK0sConfig, ApplyNetworkConfiguration, At
  <1>3. CASE SystemdUnits(m)
    BY <1>3, WriteStep DEF SystemdUnits, At
  <1>4. CASE MoveBinary(m)
    BY <1>4, WriteStep DEF MoveBinary, At
  <1>5. CASE SaveToken(m)
    BY <1>5, WriteStep DEF SaveToken, At
  <1> QED
    BY <1>1, <1>2, <1>3, <1>4, <1>5

LEMMA WaitSteps ==
    ASSUME TypeOK, NEW m \in Machines, Local(m),
           PreflightsPass(m) \/ StartK0s(m) \/ WaitForK0s(m) \/ AddInsecureRegistry(m)
    PROVE  Kept(m)
  <1>1. CASE PreflightsPass(m) \/ WaitForK0s(m)
    <2>1. /\ Advance(m) /\ run[m].step \in {"preflights", "ready"} /\ ~At(m, "node")
          /\ dropin' \in [Machines -> {"none", "v2", "v3"}] /\ k0s' \in [Machines -> Phases]
          /\ \A n \in Machines : k0s'[n] = k0s[n]
          /\ UNCHANGED <<last, files, config, home, cluster, broken, commands, faults>>
      BY <1>1 DEF PreflightsPass, WaitForK0s, At, disk, TypeOK
    <2> QED
      BY <2>1, WaitStep
  <1>2. CASE StartK0s(m)
    <2>1. /\ Advance(m) /\ run[m].step = "start" /\ ~At(m, "node")
          /\ dropin' \in [Machines -> {"none", "v2", "v3"}]
          /\ UNCHANGED <<last, files, config, home, cluster, broken, commands, faults>>
      BY <1>2 DEF StartK0s, At, disk, TypeOK
    <2>2. /\ k0s \in [Machines -> Phases] /\ k0s[m] = "stopped"
          /\ k0s' = [k0s EXCEPT ![m] = "starting"]
      BY <1>2 DEF StartK0s, TypeOK
    <2>3. /\ k0s' \in [Machines -> Phases]
          /\ \A n \in Machines : k0s'[n] = k0s[n] \/ (k0s[n] = "stopped" /\ k0s'[n] = "starting")
      BY <2>2 DEF Phases
    <2> QED
      BY <2>1, <2>3, WaitStep
  <1>3. CASE AddInsecureRegistry(m)
    <2>1. /\ Advance(m) /\ run[m].step = "registry" /\ ~At(m, "node")
          /\ k0s' \in [Machines -> Phases] /\ \A n \in Machines : k0s'[n] = k0s[n]
          /\ UNCHANGED <<last, files, config, home, cluster, broken, commands, faults>>
      BY <1>3 DEF AddInsecureRegistry, At, TypeOK
    <2>2. dropin' \in [Machines -> {"none", "v2", "v3"}]
      BY <1>3 DEF AddInsecureRegistry, TypeOK, Schema
    <2> QED
      BY <2>1, <2>2, WaitStep
  <1> QED
    BY <1>1, <1>2, <1>3

(* A command ends and leaves k0s and the cluster alone.                    *)
LEMMA EndKept ==
    ASSUME TypeOK, NEW m \in Machines, Local(m), NEW event \in SUBSET Events,
           NEW outcome \in {"done", "declined", "failed", "killed",
                            "aborted", "shown", "preflights"},
           End(m, outcome, event), config' \in Torn(m),
           UNCHANGED <<files, dropin, k0s, home, broken, commands>>, faults' \in 0..MaxFaults,
           etcd' = etcd, nodes' = nodes, labelled' = labelled,
           inst' \in [state : {"none", "KubernetesInstalled", "Installed"}, dir : Dir,
                      airgap : BOOLEAN, release : Releases \cup {0}],
           ~Overlap => inst'.dir = inst.dir /\ (inst'.state = "none" <=> inst.state = "none"),
           "Started" \in run[m].events \cup event /\ outcome # "killed"
             => (run[m].events \cup event)
                  \cap {"Succeeded", "Failed", "PreflightsFailed", "Aborted"} # {},
           ~({"PreflightsFailed", "Failed"} \subseteq event)
    PROVE  Kept(m)
  <1>1. /\ Local(m)' /\ Others(m)
        /\ run' \in [Machines -> Command] /\ last' \in [Machines -> Ended]
        /\ config' \in [Machines -> Dir]
        /\ run'[m] = Idle /\ \A n \in Machines \ {m} : run'[n] = run[n]
    BY EndLocal
  <1>2. TypeOK'
    BY <1>1 DEF TypeOK
  <1>3. ClusterKept
    BY <1>1 DEF ClusterKept, Recorded, Of, Idle
  <1> QED
    BY <1>1, <1>2, <1>3 DEF Kept

(* The runtime config is written; a join then compares the versions.       *)
LEMMA ConfigureStep ==
    ASSUME TypeOK, NEW m \in Machines, Local(m), Configure(m)
    PROVE  Kept(m)
  <1>1. Installing(m) /\ At(m, "configure") /\ run[m].dir \in Dir
    BY StepTells, StepNames DEF Local, StepOK, At, Configure, TypeOK, Command
  <1>2. /\ config' = [config EXCEPT ![m] = run[m].dir] /\ config' \in [Machines -> Dir]
        /\ \A n \in Machines \ {m} : config'[n] = config[n]
    BY <1>1 DEF Configure, TypeOK, Dir
  <1>3. UNCHANGED <<files, dropin, k0s, home, cluster, broken, commands, faults>>
    BY DEF Configure
  <1>4. /\ BeforeK0s(m)
        /\ Units(m) # {} => m \in broken
    BY <1>1 DEF BeforeK0s, At, Local, DiskOK
  <1>5. CASE Advance(m) /\ UNCHANGED last
    <2>1. Following(m) = "initialize"
      BY <1>1, FollowingStep, InstallFollows, JoinFollows DEF Local, At, Installing, Of
    <2>2. /\ run' \in [Machines -> Command] /\ run'[m].step = "initialize"
          /\ SameCommand(m) /\ \A n \in Machines \ {m} : run'[n] = run[n]
      BY <1>5, <2>1, GotoEffect, AllSteps DEF Advance
    <2>3. TypeOK'
      BY <1>2, <1>3, <1>5, <2>2 DEF TypeOK, cluster
    <2>4. StepOK(m)'
      BY <1>1, <2>2, StepNames DEF Local, StepOK, SameCommand, Of, Installing
    <2>5. DiskOK(m)'
      BY <1>1, <1>2, <1>3, <1>4, <2>2 DEF TypeOK, Local, DiskOK, SameCommand, Of, Installing,
         At, Units, Configured, K0sConfigured, AfterK0s
    <2>6. EventsOK(m)'
      BY <1>1, <1>5, <2>2 DEF Local, EventsOK, SameCommand, Of, Installing, At
    <2>7. ClusterKept
      BY <1>3, <2>2 DEF ClusterKept, Recorded, Of, SameCommand, cluster
    <2> QED
      BY <1>2, <1>3, <1>5, <2>2, <2>3, <2>4, <2>5, <2>6, <2>7 DEF Kept, Local, Others
  <1>6. CASE End(m, "failed", {"Failed"})
    <2>1. /\ run' \in [Machines -> Command] /\ last' \in [Machines -> Ended] /\ run'[m] = Idle
          /\ last'[m].outcome = "failed" /\ last'[m].events = run[m].events \cup {"Failed"}
          /\ \A n \in Machines \ {m} : run'[n] = run[n] /\ last'[n] = last[n]
      BY <1>6, EndEffect DEF Events
    <2>2. TypeOK'
      BY <1>2, <1>3, <2>1 DEF TypeOK, cluster
    <2>3. StepOK(m)'
      BY <2>1 DEF StepOK, Of, Installing, Idle
    <2>4. DiskOK(m)'
      BY <1>3, <1>4, <2>1 DEF Local, DiskOK, Units, Configured, K0sConfigured, AfterK0s,
         Installing, Of, Idle
    <2>5. EventsOK(m)'
      BY <2>1 DEF Local, EventsOK, Idle
    <2>6. ClusterKept
      BY <1>3, <2>1 DEF ClusterKept, Recorded, Of, Idle, cluster
    <2> QED
      BY <1>2, <1>3, <2>1, <2>2, <2>3, <2>4, <2>5, <2>6 DEF Kept, Local, Others
  <1> QED
    BY <1>5, <1>6 DEF Configure

(* A machine is let in: the units of k0s are not there, unless a reset of  *)
(* it was cut short.                                                       *)
LEMMA VerifyStep ==
    ASSUME TypeOK, NEW m \in Machines, Local(m), Verify(m)
    PROVE  Kept(m)
  <1>1. Installing(m) /\ At(m, "verify")
    BY StepTells, StepNames DEF Local, StepOK, At, Verify
  <1>2. UNCHANGED <<disk, k0s, home, cluster, broken, commands, faults>>
    BY DEF Verify
  <1>3. CASE IsInstalled(m)
    <2> DEFINE event == IF Of(m, "join") THEN {"Failed"} ELSE {}
    <2>1. End(m, "declined", event)
      BY <1>3 DEF Verify
    <2>2. /\ event \in SUBSET Events
          /\ ~Of(m, "join") => run[m].events = {}
          /\ event = {} \/ event = {"Failed"}
          /\ Of(m, "join") => event = {"Failed"}
      BY <1>1 DEF Events, Local, EventsOK, Installing, Of
    <2> HIDE DEF event
    <2>3. /\ "Started" \in run[m].events \cup event
             => (run[m].events \cup event)
                  \cap {"Succeeded", "Failed", "PreflightsFailed", "Aborted"} # {}
          /\ ~({"PreflightsFailed", "Failed"} \subseteq event)
      BY <2>2
    <2> QED
      BY <1>2, <2>1, <2>2, <2>3, EndKept DEF disk, cluster, Torn, TypeOK
  <1>4. CASE ~IsInstalled(m)
    <2> DEFINE s == Following(m)
               d == [run[m] EXCEPT !.step = s, !.events = @ \cup {"Started"}]
    <2>1. s = "configure" /\ s \in Steps
      BY <1>1, FollowingStep, InstallFollows, JoinFollows DEF Local, At, Installing, Of
    <2>2. run' = [run EXCEPT ![m] = d] /\ last' = last /\ run[m] \in Command
      BY <1>4 DEF Verify, TypeOK
    <2> HIDE DEF s
    <2>3. /\ d \in Command /\ d.cmd = run[m].cmd /\ d.role = run[m].role /\ d.step = s
          /\ d.dir = run[m].dir /\ d.events = run[m].events \cup {"Started"}
          /\ d.signal = run[m].signal
      BY <2>1, <2>2 DEF Command, Events
    <2> HIDE DEF d
    <2>4. /\ run' \in [Machines -> Command] /\ run'[m] = d
          /\ \A n \in Machines \ {m} : run'[n] = run[n]
      BY <2>2, <2>3 DEF TypeOK
    <2>5. TypeOK'
      BY <1>2, <2>2, <2>4 DEF TypeOK, disk, cluster
    <2>6. StepOK(m)'
      BY <1>1, <2>1, <2>3, <2>4, StepNames DEF Local, StepOK, Of, Installing
    <2>7. DiskOK(m)'
      BY <1>1, <1>2, <1>4, <2>1, <2>3, <2>4 DEF TypeOK, disk, Local, DiskOK, IsInstalled,
         Of, Installing, At, Units, Configured, K0sConfigured, AfterK0s
    <2>8. EventsOK(m)'
      BY <1>1, <2>1, <2>2, <2>3, <2>4 DEF Local, EventsOK, Of, Installing, At
    <2>9. ClusterKept
      BY <1>2, <2>1, <2>3, <2>4 DEF ClusterKept, Recorded, Of, cluster
    <2> QED
      BY <1>2, <2>2, <2>4, <2>5, <2>6, <2>7, <2>8, <2>9 DEF Kept, Local, Others, disk
  <1> QED
    BY <1>3, <1>4

(* The reports of a failure end what was started.                          *)
LEMMA FailureReported ==
    ASSUME TypeOK, NEW m \in Machines, Local(m), NEW event \in FailureReport(m)
    PROVE  /\ event \in SUBSET Events
           /\ "Started" \in run[m].events \cup event
             => (run[m].events \cup event)
                  \cap {"Succeeded", "Failed", "PreflightsFailed", "Aborted"} # {}
           /\ ~({"PreflightsFailed", "Failed"} \subseteq event)
  <1>1. event = {} \/ event = {"Failed"}
    BY DEF FailureReport
  <1>2. event = {} /\ "Started" \in run[m].events => "Aborted" \in run[m].events
    BY DEF FailureReport, Local, EventsOK
  <1> QED
    BY <1>1, <1>2 DEF Events

LEMMA EndSteps ==
    ASSUME TypeOK, NEW m \in Machines, Local(m),
           GiveUp(m) \/ Fail(m) \/ Kill(m) \/ PromptInterrupted(m) \/ SignalExits(m)
    PROVE  Kept(m)
  <1>1. /\ config \in Torn(m) /\ faults \in 0..MaxFaults
        /\ (faults < MaxFaults /\ faults' = faults + 1) \/ faults' = faults
           => faults' \in 0..MaxFaults
    BY NumbersAssumption DEF Torn, TypeOK
  <1>2. CASE GiveUp(m)
    <2>1. PICK event \in FailureReport(m) : End(m, "failed", event)
      BY <1>2 DEF GiveUp
    <2>2. UNCHANGED <<disk, k0s, home, cluster, broken, commands, faults>>
      BY <1>2 DEF GiveUp
    <2> QED
      BY <1>1, <2>1, <2>2, EndKept, FailureReported DEF disk, cluster, TypeOK
  <1>3. CASE Fail(m)
    <2>1. PICK event \in FailureReport(m) : End(m, "failed", event)
      BY <1>3 DEF Fail
    <2>2. /\ UNCHANGED <<files, dropin, k0s, home, cluster, broken, commands>>
          /\ config' \in Torn(m) /\ faults' \in 0..MaxFaults
      BY <1>1, <1>3 DEF Fail
    <2> QED
      BY <2>1, <2>2, EndKept, FailureReported DEF cluster, TypeOK
  <1>4. CASE Kill(m)
    <2>1. /\ UNCHANGED <<files, dropin, k0s, home, cluster, broken, commands>>
          /\ config' \in Torn(m) /\ faults' \in 0..MaxFaults /\ End(m, "killed", {})
      BY <1>1, <1>4 DEF Kill
    <2> QED
      BY <2>1, EndKept DEF cluster, TypeOK
  <1>5. CASE PromptInterrupted(m)
    <2>1. /\ UNCHANGED <<disk, k0s, home, cluster, broken, commands>>
          /\ faults' \in 0..MaxFaults /\ End(m, "aborted", {"Aborted"})
      BY <1>1, <1>5 DEF PromptInterrupted
    <2> QED
      BY <1>1, <2>1, EndKept DEF disk, cluster, TypeOK, Events
  <1>6. CASE SignalExits(m)
    <2>1. /\ UNCHANGED <<files, dropin, k0s, home, cluster, broken, commands, faults>>
          /\ config' \in Torn(m) /\ End(m, "aborted", {})
      BY <1>6 DEF SignalExits
    <2>2. "Aborted" \in run[m].events
      BY <1>6 DEF SignalExits, Local, EventsOK
    <2> QED
      BY <1>1, <2>1, <2>2, EndKept DEF cluster, TypeOK
  <1> QED
    BY <1>2, <1>3, <1>4, <1>5, <1>6

LEMMA PreflightsFailStep ==
    ASSUME TypeOK, NEW m \in Machines, Local(m), PreflightsFail(m)
    PROVE  Kept(m)
  <1> DEFINE err == Returned(PreflightsError)
             event == {"PreflightsFailed"} \cup IF err.noFail THEN {} ELSE {"Failed"}
             outcome == IF err.shown THEN "shown" ELSE "preflights"
  <1>1. err.noFail = TRUE /\ err.shown = TRUE
    BY DEF Returned, PreflightsError, Expected
  <1>2. event = {"PreflightsFailed"} /\ outcome = "shown"
    BY <1>1
  <1>3. /\ End(m, outcome, event) /\ faults < MaxFaults /\ faults' = faults + 1
        /\ UNCHANGED <<disk, k0s, home, cluster, broken, commands>>
    BY DEF PreflightsFail
  <1> HIDE DEF event, outcome
  <1>4. config \in Torn(m) /\ faults' \in 0..MaxFaults
    BY <1>3, NumbersAssumption DEF Torn, TypeOK
  <1> QED
    BY <1>2, <1>3, <1>4, EndKept DEF disk, cluster, TypeOK, Events

(* The Node is ready: an install goes on, a join is done.                  *)
LEMMA WaitForNodeStep ==
    ASSUME TypeOK, NEW m \in Machines, Local(m), WaitForNode(m)
    PROVE  Kept(m)
  <1>1. run[m].step = "node" /\ UNCHANGED <<disk, k0s, home, cluster, broken, commands, faults>>
    BY DEF WaitForNode, At
  <1>2. CASE Of(m, "install")
    <2>1. Advance(m) /\ UNCHANGED last
      BY <1>2 DEF WaitForNode
    <2>2. /\ dropin' \in [Machines -> {"none", "v2", "v3"}] /\ k0s' \in [Machines -> Phases]
          /\ \A n \in Machines : k0s'[n] = k0s[n]
          /\ UNCHANGED <<last, files, config, home, cluster, broken, commands, faults>>
      BY <1>1, <2>1 DEF disk, TypeOK
    <2> QED
      BY <1>1, <1>2, <2>1, <2>2, WaitStep
  <1>3. CASE ~Of(m, "install")
    <2>1. End(m, "done", {"Succeeded"})
      BY <1>3 DEF WaitForNode
    <2> QED
      BY <1>1, <2>1, EndKept DEF disk, cluster, Torn, TypeOK, Events
  <1> QED
    BY <1>2, <1>3

LEMMA InstallChartsStep ==
    ASSUME TypeOK, NEW m \in Machines, Local(m), InstallCharts(m), ~Overlap => inst.state # "none"
    PROVE  Kept(m)
  <1>1. /\ End(m, "done", {"Succeeded"}) /\ inst' = [inst EXCEPT !.state = "Installed"]
        /\ UNCHANGED <<disk, k0s, home, etcd, nodes, labelled, broken, commands, faults>>
    BY DEF InstallCharts
  <1>2. /\ inst' \in [state : {"none", "KubernetesInstalled", "Installed"}, dir : Dir,
                      airgap : BOOLEAN, release : Releases \cup {0}]
        /\ inst'.dir = inst.dir
    BY <1>1 DEF TypeOK
  <1> QED
    BY <1>1, <1>2, EndKept DEF disk, Torn, TypeOK, Events

(* The signal handler reports, and the command goes on.                    *)
LEMMA SignalCaughtStep ==
    ASSUME TypeOK, NEW m \in Machines, Local(m), SignalCaught(m)
    PROVE  Kept(m)
  <1> DEFINE d == [run[m] EXCEPT !.signal = "caught", !.events = @ \cup {"Aborted"}]
  <1>1. /\ Installing(m) /\ "Started" \in run[m].events
        /\ faults < MaxFaults /\ faults' = faults + 1
        /\ run' = [run EXCEPT ![m] = d] /\ run[m] \in Command
        /\ UNCHANGED <<last, disk, k0s, home, cluster, broken, commands>>
    BY DEF SignalCaught, TypeOK
  <1>2. /\ d \in Command /\ d.cmd = run[m].cmd /\ d.role = run[m].role /\ d.step = run[m].step
        /\ d.dir = run[m].dir /\ d.events = run[m].events \cup {"Aborted"}
    BY <1>1 DEF Command, Events
  <1> HIDE DEF d
  <1>3. /\ run' \in [Machines -> Command] /\ run'[m] = d
        /\ \A n \in Machines \ {m} : run'[n] = run[n]
    BY <1>1, <1>2 DEF TypeOK
  <1>4. TypeOK'
    BY <1>1, <1>3, NumbersAssumption DEF TypeOK, disk, cluster
  <1>5. StepOK(m)'
    BY <1>1, <1>2, <1>3 DEF Local, StepOK, Of, Installing
  <1>6. DiskOK(m)'
    BY <1>1, <1>2, <1>3 DEF Local, DiskOK, disk, Units, Installing, BeforeK0s, Configured,
       K0sConfigured, AfterK0s, Of, At
  <1>7. EventsOK(m)'
    BY <1>1, <1>2, <1>3 DEF Local, EventsOK, Of, Installing, At
  <1>8. ClusterKept
    BY <1>1, <1>2, <1>3 DEF ClusterKept, Recorded, Of, cluster
  <1> QED
    BY <1>1, <1>3, <1>4, <1>5, <1>6, <1>7, <1>8 DEF Kept, Local, Others, disk

-----------------------------------------------------------------------------
(* The steps that change what the machines of a cluster agree on.          *)

(* An API that answers has a member of etcd that runs.                     *)
LEMMA APIHasLive ==
    ASSUME TypeOK, API
    PROVE  Live # {}
  <1> SUFFICES ASSUME Live = {}
               PROVE  FALSE
    OBVIOUS
  <1>1. IsFiniteSet(etcd) /\ Cardinality(etcd) \in Nat
    BY MachinesAssumption, FS_Subset, FS_CardinalityType DEF TypeOK
  <1>2. Cardinality(Live) = 0
    BY FS_EmptySet
  <1> QED
    BY <1>1, <1>2 DEF API

LEMMA APIHasMember ==
    ASSUME TypeOK, API
    PROVE  \E m \in Machines : m \in etcd /\ k0s[m] \in {"joined", "node"}
  BY APIHasLive DEF Live, TypeOK

(* When an install records, its machine is the only one with k0s.          *)
LEMMA RecordInstallationStep ==
    ASSUME IInv, NEW m \in Machines, RecordInstallation(m)
    PROVE  IInv'
  <1>1. /\ At(m, "record") /\ API /\ Advance(m)
        /\ inst' = [state |-> "KubernetesInstalled", dir |-> run[m].dir,
                    airgap |-> run[m].airgap, release |-> run[m].release]
        /\ UNCHANGED <<last, disk, k0s, home, etcd, nodes, labelled, broken, commands, faults>>
    BY DEF RecordInstallation
  <1>2. /\ TypeOK /\ Local(m) /\ LocalInv /\ ClusterInv /\ Of(m, "install")
        /\ run[m] \in Command /\ (~Overlap => run[m].dir \in Dirs)
    <2>1. TypeOK /\ Local(m) /\ LocalInv /\ ClusterInv
      BY DEF IInv, LocalInv
    <2>2. Installing(m)
      BY <1>1, <2>1, StepTells, StepNames DEF Local, At
    <2>3. Of(m, "install")
      BY <1>1, <2>1, <2>2, StepNames DEF Local, StepOK, At, Installing, Of
    <2> QED
      BY <2>1, <2>2, <2>3 DEF TypeOK, Local, StepOK
  <1>3. files'[m] = files[m] \cup {} /\ {} \cap Roles = {}
    BY <1>1 DEF disk
  <1>4. /\ Local(m)' /\ run' \in [Machines -> Command] /\ SameCommand(m)
        /\ \A n \in Machines \ {m} : run'[n] = run[n]
    BY <1>1, <1>2, <1>3, AdvanceLocal DEF At, Of, Installing, disk
  <1>5. inst' \in [state : {"none", "KubernetesInstalled", "Installed"}, dir : Dir,
                   airgap : BOOLEAN, release : Releases \cup {0}]
        /\ inst'.state = "KubernetesInstalled" /\ inst'.dir = run[m].dir
    BY <1>1, <1>2 DEF Command
  <1>6. TypeOK'
    BY <1>1, <1>2, <1>4, <1>5 DEF TypeOK, disk
  <1>7. LocalInv'
    <2>1. Others(m)
      BY <1>1, <1>4 DEF Others, disk
    <2> QED
      BY <1>2, <1>4, <2>1, OthersLocal
  <1>8. ClusterInv'
    <2> SUFFICES ASSUME ~Overlap
                 PROVE  ClusterInv'
      BY DEF ClusterInv
    <2>1. \A n \in Machines \ {m} : k0s[n] = "none" /\ run[n].cmd = "none"
      BY <1>2 DEF ClusterInv, Of
    <2>2. k0s[m] \in {"joined", "node"}
      BY <1>1, <1>2, <2>1, APIHasMember
    <2>3. home[m].dir = run[m].dir
      BY <1>1, <1>2 DEF Local, DiskOK, AfterK0s, At
    <2>4. run'[m].cmd = "install" /\ \A n \in Machines \ {m} : run'[n].cmd = "none"
      BY <1>2, <1>4, <2>1 DEF SameCommand, Of
    <2> QED
      BY <1>1, <1>2, <1>5, <2>1, <2>2, <2>3, <2>4 DEF ClusterInv, Of, Recorded, disk
  <1> QED
    BY <1>6, <1>7, <1>8 DEF IInv

(* The unit of k0s is installed where the runtime config says and the      *)
(* configuration of k0s is written.                                        *)
LEMMA K0sInstallStep ==
    ASSUME IInv, NEW m \in Machines, InstallK0s(m) \/ RunK0sInstallCommand(m)
    PROVE  IInv'
  <1> DEFINE first == Of(m, "install")
             h == [dir |-> run[m].dir, role |-> run[m].role,
                   release |-> run[m].release, first |-> first]
  <1>1. /\ At(m, "k0s") /\ Write(m, {run[m].role})
        /\ k0s' = [k0s EXCEPT ![m] = "stopped"]
        /\ home' = [home EXCEPT ![m] = h]
        /\ Advance(m)
        /\ UNCHANGED <<last, config, dropin, cluster, broken, commands, faults>>
    BY DEF InstallK0s, RunK0sInstallCommand, K0sInstall, Of
  <1>2. /\ TypeOK /\ Local(m) /\ LocalInv /\ ClusterInv /\ run[m] \in Command
        /\ Installing(m) /\ run[m].role \in Roles
    <2>1. TypeOK /\ Local(m) /\ LocalInv /\ ClusterInv
      BY DEF IInv, LocalInv
    <2>2. Installing(m)
      BY <1>1, <2>1, StepTells, StepNames DEF Local, At
    <2> QED
      BY <2>1, <2>2 DEF TypeOK, Local, StepOK, Installing, Of, Roles
  <1>3. /\ h \in [dir : Dir, role : Roles, release : Releases \cup {0}, first : BOOLEAN]
        /\ h.dir = run[m].dir /\ h.first = first
    BY <1>2 DEF Command, Of
  <1> HIDE DEF h
  <1>4. /\ home' \in [Machines -> [dir : Dir, role : Roles, release : Releases \cup {0},
                                   first : BOOLEAN]]
        /\ home'[m] = h /\ \A n \in Machines \ {m} : home'[n] = home[n]
    BY <1>1, <1>2, <1>3 DEF TypeOK
  <1>5. /\ files' \in [Machines -> SUBSET Files] /\ files'[m] = files[m] \cup {run[m].role}
        /\ \A n \in Machines \ {m} : files'[n] = files[n]
    BY ZenonT(60), <1>1, <1>2 DEF TypeOK, Write, Files
  <1>6. /\ k0s' \in [Machines -> Phases] /\ k0s'[m] = "stopped"
        /\ \A n \in Machines \ {m} : k0s'[n] = k0s[n]
    BY <1>1, <1>2 DEF TypeOK, Phases
  <1>7. Following(m) = "start"
    BY <1>1, <1>2, FollowingStep, InstallFollows, JoinFollows DEF Local, At, Installing, Of
  <1>8. /\ run' \in [Machines -> Command] /\ run'[m].step = "start"
        /\ SameCommand(m) /\ \A n \in Machines \ {m} : run'[n] = run[n]
    BY <1>1, <1>2, <1>7, GotoEffect, AllSteps DEF Advance
  <1>9. TypeOK'
    BY <1>1, <1>2, <1>4, <1>5, <1>6, <1>8 DEF TypeOK, cluster
  <1>10. Local(m)'
    <2>1. StepOK(m)'
      BY <1>2, <1>8, StepNames DEF Local, StepOK, SameCommand, Of, Installing
    <2>2. "k0s.yaml" \in files[m] /\ config[m] = run[m].dir /\ (~Overlap => run[m].dir \in Dirs)
      BY <1>1, <1>2 DEF Local, StepOK, DiskOK, K0sConfigured, Configured, BeforeK0s, At
    <2>3. DiskOK(m)'
      BY <1>1, <1>2, <1>3, <1>4, <1>5, <1>8, <2>2 DEF DiskOK, SameCommand, Of, Installing, At,
         BeforeK0s, Units, Configured, K0sConfigured, AfterK0s
    <2>4. EventsOK(m)'
      BY <1>1, <1>2, <1>8 DEF Local, EventsOK, SameCommand, Of, Installing, At
    <2> QED
      BY <2>1, <2>3, <2>4 DEF Local
  <1>11. LocalInv'
    <2>1. Others(m)
      BY <1>1, <1>4, <1>5, <1>8 DEF Others
    <2> QED
      BY <1>2, <1>10, <2>1, OthersLocal
  <1>12. ClusterInv'
    <2> SUFFICES ASSUME ~Overlap
                 PROVE  ClusterInv'
      BY DEF ClusterInv
    <2>1. /\ \A n \in Machines \ {m} : run[n].cmd = "none" /\ run'[n].cmd = "none"
          /\ run'[m].cmd = run[m].cmd /\ run'[m].dir = run[m].dir /\ run[m].cmd # "none"
      BY <1>2, <1>8 DEF ClusterInv, Installing, SameCommand
    <2>2. inst' = inst /\ ~Recorded(m)'
      BY <1>1, <1>8 DEF cluster, Recorded
    <2>3. ~first /\ inst.state # "none" => h.dir = inst.dir
      BY <1>2, <1>3 DEF ClusterInv, Installing, Of
    <2> QED
      BY <1>2, <1>3, <1>4, <1>6, <2>1, <2>2, <2>3 DEF ClusterInv, Of, Recorded
  <1> QED
    BY <1>9, <1>11, <1>12 DEF IInv

(* A command begins.                                                       *)
LEMMA BeginEffect ==
    ASSUME TypeOK, NEW m \in Machines, NEW command \in Command, Begin(m, command)
    PROVE  /\ TypeOK' /\ run[m] = Idle
           /\ ~Overlap => \A n \in Machines : run[n] = Idle
           /\ run'[m] = command /\ \A n \in Machines \ {m} : run'[n] = run[n]
           /\ last'[m].outcome = "none" /\ last'[m].events = {}
           /\ \A n \in Machines \ {m} : last'[n] = last[n]
           /\ UNCHANGED <<disk, k0s, home, cluster, broken>>
  <1> DEFINE e == [NoEnd EXCEPT !.clean = last[m].clean]
  <1>1. /\ run' = [run EXCEPT ![m] = command] /\ last' = [last EXCEPT ![m] = e]
        /\ commands < MaxCommands /\ commands' = commands + 1
        /\ UNCHANGED <<disk, k0s, home, cluster, broken, faults>>
        /\ run[m] = Idle
        /\ ~Overlap => \A n \in Machines : run[n] = Idle
    BY DEF Begin, Free
  <1>2. e \in Ended /\ e.outcome = "none" /\ e.events = {}
    BY DEF TypeOK, Ended, NoEnd, Cmds, Roles, Events
  <1> HIDE DEF e
  <1>3. /\ run' \in [Machines -> Command] /\ run'[m] = command
        /\ \A n \in Machines \ {m} : run'[n] = run[n]
    BY <1>1 DEF TypeOK
  <1>4. /\ last' \in [Machines -> Ended] /\ last'[m] = e
        /\ \A n \in Machines \ {m} : last'[n] = last[n]
    BY <1>1, <1>2 DEF TypeOK
  <1>5. TypeOK'
    BY <1>1, <1>3, <1>4, NumbersAssumption DEF TypeOK, disk, cluster
  <1> QED
    BY <1>1, <1>2, <1>3, <1>4, <1>5

LEMMA BeginLocal ==
    ASSUME TypeOK, LocalInv, NEW m \in Machines, NEW command \in Command, Begin(m, command),
           \/ /\ command.cmd = "install" /\ command.step = "verify"
              /\ command.role = "controller" /\ command.events = {}
           \/ /\ command.cmd = "join" /\ command.step = "verify"
              /\ command.role \in Roles /\ command.events = {"Started"}
           \/ command.cmd = "reset" /\ command.step = "runtime" /\ command.events = {},
           command.signal = "none",
           command.cmd # "reset" /\ ~Overlap => command.dir \in Dirs
    PROVE  LocalInv'
  <1>1. /\ run'[m] = command /\ \A n \in Machines \ {m} : run'[n] = run[n]
        /\ last'[m].outcome = "none" /\ last'[m].events = {}
        /\ \A n \in Machines \ {m} : last'[n] = last[n]
        /\ UNCHANGED <<disk, k0s, home, cluster, broken>>
    BY BeginEffect
  <1>2. Local(m)
    BY DEF LocalInv
  <1>3. StepOK(m)'
    BY <1>1, StepNames DEF StepOK, Of, Installing, ResetSteps, ResetLooks
  <1>4. DiskOK(m)'
    <2>1. "runtime" \notin ResetLeaves \cup ResetEnds
      BY DEF ResetLeaves, ResetEnds
    <2> QED
      BY <1>1, <1>2, <2>1 DEF Local, DiskOK, disk, Units, Of, Installing, BeforeK0s, Configured,
         K0sConfigured, AfterK0s, At
  <1>5. EventsOK(m)'
    BY <1>1 DEF EventsOK, Of, Installing, At
  <1>6. Others(m)
    BY <1>1 DEF Others, disk
  <1> QED
    BY <1>3, <1>4, <1>5, <1>6, OthersLocal DEF Local

LEMMA StartStep ==
    ASSUME IInv, NEW m \in Machines, Start(m)
    PROVE  IInv'
  <1>0. TypeOK /\ LocalInv /\ ClusterInv
    BY DEF IInv
  <1>1. ASSUME NEW dir \in Dirs, NEW release \in Releases, NEW airgap \in AirGaps,
               StartInstall(m, dir, release, airgap)
        PROVE  IInv'
    <2> DEFINE c == [Idle EXCEPT !.cmd = "install", !.step = "verify", !.dir = dir,
                                 !.release = release, !.airgap = airgap]
    <2>1. Begin(m, c) /\ \A n \in Machines \ {m} : k0s[n] = "none"
      BY <1>1 DEF StartInstall
    <2>2. /\ c \in Command /\ c.cmd = "install" /\ c.step = "verify" /\ c.role = "controller"
          /\ c.events = {} /\ c.signal = "none" /\ c.dir = dir
      BY StepNames, FlagsAssumption DEF Idle, Command, Cmds, Dir, Roles, Events, Steps
    <2> HIDE DEF c
    <2>3. LocalInv'
      BY <1>0, <2>1, <2>2, BeginLocal
    <2>4. /\ TypeOK' /\ run'[m] = c /\ \A n \in Machines \ {m} : run'[n] = run[n]
          /\ ~Overlap => \A n \in Machines : run[n] = Idle
          /\ UNCHANGED <<disk, k0s, home, cluster, broken>>
      BY <1>0, <2>1, <2>2, BeginEffect
    <2>5. ClusterInv'
      BY <1>0, <2>1, <2>2, <2>4 DEF ClusterInv, Of, Recorded, Idle, cluster
    <2> QED
      BY <2>3, <2>4, <2>5 DEF IInv
  <1>2. ASSUME NEW role \in Roles, NEW release \in Releases, StartJoin(m, role, release)
        PROVE  IInv'
    <2> DEFINE c == [Idle EXCEPT !.cmd = "join", !.step = "verify", !.role = role,
                                 !.dir = inst.dir, !.release = release,
                                 !.airgap = inst.airgap, !.events = {"Started"}]
    <2>1. Begin(m, c) /\ inst.state # "none"
      BY <1>2 DEF StartJoin
    <2>2. /\ c \in Command /\ c.cmd = "join" /\ c.step = "verify" /\ c.role = role
          /\ c.events = {"Started"} /\ c.signal = "none" /\ c.dir = inst.dir
      BY ZenonT(60), <1>0, StepNames DEF TypeOK, Idle, Command, Cmds, Roles, Events, Steps
    <2> HIDE DEF c
    <2>3. ~Overlap => inst.dir \in Dirs
      BY <1>0, <2>1 DEF ClusterInv
    <2>4. LocalInv'
      BY <1>0, <2>1, <2>2, <2>3, BeginLocal
    <2>5. /\ TypeOK' /\ run'[m] = c /\ \A n \in Machines \ {m} : run'[n] = run[n]
          /\ ~Overlap => \A n \in Machines : run[n] = Idle
          /\ UNCHANGED <<disk, k0s, home, cluster, broken>>
      BY <1>0, <2>1, <2>2, BeginEffect
    <2>6. ClusterInv'
      BY <1>0, <2>1, <2>2, <2>5 DEF ClusterInv, Of, Recorded, Idle, cluster
    <2> QED
      BY <2>4, <2>5, <2>6 DEF IInv
  <1>3. ASSUME NEW force \in BOOLEAN, NEW yes \in BOOLEAN, StartReset(m, force, yes)
        PROVE  IInv'
    <2> DEFINE c == [Idle EXCEPT !.cmd = "reset", !.step = "runtime", !.force = force,
                                 !.yes = yes]
    <2>1. Begin(m, c)
      BY <1>3 DEF StartReset
    <2>2. /\ c \in Command /\ c.cmd = "reset" /\ c.step = "runtime"
          /\ c.events = {} /\ c.signal = "none"
      BY ZenonT(60), IdleIsCommand DEF Idle, Command, Cmds, Roles, Steps, ResetSteps, ResetLooks
    <2> HIDE DEF c
    <2>3. LocalInv'
      BY <1>0, <2>1, <2>2, BeginLocal
    <2>4. /\ TypeOK' /\ run'[m] = c /\ \A n \in Machines \ {m} : run'[n] = run[n]
          /\ ~Overlap => \A n \in Machines : run[n] = Idle
          /\ UNCHANGED <<disk, k0s, home, cluster, broken>>
      BY <1>0, <2>1, <2>2, BeginEffect
    <2>5. ClusterInv'
      BY <1>0, <2>1, <2>2, <2>4 DEF ClusterInv, Of, Recorded, Idle, cluster
    <2> QED
      BY <2>3, <2>4, <2>5 DEF IInv
  <1> QED
    BY <1>1, <1>2, <1>3 DEF Start

(* k0s goes on by itself.                                                  *)
LEMMA EnvironmentStep ==
    ASSUME IInv, NEW m \in Machines, Environment(m)
    PROVE  IInv'
  <1>0. TypeOK /\ LocalInv /\ ClusterInv
    BY DEF IInv
  <1>1. UNCHANGED <<run, last, disk, home, broken, commands, faults>>
    BY DEF Environment, K0sStartsCluster, K0sJoins, NodeRegisters, NodeIsLabelled
  <1>2. LocalInv'
    <2>1. Others(m) /\ Local(m)
      BY <1>0, <1>1 DEF Others, disk, LocalInv
    <2>2. Local(m)'
      BY <1>1, <2>1 DEF Local, StepOK, DiskOK, EventsOK, disk, Units, Of, Installing, BeforeK0s,
         Configured, K0sConfigured, AfterK0s, At
    <2> QED
      BY <1>0, <2>1, <2>2, OthersLocal
  <1>3. CASE K0sStartsCluster(m)
    <2>1. /\ k0s[m] = "starting" /\ etcd' = {m} /\ nodes' = {} /\ labelled' = {}
          /\ inst' = NoInstallation /\ k0s' = [k0s EXCEPT ![m] = "joined"]
      BY <1>3 DEF K0sStartsCluster
    <2>2. /\ k0s' \in [Machines -> Phases]
          /\ \A n \in Machines \ {m} : k0s'[n] = k0s[n]
      BY <1>0, <2>1 DEF TypeOK, Phases
    <2>3. inst'.state = "none" /\ inst' \in [state : {"none", "KubernetesInstalled", "Installed"},
                   dir : Dir, airgap : BOOLEAN, release : Releases \cup {0}]
      BY <2>1 DEF NoInstallation, Dir
    <2>4. TypeOK'
      BY <1>0, <1>1, <2>1, <2>2, <2>3 DEF TypeOK, disk
    <2>5. \A n \in Machines : ~Overlap => ~Recorded(n)
      BY <1>0, <2>1 DEF ClusterInv, Recorded
    <2>6. ClusterInv'
      BY <1>0, <1>1, <2>1, <2>2, <2>3, <2>5 DEF ClusterInv, Of, Recorded
    <2> QED
      BY <1>2, <2>4, <2>6 DEF IInv
  <1>4. CASE K0sJoins(m)
    <2>1. /\ k0s[m] = "starting" /\ ~home[m].first
          /\ etcd' \subseteq etcd \cup {m} /\ UNCHANGED <<nodes, labelled, inst>>
          /\ k0s' = [k0s EXCEPT ![m] = "joined"]
      BY <1>4 DEF K0sJoins
    <2>2. /\ k0s' \in [Machines -> Phases] /\ k0s'[m] = "joined"
          /\ \A n \in Machines \ {m} : k0s'[n] = k0s[n]
      BY <1>0, <2>1 DEF TypeOK, Phases
    <2>3. TypeOK'
      BY <1>0, <1>1, <2>1, <2>2 DEF TypeOK, disk
    <2>4. ClusterInv'
      BY <1>0, <1>1, <2>1, <2>2 DEF ClusterInv, Of, Recorded
    <2> QED
      BY <1>2, <2>3, <2>4 DEF IInv
  <1>5. CASE NodeRegisters(m) \/ NodeIsLabelled(m)
    <2>1. /\ UNCHANGED <<etcd, inst>> /\ labelled' \subseteq nodes' /\ nodes' \subseteq Machines
          /\ \/ k0s[m] = "joined" /\ k0s' = [k0s EXCEPT ![m] = "node"]
             \/ k0s' = k0s
      BY <1>0, <1>5 DEF TypeOK, NodeRegisters, NodeIsLabelled
    <2>2. /\ k0s' \in [Machines -> Phases]
          /\ \A n \in Machines : \/ k0s'[n] = k0s[n]
                                 \/ k0s[n] = "joined" /\ k0s'[n] = "node"
      BY <1>0, <2>1 DEF TypeOK, Phases
    <2>3. TypeOK'
      BY <1>0, <1>1, <2>1, <2>2 DEF TypeOK, disk
    <2>4. ClusterInv'
      BY <1>0, <1>1, <2>1, <2>2 DEF ClusterInv, Of, Recorded
    <2> QED
      BY <1>2, <2>3, <2>4 DEF IInv
  <1> QED
    BY <1>3, <1>4, <1>5 DEF Environment

-----------------------------------------------------------------------------
(* The steps of reset.                                                     *)

LEMMA ResetStepNames ==
    /\ ResetSteps = {"runtime", "warning", "host", "safety", "count", "delete node",
                     "control node", "leave", "k0s reset", "firewalld", "remove k0s.yaml",
                     "remove services", "remove units", "remove home", "remove binary",
                     "remove config", "remove settings", "reboot"}
    /\ ResetSteps \subseteq Steps
  BY DEF ResetSteps, ResetLooks, ResetLeaves, ResetEnds, Steps

(* A reset fails, is declined or finds that it is not safe.                *)
LEMMA ResetGivesUp ==
    ASSUME TypeOK, NEW m \in Machines, Local(m), Of(m, "reset"),
           NEW outcome \in {"declined", "failed"}, End(m, outcome, {}),
           UNCHANGED <<disk, k0s, home, cluster, broken, commands>>, faults' \in 0..MaxFaults
    PROVE  Kept(m)
  <1>1. run[m].events = {} /\ {} \in SUBSET Events
    BY DEF Local, EventsOK, Installing, Of
  <1>2. config' \in Torn(m) /\ inst' \in [state : {"none", "KubernetesInstalled", "Installed"},
                   dir : Dir, airgap : BOOLEAN, release : Releases \cup {0}]
    BY DEF disk, cluster, Torn, TypeOK
  <1> QED
    BY <1>1, <1>2, EndKept DEF disk, cluster

(* A reset goes on to another look at the machine.                         *)
LEMMA LookStep ==
    ASSUME TypeOK, NEW m \in Machines, Local(m), Of(m, "reset"),
           NEW d \in Command, run' = [run EXCEPT ![m] = d],
           d.cmd = "reset", d.step \in ResetLooks,
           d.events = run[m].events, d.signal = run[m].signal,
           UNCHANGED <<last, disk, k0s, home, cluster, broken, commands, faults>>
    PROVE  Kept(m)
  <1>1. /\ run' \in [Machines -> Command] /\ run'[m] = d
        /\ \A n \in Machines \ {m} : run'[n] = run[n]
    BY DEF TypeOK
  <1>2. Local(m)'
    BY <1>1, ResetLocal DEF disk, ResetSteps
  <1>3. TypeOK'
    BY <1>1 DEF TypeOK, disk, cluster
  <1>4. ClusterKept
    BY <1>1 DEF ClusterKept, Recorded, Of, cluster
  <1> QED
    BY <1>1, <1>2, <1>3, <1>4 DEF Kept, Others, disk

(* A reset goes on and cleans the machine.                                 *)
LEMMA CleanStep ==
    ASSUME TypeOK, NEW m \in Machines, Local(m), Of(m, "reset"),
           NEW d \in Command, run' = [run EXCEPT ![m] = d],
           d.cmd = "reset", d.step \in ResetSteps,
           d.events = run[m].events, d.signal = run[m].signal,
           files' \in [Machines -> SUBSET Files],
           d.step \in ResetEnds => files'[m] \cap Roles = {},
           config' \in [Machines -> Dir], k0s' \in [Machines -> Phases],
           \A n \in Machines \ {m} : /\ files'[n] = files[n] /\ config'[n] = config[n]
                                     /\ k0s'[n] = k0s[n] /\ (n \in broken' <=> n \in broken),
           k0s'[m] = k0s[m] \/ k0s'[m] = "none" \/ (Up(m) /\ k0s'[m] = "halted"),
           m \in broken', broken' \subseteq Machines,
           etcd' \subseteq Machines, nodes' \subseteq Machines, labelled' \subseteq nodes',
           inst' = inst \/ inst' = NoInstallation, faults' \in 0..MaxFaults,
           UNCHANGED <<last, dropin, home, commands>>
    PROVE  Kept(m)
  <1>1. /\ run' \in [Machines -> Command] /\ run'[m] = d
        /\ \A n \in Machines \ {m} : run'[n] = run[n]
    BY DEF TypeOK
  <1>2. Local(m)'
    BY <1>1, ResetLocal DEF ResetSteps
  <1>3. inst' \in [state : {"none", "KubernetesInstalled", "Installed"}, dir : Dir,
                   airgap : BOOLEAN, release : Releases \cup {0}]
    <2>1. NoInstallation \in [state : {"none", "KubernetesInstalled", "Installed"}, dir : Dir,
                              airgap : BOOLEAN, release : Releases \cup {0}]
      BY DEF NoInstallation, Dir
    <2> QED
      BY <2>1 DEF TypeOK
  <1>4. TypeOK'
    BY <1>1, <1>3 DEF TypeOK
  <1>5. ClusterKept
    <2>1. NoInstallation.state = "none"
      BY DEF NoInstallation
    <2>2. /\ k0s'[m] # "none" => k0s[m] # "none"
          /\ k0s'[m] \in {"joined", "node"} => k0s[m] \in {"joined", "node"}
      BY DEF Up
    <2> QED
      BY <1>1, <2>1, <2>2 DEF ClusterKept, Recorded, Of
  <1> QED
    BY <1>1, <1>2, <1>4, <1>5 DEF Kept, Others

LEMMA LookSteps ==
    ASSUME TypeOK, NEW m \in Machines, Local(m),
           Runtime(m) \/ Warning(m) \/ HostInfo(m) \/ Safety(m)
    PROVE  Kept(m)
  <1>0. /\ Of(m, "reset") /\ run[m] \in Command /\ ResetLooks \subseteq Steps
        /\ faults \in 0..MaxFaults
    BY StepTells, ResetStepNames
       DEF TypeOK, Local, At, Runtime, Warning, HostInfo, Safety, ResetSteps
  <1>1. CASE Runtime(m)
    <2> DEFINE d == [run[m] EXCEPT !.step = "warning", !.dir = BestDir(m)]
    <2>1. /\ run' = [run EXCEPT ![m] = d]
          /\ UNCHANGED <<last, disk, k0s, home, cluster, broken, commands, faults>>
      BY <1>1 DEF Runtime
    <2>2. BestDir(m) \in Dir
      BY DirsAssumption DEF BestDir, TypeOK, Dir
    <2>3. /\ d \in Command /\ d.cmd = run[m].cmd /\ d.step = "warning"
          /\ d.events = run[m].events /\ d.signal = run[m].signal
      BY <1>0, <2>2 DEF Command, ResetLooks
    <2> HIDE DEF d
    <2> QED
      BY <1>0, <2>1, <2>3, LookStep DEF Of, ResetLooks
  <1>2. ASSUME NEW s \in ResetLooks, Goto(m, s), UNCHANGED last,
               UNCHANGED <<disk, k0s, home, cluster, broken, commands, faults>>
        PROVE  Kept(m)
    <2> DEFINE d == [run[m] EXCEPT !.step = s]
    <2>1. run' = [run EXCEPT ![m] = d]
      BY <1>2 DEF Goto
    <2>2. /\ d \in Command /\ d.cmd = run[m].cmd /\ d.step = s
          /\ d.events = run[m].events /\ d.signal = run[m].signal
      BY <1>0, StepOfCommand
    <2> HIDE DEF d
    <2> QED
      BY <1>0, <1>2, <2>1, <2>2, LookStep DEF Of
  <1>3. ASSUME NEW outcome \in {"declined", "failed"}, End(m, outcome, {}),
               UNCHANGED <<disk, k0s, home, cluster, broken, commands, faults>>
        PROVE  Kept(m)
    BY <1>0, <1>3, ResetGivesUp
  <1>4. CASE Warning(m)
    <2>1. "host" \in ResetLooks
      BY DEF ResetLooks
    <2>2. ASSUME Goto(m, "host"), UNCHANGED last,
                 UNCHANGED <<disk, k0s, home, cluster, broken, commands, faults>>
          PROVE  Kept(m)
      BY ZenonT(60), <1>2, <2>1, <2>2
    <2> QED
      BY <1>3, <1>4, <2>2 DEF Warning
  <1>5. CASE HostInfo(m)
    <2>1. ASSUME NEW role \in Roles \cup {"unknown"},
                 NEW node \in {"unknown", "error", "missing", "found"}, NEW s \in ResetLooks,
                 run' = [run EXCEPT ![m].step = s, ![m].role = role, ![m].node = node],
                 UNCHANGED <<last, disk, k0s, home, cluster, broken, commands, faults>>
          PROVE  Kept(m)
      <3> DEFINE d == [run[m] EXCEPT !.step = s, !.role = role, !.node = node]
      <3>1. run' = [run EXCEPT ![m] = d]
        BY <2>1
      <3>2. /\ d \in Command /\ d.cmd = run[m].cmd /\ d.step = s
            /\ d.events = run[m].events /\ d.signal = run[m].signal
        BY <1>0 DEF Command
      <3> HIDE DEF d
      <3> QED
        BY <1>0, <2>1, <3>1, <3>2, LookStep DEF Of
    <2>2. ASSUME run' = [run EXCEPT ![m].step = "count", ![m].role = "unknown"],
                 UNCHANGED <<last, disk, k0s, home, cluster, broken, commands, faults>>
          PROVE  Kept(m)
      <3> DEFINE d == [run[m] EXCEPT !.step = "count", !.role = "unknown"]
      <3>1. run' = [run EXCEPT ![m] = d]
        BY <2>2
      <3>2. /\ d \in Command /\ d.cmd = run[m].cmd /\ d.step = "count"
            /\ d.events = run[m].events /\ d.signal = run[m].signal
        BY <1>0 DEF Command, ResetLooks
      <3> HIDE DEF d
      <3> QED
        BY <1>0, <2>2, <3>1, <3>2, LookStep DEF Of, ResetLooks
    <2>3. UNCHANGED <<disk, k0s, home, cluster, broken, commands, faults>>
      BY <1>5 DEF HostInfo
    <2>4. \/ End(m, "failed", {})
          \/ UNCHANGED last /\ run' = [run EXCEPT ![m].step = "count", ![m].role = "unknown"]
          \/ /\ UNCHANGED last
             /\ \E node \in {"error", "missing", "found"} :
                   run' = [run EXCEPT ![m].step = "safety", ![m].role = home[m].role,
                                      ![m].node = node]
      BY <1>5 DEF HostInfo
    <2>5. home[m].role \in Roles \cup {"unknown"} /\ "safety" \in ResetLooks
      BY DEF TypeOK, ResetLooks
    <2> QED
      BY <1>3, <2>1, <2>2, <2>3, <2>4, <2>5
  <1>6. CASE Safety(m)
    BY <1>2, <1>3, <1>6 DEF Safety, ResetLooks
  <1> QED
    BY <1>1, <1>4, <1>5, <1>6

(* A step that cleans leaves the command at the next step, and perhaps     *)
(* marks that something was only warned about.                             *)
GoesOn(m, s) == run' = [run EXCEPT ![m].step = s]
                \/ run' = [run EXCEPT ![m].step = s, ![m].tolerated = TRUE]

LEMMA CleanGoto ==
    ASSUME TypeOK, NEW m \in Machines, Local(m), Of(m, "reset"),
           NEW s \in ResetSteps, GoesOn(m, s),
           files' \in [Machines -> SUBSET Files],
           s \in ResetEnds => files'[m] \cap Roles = {},
           config' \in [Machines -> Dir], k0s' \in [Machines -> Phases],
           \A n \in Machines \ {m} : /\ files'[n] = files[n] /\ config'[n] = config[n]
                                     /\ k0s'[n] = k0s[n] /\ (n \in broken' <=> n \in broken),
           k0s'[m] = k0s[m] \/ k0s'[m] = "none" \/ (Up(m) /\ k0s'[m] = "halted"),
           m \in broken', broken' \subseteq Machines,
           etcd' \subseteq Machines, nodes' \subseteq Machines, labelled' \subseteq nodes',
           inst' = inst \/ inst' = NoInstallation, faults' \in 0..MaxFaults,
           UNCHANGED <<last, dropin, home, commands>>
    PROVE  Kept(m)
  <1>1. run[m] \in Command /\ s \in Steps /\ run[m].cmd = "reset"
    BY ResetStepNames DEF TypeOK, Of
  <1>2. PICK d \in Command : /\ run' = [run EXCEPT ![m] = d]
                             /\ d.cmd = "reset" /\ d.step = s
                             /\ d.events = run[m].events /\ d.signal = run[m].signal
    <2>1. CASE run' = [run EXCEPT ![m].step = s]
      <3> DEFINE d == [run[m] EXCEPT !.step = s]
      <3>1. /\ d \in Command /\ d.cmd = "reset" /\ d.step = s
            /\ d.events = run[m].events /\ d.signal = run[m].signal
        BY <1>1, StepOfCommand
      <3>2. run' = [run EXCEPT ![m] = d]
        BY <2>1
      <3> HIDE DEF d
      <3> QED
        BY <3>1, <3>2
    <2>2. CASE run' = [run EXCEPT ![m].step = s, ![m].tolerated = TRUE]
      <3> DEFINE d == [run[m] EXCEPT !.step = s, !.tolerated = TRUE]
      <3>1. /\ d \in Command /\ d.cmd = "reset" /\ d.step = s
            /\ d.events = run[m].events /\ d.signal = run[m].signal
        BY <1>1 DEF Command
      <3>2. run' = [run EXCEPT ![m] = d]
        BY <2>2
      <3> HIDE DEF d
      <3> QED
        BY <3>1, <3>2
    <2> QED
      BY <2>1, <2>2 DEF GoesOn
  <1> QED
    BY <1>2, CleanStep

(* At a step that cleans, what the command counts on.                      *)
LEMMA CleanBefore ==
    ASSUME TypeOK, NEW m \in Machines, Local(m), run[m].step \in ResetSteps
    PROVE  /\ Of(m, "reset")
           /\ run[m].step \notin ResetLooks => m \in broken
           /\ run[m].step \in ResetEnds => files[m] \cap Roles = {}
  BY StepTells DEF Local, DiskOK, Units, ResetSteps

(* What is not touched keeps what CleanGoto asks of it.                    *)
LEMMA Untouched ==
    ASSUME TypeOK, NEW m \in Machines
    PROVE  /\ UNCHANGED files => /\ files' \in [Machines -> SUBSET Files]
                                 /\ files'[m] = files[m]
                                 /\ \A n \in Machines \ {m} : files'[n] = files[n]
           /\ UNCHANGED config => /\ config' \in [Machines -> Dir]
                                  /\ \A n \in Machines \ {m} : config'[n] = config[n]
           /\ UNCHANGED k0s => /\ k0s' \in [Machines -> Phases]
                               /\ k0s'[m] = k0s[m]
                               /\ \A n \in Machines \ {m} : k0s'[n] = k0s[n]
           /\ UNCHANGED broken => /\ broken' \subseteq Machines
                                  /\ \A n \in Machines : n \in broken' <=> n \in broken
           /\ UNCHANGED cluster => /\ etcd' \subseteq Machines /\ nodes' \subseteq Machines
                                   /\ labelled' \subseteq nodes' /\ inst' = inst
           /\ UNCHANGED faults => faults' \in 0..MaxFaults
           /\ faults < MaxFaults /\ faults' = faults + 1 => faults' \in 0..MaxFaults
  BY NumbersAssumption DEF TypeOK, cluster

LEMMA CountStep ==
    ASSUME TypeOK, NEW m \in Machines, Local(m), Count(m)
    PROVE  Kept(m)
  <1>1. /\ run[m].step = "count" /\ broken' = broken \cup {m}
        /\ UNCHANGED <<last, disk, k0s, home, cluster, commands, faults>>
        /\ GoesOn(m, "k0s reset") \/ GoesOn(m, "delete node")
    BY DEF Count, At, Goto, GoesOn
  <1>2. /\ "k0s reset" \in ResetSteps \ ResetEnds /\ "delete node" \in ResetSteps \ ResetEnds
        /\ run[m].step \in ResetSteps
    BY <1>1, ResetStepNames DEF ResetEnds
  <1>3. /\ broken' \subseteq Machines /\ m \in broken'
        /\ \A n \in Machines \ {m} : n \in broken' <=> n \in broken
    BY <1>1 DEF TypeOK
  <1> QED
    BY <1>1, <1>2, <1>3, CleanBefore, Untouched, CleanGoto DEF disk

(* A step of the cluster's side: Nodes and members change, no disk does.   *)
LEMMA LeaveSteps ==
    ASSUME TypeOK, NEW m \in Machines, Local(m),
           DeleteNode(m) \/ DeleteControlNode(m) \/ LeaveEtcd(m)
    PROVE  Kept(m)
  <1>1. /\ UNCHANGED <<disk, k0s, home, inst, broken, commands>>
        /\ run[m].step \in {"delete node", "control node", "leave"}
    BY DEF DeleteNode, DeleteControlNode, LeaveEtcd, cluster, At
  <1>2. /\ Of(m, "reset") /\ m \in broken
        /\ {"control node", "leave", "k0s reset"} \subseteq ResetSteps \ ResetEnds
    BY <1>1, ResetStepNames, CleanBefore DEF ResetLooks, ResetEnds
  <1>3. /\ etcd' \subseteq Machines /\ nodes' \subseteq Machines /\ labelled' \subseteq nodes'
        /\ faults' \in 0..MaxFaults
    BY Untouched DEF TypeOK, DeleteNode, DeleteControlNode, LeaveEtcd, cluster
  <1>4. ASSUME NEW s \in {"control node", "leave", "k0s reset"}, GoesOn(m, s), UNCHANGED last
        PROVE  Kept(m)
    BY <1>1, <1>2, <1>3, <1>4, Untouched, CleanGoto DEF disk
  <1>5. ASSUME End(m, "failed", {}), UNCHANGED <<cluster, faults>>
        PROVE  Kept(m)
    BY <1>1, <1>2, <1>3, <1>5, ResetGivesUp
  <1>6. CASE DeleteNode(m)
    <2>1. \/ Goto(m, "control node") /\ UNCHANGED last
          \/ End(m, "failed", {}) /\ UNCHANGED <<cluster, faults>>
      BY <1>6 DEF DeleteNode, Unless, cluster
    <2> QED
      BY <1>4, <1>5, <2>1 DEF Goto, GoesOn
  <1>7. CASE DeleteControlNode(m)
    <2>1. \/ Goto(m, "leave") /\ UNCHANGED last
          \/ Goto(m, "k0s reset") /\ UNCHANGED last
          \/ End(m, "failed", {}) /\ UNCHANGED <<cluster, faults>>
      BY <1>7 DEF DeleteControlNode, Unless
    <2> QED
      BY <1>4, <1>5, <2>1 DEF Goto, GoesOn
  <1>8. CASE LeaveEtcd(m)
    BY <1>4, <1>8 DEF LeaveEtcd, Goto, GoesOn
  <1> QED
    BY <1>6, <1>7, <1>8

LEMMA LoseEffect ==
    ASSUME TypeOK, NEW m \in Machines, Lose(m)
    PROVE  /\ etcd' \subseteq Machines /\ nodes' \subseteq Machines /\ labelled' \subseteq nodes'
           /\ inst' = inst \/ inst' = NoInstallation
  BY DEF TypeOK, Lose, cluster

LEMMA RemoveEffect ==
    ASSUME TypeOK, NEW m \in Machines, NEW fs, Remove(m, fs)
    PROVE  /\ files' \in [Machines -> SUBSET Files] /\ files'[m] = files[m] \ fs
           /\ \A n \in Machines \ {m} : files'[n] = files[n]
  BY DEF TypeOK, Remove

LEMMA ResetK0sStep ==
    ASSUME TypeOK, NEW m \in Machines, Local(m), ResetK0s(m)
    PROVE  Kept(m)
  <1>1. /\ run[m].step = "k0s reset" /\ GoesOn(m, "firewalld")
        /\ UNCHANGED <<last, config, dropin, home, broken, commands>>
    BY DEF ResetK0s, At, Goto, GoesOn
  <1>2. /\ Of(m, "reset") /\ m \in broken
        /\ "firewalld" \in ResetSteps \ ResetEnds
    BY <1>1, ResetStepNames, CleanBefore DEF ResetLooks, ResetEnds
  <1>3. /\ files' \in [Machines -> SUBSET Files]
        /\ \A n \in Machines \ {m} : files'[n] = files[n]
    <2>1. files' = files \/ Remove(m, Roles)
      BY DEF ResetK0s
    <2> QED
      BY <2>1, RemoveEffect, Untouched
  <1>4. /\ k0s' \in [Machines -> Phases]
        /\ k0s'[m] = k0s[m] \/ k0s'[m] = "none" \/ (Up(m) /\ k0s'[m] = "halted")
        /\ \A n \in Machines \ {m} : k0s'[n] = k0s[n]
    <2>1. \/ k0s' = k0s \/ k0s' = [k0s EXCEPT ![m] = "none"]
          \/ (Up(m) /\ k0s' = [k0s EXCEPT ![m] = "halted"])
      BY DEF ResetK0s
    <2> QED
      BY <2>1 DEF TypeOK, Phases
  <1>5. /\ etcd' \subseteq Machines /\ nodes' \subseteq Machines /\ labelled' \subseteq nodes'
        /\ inst' = inst \/ inst' = NoInstallation
    <2>1. UNCHANGED cluster \/ Lose(m)
      BY DEF ResetK0s
    <2> QED
      BY <2>1, LoseEffect, Untouched
  <1>6. faults' \in 0..MaxFaults
    BY Untouched DEF ResetK0s
  <1> QED
    BY <1>1, <1>2, <1>3, <1>4, <1>5, <1>6, Untouched, CleanGoto

LEMMA FirewalldStep ==
    ASSUME TypeOK, NEW m \in Machines, Local(m), ResetFirewalld(m)
    PROVE  Kept(m)
  <1>1. /\ run[m].step = "firewalld" /\ UNCHANGED <<disk, k0s, home, cluster, broken, commands>>
        /\ faults' \in 0..MaxFaults
        /\ \/ Goto(m, "remove k0s.yaml") /\ UNCHANGED last
           \/ End(m, "failed", {})
    BY Untouched DEF ResetFirewalld, At, Unless, disk
  <1>2. /\ Of(m, "reset") /\ m \in broken
        /\ "remove k0s.yaml" \in ResetSteps \ ResetEnds
    BY <1>1, ResetStepNames, CleanBefore DEF ResetLooks, ResetEnds
  <1>3. CASE Goto(m, "remove k0s.yaml") /\ UNCHANGED last
    BY <1>1, <1>2, <1>3, Untouched, CleanGoto DEF disk, Goto, GoesOn
  <1>4. CASE End(m, "failed", {})
    BY <1>1, <1>2, <1>4, ResetGivesUp
  <1> QED
    BY <1>1, <1>3, <1>4

(* The files are removed: from the units on, none of them is left.         *)
LEMMA RemoveSteps ==
    ASSUME TypeOK, NEW m \in Machines, Local(m),
           RemoveFiles(m) \/ RemoveHome(m) \/ RemoveConfig(m)
    PROVE  Kept(m)
  <1>1. ASSUME NEW s \in ResetSteps, NEW t \in ResetSteps, At(m, s), Goto(m, t),
               s \notin ResetLooks,
               t \in ResetEnds => s \in ResetEnds \/ s = "remove units",
               files' \in [Machines -> SUBSET Files], files'[m] \subseteq files[m],
               s = "remove units" => files'[m] \cap Roles = {},
               config' \in [Machines -> Dir],
               \A n \in Machines \ {m} : files'[n] = files[n] /\ config'[n] = config[n],
               UNCHANGED <<last, dropin, k0s, home, cluster, broken, commands>>,
               faults' \in 0..MaxFaults
        PROVE  Kept(m)
    <2>1. /\ Of(m, "reset") /\ m \in broken
          /\ s \in ResetEnds => files[m] \cap Roles = {}
      BY <1>1, CleanBefore DEF At
    <2>2. t \in ResetEnds => files'[m] \cap Roles = {}
      BY <1>1, <2>1
    <2>3. GoesOn(m, t)
      BY <1>1 DEF Goto, GoesOn
    <2> QED
      BY <1>1, <2>1, <2>2, <2>3, Untouched, CleanGoto
  <1>2. ASSUME NEW s, NEW fs, NEW t, RemoveStep(m, s, fs, t),
               <<s, t>> \in {<<"remove k0s.yaml", "remove services">>,
                             <<"remove services", "remove units">>,
                             <<"remove units", "remove home">>,
                             <<"remove binary", "remove config">>,
                             <<"remove settings", "reboot">>},
               s = "remove units" => fs = Roles
        PROVE  Kept(m)
    <2>1. /\ s \in ResetSteps /\ t \in ResetSteps /\ s \notin ResetLooks
          /\ t \in ResetEnds => s \in ResetEnds \/ s = "remove units"
      BY <1>2, ResetStepNames DEF ResetLooks, ResetEnds
    <2>2. /\ files' \in [Machines -> SUBSET Files] /\ files'[m] = files[m] \ fs
          /\ \A n \in Machines \ {m} : files'[n] = files[n]
      BY <1>2, RemoveEffect DEF RemoveStep
    <2>3. /\ At(m, s) /\ Goto(m, t)
          /\ UNCHANGED <<last, config, dropin, k0s, home, cluster, broken, commands, faults>>
      BY <1>2 DEF RemoveStep
    <2> QED
      BY <1>1, <1>2, <2>1, <2>2, <2>3, Untouched
  <1>3. CASE RemoveFiles(m)
    BY <1>2, <1>3 DEF RemoveFiles
  <1>4. CASE RemoveHome(m)
    <2>1. /\ At(m, "remove home") /\ Goto(m, "remove binary")
          /\ UNCHANGED <<last, config, dropin, k0s, home, cluster, broken, commands>>
      BY <1>4 DEF RemoveHome
    <2>2. /\ "remove home" \in ResetSteps /\ "remove binary" \in ResetSteps
          /\ "remove home" \notin ResetLooks /\ "remove home" \in ResetEnds
          /\ "remove home" # "remove units"
      BY DEF ResetSteps, ResetLooks, ResetEnds
    <2>3. /\ files' \in [Machines -> SUBSET Files] /\ files'[m] \subseteq files[m]
          /\ \A n \in Machines \ {m} : files'[n] = files[n]
      <3>1. files' = files \/ Remove(m, {"assets"})
        BY <1>4 DEF RemoveHome
      <3> QED
        BY <3>1, RemoveEffect, Untouched
    <2>4. faults' \in 0..MaxFaults
      BY <1>4, Untouched DEF RemoveHome
    <2> QED
      BY <1>1, <2>1, <2>2, <2>3, <2>4, Untouched
  <1>5. CASE RemoveConfig(m)
    <2>1. /\ At(m, "remove config") /\ Goto(m, "remove settings")
          /\ config' = [config EXCEPT ![m] = None]
          /\ UNCHANGED <<last, files, dropin, k0s, home, cluster, broken, commands, faults>>
      BY <1>5 DEF RemoveConfig
    <2>2. /\ "remove config" \in ResetSteps /\ "remove settings" \in ResetSteps
          /\ "remove config" \notin ResetLooks /\ "remove config" \in ResetEnds
          /\ "remove config" # "remove units"
      BY DEF ResetSteps, ResetLooks, ResetEnds
    <2>3. /\ config' \in [Machines -> Dir]
          /\ \A n \in Machines \ {m} : config'[n] = config[n]
      BY <2>1 DEF TypeOK, Dir
    <2> QED
      BY <1>1, <2>1, <2>2, <2>3, Untouched
  <1> QED
    BY <1>3, <1>4, <1>5

(* The machine reboots without a unit of k0s, and is whole again.          *)
LEMMA RebootStep ==
    ASSUME TypeOK, NEW m \in Machines, Local(m), Reboot(m)
    PROVE  Kept(m)
  <1>1. /\ run[m].step = "reboot" /\ k0s' = [k0s EXCEPT ![m] = "none"] /\ Lose(m)
        /\ End(m, "done", {}) /\ broken' = broken \ {m}
        /\ home' = [home EXCEPT ![m] = NoHome]
        /\ UNCHANGED <<disk, commands, faults>>
    BY DEF Reboot, At
  <1>2. /\ Of(m, "reset") /\ files[m] \cap Roles = {} /\ run[m].events = {}
    <2>1. Of(m, "reset") /\ files[m] \cap Roles = {}
      BY <1>1, CleanBefore, ResetStepNames DEF ResetEnds
    <2> QED
      BY <2>1 DEF Local, EventsOK, Installing, Of
  <1>3. /\ run' \in [Machines -> Command] /\ last' \in [Machines -> Ended] /\ run'[m] = Idle
        /\ last'[m].events = {} \cup {}
        /\ \A n \in Machines \ {m} : run'[n] = run[n] /\ last'[n] = last[n]
    BY <1>1, <1>2, EndEffect
  <1>4. /\ k0s' \in [Machines -> Phases] /\ k0s'[m] = "none"
        /\ \A n \in Machines \ {m} : k0s'[n] = k0s[n]
    BY <1>1 DEF TypeOK, Phases
  <1>5. /\ home' \in [Machines -> [dir : Dir, role : Roles, release : Releases \cup {0},
                                   first : BOOLEAN]]
        /\ \A n \in Machines \ {m} : home'[n] = home[n]
    <2>1. NoHome \in [dir : Dir, role : Roles, release : Releases \cup {0}, first : BOOLEAN]
      BY DEF NoHome, Dir, Roles
    <2> QED
      BY <1>1, <2>1 DEF TypeOK
  <1>6. /\ etcd' \subseteq Machines /\ nodes' \subseteq Machines /\ labelled' \subseteq nodes'
        /\ inst' = inst \/ inst' = NoInstallation
    BY <1>1, LoseEffect
  <1>7. /\ NoInstallation \in [state : {"none", "KubernetesInstalled", "Installed"}, dir : Dir,
                              airgap : BOOLEAN, release : Releases \cup {0}]
        /\ NoInstallation.state = "none"
    BY DEF NoInstallation, Dir
  <1>8. TypeOK'
    <2>1. inst' \in [state : {"none", "KubernetesInstalled", "Installed"}, dir : Dir,
                     airgap : BOOLEAN, release : Releases \cup {0}]
      BY <1>6, <1>7 DEF TypeOK
    <2> QED
      BY <1>1, <1>3, <1>4, <1>5, <1>6, <2>1 DEF TypeOK, disk
  <1>9. Local(m)'
    <2>1. StepOK(m)'
      BY <1>3 DEF StepOK, Of, Installing, Idle
    <2>2. DiskOK(m)'
      BY <1>1, <1>2, <1>3 DEF DiskOK, disk, Units, Configured, K0sConfigured, AfterK0s,
         Installing, Of, Idle
    <2>3. EventsOK(m)'
      BY <1>3 DEF EventsOK, Installing, Of, Idle
    <2> QED
      BY <2>1, <2>2, <2>3 DEF Local
  <1>10. Others(m)
    BY <1>1, <1>3, <1>5 DEF Others, disk
  <1>11. ClusterKept
    BY <1>2, <1>3, <1>4, <1>5, <1>6, <1>7 DEF ClusterKept, Recorded, Of, Idle
  <1> QED
    BY <1>8, <1>9, <1>10, <1>11 DEF Kept

LEMMA ResetFailsStep ==
    ASSUME TypeOK, NEW m \in Machines, Local(m), ResetFails(m)
    PROVE  Kept(m)
  <1>1. /\ Of(m, "reset") /\ End(m, "failed", {}) /\ faults' \in 0..MaxFaults
        /\ UNCHANGED <<disk, k0s, home, cluster, broken, commands>>
    BY Untouched DEF ResetFails
  <1> QED
    BY <1>1, ResetGivesUp

-----------------------------------------------------------------------------
(* The theorems.                                                           *)

LEMMA InitInv == Init => IInv
  <1> SUFFICES ASSUME Init
               PROVE  IInv
    OBVIOUS
  <1>1. NoEnd \in Ended
    BY DEF NoEnd, Ended, Cmds, Roles, Events
  <1>2. NoHome \in [dir : Dir, role : Roles, release : Releases \cup {0}, first : BOOLEAN]
    BY DEF NoHome, Dir, Roles
  <1>3. NoInstallation \in [state : {"none", "KubernetesInstalled", "Installed"}, dir : Dir,
                            airgap : BOOLEAN, release : Releases \cup {0}]
    BY DEF NoInstallation, Dir
  <1>4. TypeOK
    BY <1>1, <1>2, <1>3, IdleIsCommand, NumbersAssumption DEF Init, TypeOK, Dir, Phases
  <1>5. ASSUME NEW m \in Machines
        PROVE  Local(m)
    <2>1. /\ run[m] = Idle /\ Units(m) = {} /\ last[m] = NoEnd
      BY DEF Init, Units
    <2>2. StepOK(m) /\ DiskOK(m)
      BY <2>1 DEF StepOK, DiskOK, Of, Installing, Configured, K0sConfigured, AfterK0s, Idle
    <2>3. EventsOK(m)
      BY <2>1 DEF EventsOK, Of, Installing, Idle, NoEnd
    <2> QED
      BY <2>2, <2>3 DEF Local
  <1>6. ClusterInv
    BY DEF Init, ClusterInv, Recorded, Of, Idle, NoInstallation
  <1> QED
    BY <1>4, <1>5, <1>6 DEF IInv, LocalInv

LEMMA NextInv ==
    ASSUME IInv, [Next]_vars
    PROVE  IInv'
  <1>1. CASE UNCHANGED vars
    BY <1>1 DEF vars, disk, cluster, IInv, TypeOK, LocalInv, ClusterInv, Local, StepOK, DiskOK,
       EventsOK, Units, Of, Installing, BeforeK0s, Configured, K0sConfigured, AfterK0s, At, Recorded
  <1>2. ASSUME NEW m \in Machines, Start(m) \/ Step(m) \/ Fault(m) \/ Environment(m)
        PROVE  IInv'
    <2>1. TypeOK /\ Local(m) /\ (~Overlap /\ At(m, "charts") => inst.state # "none")
      <3>1. TypeOK /\ Local(m) /\ ClusterInv
        BY DEF IInv, LocalInv
      <3>2. At(m, "charts") => Recorded(m)
        BY <3>1, StepTells, StepNames DEF Local, StepOK, Recorded, At, Installing, Of
      <3> QED
        BY <3>1, <3>2 DEF ClusterInv
    <2>2. CASE Start(m)
      BY <2>2, StartStep
    <2>3. CASE Environment(m)
      BY <2>3, EnvironmentStep
    <2>4. CASE Fault(m)
      BY <2>1, <2>4, PreflightsFailStep, EndSteps, SignalCaughtStep, ResetFailsStep, KeptInv
         DEF Fault
    <2>5. CASE Step(m)
      <3>1. CASE \/ Verify(m) \/ Configure(m) \/ Initialize(m) \/ PreflightsPass(m)
                 \/ WriteK0sConfig(m) \/ ApplyNetworkConfiguration(m) \/ SystemdUnits(m)
                 \/ MoveBinary(m) \/ StartK0s(m) \/ WaitForK0s(m) \/ AddInsecureRegistry(m)
                 \/ SaveToken(m)
        BY <2>1, <3>1, VerifyStep, ConfigureStep, WriteSteps, WaitSteps, KeptInv
      <3>2. CASE InstallK0s(m) \/ RunK0sInstallCommand(m) \/ RecordInstallation(m)
        BY <3>2, K0sInstallStep, RecordInstallationStep
      <3>3. CASE WaitForNode(m) \/ InstallCharts(m) \/ GiveUp(m) \/ SignalExits(m)
        BY <2>1, <3>3, WaitForNodeStep, InstallChartsStep, EndSteps, KeptInv DEF InstallCharts
      <3>4. CASE \/ Runtime(m) \/ Warning(m) \/ HostInfo(m) \/ Safety(m)
                 \/ Count(m) \/ DeleteNode(m) \/ DeleteControlNode(m) \/ LeaveEtcd(m)
        BY <2>1, <3>4, LookSteps, CountStep, LeaveSteps, KeptInv
      <3>5. CASE \/ ResetK0s(m) \/ ResetFirewalld(m) \/ RemoveFiles(m) \/ RemoveHome(m)
                 \/ RemoveConfig(m) \/ Reboot(m)
        BY <2>1, <3>5, ResetK0sStep, FirewalldStep, RemoveSteps, RebootStep, KeptInv
      <3> QED
        BY <2>5, <3>1, <3>2, <3>3, <3>4, <3>5 DEF Step
    <2> QED
      BY <1>2, <2>2, <2>3, <2>4, <2>5
  <1> QED
    BY <1>1, <1>2 DEF Next

(* The strengthening of the first part: at every step of every command the *)
(* disk holds what the steps before it wrote, a cluster whose commands run *)
(* one after the other has one data directory, and the events are those of *)
(* the way the command went.                                               *)
THEOREM Invariance == Spec => []IInv
  <1>1. Init => IInv
    BY InitInv
  <1>2. IInv /\ [Next]_vars => IInv'
    BY NextInv
  <1> QED
    BY <1>1, <1>2, PTL DEF Spec

(* The properties that the invariant implies.                              *)
LEMMA InvIsMetricsAreTrue ==
    ASSUME IInv
    PROVE  MetricsAreTrue
  BY DEF IInv, LocalInv, Local, EventsOK, MetricsAreTrue, EndIsReported, PreflightsNotFailed

LEMMA InvIsLeftoversFound ==
    ASSUME IInv
    PROVE  LeftoversFound
  <1>1. TypeOK /\ LocalInv /\ ClusterInv
    BY DEF IInv
  <1>2. Accepted
    BY <1>1 DEF Accepted, LocalInv, Local, DiskOK
  <1>3. FindsData
    <2> SUFFICES ASSUME ~Overlap, NEW m \in Machines, Units(m) # {}, m \notin broken
                 PROVE  BestDir(m) = home[m].dir
      BY DEF FindsData
    <2>1. config[m] = home[m].dir /\ config[m] # None
      BY <1>1, DirsAssumption DEF LocalInv, Local, DiskOK
    <2>2. Reachable(m) /\ inst.state # "none" => inst.dir = home[m].dir
      BY <1>1 DEF ClusterInv, Reachable
    <2> QED
      BY <2>1, <2>2 DEF BestDir
  <1> QED
    BY <1>1, <1>2, <1>3 DEF LeftoversFound

(* Every variable keeps its type, and what an install, a join or a reset   *)
(* finds on the machine is what the commands before it left there: an      *)
(* accepted command meets no k0s, and reset the directory of its data.     *)
THEOREM LeftoversAreFound == Spec => []LeftoversFound
  <1>1. IInv => LeftoversFound
    BY InvIsLeftoversFound
  <1> QED
    BY <1>1, Invariance, PTL

(* Each command that was not killed is reported with the end it had, also  *)
(* when a signal or the preflights end it.                                 *)
THEOREM ReportsAreTrue == Spec => []MetricsAreTrue
  <1>1. IInv => MetricsAreTrue
    BY InvIsMetricsAreTrue
  <1> QED
    BY <1>1, Invariance, PTL

-----------------------------------------------------------------------------
(* Workers keep a controller.                                              *)

(* Commands run one after the other and every reset was a clean one.       *)
Orderly == ~Overlap /\ Clean

WorkerJoined == \E w \in Machines : Joined(w)

(* What the next command on m meets of k0s.  A k0s that will start a       *)
(* cluster is the only one.                                                *)
K0sOK(m) ==
    /\ last[m].cmd # "none" => run[m].cmd = "none"
    /\ m \in broken => Of(m, "reset")
    /\ m \notin broken /\ k0s[m] # "none" => Units(m) # {} /\ "k0s binary" \in files[m]
    /\ home[m].first /\ k0s[m] \in {"stopped", "starting"} =>
          \A n \in Machines : ~Of(n, "join") /\ (n # m => k0s[n] = "none")

(* What the cluster knows of m.                                            *)
MemberOK(m) ==
    /\ m \notin broken => /\ m \in etcd => k0s[m] \in {"joined", "node"}
                          /\ m \in nodes => k0s[m] = "node"
                          /\ m \in labelled => m \in etcd
    /\ m \in labelled => home[m].role = "controller"
    /\ last[m].cmd = "join" /\ last[m].outcome = "done" => k0s[m] = "node"
    /\ Of(m, "install") /\ run[m].step \in {"record", "registry", "charts"} => m \in labelled
    /\ Of(m, "join") => inst.state # "none"
    /\ Joined(m) => m \in nodes /\ inst.state # "none"

(* What a reset of m knows: it goes on only beside another controller.     *)
Beside(m) == WorkerJoined => Live \ {m} # {}

ResetOK(m) == Of(m, "reset") =>
    /\ run[m].step \in ResetLooks => m \notin broken
    /\ run[m].step \in {"runtime", "warning", "host"} => run[m].node = "unknown"
    /\ At(m, "safety") => run[m].role = home[m].role
    /\ run[m].step \in {"count", "delete node"} => run[m].role \in {"unknown", home[m].role}
    /\ run[m].step \in {"safety", "count", "delete node"} /\ run[m].node = "found" =>
          run[m].role # "unknown" /\ Reachable(m)
    /\ At(m, "count") \/ m \in broken => Beside(m)
    /\ /\ At(m, "delete node") /\ run[m].role = "controller" /\ run[m].node = "found"
       /\ inst.state # "none"
       => labelled \ {m} # {}

ClusterOK == /\ inst.state # "none" => labelled # {}
             /\ WorkerJoined => Live # {}

Controlled == /\ \A m \in Machines : K0sOK(m) /\ MemberOK(m) /\ ResetOK(m)
              /\ ClusterOK

ControlInv == Orderly => Controlled

(* The command on m goes on, or ends.                                      *)
Goes(m) == /\ UNCHANGED last
           /\ run'[m].cmd = run[m].cmd /\ run'[m].force = run[m].force
           /\ \A n \in Machines \ {m} : run'[n] = run[n]
Ends(m, outcome) ==
    /\ run'[m].cmd = "none" /\ run'[m].force = FALSE
    /\ last'[m].cmd = run[m].cmd /\ last'[m].outcome = outcome
    /\ last'[m].clean => /\ last[m].clean /\ ~run[m].force
                         /\ m \in broken => outcome = "done" /\ m \notin etcd' \cup nodes'
    /\ \A n \in Machines \ {m} : run'[n] = run[n] /\ last'[n] = last[n]

LEMMA GotoGoes ==
    ASSUME TypeOK, NEW m \in Machines, NEW s, Goto(m, s), UNCHANGED last
    PROVE  /\ Goes(m) /\ run'[m].step = s
           /\ run'[m].role = run[m].role /\ run'[m].node = run[m].node
  <1> DEFINE d == [run[m] EXCEPT !.step = s]
  <1>1. run \in [Machines -> Command] /\ run' = [run EXCEPT ![m] = d]
    BY DEF TypeOK, Goto
  <1>2. /\ d.step = s /\ d.cmd = run[m].cmd /\ d.role = run[m].role
        /\ d.node = run[m].node /\ d.force = run[m].force
    BY <1>1 DEF Command
  <1> HIDE DEF d
  <1> QED
    BY <1>1, <1>2 DEF Goes

LEMMA GoesOnGoes ==
    ASSUME TypeOK, NEW m \in Machines, NEW s, GoesOn(m, s), UNCHANGED last
    PROVE  Goes(m) /\ run'[m].step = s
  <1>1. CASE Goto(m, s)
    BY <1>1, GotoGoes
  <1>2. CASE run' = [run EXCEPT ![m].step = s, ![m].tolerated = TRUE]
    <2> DEFINE d == [run[m] EXCEPT !.step = s, !.tolerated = TRUE]
    <2>1. run \in [Machines -> Command] /\ run' = [run EXCEPT ![m] = d]
      BY <1>2 DEF TypeOK
    <2>2. d.step = s /\ d.cmd = run[m].cmd /\ d.force = run[m].force
      BY <2>1 DEF Command
    <2> HIDE DEF d
    <2> QED
      BY <2>1, <2>2 DEF Goes
  <1> QED
    BY <1>1, <1>2 DEF GoesOn, Goto

LEMMA EndEnds ==
    ASSUME TypeOK, NEW m \in Machines, NEW outcome, NEW event, End(m, outcome, event)
    PROVE  Ends(m, outcome)
  <1> DEFINE e == [cmd |-> run[m].cmd, outcome |-> outcome,
                   role |-> run[m].role,
                   tolerated |-> run[m].tolerated,
                   clean |-> /\ last[m].clean /\ ~run[m].force
                             /\ m \in broken =>
                                   /\ outcome = "done"
                                   /\ m \notin etcd' \cup nodes',
                   events |-> run[m].events \cup event]
  <1>1. run \in [Machines -> Command] /\ last \in [Machines -> Ended]
    BY DEF TypeOK
  <1>2. run' = [run EXCEPT ![m] = Idle] /\ last' = [last EXCEPT ![m] = e]
    BY DEF End
  <1>3. /\ e.cmd = run[m].cmd /\ e.outcome = outcome
        /\ e.clean => /\ last[m].clean /\ ~run[m].force
                      /\ m \in broken => outcome = "done" /\ m \notin etcd' \cup nodes'
    OBVIOUS
  <1> HIDE DEF e
  <1>4. /\ run'[m] = Idle /\ last'[m] = e
        /\ \A n \in Machines \ {m} : run'[n] = run[n] /\ last'[n] = last[n]
    BY <1>1, <1>2
  <1> QED
    BY <1>3, <1>4 DEF Ends, Idle

(* No step makes up for a reset that was not clean.                        *)
LEMMA OrderlyBefore ==
    ASSUME NEW m \in Machines, NEW outcome, Goes(m) \/ Ends(m, outcome), Orderly'
    PROVE  Orderly
  BY DEF Orderly, Clean, Goes, Ends

LEMMA OnlyCommand ==
    ASSUME IInv, NEW m \in Machines, ~Overlap, run[m].cmd # "none"
    PROVE  \A n \in Machines \ {m} : run[n].cmd = "none"
  BY DEF IInv, ClusterInv

(* A command ends and changes nothing of k0s: a reset that has begun to    *)
(* clean does not end so.                                                  *)
LEMMA QuietEnd ==
    ASSUME IInv, ControlInv, NEW m \in Machines, run[m].cmd # "none",
           NEW outcome, Ends(m, outcome),
           UNCHANGED <<files, k0s, home, etcd, nodes, labelled, broken>>,
           inst'.state # "none" <=> inst.state # "none",
           outcome = "done" => Installing(m),
           Of(m, "join") /\ outcome = "done" => API /\ m \in nodes
    PROVE  ControlInv'
  <1> SUFFICES ASSUME Orderly'
               PROVE  Controlled'
    BY DEF ControlInv
  <1>1. Orderly /\ Controlled
    BY OrderlyBefore DEF ControlInv
  <1>2. \A n \in Machines \ {m} : run[n].cmd = "none"
    BY <1>1, OnlyCommand DEF Orderly
  <1>3. \A n \in Machines : run'[n].cmd = "none"
    BY <1>2 DEF Ends
  <1>4. m \notin broken
    <2>1. m \in broken => outcome = "done" /\ Of(m, "reset")
      BY <1>1 DEF Orderly, Clean, Ends, Controlled, K0sOK
    <2> QED
      BY <2>1 DEF Installing, Of
  <1>5. broken = {} /\ broken' = {}
    <2>1. broken \subseteq Machines
      BY DEF IInv, TypeOK
    <2> QED
      BY <1>1, <1>2, <1>4, <2>1 DEF Controlled, K0sOK, Of
  <1>6. Of(m, "join") /\ outcome = "done" => k0s[m] = "node"
    BY <1>1, <1>4 DEF Controlled, MemberOK
  <1>7. \A n \in Machines : Joined(n)' => \/ Joined(n)
                                          \/ n = m /\ Of(m, "join") /\ outcome = "done"
    BY DEF Joined, Ends, Of
  <1>8. Of(m, "join") => inst.state # "none"
    BY <1>1 DEF Controlled, MemberOK
  <1>9. ASSUME NEW n \in Machines
        PROVE  K0sOK(n)' /\ MemberOK(n)' /\ ResetOK(n)'
    <2>1. K0sOK(n) /\ MemberOK(n)
      BY <1>1 DEF Controlled
    <2>2. K0sOK(n)'
      BY <1>3, <1>5, <2>1 DEF K0sOK, Units, Of
    <2>3. last'[n].cmd = "join" /\ last'[n].outcome = "done" => k0s[n] = "node"
      BY <1>6, <2>1 DEF MemberOK, Ends, Of
    <2>4. Joined(n)' => n \in nodes /\ inst'.state # "none"
      BY <1>7, <1>8, <2>1 DEF MemberOK
    <2>5. MemberOK(n)'
      BY <1>3, <1>5, <2>1, <2>3, <2>4 DEF MemberOK, Of
    <2> QED
      BY <1>3, <2>2, <2>5 DEF ResetOK, Of
  <1>10. ClusterOK'
    <2>1. Live' = Live
      BY DEF Live
    <2>2. API => Live # {}
      BY APIHasLive DEF IInv
    <2>3. WorkerJoined' => WorkerJoined \/ API
      BY <1>7 DEF WorkerJoined
    <2> QED
      BY <1>1, <2>1, <2>2, <2>3 DEF ClusterOK, Controlled
  <1> QED
    BY <1>9, <1>10 DEF Controlled

(* A command goes on and changes nothing of k0s.                           *)
LEMMA QuietGoes ==
    ASSUME IInv, ControlInv, NEW m \in Machines, run[m].cmd # "none", Goes(m),
           m \notin broken => files[m] \subseteq files'[m],
           \A n \in Machines \ {m} : files'[n] = files[n],
           UNCHANGED <<k0s, home, etcd, nodes, labelled, broken>>,
           inst'.state # "none" => inst.state # "none" \/ labelled # {},
           inst.state # "none" => inst'.state # "none",
           Orderly /\ Controlled => \/ ~Of(m, "reset")
                                    \/ ResetOK(m)',
           /\ Of(m, "install") /\ run'[m].step \in {"record", "registry", "charts"}
           /\ Orderly /\ Controlled
           => m \in labelled
    PROVE  ControlInv'
  <1> SUFFICES ASSUME Orderly'
               PROVE  Controlled'
    BY DEF ControlInv
  <1>1. Orderly /\ Controlled
    BY OrderlyBefore DEF ControlInv
  <1>2. \A n \in Machines \ {m} : run[n].cmd = "none" /\ run'[n].cmd = "none"
    BY <1>1, OnlyCommand DEF Orderly, Goes
  <1>3. \A n \in Machines : run'[n].cmd = run[n].cmd /\ last'[n] = last[n]
    BY DEF Goes
  <1>4. \A n \in Machines : Joined(n)' <=> Joined(n)
    BY <1>3 DEF Joined
  <1>5. ASSUME NEW n \in Machines
        PROVE  K0sOK(n)' /\ MemberOK(n)' /\ ResetOK(n)'
    <2>1. K0sOK(n) /\ MemberOK(n)
      BY <1>1 DEF Controlled
    <2>2. K0sOK(n)'
      BY <1>3, <2>1 DEF K0sOK, Units, Of
    <2>3. Of(n, "install")' /\ run'[n].step \in {"record", "registry", "charts"} => n \in labelled
      BY <1>1, <1>2, <1>3 DEF Of
    <2>4. MemberOK(n)'
      BY <1>3, <1>4, <2>1, <2>3 DEF MemberOK, Of
    <2>5. ResetOK(n)'
      BY <1>1, <1>2, <1>3 DEF ResetOK, Of
    <2> QED
      BY <2>2, <2>4, <2>5
  <1>6. ClusterOK'
    <2>1. Live' = Live
      BY DEF Live
    <2>2. WorkerJoined' <=> WorkerJoined
      BY <1>4 DEF WorkerJoined
    <2> QED
      BY <1>1, <2>1, <2>2 DEF ClusterOK, Controlled
  <1> QED
    BY <1>5, <1>6 DEF Controlled

(* The steps that leave k0s and the cluster alone.                         *)

(* A command of which the step is one of those.                            *)
LEMMA StepIsCommand ==
    ASSUME IInv, NEW m \in Machines, run[m].step # "none"
    PROVE  /\ TypeOK /\ Local(m) /\ run[m].cmd # "none"
           /\ run[m].step \in InstallSteps \cup JoinSteps => Installing(m)
           /\ run[m].step \in ResetSteps => Of(m, "reset")
  <1>1. TypeOK /\ Local(m)
    BY DEF IInv, LocalInv
  <1>2. run[m].cmd # "none"
    BY <1>1 DEF Local, StepOK, Idle
  <1> QED
    BY <1>1, <1>2, StepTells DEF Local

(* How an install or a join goes on.                                       *)
LEMMA AdvanceControl ==
    ASSUME IInv, ControlInv, NEW m \in Machines, Advance(m), UNCHANGED last,
           run[m].step \in InstallSteps \cup JoinSteps,
           Of(m, "install") => ~At(m, "charts"), Of(m, "join") => ~At(m, "node"),
           files[m] \subseteq files'[m], \A n \in Machines \ {m} : files'[n] = files[n],
           UNCHANGED <<k0s, home, etcd, nodes, labelled, broken>>,
           inst'.state # "none" => inst.state # "none" \/ labelled # {},
           inst.state # "none" => inst'.state # "none",
           At(m, "node") => m \in labelled
    PROVE  ControlInv'
  <1>1. /\ TypeOK /\ Local(m) /\ Installing(m) /\ run[m].cmd # "none"
    BY StepIsCommand, StepNames
  <1>2. Goes(m) /\ run'[m].step = Following(m)
    BY <1>1, GotoGoes DEF Advance
  <1>3. ASSUME Of(m, "install"), run'[m].step \in {"record", "registry", "charts"}, Controlled
        PROVE  m \in labelled
    <2>1. run[m].step \in InstallSteps /\ run'[m].step = InstallAfter[run[m].step]
      BY <1>1, <1>2, <1>3, FollowingStep DEF Local, StepOK
    <2>2. run[m].step \in {"node", "record", "registry"}
      BY <1>3, <2>1, StepNames, InstallFollows DEF At
    <2> QED
      BY <1>3, <2>2 DEF Controlled, MemberOK, At
  <1> QED
    BY <1>1, <1>2, <1>3, QuietGoes DEF Installing, Of

LEMMA WriteControl ==
    ASSUME IInv, ControlInv, NEW m \in Machines,
           \/ Initialize(m) \/ WriteK0sConfig(m) \/ ApplyNetworkConfiguration(m)
           \/ SystemdUnits(m) \/ MoveBinary(m) \/ SaveToken(m)
    PROVE  ControlInv'
  <1>1. PICK fs \in SUBSET Files : Write(m, fs)
    BY DEF Initialize, WriteK0sConfig, ApplyNetworkConfiguration, SystemdUnits, MoveBinary,
       SaveToken, Files
  <1>2. /\ Advance(m) /\ run[m].step \in {"initialize", "config", "units", "binary", "token"}
        /\ UNCHANGED <<last, config, dropin, k0s, home, cluster, broken, commands, faults>>
    BY DEF Initialize, WriteK0sConfig, ApplyNetworkConfiguration, SystemdUnits, MoveBinary,
       SaveToken, At
  <1>3. /\ files[m] \subseteq files'[m] /\ \A n \in Machines \ {m} : files'[n] = files[n]
    BY <1>1 DEF Write, IInv, TypeOK
  <1> QED
    BY <1>2, <1>3, AdvanceControl, StepNames DEF cluster, At

LEMMA AdvanceSteps ==
    ASSUME IInv, ControlInv, NEW m \in Machines,
           \/ PreflightsPass(m) \/ WaitForK0s(m) \/ AddInsecureRegistry(m)
           \/ RecordInstallation(m)
    PROVE  ControlInv'
  <1>1. /\ Advance(m) /\ run[m].step \in {"preflights", "ready", "registry", "record"}
        /\ UNCHANGED <<last, files, k0s, home, etcd, nodes, labelled, broken>>
        /\ \/ UNCHANGED inst
           \/ At(m, "record") /\ inst'.state = "KubernetesInstalled"
    BY DEF PreflightsPass, WaitForK0s, AddInsecureRegistry, RecordInstallation, At, disk, cluster
  <1>2. ASSUME Orderly, At(m, "record")
        PROVE  m \in labelled
    <2>1. Of(m, "install")
      BY <1>2, StepIsCommand, StepNames DEF Local, StepOK, Installing, Of, At
    <2> QED
      BY <1>2, <2>1 DEF ControlInv, Controlled, MemberOK, At
  <1>3. CASE Orderly
    BY <1>1, <1>2, <1>3, AdvanceControl, StepNames DEF At
  <1>4. CASE ~Orderly
    <2>1. TypeOK
      BY DEF IInv
    <2>2. Goes(m)
      BY <1>1, <2>1, GotoGoes DEF Advance
    <2> QED
      BY <1>4, <2>2, OrderlyBefore DEF ControlInv
  <1> QED
    BY <1>3, <1>4

LEMMA WaitForNodeControl ==
    ASSUME IInv, ControlInv, NEW m \in Machines, WaitForNode(m)
    PROVE  ControlInv'
  <1>1. /\ At(m, "node") /\ NodeReady(m)
        /\ UNCHANGED <<disk, k0s, home, cluster, broken, commands, faults>>
    BY DEF WaitForNode
  <1>2. Installing(m) /\ TypeOK /\ Local(m) /\ run[m].cmd # "none"
    BY <1>1, StepIsCommand, StepNames DEF At
  <1>3. CASE Of(m, "install")
    <2>1. Advance(m) /\ UNCHANGED last /\ m \in labelled
      BY <1>1, <1>2, <1>3 DEF WaitForNode, NodeReady, Local, StepOK
    <2> QED
      BY <1>1, <1>3, <2>1, AdvanceControl, StepNames DEF At, Of, disk, cluster
  <1>4. CASE ~Of(m, "install")
    <2>1. Ends(m, "done")
      BY <1>2, <1>4, EndEnds DEF WaitForNode
    <2> QED
      BY <1>1, <1>2, <2>1, QuietEnd DEF disk, cluster, NodeReady, Served
  <1> QED
    BY <1>3, <1>4

LEMMA InstallChartsControl ==
    ASSUME IInv, ControlInv, NEW m \in Machines, InstallCharts(m)
    PROVE  ControlInv'
  <1>1. /\ At(m, "charts") /\ inst' = [inst EXCEPT !.state = "Installed"]
        /\ End(m, "done", {"Succeeded"})
        /\ UNCHANGED <<disk, k0s, home, etcd, nodes, labelled, broken, commands, faults>>
    BY DEF InstallCharts
  <1>2. Installing(m) /\ TypeOK /\ Local(m) /\ run[m].cmd # "none" /\ Of(m, "install")
    BY <1>1, StepIsCommand, StepNames DEF At, Local, StepOK, Installing, Of
  <1>3. Ends(m, "done") /\ inst'.state = "Installed"
    BY <1>1, <1>2, EndEnds DEF TypeOK
  <1>4. CASE Orderly
    <2>1. inst.state # "none"
      BY <1>1, <1>2, <1>4 DEF IInv, ClusterInv, Recorded, At, Orderly
    <2> QED
      BY <1>1, <1>2, <1>3, <2>1, QuietEnd DEF disk, Of
  <1>5. CASE ~Orderly
    BY <1>3, <1>5, OrderlyBefore DEF ControlInv
  <1> QED
    BY <1>4, <1>5

(* The ends that no fault, or any fault, brings about.                     *)
LEMMA EndsControl ==
    ASSUME IInv, ControlInv, NEW m \in Machines, NEW outcome, NEW event,
           End(m, outcome, event), run[m].cmd # "none", outcome # "done",
           UNCHANGED <<files, k0s, home, cluster, broken>>
    PROVE  ControlInv'
  <1>1. Ends(m, outcome)
    BY EndEnds DEF IInv
  <1> QED
    BY <1>1, QuietEnd DEF cluster

LEMMA FaultControl ==
    ASSUME IInv, ControlInv, NEW m \in Machines,
           \/ GiveUp(m) \/ Fail(m) \/ Kill(m) \/ PromptInterrupted(m) \/ SignalExits(m)
           \/ PreflightsFail(m) \/ ResetFails(m)
    PROVE  ControlInv'
  <1>1. UNCHANGED <<files, k0s, home, cluster, broken>>
    BY DEF GiveUp, Fail, Kill, PromptInterrupted, SignalExits, PreflightsFail, ResetFails, disk
  <1>2. \E outcome, event : End(m, outcome, event) /\ outcome # "done"
    <2>1. CASE GiveUp(m) \/ Fail(m)
      <3>1. PICK event \in FailureReport(m) : End(m, "failed", event)
        BY <2>1 DEF GiveUp, Fail
      <3> QED
        BY <3>1
    <2>2. CASE Kill(m) \/ PromptInterrupted(m) \/ SignalExits(m) \/ ResetFails(m)
      <3>1. \/ End(m, "killed", {}) \/ End(m, "aborted", {"Aborted"})
            \/ End(m, "aborted", {}) \/ End(m, "failed", {})
        BY <2>2 DEF Kill, PromptInterrupted, SignalExits, ResetFails
      <3> QED
        BY <3>1
    <2>3. CASE PreflightsFail(m)
      <3>1. PICK outcome, event : outcome \in {"shown", "preflights"} /\ End(m, outcome, event)
        BY <2>3 DEF PreflightsFail
      <3> QED
        BY <3>1
    <2> QED
      BY <2>1, <2>2, <2>3
  <1>3. run[m].cmd # "none"
    <2>1. Local(m)
      BY DEF IInv, LocalInv
    <2>2. CASE GiveUp(m) \/ Fail(m) \/ PromptInterrupted(m)
      BY <2>2 DEF GiveUp, Fail, PromptInterrupted, Installing
    <2>3. CASE Kill(m) \/ SignalExits(m)
      <3>1. run[m] # Idle
        BY <2>3 DEF Kill, SignalExits, Idle
      <3> QED
        BY <2>1, <3>1 DEF Local, StepOK
    <2>4. CASE PreflightsFail(m)
      <3>1. run[m].step = "preflights"
        BY <2>4 DEF PreflightsFail, At
      <3> QED
        BY <3>1, StepIsCommand
    <2>5. CASE ResetFails(m)
      BY <2>5 DEF ResetFails, Of
    <2> QED
      BY <2>2, <2>3, <2>4, <2>5
  <1> QED
    BY <1>1, <1>2, <1>3, EndsControl

LEMMA VerifyControl ==
    ASSUME IInv, ControlInv, NEW m \in Machines, Verify(m)
    PROVE  ControlInv'
  <1>1. /\ At(m, "verify") /\ UNCHANGED <<disk, k0s, home, cluster, broken, commands, faults>>
    BY DEF Verify
  <1>2. TypeOK /\ Local(m) /\ Installing(m) /\ run[m].cmd # "none"
    BY <1>1, StepIsCommand, StepNames DEF At
  <1>3. CASE IsInstalled(m)
    BY <1>1, <1>2, <1>3, EndsControl DEF Verify, disk
  <1>4. CASE ~IsInstalled(m)
    <2> DEFINE d == [run[m] EXCEPT !.step = Following(m), !.events = @ \cup {"Started"}]
    <2>1. run' = [run EXCEPT ![m] = d] /\ UNCHANGED last
      BY <1>2, <1>4 DEF Verify, TypeOK
    <2>2. d.cmd = run[m].cmd /\ d.force = run[m].force /\ d.step = Following(m)
      BY <1>2 DEF TypeOK, Command
    <2> HIDE DEF d
    <2>3. Goes(m) /\ run'[m].step = Following(m)
      BY <1>2, <2>1, <2>2 DEF Goes, TypeOK
    <2>4. Of(m, "install") => run'[m].step = "configure"
      BY <1>1, <2>3, InstallFollows DEF Following, At, Of
    <2> QED
      BY <1>1, <1>2, <2>3, <2>4, QuietGoes DEF Installing, Of, disk, cluster
  <1> QED
    BY <1>3, <1>4

LEMMA ConfigureControl ==
    ASSUME IInv, ControlInv, NEW m \in Machines, Configure(m)
    PROVE  ControlInv'
  <1>1. /\ At(m, "configure")
        /\ UNCHANGED <<files, dropin, k0s, home, cluster, broken, commands, faults>>
        /\ (Advance(m) /\ UNCHANGED last) \/ End(m, "failed", {"Failed"})
    BY DEF Configure
  <1>2. TypeOK /\ run[m].cmd # "none"
    BY <1>1, StepIsCommand DEF At
  <1>3. CASE Advance(m) /\ UNCHANGED last
    BY <1>1, <1>3, AdvanceControl, StepNames DEF At, cluster
  <1>4. CASE End(m, "failed", {"Failed"})
    BY <1>1, <1>2, <1>4, EndsControl
  <1> QED
    BY <1>1, <1>3, <1>4

LEMMA SignalCaughtControl ==
    ASSUME IInv, ControlInv, NEW m \in Machines, SignalCaught(m)
    PROVE  ControlInv'
  <1> DEFINE d == [run[m] EXCEPT !.signal = "caught", !.events = @ \cup {"Aborted"}]
  <1>1. /\ run' = [run EXCEPT ![m] = d] /\ Installing(m) /\ TypeOK
        /\ UNCHANGED <<last, disk, k0s, home, cluster, broken, commands>>
    BY DEF SignalCaught, IInv, TypeOK
  <1>2. d.cmd = run[m].cmd /\ d.force = run[m].force /\ d.step = run[m].step
    BY <1>1 DEF TypeOK, Command
  <1> HIDE DEF d
  <1>3. Goes(m) /\ run'[m].step = run[m].step
    BY <1>1, <1>2 DEF Goes, TypeOK
  <1> QED
    BY <1>1, <1>3, QuietGoes DEF Installing, Of, disk, cluster, Controlled, MemberOK

(* The steps of reset that only look at the machine.                       *)

LEMMA SafetyBeside ==
    ASSUME IInv, Controlled, ~Overlap, NEW m \in Machines, Of(m, "reset"), m \notin broken,
           home[m].role = "controller", Safe(m)
    PROVE  Beside(m)
  <1> SUFFICES ASSUME NEW w \in Machines, Joined(w), Live \ {m} = {}
               PROVE  FALSE
    BY DEF Beside, WorkerJoined
  <1>1. TypeOK /\ IsFiniteSet(etcd) /\ IsFiniteSet(Live) /\ Live \subseteq etcd
    BY MachinesAssumption, FS_Subset DEF IInv, TypeOK, Live
  <1>2. Live = {m}
    BY <1>1, APIHasLive DEF Safe
  <1>3. Cardinality(Live) = 1
    BY <1>2, FS_Singleton
  <1>4. Cardinality(etcd) = 1
    <2>1. Cardinality(etcd) \in Nat /\ 2 * 1 > Cardinality(etcd)
      BY <1>1, <1>3, FS_CardinalityType DEF Safe, API
    <2>2. Cardinality(etcd) # 0
      BY <1>1, FS_EmptySet DEF Safe, API
    <2> QED
      BY <2>1, <2>2
  <1>5. etcd = {m}
    <2>1. PICK x : etcd = {x}
      BY <1>1, <1>4, FS_Singleton
    <2> QED
      BY <1>1, <1>2, <2>1
  <1>6. labelled \subseteq {m}
    <2> SUFFICES ASSUME NEW x \in labelled
                 PROVE  x = m
      OBVIOUS
    <2>1. x \in Machines
      BY <1>1 DEF TypeOK
    <2>2. x \notin broken
      <3>1. run[m].cmd # "none"
        BY DEF Of
      <3>2. x # m => run[x].cmd = "none"
        BY <2>1, <3>1, OnlyCommand
      <3> QED
        BY <2>1, <3>2 DEF Controlled, K0sOK, Of
    <2> QED
      BY <1>5, <2>1, <2>2 DEF Controlled, MemberOK
  <1>7. labelled # {} /\ w \in nodes /\ w \notin labelled
    BY DEF Controlled, ClusterOK, MemberOK, Joined
  <1>8. Cardinality(labelled) = 1
    <2>1. labelled = {m}
      BY <1>6, <1>7
    <2> QED
      BY <2>1, FS_Singleton
  <1> QED
    BY <1>7, <1>8 DEF Safe

LEMMA LookControl ==
    ASSUME IInv, ControlInv, NEW m \in Machines,
           Runtime(m) \/ Warning(m) \/ HostInfo(m) \/ Safety(m)
    PROVE  ControlInv'
  <1>1. /\ UNCHANGED <<disk, k0s, home, cluster, broken, commands, faults>>
        /\ run[m].step \in {"runtime", "warning", "host", "safety"}
    BY DEF Runtime, Warning, HostInfo, Safety, At
  <1>2. TypeOK /\ Of(m, "reset") /\ run[m] \in Command
    BY <1>1, StepIsCommand, ResetStepNames DEF TypeOK
  <1>3. ASSUME NEW outcome \in {"declined", "failed"}, End(m, outcome, {})
        PROVE  ControlInv'
    BY <1>1, <1>2, <1>3, EndsControl DEF disk, Of
  <1>4. /\ Live' = Live /\ Reachable(m)' = Reachable(m)
        /\ UNCHANGED last => WorkerJoined' = WorkerJoined
    BY <1>1 DEF Live, Reachable, Served, API, cluster, WorkerJoined, Joined
  <1>5. Controlled => m \notin broken
    BY <1>1, <1>2 DEF Controlled, ResetOK, ResetLooks
  <1>6. CASE Runtime(m)
    <2> DEFINE d == [run[m] EXCEPT !.step = "warning", !.dir = BestDir(m)]
    <2>1. run' = [run EXCEPT ![m] = d] /\ UNCHANGED last /\ At(m, "runtime")
      BY <1>6 DEF Runtime
    <2>2. /\ d.cmd = run[m].cmd /\ d.force = run[m].force /\ d.step = "warning"
          /\ d.node = run[m].node
      BY <1>2 DEF Command
    <2> HIDE DEF d
    <2>3. Goes(m) /\ run'[m].step = "warning" /\ run'[m].node = run[m].node
      BY <1>2, <2>1, <2>2 DEF Goes, TypeOK
    <2>4. Controlled => ResetOK(m)'
      BY <1>1, <1>2, <1>5, <2>1, <2>3 DEF ResetOK, Controlled, At
    <2> QED
      BY <1>1, <1>2, <2>3, <2>4, QuietGoes DEF Of, disk, cluster
  <1>7. CASE Warning(m)
    <2>1. \/ Goto(m, "host") /\ UNCHANGED last
          \/ End(m, "declined", {}) \/ End(m, "failed", {})
      BY <1>7 DEF Warning
    <2>2. CASE Goto(m, "host") /\ UNCHANGED last
      <3>1. Goes(m) /\ run'[m].step = "host" /\ run'[m].node = run[m].node
        BY <1>2, <2>2, GotoGoes
      <3>2. Controlled => ResetOK(m)'
        BY <1>1, <1>2, <1>5, <1>7, <3>1 DEF ResetOK, Controlled, At, Warning
      <3> QED
        BY <1>1, <1>2, <3>1, <3>2, QuietGoes DEF Of, disk, cluster
    <2> QED
      BY <1>3, <2>1, <2>2
  <1>8. CASE HostInfo(m)
    <2>1. CASE End(m, "failed", {})
      BY <1>3, <2>1
    <2>2. CASE ~End(m, "failed", {})
      <3>1. PICK s \in {"safety", "count"}, role \in Roles \cup {"unknown"},
                 node \in {"unknown", "error", "missing", "found"} :
               /\ run' = [run EXCEPT ![m].step = s, ![m].role = role, ![m].node = node]
               /\ \/ /\ s = "safety" /\ role = home[m].role
                     /\ node = "found" => Reachable(m)
                  \/ /\ s = "count" /\ role = "unknown" /\ node = run[m].node
                     /\ ~("k0s binary" \in files[m] /\ Up(m))
        <4>1. CASE "k0s binary" \in files[m] /\ Up(m)
          <5>1. home[m].role \in Roles
            BY <1>2 DEF TypeOK
          <5> QED
            BY <1>8, <2>2, <4>1, <5>1 DEF HostInfo
        <4>2. CASE ~("k0s binary" \in files[m] /\ Up(m))
          <5> DEFINE d == [run[m] EXCEPT !.step = "count", !.role = "unknown"]
                     e == [run[m] EXCEPT !.step = "count", !.role = "unknown",
                                         !.node = run[m].node]
          <5>1. run' = [run EXCEPT ![m] = d]
            BY <1>8, <2>2, <4>2 DEF HostInfo
          <5>2. d = e
            BY <1>2 DEF Command
          <5>3. run' = [run EXCEPT ![m] = e]
            BY <5>1, <5>2
          <5>4. run[m].node \in {"unknown", "error", "missing", "found"}
            BY <1>2 DEF Command
          <5> QED
            BY <4>2, <5>3, <5>4
        <4> QED
          BY ZenonT(60), <4>1, <4>2
      <3> DEFINE d == [run[m] EXCEPT !.step = s, !.role = role, !.node = node]
      <3>2. run' = [run EXCEPT ![m] = d] /\ UNCHANGED last /\ At(m, "host")
        BY <1>8, <2>2, <3>1 DEF HostInfo
      <3>3. /\ d.cmd = run[m].cmd /\ d.force = run[m].force /\ d.step = s
            /\ d.node = node /\ d.role = role
        BY <1>2 DEF Command
      <3> HIDE DEF d
      <3>4. Goes(m) /\ run'[m].step = s /\ run'[m].node = node /\ run'[m].role = role
        BY <1>2, <3>2, <3>3 DEF Goes, TypeOK
      <3>5. Controlled => /\ run[m].node = "unknown"
                          /\ s = "count" => ~Up(m)
        BY <1>2, <1>5, <3>1, <3>2 DEF Controlled, ResetOK, K0sOK, At, Up
      <3>6. Controlled /\ s = "count" => Beside(m)'
        <4>1. ~Up(m) => Live \ {m} = Live
          BY DEF Live, Up
        <4> QED
          BY <1>4, <3>2, <3>5, <4>1 DEF Controlled, ClusterOK, Beside
      <3>7. Controlled => ResetOK(m)'
        BY <1>1, <1>2, <1>4, <1>5, <3>1, <3>4, <3>5, <3>6 DEF ResetOK, At, Roles, TypeOK
      <3> QED
        BY SMTT(60), <1>1, <1>2, <3>2, <3>4, <3>7, QuietGoes DEF Of, disk, cluster
    <2> QED
      BY <2>1, <2>2
  <1>9. CASE Safety(m)
    <2>1. CASE End(m, "failed", {})
      BY <1>3, <2>1
    <2>2. CASE ~End(m, "failed", {})
      <3>1. /\ Goto(m, "count") /\ UNCHANGED last /\ At(m, "safety")
            /\ run[m].role = "controller" /\ ~run[m].force => Safe(m)
        BY <1>9, <2>2 DEF Safety
      <3>2. /\ Goes(m) /\ run'[m].step = "count" /\ run'[m].node = run[m].node
            /\ run'[m].role = run[m].role
        BY <1>2, <3>1, GotoGoes
      <3>3. ASSUME Orderly, Controlled
            PROVE  ResetOK(m)'
        <4>1. /\ run[m].role = home[m].role /\ ~run[m].force /\ m \notin broken
              /\ run[m].node = "found" => run[m].role # "unknown" /\ Reachable(m)
          BY <1>2, <1>5, <3>1, <3>3 DEF Orderly, Clean, Controlled, ResetOK, At
        <4>2. CASE home[m].role = "controller"
          <5>1. Beside(m)
            BY <1>2, <3>1, <3>3, <4>1, <4>2, SafetyBeside DEF Orderly
          <5> QED
            BY <1>1, <1>4, <3>1, <3>2, <4>1, <5>1 DEF ResetOK, Beside, At, ResetLooks
        <4>3. CASE home[m].role # "controller"
          <5>1. Beside(m)
            BY <3>3, <4>3 DEF Controlled, ClusterOK, Beside, Live
          <5> QED
            BY <1>1, <1>4, <3>1, <3>2, <4>1, <5>1 DEF ResetOK, Beside, At, ResetLooks
        <4> QED
          BY <4>2, <4>3
      <3> QED
        BY <1>1, <1>2, <3>1, <3>2, <3>3, QuietGoes DEF Of, disk, cluster
    <2> QED
      BY <2>1, <2>2
  <1> QED
    BY <1>6, <1>7, <1>8, <1>9

(* The steps of reset that clean the machine.                              *)

(* What a reset of a machine it has begun to clean knows of a later step.  *)
LEMMA LaterResetOK ==
    ASSUME NEW m \in Machines, m \in broken, Beside(m)',
           run'[m].step \notin ResetLooks \cup {"delete node"}
    PROVE  ResetOK(m)'
  BY DEF ResetOK, ResetLooks, At

LEMMA CleansFiles ==
    ASSUME IInv, ControlInv, NEW m \in Machines, m \in broken, Of(m, "reset"),
           Goes(m), run'[m].step \notin ResetLooks \cup {"delete node"},
           \A n \in Machines \ {m} : files'[n] = files[n],
           UNCHANGED <<k0s, home, cluster, broken>>
    PROVE  ControlInv'
  <1>1. Controlled => Beside(m)
    BY DEF Controlled, ResetOK
  <1>2. Beside(m)' <=> Beside(m)
    BY DEF Beside, WorkerJoined, Joined, Live, Goes, cluster
  <1>3. Controlled => ResetOK(m)'
    BY <1>1, <1>2, LaterResetOK
  <1> QED
    BY <1>3, QuietGoes DEF Of, cluster

LEMMA CleansFilesControl ==
    ASSUME IInv, ControlInv, NEW m \in Machines,
           \/ DeleteControlNode(m) \/ ResetFirewalld(m) \/ RemoveFiles(m) \/ RemoveHome(m)
           \/ RemoveConfig(m)
    PROVE  ControlInv'
  <1>1. /\ run[m].step \in {"control node", "firewalld", "remove k0s.yaml", "remove services",
                           "remove units", "remove binary", "remove settings", "remove home",
                           "remove config"}
        /\ UNCHANGED <<k0s, home, cluster, broken>>
    BY DEF DeleteControlNode, ResetFirewalld, RemoveFiles, RemoveStep, RemoveHome, RemoveConfig, At
  <1>2. TypeOK /\ Of(m, "reset") /\ m \in broken
    <2>1. run[m].step \in ResetSteps \ ResetLooks
      BY <1>1, ResetStepNames DEF ResetLooks
    <2> QED
      BY <2>1, CleanBefore DEF IInv, LocalInv
  <1>3. \A n \in Machines \ {m} : files'[n] = files[n]
    <2>1. UNCHANGED files \/ \E fs \in SUBSET Files : Remove(m, fs)
      BY DEF DeleteControlNode, ResetFirewalld, RemoveFiles, RemoveStep, RemoveHome,
         RemoveConfig, disk, Files, Roles
    <2> QED
      BY <1>2, <2>1 DEF Remove, TypeOK
  <1>4. \/ End(m, "failed", {}) /\ UNCHANGED files
        \/ \E s \in {"leave", "k0s reset", "remove k0s.yaml", "remove services", "remove units",
                     "remove home", "remove config", "reboot", "remove binary",
                     "remove settings"} :
              Goto(m, s) /\ UNCHANGED last
    BY DEF DeleteControlNode, ResetFirewalld, RemoveFiles, RemoveStep, RemoveHome, RemoveConfig,
       Unless, disk
  <1>5. CASE End(m, "failed", {}) /\ UNCHANGED files
    BY <1>1, <1>2, <1>5, EndsControl DEF Of
  <1>6. ASSUME NEW s \in {"leave", "k0s reset", "remove k0s.yaml", "remove services",
                          "remove units", "remove home", "remove config", "reboot",
                          "remove binary", "remove settings"},
               Goto(m, s), UNCHANGED last
        PROVE  ControlInv'
    <2>1. Goes(m) /\ run'[m].step = s
      BY <1>2, <1>6, GotoGoes
    <2>2. run'[m].step \notin ResetLooks \cup {"delete node"}
      BY <1>6, <2>1 DEF ResetLooks
    <2> QED
      BY <1>1, <1>2, <1>3, <2>1, <2>2, CleansFiles
  <1> QED
    BY <1>4, <1>5, <1>6

(* The reset decides whether it removes the machine from the cluster.      *)
LEMMA CountControl ==
    ASSUME IInv, ControlInv, NEW m \in Machines, Count(m)
    PROVE  ControlInv'
  <1>1. /\ run[m].step = "count" /\ broken' = broken \cup {m}
        /\ Goto(m, IF Stays(m) THEN "k0s reset" ELSE "delete node")
        /\ UNCHANGED <<last, disk, k0s, home, cluster, commands, faults>>
    BY DEF Count, At
  <1>2. TypeOK /\ Of(m, "reset") /\ run[m] \in Command
    BY <1>1, StepIsCommand, ResetStepNames DEF TypeOK
  <1>3. /\ Goes(m) /\ run'[m].node = run[m].node /\ run'[m].role = run[m].role
        /\ run'[m].step = IF Stays(m) THEN "k0s reset" ELSE "delete node"
    BY <1>1, <1>2, GotoGoes
  <1> SUFFICES ASSUME Orderly'
               PROVE  Controlled'
    BY DEF ControlInv
  <1>4. Orderly /\ Controlled
    BY <1>3, OrderlyBefore DEF ControlInv
  <1>5. \A n \in Machines \ {m} : run[n].cmd = "none" /\ run'[n].cmd = "none"
    BY <1>2, <1>3, <1>4, OnlyCommand DEF Of, Orderly, Goes
  <1>6. \A n \in Machines : run'[n].cmd = run[n].cmd /\ last'[n] = last[n]
    BY <1>3 DEF Goes
  <1>7. /\ Live' = Live /\ Reachable(m)' = Reachable(m)
        /\ \A n \in Machines : Joined(n)' <=> Joined(n)
    BY <1>1 DEF Live, Reachable, Served, API, cluster, Joined
  <1>8. ResetOK(m)'
    <2>1. /\ run[m].role \in {"unknown", home[m].role} /\ Beside(m)
          /\ run[m].node = "found" => run[m].role # "unknown" /\ Reachable(m)
      BY <1>1, <1>2, <1>4 DEF Controlled, ResetOK, At
    <2>2. Beside(m)'
      BY <1>7, <2>1 DEF Beside, WorkerJoined
    <2>3. ASSUME ~Stays(m), run[m].role = "controller", run[m].node = "found",
                 inst.state # "none"
          PROVE  labelled \ {m} # {}
      <3>1. Cardinality(labelled) # 1 /\ labelled # {}
        BY <1>4, <2>1, <2>3 DEF Stays, Controllers, Controlled, ClusterOK
      <3>2. Cardinality({m}) = 1
        BY FS_Singleton
      <3> QED
        BY <3>1, <3>2
    <2> QED
      BY <1>1, <1>2, <1>3, <1>7, <2>1, <2>2, <2>3 DEF ResetOK, At, ResetLooks, cluster
  <1>9. ASSUME NEW n \in Machines
        PROVE  K0sOK(n)' /\ MemberOK(n)' /\ ResetOK(n)'
    <2>1. K0sOK(n) /\ MemberOK(n)
      BY <1>4 DEF Controlled
    <2>2. K0sOK(n)'
      BY <1>1, <1>2, <1>6, <2>1 DEF K0sOK, Units, Of, disk
    <2>3. MemberOK(n)'
      BY <1>1, <1>2, <1>5, <1>6, <1>7, <2>1 DEF MemberOK, Of, cluster
    <2> QED
      BY <1>5, <1>8, <2>2, <2>3 DEF ResetOK, Of
  <1>10. ClusterOK'
    BY <1>1, <1>4, <1>7 DEF Controlled, ClusterOK, WorkerJoined, cluster
  <1> QED
    BY <1>9, <1>10 DEF Controlled

(* A reset that cleans the machine takes it out of the cluster, or ends    *)
(* the cluster of which it is the last member.                             *)
Leaves(m) ==
    \/ /\ etcd = {m} /\ etcd' = {} /\ nodes' = {} /\ labelled' = {} /\ inst'.state = "none"
    \/ /\ etcd \ {m} \subseteq etcd' /\ etcd' \subseteq etcd
       /\ nodes \ {m} \subseteq nodes' /\ nodes' \subseteq nodes
       /\ labelled \ {m} \subseteq labelled' /\ labelled' \subseteq labelled
       /\ inst' = inst
       /\ inst.state # "none" => labelled' # {}

LEMMA LeavesOthers ==
    ASSUME IInv, Controlled, ~Overlap, NEW m \in Machines, m \in broken, Of(m, "reset"),
           Leaves(m), run'[m].cmd \in {"reset", "none"},
           last'[m].cmd \in {"none", "reset"},
           k0s[m] = "none" => k0s'[m] = "none", k0s'[m] \in {k0s[m], "none", "halted"},
           \A n \in Machines \ {m} : /\ run'[n] = run[n] /\ last'[n] = last[n]
                                     /\ files'[n] = files[n] /\ k0s'[n] = k0s[n]
                                     /\ home'[n] = home[n] /\ (n \in broken' <=> n \in broken)
    PROVE  /\ \A n \in Machines \ {m} : K0sOK(n)' /\ MemberOK(n)' /\ ResetOK(n)'
           /\ ClusterOK' /\ Beside(m)'
  <1>1. /\ run[m].cmd = "reset"
        /\ \A n \in Machines \ {m} : run[n].cmd = "none" /\ run'[n].cmd = "none"
    BY OnlyCommand DEF Of
  <1>2. last[m].cmd = "none" /\ Beside(m)
    BY <1>1 DEF Controlled, K0sOK, ResetOK
  <1>3. \A n \in Machines : Joined(n)' => n # m /\ Joined(n)
    BY DEF Joined
  <1>6. ASSUME NEW n \in Machines \ {m}
        PROVE  K0sOK(n)'
    <2>1. K0sOK(n)
      BY DEF Controlled
    <2>2. ASSUME home[n].first, k0s[n] \in {"stopped", "starting"}, NEW x \in Machines
          PROVE  ~Of(x, "join")' /\ (x # n => k0s'[x] = "none")
      <3>1. x # n => k0s[x] = "none"
        BY <2>1, <2>2 DEF K0sOK
      <3>2. ~Of(x, "join")'
        BY <1>1 DEF Of
      <3>3. CASE x = m
        BY <3>1, <3>2, <3>3
      <3>4. CASE x # m
        BY <3>1, <3>2, <3>4
      <3> QED
        BY <3>3, <3>4
    <2>3. /\ home'[n] = home[n] /\ k0s'[n] = k0s[n] /\ files'[n] = files[n]
          /\ last'[n] = last[n] /\ run'[n] = run[n] /\ (n \in broken' <=> n \in broken)
      OBVIOUS
    <2> QED
      BY <2>1, <2>2, <2>3 DEF K0sOK, Units, Of
  <1>4. CASE etcd = {m} /\ etcd' = {} /\ nodes' = {} /\ labelled' = {} /\ inst'.state = "none"
    <2>1. Live \ {m} = {}
      BY <1>4 DEF Live
    <2>2. ~WorkerJoined' /\ \A n \in Machines : ~Joined(n)'
      BY <1>2, <1>3, <2>1 DEF Beside, WorkerJoined
    <2>3. ASSUME NEW n \in Machines \ {m}
          PROVE  K0sOK(n)' /\ MemberOK(n)' /\ ResetOK(n)'
      <3>1. MemberOK(n)
        BY DEF Controlled
      <3>2. K0sOK(n)'
        BY <1>6
      <3>3. MemberOK(n)'
        BY <1>1, <1>4, <2>2, <3>1 DEF MemberOK, Of
      <3> QED
        BY <1>1, <3>2, <3>3 DEF ResetOK, Of
    <2> QED
      BY <1>4, <2>2, <2>3 DEF ClusterOK, Beside
  <1>5. CASE ~(etcd = {m} /\ etcd' = {} /\ nodes' = {} /\ labelled' = {} /\ inst'.state = "none")
    <2>1. /\ etcd \ {m} \subseteq etcd' /\ etcd' \subseteq etcd
          /\ nodes \ {m} \subseteq nodes' /\ nodes' \subseteq nodes
          /\ labelled \ {m} \subseteq labelled' /\ labelled' \subseteq labelled
          /\ inst' = inst
          /\ inst.state # "none" => labelled' # {}
      BY <1>5 DEF Leaves
    <2>2. Live' \ {m} = Live \ {m}
      <3>1. etcd \subseteq Machines
        BY DEF IInv, TypeOK
      <3> QED
        BY <2>1, <3>1 DEF Live
    <2>3. WorkerJoined' => Live' \ {m} # {}
      BY <1>2, <1>3, <2>2 DEF WorkerJoined, Beside
    <2>4. ASSUME NEW n \in Machines \ {m}
          PROVE  K0sOK(n)' /\ MemberOK(n)' /\ ResetOK(n)'
      <3>1. MemberOK(n)
        BY DEF Controlled
      <3>2. K0sOK(n)'
        BY <1>6
      <3>3. MemberOK(n)'
        BY <1>1, <1>3, <2>1, <3>1 DEF MemberOK, Of
      <3> QED
        BY <1>1, <3>2, <3>3 DEF ResetOK, Of
    <2> QED
      BY <2>1, <2>3, <2>4 DEF ClusterOK, Beside
  <1> QED
    BY <1>4, <1>5

LEMMA LeavesGoes ==
    ASSUME IInv, ControlInv, NEW m \in Machines, m \in broken, Of(m, "reset"),
           Goes(m), run'[m].step \notin ResetLooks \cup {"delete node"},
           Orderly /\ Controlled => Leaves(m),
           k0s[m] = "none" => k0s'[m] = "none", k0s'[m] \in {k0s[m], "none", "halted"},
           \A n \in Machines \ {m} : files'[n] = files[n] /\ k0s'[n] = k0s[n],
           UNCHANGED <<home, broken>>
    PROVE  ControlInv'
  <1> SUFFICES ASSUME Orderly'
               PROVE  Controlled'
    BY DEF ControlInv
  <1>1. Orderly /\ Controlled
    BY OrderlyBefore DEF ControlInv
  <1>2. K0sOK(m) /\ MemberOK(m)
    BY <1>1 DEF Controlled
  <1>3. /\ run[m].cmd = "reset" /\ run'[m].cmd = "reset" /\ last[m].cmd = "none"
        /\ last'[m] = last[m] /\ m \in broken'
    BY <1>2 DEF Of, Goes, K0sOK
  <1>4. /\ \A n \in Machines \ {m} : K0sOK(n)' /\ MemberOK(n)' /\ ResetOK(n)'
        /\ ClusterOK' /\ Beside(m)'
    BY <1>1, <1>3, LeavesOthers DEF Orderly, Goes
  <1>5. K0sOK(m)'
    <2>1. ASSUME NEW n \in Machines
          PROVE  /\ Of(n, "join")' => Of(n, "join")
                 /\ n # m => k0s'[n] = k0s[n]
      BY DEF Of, Goes
    <2>2. k0s'[m] \in {"stopped", "starting"} => k0s'[m] = k0s[m]
      OBVIOUS
    <2> QED
      BY <1>2, <1>3, <2>1, <2>2 DEF K0sOK, Of
  <1>6. MemberOK(m)'
    <2>1. labelled' \subseteq labelled
      BY <1>1 DEF Leaves
    <2> QED
      BY <1>2, <1>3, <2>1 DEF MemberOK, Of, Joined
  <1>7. ResetOK(m)'
    BY <1>4, LaterResetOK
  <1> QED
    BY <1>4, <1>5, <1>6, <1>7 DEF Controlled

LEMMA DeleteNodeControl ==
    ASSUME IInv, ControlInv, NEW m \in Machines, DeleteNode(m)
    PROVE  ControlInv'
  <1>1. /\ run[m].step = "delete node"
        /\ UNCHANGED <<disk, k0s, home, etcd, inst, broken, commands, faults>>
    BY DEF DeleteNode, At
  <1>2. TypeOK /\ Of(m, "reset") /\ m \in broken
    <2>1. run[m].step \in ResetSteps \ ResetLooks
      BY <1>1, ResetStepNames DEF ResetLooks
    <2> QED
      BY <2>1, CleanBefore DEF IInv, LocalInv
  <1>3. Goto(m, "control node") /\ UNCHANGED last
        => Goes(m) /\ run'[m].step \notin ResetLooks \cup {"delete node"}
    <2>1. "control node" \notin ResetLooks \cup {"delete node"}
      BY DEF ResetLooks
    <2> QED
      BY <1>2, <2>1, GotoGoes
  <1>4. CASE End(m, "failed", {}) /\ UNCHANGED <<nodes, labelled>>
    BY <1>1, <1>2, <1>4, EndsControl DEF disk, cluster, Of
  <1>5. CASE Goto(m, "control node") /\ UNCHANGED <<last, nodes, labelled>>
    BY <1>1, <1>2, <1>3, <1>5, CleansFiles DEF disk, cluster
  <1>6. CASE /\ run[m].node = "found" /\ nodes' = nodes \ {m} /\ labelled' = labelled \ {m}
             /\ Goto(m, "control node") /\ UNCHANGED last
    <2>1. ASSUME Controlled, inst.state # "none"
          PROVE  labelled' # {}
      <3>1. CASE m \in labelled
        <4>1. home[m].role = "controller" /\ run[m].role \in {"unknown", home[m].role}
              /\ run[m].role # "unknown"
          BY <1>1, <1>2, <1>6, <2>1, <3>1 DEF Controlled, MemberOK, ResetOK
        <4> QED
          BY <1>1, <1>2, <1>6, <2>1, <4>1 DEF Controlled, ResetOK, At
      <3>2. CASE m \notin labelled
        BY <1>6, <2>1, <3>2 DEF Controlled, ClusterOK
      <3> QED
        BY <3>1, <3>2
    <2>2. Controlled => Leaves(m)
      BY <1>1, <1>6, <2>1 DEF Leaves
    <2> QED
      BY <1>1, <1>2, <1>3, <1>6, <2>2, LeavesGoes DEF disk
  <1> QED
    BY <1>4, <1>5, <1>6 DEF DeleteNode, Unless

LEMMA LeaveEtcdControl ==
    ASSUME IInv, ControlInv, NEW m \in Machines, LeaveEtcd(m)
    PROVE  ControlInv'
  <1>1. /\ run[m].step = "leave"
        /\ UNCHANGED <<last, disk, k0s, home, nodes, labelled, inst, broken, commands>>
        /\ etcd \ {m} \subseteq etcd' /\ etcd' \subseteq etcd
        /\ GoesOn(m, "k0s reset")
    BY DEF LeaveEtcd, At, Goto, GoesOn
  <1>2. TypeOK /\ Of(m, "reset") /\ m \in broken
    <2>1. run[m].step \in ResetSteps \ ResetLooks
      BY <1>1, ResetStepNames DEF ResetLooks
    <2> QED
      BY <2>1, CleanBefore DEF IInv, LocalInv
  <1>3. Goes(m) /\ run'[m].step = "k0s reset"
    BY <1>1, <1>2, GoesOnGoes
  <1>4. Controlled => Leaves(m)
    BY <1>1 DEF Leaves, Controlled, ClusterOK
  <1>5. "k0s reset" \notin ResetLooks \cup {"delete node"}
    BY DEF ResetLooks
  <1> QED
    BY <1>1, <1>2, <1>3, <1>4, <1>5, LeavesGoes DEF disk

(* k0s and its data are gone, and the cluster with its last member.        *)
LEMMA LoseLeaves ==
    ASSUME NEW m \in Machines, Controlled, Lose(m)
    PROVE  Leaves(m)
  <1>1. NoInstallation.state = "none"
    BY DEF NoInstallation
  <1> QED
    BY <1>1 DEF Lose, Leaves, Controlled, ClusterOK, cluster

LEMMA ResetK0sControl ==
    ASSUME IInv, ControlInv, NEW m \in Machines, ResetK0s(m)
    PROVE  ControlInv'
  <1>1. /\ run[m].step = "k0s reset" /\ GoesOn(m, "firewalld")
        /\ UNCHANGED <<last, config, dropin, home, broken, commands>>
    BY DEF ResetK0s, At, Goto, GoesOn
  <1>2. TypeOK /\ Of(m, "reset") /\ m \in broken
    <2>1. run[m].step \in ResetSteps \ ResetLooks
      BY <1>1, ResetStepNames DEF ResetLooks
    <2> QED
      BY <2>1, CleanBefore DEF IInv, LocalInv
  <1>3. Goes(m) /\ run'[m].step \notin ResetLooks \cup {"delete node"}
    <2>1. UNCHANGED last /\ "firewalld" \notin ResetLooks \cup {"delete node"}
      BY <1>1 DEF ResetLooks
    <2>2. Goes(m) /\ run'[m].step = "firewalld"
      BY <1>1, <1>2, <2>1, GoesOnGoes
    <2> QED
      BY <2>1, <2>2
  <1>4. Controlled => Leaves(m)
    <2>1. UNCHANGED cluster \/ Lose(m)
      BY DEF ResetK0s
    <2>2. UNCHANGED cluster /\ Controlled => Leaves(m)
      BY DEF Leaves, Controlled, ClusterOK, cluster
    <2> QED
      BY <2>1, <2>2, LoseLeaves
  <1>5. \A n \in Machines \ {m} : files'[n] = files[n]
    <2>1. files' = files \/ Remove(m, Roles)
      BY DEF ResetK0s
    <2> QED
      BY <1>2, <2>1 DEF Remove, TypeOK
  <1>6. /\ k0s[m] = "none" => k0s'[m] = "none"
        /\ k0s'[m] \in {k0s[m], "none", "halted"}
        /\ \A n \in Machines \ {m} : k0s'[n] = k0s[n]
    <2>1. \/ k0s' = k0s \/ k0s' = [k0s EXCEPT ![m] = "none"]
          \/ (Up(m) /\ k0s' = [k0s EXCEPT ![m] = "halted"])
      BY DEF ResetK0s
    <2> QED
      BY <1>2, <2>1 DEF TypeOK, Up
  <1> QED
    BY <1>1, <1>2, <1>3, <1>4, <1>5, <1>6, LeavesGoes

LEMMA RebootControl ==
    ASSUME IInv, ControlInv, NEW m \in Machines, Reboot(m), IInv'
    PROVE  ControlInv'
  <1>1. /\ run[m].step = "reboot" /\ k0s' = [k0s EXCEPT ![m] = "none"] /\ Lose(m)
        /\ End(m, "done", {}) /\ broken' = broken \ {m}
        /\ home' = [home EXCEPT ![m] = NoHome]
        /\ UNCHANGED <<disk, commands, faults>>
    BY DEF Reboot, At
  <1>2. TypeOK /\ Of(m, "reset") /\ m \in broken
    <2>1. run[m].step \in ResetSteps \ ResetLooks
      BY <1>1, ResetStepNames DEF ResetLooks
    <2> QED
      BY <2>1, CleanBefore DEF IInv, LocalInv
  <1>3. Ends(m, "done")
    BY <1>1, <1>2, EndEnds
  <1> SUFFICES ASSUME Orderly'
               PROVE  Controlled'
    BY DEF ControlInv
  <1>4. Orderly /\ Controlled /\ Leaves(m) /\ m \notin etcd' \cup nodes'
    <2>1. Orderly /\ Controlled
      BY <1>3, OrderlyBefore DEF ControlInv
    <2> QED
      BY <1>1, <1>2, <1>3, <2>1, LoseLeaves DEF Ends, Orderly, Clean
  <1>5. /\ k0s'[m] = "none" /\ last'[m].cmd = "reset" /\ run'[m].cmd = "none"
        /\ \A n \in Machines \ {m} : /\ run'[n] = run[n] /\ last'[n] = last[n]
                                     /\ files'[n] = files[n] /\ k0s'[n] = k0s[n]
                                     /\ home'[n] = home[n] /\ (n \in broken' <=> n \in broken)
    BY <1>1, <1>2, <1>3 DEF TypeOK, Ends, Of, disk
  <1>6. /\ \A n \in Machines \ {m} : K0sOK(n)' /\ MemberOK(n)' /\ ResetOK(n)'
        /\ ClusterOK'
    BY <1>2, <1>4, <1>5, LeavesOthers DEF Orderly
  <1>7. m \notin labelled' /\ m \notin broken'
    BY <1>1, <1>4 DEF IInv, TypeOK
  <1>8. K0sOK(m)' /\ MemberOK(m)' /\ ResetOK(m)'
    BY <1>4, <1>5, <1>7 DEF K0sOK, MemberOK, ResetOK, Of, Joined
  <1> QED
    BY <1>6, <1>8 DEF Controlled

(* The steps that install and start k0s.                                   *)

LEMMA StartK0sControl ==
    ASSUME IInv, ControlInv, NEW m \in Machines, StartK0s(m)
    PROVE  ControlInv'
  <1>1. /\ At(m, "start") /\ k0s[m] = "stopped" /\ k0s' = [k0s EXCEPT ![m] = "starting"]
        /\ Advance(m)
        /\ UNCHANGED <<last, disk, home, cluster, broken, commands, faults>>
    BY DEF StartK0s
  <1>2. TypeOK /\ Local(m) /\ Installing(m) /\ run[m].cmd # "none"
    BY <1>1, StepIsCommand, StepNames DEF At
  <1>3. Goes(m) /\ run'[m].step = Following(m)
    BY <1>1, <1>2, GotoGoes DEF Advance
  <1> SUFFICES ASSUME Orderly'
               PROVE  Controlled'
    BY DEF ControlInv
  <1>4. Orderly /\ Controlled
    BY <1>3, OrderlyBefore DEF ControlInv
  <1>5. \A n \in Machines \ {m} : run[n].cmd = "none" /\ run'[n].cmd = "none"
    BY <1>2, <1>3, <1>4, OnlyCommand DEF Orderly, Goes
  <1>6. \A n \in Machines : run'[n].cmd = run[n].cmd /\ last'[n] = last[n]
    BY <1>3 DEF Goes
  <1>7. k0s'[m] = "starting" /\ \A n \in Machines \ {m} : k0s'[n] = k0s[n]
    BY <1>1, <1>2 DEF TypeOK
  <1>8. run'[m].step = "ready"
    BY <1>1, <1>2, <1>3, InstallFollows, JoinFollows DEF Following, At, Installing, Of
  <1>9. Live' = Live /\ \A n \in Machines : Joined(n)' => Joined(n)
    <2>1. \A n \in Machines : k0s'[n] \in {"joined", "node"} <=> k0s[n] \in {"joined", "node"}
      BY <1>1, <1>7
    <2> QED
      BY <1>1, <1>2, <1>6, <1>7, <2>1 DEF Live, Joined, cluster, TypeOK
  <1>10. ASSUME NEW n \in Machines
         PROVE  K0sOK(n)' /\ MemberOK(n)' /\ ResetOK(n)'
    <2>1. K0sOK(n) /\ MemberOK(n) /\ K0sOK(m) /\ MemberOK(m)
      BY <1>4 DEF Controlled
    <2>2. CASE n = m
      <3>1. K0sOK(m)'
        BY ZenonT(60), <1>1, <1>6, <1>7, <2>1 DEF K0sOK, Units, Of, disk
      <3>2. MemberOK(m)'
        BY <1>1, <1>2, <1>6, <1>7, <1>8, <1>9, <2>1
           DEF MemberOK, K0sOK, Of, cluster, Joined, Installing
      <3> QED
        BY <1>2, <1>6, <2>2, <3>1, <3>2 DEF ResetOK, Of, Installing
    <2>3. CASE n # m
      <3>1. K0sOK(n)'
        BY <1>1, <1>6, <1>7, <2>1, <2>3 DEF K0sOK, Units, Of, disk
      <3>2. MemberOK(n)'
        BY <1>1, <1>5, <1>6, <1>7, <1>9, <2>1, <2>3 DEF MemberOK, Of, cluster
      <3> QED
        BY <1>5, <2>3, <3>1, <3>2 DEF ResetOK, Of
    <2> QED
      BY <2>2, <2>3
  <1>11. ClusterOK'
    BY <1>1, <1>4, <1>9 DEF Controlled, ClusterOK, WorkerJoined, cluster
  <1> QED
    BY <1>10, <1>11 DEF Controlled

(* A machine on which k0s is installed has none and is not known to the    *)
(* cluster.                                                                *)
LEMMA K0sInstallControl ==
    ASSUME IInv, ControlInv, NEW m \in Machines, InstallK0s(m) \/ RunK0sInstallCommand(m)
    PROVE  ControlInv'
  <1> DEFINE first == Of(m, "install")
             h == [dir |-> run[m].dir, role |-> run[m].role,
                   release |-> run[m].release, first |-> first]
  <1>1. /\ At(m, "k0s") /\ "k0s binary" \in files[m] /\ Write(m, {run[m].role})
        /\ k0s' = [k0s EXCEPT ![m] = "stopped"]
        /\ home' = [home EXCEPT ![m] = h]
        /\ Advance(m)
        /\ UNCHANGED <<last, config, dropin, cluster, broken, commands, faults>>
    BY DEF InstallK0s, RunK0sInstallCommand, K0sInstall, Of
  <1>2. TypeOK /\ Local(m) /\ Installing(m) /\ run[m].cmd # "none" /\ run[m].role \in Roles
    BY <1>1, StepIsCommand, StepNames DEF At, Local, StepOK, Installing, Of, Roles
  <1>3. Goes(m) /\ run'[m].step = Following(m)
    BY <1>1, <1>2, GotoGoes DEF Advance
  <1>4. h.first = first
    OBVIOUS
  <1> HIDE DEF h
  <1> SUFFICES ASSUME Orderly'
               PROVE  Controlled'
    BY DEF ControlInv
  <1>5. Orderly /\ Controlled
    BY <1>3, OrderlyBefore DEF ControlInv
  <1>6. \A n \in Machines \ {m} : run[n].cmd = "none" /\ run'[n].cmd = "none"
    BY <1>2, <1>3, <1>5, OnlyCommand DEF Orderly, Goes
  <1>7. \A n \in Machines : run'[n].cmd = run[n].cmd /\ last'[n] = last[n]
    BY <1>3 DEF Goes
  <1>8. /\ k0s'[m] = "stopped" /\ home'[m] = h /\ files'[m] = files[m] \cup {run[m].role}
        /\ \A n \in Machines \ {m} : /\ k0s'[n] = k0s[n] /\ home'[n] = home[n]
                                     /\ files'[n] = files[n]
    BY <1>1, <1>2 DEF TypeOK, Write
  <1>9. run'[m].step = "start"
    BY <1>1, <1>2, <1>3, InstallFollows, JoinFollows DEF Following, At, Installing, Of
  <1>10. m \notin broken /\ k0s[m] = "none" /\ m \notin etcd \cup nodes /\ m \notin labelled
    <2>1. K0sOK(m) /\ MemberOK(m)
      BY <1>5 DEF Controlled
    <2>2. m \notin broken
      BY <1>2, <2>1 DEF K0sOK, Installing, Of
    <2>3. Units(m) = {}
      BY <1>1, <1>2, <2>2 DEF Local, DiskOK, BeforeK0s, At
    <2> QED
      BY <1>2, <2>1, <2>2, <2>3 DEF K0sOK, MemberOK, TypeOK
  <1>11. /\ Live' = Live /\ last[m].cmd = "none"
         /\ \A n \in Machines : Joined(n)' => Joined(n)
    <2>1. Live' = Live
      <3>1. cluster' = cluster /\ etcd \subseteq Machines /\ m \notin etcd
        BY <1>1, <1>2, <1>10 DEF TypeOK
      <3> QED
        BY <1>8, <3>1 DEF Live, cluster
    <2>2. last[m].cmd = "none"
      BY <1>2, <1>5 DEF Controlled, K0sOK
    <2> QED
      BY <1>7, <1>8, <2>1, <2>2 DEF Joined
  <1>12. ASSUME NEW n \in Machines
         PROVE  K0sOK(n)'
    <2>1. K0sOK(n) /\ K0sOK(m)
      BY <1>5 DEF Controlled
    <2>2. /\ last'[n].cmd # "none" => run'[n].cmd = "none"
          /\ n \in broken' => Of(n, "reset")'
      BY <1>1, <1>7, <2>1 DEF K0sOK, Of
    <2>3. n \notin broken /\ k0s'[n] # "none" =>
            files'[n] \cap Roles # {} /\ "k0s binary" \in files'[n]
      BY <1>1, <1>2, <1>8, <2>1 DEF K0sOK, Units
    <2>4. ASSUME home'[n].first, k0s'[n] \in {"stopped", "starting"}, NEW x \in Machines
          PROVE  ~Of(x, "join")' /\ (x # n => k0s'[x] = "none")
      <3>1. Of(m, "install") => \A y \in Machines \ {m} : k0s[y] = "none"
        BY <1>5 DEF IInv, ClusterInv, Orderly
      <3>2. CASE n = m
        <4>1. Of(m, "install")
          BY <1>4, <1>8, <2>4, <3>2
        <4> QED
          BY <1>6, <1>7, <1>8, <3>1, <3>2, <4>1 DEF Of
      <3>3. CASE n # m
        <4>1. home[n].first /\ k0s[n] \in {"stopped", "starting"}
          BY <1>8, <2>4, <3>3
        <4>2. ~Of(m, "join")
          BY <2>1, <4>1 DEF K0sOK
        <4>3. Of(m, "install")
          BY <1>2, <4>2 DEF Installing, Of
        <4> QED
          BY <3>1, <3>3, <4>1, <4>3
      <3> QED
        BY <3>2, <3>3
    <2> QED
      BY <1>1, <2>2, <2>3, <2>4 DEF K0sOK, Units
  <1>13. ASSUME NEW n \in Machines
         PROVE  MemberOK(n)' /\ ResetOK(n)'
    <2>1. MemberOK(n)
      BY <1>5 DEF Controlled
    <2>2. CASE n = m
      BY <1>1, <1>2, <1>7, <1>9, <1>10, <1>11, <2>1, <2>2
         DEF MemberOK, ResetOK, Of, cluster, Joined, Installing
    <2>3. CASE n # m
      BY <1>1, <1>6, <1>7, <1>8, <1>11, <2>1, <2>3 DEF MemberOK, ResetOK, Of, cluster
    <2> QED
      BY <2>2, <2>3
  <1>14. ClusterOK'
    BY <1>1, <1>5, <1>11 DEF Controlled, ClusterOK, WorkerJoined, cluster
  <1> QED
    BY <1>12, <1>13, <1>14 DEF Controlled

(* The steps of k0s.                                                       *)

(* A member that joins and runs does not cost the quorum.                  *)
LEMMA JoinKeepsQuorum ==
    ASSUME TypeOK, NEW m \in Machines, API, K0sJoins(m)
    PROVE  API'
  <1>1. /\ k0s[m] = "starting" /\ k0s' = [k0s EXCEPT ![m] = "joined"] /\ home' = home
        /\ etcd' = IF home[m].role = "controller" THEN etcd \cup {m} ELSE etcd
    BY DEF K0sJoins
  <1>2. k0s'[m] = "joined" /\ \A n \in Machines \ {m} : k0s'[n] = k0s[n]
    BY <1>1 DEF TypeOK
  <1>3. /\ IsFiniteSet(etcd) /\ IsFiniteSet(Live) /\ m \notin Live
        /\ Cardinality(etcd) \in Nat /\ Cardinality(Live) \in Nat
    <2>1. IsFiniteSet(etcd) /\ IsFiniteSet(Live)
      BY MachinesAssumption, FS_Subset DEF TypeOK, Live
    <2> QED
      BY <1>1, <2>1, FS_CardinalityType DEF Live
  <1>4. CASE home[m].role # "controller"
    <2>1. etcd' = etcd /\ Live' = Live
      BY <1>1, <1>2, <1>4 DEF Live, TypeOK
    <2> QED
      BY <2>1 DEF API
  <1>5. CASE home[m].role = "controller"
    <2>1. etcd' = etcd \cup {m} /\ Live' = Live \cup {m}
      BY <1>1, <1>2, <1>5 DEF Live, TypeOK
    <2>2. Cardinality(Live') = Cardinality(Live) + 1
      BY <1>3, <2>1, FS_AddElement
    <2>3. \/ Cardinality(etcd') = Cardinality(etcd)
          \/ Cardinality(etcd') = Cardinality(etcd) + 1
      BY <1>3, <2>1, FS_AddElement
    <2> QED
      BY <1>3, <2>1, <2>2, <2>3 DEF API
  <1> QED
    BY <1>4, <1>5

(* While k0s joins and registers, no command and no file changes.          *)
LEMMA EnvironmentControl ==
    ASSUME IInv, ControlInv, NEW m \in Machines, Environment(m)
    PROVE  ControlInv'
  <1>1. UNCHANGED <<run, last, disk, home, broken, commands, faults>>
    BY DEF Environment, K0sStartsCluster, K0sJoins, NodeRegisters, NodeIsLabelled
  <1> SUFFICES ASSUME Orderly'
               PROVE  Controlled'
    BY DEF ControlInv
  <1>2. Orderly /\ Controlled /\ TypeOK
    BY <1>1 DEF ControlInv, Orderly, Clean, IInv
  <1>3. \A n \in Machines : K0sOK(n) /\ MemberOK(n) /\ ResetOK(n)
    BY <1>2 DEF Controlled
  <1>4. CASE K0sStartsCluster(m)
    <2>1. /\ k0s[m] = "starting" /\ home[m].first /\ etcd' = {m} /\ nodes' = {} /\ labelled' = {}
          /\ inst' = NoInstallation /\ k0s' = [k0s EXCEPT ![m] = "joined"]
      BY <1>4 DEF K0sStartsCluster
    <2>2. /\ k0s'[m] = "joined" /\ \A n \in Machines \ {m} : k0s'[n] = k0s[n]
          /\ inst'.state = "none"
      BY <1>2, <2>1 DEF TypeOK, NoInstallation
    <2>3. \A n \in Machines : ~Of(n, "join") /\ (n # m => k0s[n] = "none")
      BY <1>3, <2>1 DEF K0sOK
    <2>4. \A n \in Machines : ~Joined(n)'
      BY <2>2, <2>3 DEF Joined
    <2>5. \A n \in Machines : Of(n, "install") => n \notin labelled
      <3> SUFFICES ASSUME NEW n \in Machines, Of(n, "install"), n \in labelled
                   PROVE  FALSE
        OBVIOUS
      <3>1. n \notin broken
        BY <1>3 DEF K0sOK, Of
      <3>2. n \in nodes
        BY <1>2 DEF TypeOK
      <3> QED
        BY <1>3, <2>1, <2>3, <3>1, <3>2 DEF MemberOK
    <2>6. ASSUME NEW n \in Machines
          PROVE  K0sOK(n)' /\ MemberOK(n)' /\ ResetOK(n)'
      <3>1. K0sOK(n) /\ MemberOK(n) /\ ResetOK(n)
        BY <1>3
      <3>2. k0s'[n] = "none" <=> k0s[n] = "none"
        BY <2>1, <2>2
      <3>3. K0sOK(n)'
        BY <1>1, <2>1, <2>2, <2>3, <3>1, <3>2 DEF K0sOK, Units, Of, disk
      <3>4. last[n].cmd = "join" /\ last[n].outcome = "done" => k0s'[n] = "node"
        BY <2>1, <2>2, <2>3, <3>1 DEF MemberOK
      <3>5. MemberOK(n)'
        BY <1>1, <2>1, <2>2, <2>3, <2>4, <2>5, <3>1, <3>4 DEF MemberOK, Of
      <3>6. ~Reachable(n)
        BY <2>1, <2>3 DEF Reachable
      <3>7. ResetOK(n)'
        BY <1>1, <2>2, <2>4, <3>1, <3>6 DEF ResetOK, Of, At, Beside, WorkerJoined
      <3> QED
        BY <3>3, <3>5, <3>7
    <2>7. ClusterOK'
      BY <2>2, <2>4 DEF ClusterOK, WorkerJoined
    <2> QED
      BY <2>6, <2>7 DEF Controlled
  <1>5. CASE K0sJoins(m)
    <2>1. /\ k0s[m] = "starting" /\ ~home[m].first
          /\ etcd \subseteq etcd' /\ etcd' \subseteq etcd \cup {m}
          /\ UNCHANGED <<nodes, labelled, inst>> /\ k0s' = [k0s EXCEPT ![m] = "joined"]
      BY <1>5 DEF K0sJoins
    <2>2. k0s'[m] = "joined" /\ \A n \in Machines \ {m} : k0s'[n] = k0s[n]
      BY <1>2, <2>1 DEF TypeOK
    <2>3. Live \subseteq Live' /\ \A n \in Machines : Joined(n)' => Joined(n)
      BY <1>1, <1>2, <2>1, <2>2 DEF Live, Joined, TypeOK
    <2>4. \A n \in Machines : Reachable(n) => Reachable(n)'
      <3>1. API => API'
        BY <1>2, <1>5, JoinKeepsQuorum
      <3> QED
        BY <1>1, <2>1, <2>2, <3>1 DEF Reachable, Served
    <2>5. ASSUME NEW n \in Machines
          PROVE  K0sOK(n)' /\ MemberOK(n)' /\ ResetOK(n)'
      <3>1. K0sOK(n) /\ MemberOK(n) /\ ResetOK(n)
        BY <1>3
      <3>2. K0sOK(n)'
        BY <1>1, <2>1, <2>2, <3>1 DEF K0sOK, Units, Of, disk
      <3>3. MemberOK(n)'
        BY <1>1, <2>1, <2>2, <2>3, <3>1 DEF MemberOK, Of
      <3>4. ResetOK(n)'
        <4>1. Beside(n) => Beside(n)'
          BY <2>3 DEF Beside, WorkerJoined
        <4> QED
          BY <1>1, <2>1, <2>4, <3>1, <4>1 DEF ResetOK, Of, At
      <3> QED
        BY <3>2, <3>3, <3>4
    <2>6. ClusterOK'
      BY <1>2, <2>1, <2>3 DEF Controlled, ClusterOK, WorkerJoined
    <2> QED
      BY <2>5, <2>6 DEF Controlled
  <1>6. CASE NodeRegisters(m)
    <2>1. /\ k0s[m] = "joined" /\ nodes' = nodes \cup {m} /\ k0s' = [k0s EXCEPT ![m] = "node"]
          /\ UNCHANGED <<etcd, labelled, inst>>
      BY <1>6 DEF NodeRegisters
    <2>2. k0s'[m] = "node" /\ \A n \in Machines \ {m} : k0s'[n] = k0s[n]
      BY <1>2, <2>1 DEF TypeOK
    <2>3. Live' = Live /\ \A n \in Machines : Joined(n)' => Joined(n)
      <3>1. \A n \in Machines : k0s'[n] \in {"joined", "node"} <=> k0s[n] \in {"joined", "node"}
        BY <2>1, <2>2
      <3>2. Live' = Live
        BY <1>1, <1>2, <2>1, <3>1 DEF Live, TypeOK
      <3>3. \A n \in Machines \ {m} : Joined(n)' => Joined(n)
        BY <1>1, <2>2 DEF Joined
      <3>4. Joined(m)' => Joined(m)
        BY <1>1, <1>3, <2>1 DEF Joined, MemberOK
      <3> QED
        BY <3>2, <3>3, <3>4
    <2>4. \A n \in Machines : Reachable(n)' <=> Reachable(n)
      BY <1>1, <2>1, <2>2, <2>3 DEF Reachable, Served, API
    <2>5. ASSUME NEW n \in Machines
          PROVE  K0sOK(n)' /\ MemberOK(n)' /\ ResetOK(n)'
      <3>1. K0sOK(n) /\ MemberOK(n) /\ ResetOK(n)
        BY <1>3
      <3>2. K0sOK(n)'
        BY <1>1, <2>1, <2>2, <3>1 DEF K0sOK, Units, Of, disk
      <3>3. MemberOK(n)'
        BY <1>1, <2>1, <2>2, <2>3, <3>1 DEF MemberOK, Of
      <3>4. ResetOK(n)'
        <4>1. Beside(n) => Beside(n)'
          BY <2>3 DEF Beside, WorkerJoined
        <4> QED
          BY <1>1, <2>1, <2>4, <3>1, <4>1 DEF ResetOK, Of, At
      <3> QED
        BY <3>2, <3>3, <3>4
    <2>6. ClusterOK'
      BY <1>2, <2>1, <2>3 DEF Controlled, ClusterOK, WorkerJoined
    <2> QED
      BY <2>5, <2>6 DEF Controlled
  <1>7. CASE NodeIsLabelled(m)
    <2>1. /\ Served(m) /\ home[m].role = "controller" /\ labelled' = labelled \cup {m}
          /\ UNCHANGED <<k0s, etcd, nodes, inst>>
      BY <1>7 DEF NodeIsLabelled
    <2>2. m \in etcd
      BY <2>1 DEF Served
    <2>3. Live' = Live /\ \A n \in Machines : Joined(n)' <=> Joined(n)
      BY <1>1, <2>1 DEF Live, Joined
    <2>4. \A n \in Machines : Reachable(n)' <=> Reachable(n)
      BY <1>1, <2>1, <2>3 DEF Reachable, Served, API
    <2>5. ASSUME NEW n \in Machines
          PROVE  K0sOK(n)' /\ MemberOK(n)' /\ ResetOK(n)'
      <3>1. K0sOK(n) /\ MemberOK(n) /\ ResetOK(n)
        BY <1>3
      <3>2. K0sOK(n)'
        BY <1>1, <2>1, <3>1 DEF K0sOK, Units, Of, disk
      <3>3. MemberOK(n)'
        BY <1>1, <2>1, <2>2, <2>3, <3>1 DEF MemberOK, Of
      <3>4. ResetOK(n)'
        <4>1. Beside(n) => Beside(n)'
          BY <2>3 DEF Beside, WorkerJoined
        <4> QED
          BY <1>1, <2>1, <2>4, <3>1, <4>1 DEF ResetOK, Of, At
      <3> QED
        BY <3>2, <3>3, <3>4
    <2>6. ClusterOK'
      BY <1>2, <2>1, <2>3 DEF Controlled, ClusterOK, WorkerJoined
    <2> QED
      BY <2>5, <2>6 DEF Controlled
  <1> QED
    BY <1>4, <1>5, <1>6, <1>7 DEF Environment

(* A command begins: no other runs, and a join needs a cluster.            *)
LEMMA StartControl ==
    ASSUME IInv, ControlInv, NEW m \in Machines, Start(m)
    PROVE  ControlInv'
  <1>1. PICK command : /\ Begin(m, command)
                       /\ command.step \in {"verify", "runtime"}
                       /\ command.cmd = "reset" => command.node = "unknown"
                       /\ command.cmd = "join" => API /\ inst.state # "none"
    <2>1. CASE \E dir \in Dirs, release \in Releases, airgap \in AirGaps :
                  StartInstall(m, dir, release, airgap)
      <3>1. PICK dir \in Dirs, release \in Releases, airgap \in AirGaps :
               StartInstall(m, dir, release, airgap)
        BY <2>1
      <3> DEFINE c == [Idle EXCEPT !.cmd = "install", !.step = "verify", !.dir = dir,
                                   !.release = release, !.airgap = airgap]
      <3>2. Begin(m, c)
        BY <3>1 DEF StartInstall
      <3>3. c.step = "verify" /\ c.cmd = "install"
        BY DEF Idle
      <3> HIDE DEF c
      <3> QED
        BY <3>2, <3>3
    <2>2. CASE \E role \in Roles, release \in Releases : StartJoin(m, role, release)
      <3>1. PICK role \in Roles, release \in Releases : StartJoin(m, role, release)
        BY <2>2
      <3> DEFINE c == [Idle EXCEPT !.cmd = "join", !.step = "verify", !.role = role,
                                   !.dir = inst.dir, !.release = release,
                                   !.airgap = inst.airgap, !.events = {"Started"}]
      <3>2. Begin(m, c) /\ API /\ inst.state # "none"
        BY <3>1 DEF StartJoin
      <3>3. c.step = "verify" /\ c.cmd = "join"
        BY DEF Idle
      <3> HIDE DEF c
      <3> QED
        BY <3>2, <3>3
    <2>3. CASE \E force, yes \in BOOLEAN : StartReset(m, force, yes)
      <3>1. PICK force \in BOOLEAN, yes \in BOOLEAN : StartReset(m, force, yes)
        BY <2>3
      <3> DEFINE c == [Idle EXCEPT !.cmd = "reset", !.step = "runtime",
                                   !.force = force, !.yes = yes]
      <3>2. Begin(m, c)
        BY <3>1 DEF StartReset
      <3>3. c.step = "runtime" /\ c.cmd = "reset" /\ c.node = "unknown"
        BY DEF Idle
      <3> HIDE DEF c
      <3> QED
        BY <3>2, <3>3
    <2> QED
      BY <2>1, <2>2, <2>3 DEF Start
  <1>2. /\ run[m] = Idle /\ (~Overlap => \A n \in Machines : run[n] = Idle)
        /\ UNCHANGED <<disk, k0s, home, cluster, broken>> /\ TypeOK
        /\ run' = [run EXCEPT ![m] = command]
        /\ last' = [last EXCEPT ![m] = [NoEnd EXCEPT !.clean = last[m].clean]]
    BY <1>1 DEF Begin, Free, IInv
  <1>3. /\ run'[m] = command /\ \A n \in Machines \ {m} : run'[n] = run[n]
        /\ last'[m].cmd = "none" /\ last'[m].clean = last[m].clean
        /\ \A n \in Machines \ {m} : last'[n] = last[n]
    <2> DEFINE e == [NoEnd EXCEPT !.clean = last[m].clean]
    <2>1. e.cmd = "none" /\ e.clean = last[m].clean
      BY DEF NoEnd
    <2>2. last' = [last EXCEPT ![m] = e]
      BY <1>2
    <2> HIDE DEF e
    <2> QED
      BY <1>2, <2>1, <2>2 DEF TypeOK
  <1> SUFFICES ASSUME Orderly'
               PROVE  Controlled'
    BY DEF ControlInv
  <1>4. Orderly /\ Controlled
    <2>1. Idle.force = FALSE
      BY DEF Idle
    <2> QED
      BY <1>2, <1>3, <2>1 DEF ControlInv, Orderly, Clean
  <1>5. \A n \in Machines : run[n] = Idle /\ run[n].cmd = "none"
    BY <1>2, <1>4 DEF Orderly, Idle
  <1>6. Live' = Live /\ \A n \in Machines : Joined(n)' => Joined(n)
    BY <1>2, <1>3 DEF Live, Joined, cluster
  <1>7. \A n \in Machines : n \notin broken
    BY <1>4, <1>5 DEF Controlled, K0sOK, Of
  <1>8. ASSUME command.cmd = "join", NEW n \in Machines,
               home[n].first, k0s[n] \in {"stopped", "starting"}
        PROVE  FALSE
    <2>1. PICK x \in Machines : k0s[x] \in {"joined", "node"}
      BY <1>1, <1>2, <1>8, APIHasMember
    <2> QED
      BY <1>4, <1>8, <2>1 DEF Controlled, K0sOK
  <1>9. ASSUME NEW n \in Machines
        PROVE  K0sOK(n)' /\ MemberOK(n)' /\ ResetOK(n)'
    <2>1. K0sOK(n) /\ MemberOK(n)
      BY <1>4 DEF Controlled
    <2>2. \A x \in Machines : Of(x, "join")' => command.cmd = "join"
      BY <1>3, <1>5 DEF Of
    <2>3. K0sOK(n)'
      <3>1. last'[n].cmd # "none" => run'[n].cmd = "none"
        BY <1>3, <2>1 DEF K0sOK
      <3>2. ASSUME home'[n].first, k0s'[n] \in {"stopped", "starting"}, NEW x \in Machines
            PROVE  ~Of(x, "join")' /\ (x # n => k0s'[x] = "none")
        BY <1>2, <1>8, <2>1, <2>2, <3>2 DEF K0sOK
      <3> QED
        BY <1>2, <1>7, <2>1, <3>1, <3>2 DEF K0sOK, Units, Of, disk
    <2>4. MemberOK(n)'
      <3>1. last'[n].cmd = "join" /\ last'[n].outcome = "done" => k0s'[n] = "node"
        BY <1>2, <1>3, <2>1 DEF MemberOK
      <3>2. ~(Of(n, "install")' /\ run'[n].step \in {"record", "registry", "charts"})
        BY <1>1, <1>3, <1>5 DEF Of
      <3>3. Of(n, "join")' => inst'.state # "none"
        BY <1>1, <1>2, <2>2 DEF cluster
      <3> QED
        BY <1>2, <1>6, <2>1, <3>1, <3>2, <3>3 DEF MemberOK, cluster
    <2>5. ResetOK(n)'
      <3>1. CASE n = m
        BY <1>1, <1>2, <1>3, <1>7, <3>1 DEF ResetOK, Of, At
      <3>2. CASE n # m
        BY <1>3, <1>5, <3>2 DEF ResetOK, Of
      <3> QED
        BY <3>1, <3>2
    <2> QED
      BY <2>3, <2>4, <2>5
  <1>10. ClusterOK'
    BY <1>2, <1>4, <1>6 DEF Controlled, ClusterOK, WorkerJoined, cluster
  <1> QED
    BY <1>9, <1>10 DEF Controlled

-----------------------------------------------------------------------------
LEMMA InitControl == Init => ControlInv
  <1> SUFFICES ASSUME Init
               PROVE  Controlled
    BY DEF ControlInv
  <1>1. NoInstallation.state = "none" /\ Idle.cmd = "none" /\ NoEnd.cmd = "none"
    BY DEF NoInstallation, Idle, NoEnd
  <1>2. ASSUME NEW m \in Machines
        PROVE  K0sOK(m) /\ MemberOK(m) /\ ResetOK(m) /\ ~Joined(m)
    <2>1. /\ run[m] = Idle /\ last[m] = NoEnd /\ k0s[m] = "none" /\ m \notin broken
          /\ m \notin etcd /\ m \notin nodes /\ m \notin labelled
      BY DEF Init
    <2> QED
      BY <1>1, <2>1 DEF K0sOK, MemberOK, ResetOK, Of, Joined
  <1>3. ClusterOK
    BY <1>1, <1>2 DEF Init, ClusterOK, WorkerJoined
  <1> QED
    BY <1>2, <1>3 DEF Controlled

LEMMA NextControl ==
    ASSUME IInv, ControlInv, [Next]_vars, IInv'
    PROVE  ControlInv'
  <1>1. CASE UNCHANGED vars
    <2>1. /\ UNCHANGED <<run, last, files, k0s, home>>
          /\ UNCHANGED <<etcd, nodes, labelled, inst, broken>>
      BY <1>1 DEF vars
    <2> SUFFICES ASSUME Orderly'
                 PROVE  Controlled'
      BY DEF ControlInv
    <2>2. Controlled
      BY <2>1 DEF ControlInv, Orderly, Clean
    <2>3. Live' = Live
      BY <2>1 DEF Live
    <2>4. \A n \in Machines : Joined(n)' <=> Joined(n)
      BY <2>1 DEF Joined
    <2>5. \A n \in Machines : Reachable(n)' <=> Reachable(n)
      BY <2>1, <2>3 DEF Reachable, Served, API
    <2>6. ASSUME NEW n \in Machines
          PROVE  K0sOK(n)' /\ MemberOK(n)' /\ ResetOK(n)'
      <3>1. K0sOK(n) /\ MemberOK(n) /\ ResetOK(n)
        BY <2>2 DEF Controlled
      <3>2. K0sOK(n)'
        BY <2>1, <3>1 DEF K0sOK, Units, Of
      <3>3. MemberOK(n)'
        BY <2>1, <2>4, <3>1 DEF MemberOK, Of
      <3>4. Beside(n) => Beside(n)'
        BY <2>3, <2>4 DEF Beside, WorkerJoined
      <3>5. ResetOK(n)'
        BY <2>1, <2>5, <3>1, <3>4 DEF ResetOK, Of, At
      <3> QED
        BY <3>2, <3>3, <3>5
    <2>7. ClusterOK'
      BY <2>1, <2>2, <2>3, <2>4 DEF Controlled, ClusterOK, WorkerJoined
    <2> QED
      BY <2>6, <2>7 DEF Controlled
  <1>2. ASSUME NEW m \in Machines, Start(m) \/ Step(m) \/ Fault(m) \/ Environment(m)
        PROVE  ControlInv'
    <2>1. CASE Start(m)
      BY <2>1, StartControl
    <2>2. CASE Environment(m)
      BY <2>2, EnvironmentControl
    <2>3. CASE Fault(m)
      BY <2>3, FaultControl, SignalCaughtControl DEF Fault
    <2>4. CASE Step(m)
      <3>1. CASE \/ Verify(m) \/ Configure(m) \/ Initialize(m) \/ PreflightsPass(m)
                 \/ WriteK0sConfig(m) \/ ApplyNetworkConfiguration(m) \/ SystemdUnits(m)
                 \/ MoveBinary(m) \/ WaitForK0s(m) \/ AddInsecureRegistry(m)
                 \/ SaveToken(m) \/ RecordInstallation(m)
        BY <3>1, VerifyControl, ConfigureControl, WriteControl, AdvanceSteps
      <3>2. CASE InstallK0s(m) \/ RunK0sInstallCommand(m) \/ StartK0s(m)
        BY <3>2, K0sInstallControl, StartK0sControl
      <3>3. CASE WaitForNode(m) \/ InstallCharts(m) \/ GiveUp(m) \/ SignalExits(m)
        BY <3>3, WaitForNodeControl, InstallChartsControl, FaultControl
      <3>4. CASE \/ Runtime(m) \/ Warning(m) \/ HostInfo(m) \/ Safety(m)
                 \/ Count(m) \/ DeleteNode(m) \/ LeaveEtcd(m)
        BY <3>4, LookControl, CountControl, DeleteNodeControl, LeaveEtcdControl
      <3>5. CASE \/ DeleteControlNode(m) \/ ResetK0s(m) \/ ResetFirewalld(m) \/ RemoveFiles(m)
                 \/ RemoveHome(m) \/ RemoveConfig(m) \/ Reboot(m)
        BY <3>5, ResetK0sControl, CleansFilesControl, RebootControl
      <3> QED
        BY <2>4, <3>1, <3>2, <3>3, <3>4, <3>5 DEF Step
    <2> QED
      BY <1>2, <2>1, <2>2, <2>3, <2>4
  <1> QED
    BY <1>1, <1>2 DEF Next

(* Workers that joined do not lose their last controller to a reset        *)
(* (checkResetSafety), as long as commands run one after the other and     *)
(* every reset was a clean one.                                            *)
THEOREM WorkersKeepAController == Spec => []LastController
  <1>1. Init => ControlInv
    BY InitControl
  <1>2. IInv /\ IInv' /\ ControlInv /\ [Next]_vars => ControlInv'
    BY NextControl
  <1>3. ControlInv => LastController
    BY DEF ControlInv, Orderly, Controlled, ClusterOK, WorkerJoined, LastController
  <1> QED
    BY <1>1, <1>2, <1>3, Invariance, PTL DEF Spec
=============================================================================
