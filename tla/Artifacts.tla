------------------------------ MODULE Artifacts ------------------------------
(***************************************************************************)
(* Distributing an installation's artifacts to the nodes                   *)
(* (pkg-new/artifacts/distribute.go, operator/pkg/artifacts), by an        *)
(* upgrade or by the distribute-artifacts command.                         *)
(*                                                                         *)
(* One Job per node copies the artifacts into the node's data directory;   *)
(* the Jobs are named after the nodes, so that a command meets the Jobs    *)
(* that an earlier one, of this or of another installation, has left.      *)
(* When all have succeeded they are deleted with the license secret that   *)
(* their pods read, and, in an airgap cluster, an autopilot plan loads the *)
(* images from the data directories.  Commands follow one another; one     *)
(* may fail or be killed at any step, and its Jobs go on without it.       *)
(***************************************************************************)
EXTENDS Naturals, FiniteSets

CONSTANTS
  Nodes,            \* machines
  Initial,          \* the nodes of the cluster at first
  LongNames,        \* nodes whose names are cut to one and the same Job name
  LastInstallation, \* installations are numbered in the order of their names
  AirGap,           \* images are loaded from the artifacts
  BackoffLimit,     \* failed pods after which a Job is tried no more
  MaxCommands,      \* bound: runs of the commands
  MaxErrors,        \* bound: calls that fail
  MaxKills,         \* bound: commands that are killed
  MaxPodFails       \* bound: pods that fail

Installations == 1..LastInstallation

ASSUME ConstantsAssumption ==
  /\ Initial \subseteq Nodes /\ Initial # {} /\ LongNames \subseteq Nodes
  /\ LastInstallation \in Nat \ {0} /\ AirGap \in BOOLEAN
  /\ {BackoffLimit, MaxCommands, MaxErrors, MaxKills, MaxPodFails} \subseteq Nat

VARIABLES
  members, \* the nodes of the cluster
  joining, \* the installation with which a machine has begun to join
  holds,   \* the installation whose artifacts each node has, 0 for a mixture
  loaded,  \* the installation whose images each node has loaded
  job,     \* the copy Job of each name
  pods,    \* the pods that copy
  secret,  \* the license secret exists
  plan,    \* the autopilot plan that loads images
  cmd,     \* the command that runs
  spent    \* how much of each bound is used up

nodes   == <<members, joining, loaded>>
cluster == <<job, pods, secret, plan>>
vars    == <<nodes, holds, cluster, cmd, spent>>

Steps == {"idle", "dropSecret", "secret", "list", "ensure", "waitDelete", "wait",
          "cleanup", "cleanSecret", "plan", "waitPlan"}
NoJob  == [of |-> 0, node |-> {}, status |-> "none", fails |-> 0]
NoPlan == [of |-> 0, targets |-> {}, left |-> {}]

TypeOK ==
  /\ members \subseteq Nodes
  /\ joining \in [Nodes -> 0..LastInstallation]
  /\ holds \in [Nodes -> 0..LastInstallation]
  /\ loaded \in [Nodes -> 0..LastInstallation]
  /\ job \in [Nodes -> [of: 0..LastInstallation, node: SUBSET Nodes,
                        status: {"none", "active", "succeeded", "failed", "deleting"},
                        fails: 0..BackoffLimit + 1]]
  /\ pods \subseteq [name: Nodes, node: Nodes, of: Installations]
  /\ secret \in BOOLEAN
  /\ plan \in [of: 0..LastInstallation, targets: SUBSET Nodes, left: SUBSET Nodes]
  /\ cmd \in [of: Installations, at: Steps, result: {"none", "ok", "error"},
              jobs: SUBSET Nodes, todo: SUBSET Nodes, on: SUBSET Nodes]
  /\ spent \in [{"commands", "errors", "kills", "podFails"} -> Nat]

Init ==
  /\ members = Initial
  /\ joining = [n \in Nodes |-> 0]
  /\ holds = [n \in Nodes |-> 1] /\ loaded = [n \in Nodes |-> 1]
  /\ job = [n \in Nodes |-> NoJob] /\ pods = {}
  /\ secret = FALSE /\ plan = NoPlan
  /\ cmd = [of |-> 1, at |-> "idle", result |-> "none",
            jobs |-> {}, todo |-> {}, on |-> {}]
  /\ spent = [b \in {"commands", "errors", "kills", "podFails"} |-> 0]

Spend(b, bound) == spent[b] < bound /\ spent' = [spent EXCEPT ![b] = @ + 1]

(* Names that are too long lose their middle, and with it what tells      *)
(* these nodes apart.                                                     *)
NameWithLengthLimit(n) == IF n \in LongNames THEN CHOOSE m \in LongNames : TRUE ELSE n

JobOf(n) == job[NameWithLengthLimit(n)]

Goto(step)  == cmd' = [cmd EXCEPT !.at = step]
Return(res) == cmd' = [cmd EXCEPT !.at = "idle", !.result = res, !.todo = {}, !.on = {},
                                  !.jobs = IF res = "ok" THEN @ ELSE {}]

-----------------------------------------------------------------------------
(* The command.                                                            *)

Start ==
  /\ cmd.at = "idle"
  /\ Spend("commands", MaxCommands)
  /\ \E i \in {cmd.of, cmd.of + 1} \cap Installations :
       cmd' = [of |-> i, at |-> "dropSecret", result |-> "none",
               jobs |-> {}, todo |-> {}, on |-> {}]
  /\ UNCHANGED <<nodes, holds, cluster>>

deleteSecret ==
  /\ cmd.at = "dropSecret"
  /\ secret' = FALSE /\ Goto("secret")
  /\ UNCHANGED <<nodes, holds, job, pods, plan, spent>>

(* Mutant: a command leaves the secret to the Jobs it has found.          *)
createSecretOnce ==
  /\ cmd.at = "secret"
  /\ secret' = (\A n \in members : JobOf(n) = NoJob) /\ Goto("list")
  /\ UNCHANGED <<nodes, holds, job, pods, plan, spent>>

createSecret ==
  /\ cmd.at = "secret"
  /\ secret' = TRUE /\ Goto("list")
  /\ UNCHANGED <<nodes, holds, job, pods, plan, spent>>

EnsureArtifactsJobForNodes ==
  /\ cmd.at = "list"
  /\ cmd' = [cmd EXCEPT !.at = "ensure", !.jobs = members, !.todo = members]
  /\ UNCHANGED <<nodes, holds, cluster, spent>>

(* Mutant: a Job is recognised by its node alone.                         *)
AnyJob(n) == TRUE

(* ShouldDelete looks at the annotations: the installation's name and the *)
(* hash of its artifacts.                                                 *)
IsOurs(n) == JobOf(n).of = cmd.of

NewJob(n) == job' = [job EXCEPT ![NameWithLengthLimit(n)] =
                       [of |-> cmd.of, node |-> {n}, status |-> "active", fails |-> 0]]

NodeDone(n) == cmd' = [cmd EXCEPT !.todo = @ \ {n}, !.on = {},
                                  !.at = IF cmd.todo = {n} THEN "wait" ELSE "ensure"]

(* Mutants: the previous Job is deleted without its pod, or is not waited *)
(* for.                                                                   *)
DeleteInBackground(n) ==
  /\ job' = [job EXCEPT ![NameWithLengthLimit(n)] = NoJob]
  /\ cmd' = [cmd EXCEPT !.at = "waitDelete", !.on = {n}]
DeleteAndGoOn(n) ==
  /\ job' = [job EXCEPT ![NameWithLengthLimit(n)].status = "deleting"]
  /\ NodeDone(n)

DeleteInForeground(n) ==
  /\ job' = [job EXCEPT ![NameWithLengthLimit(n)].status = "deleting"]
  /\ cmd' = [cmd EXCEPT !.at = "waitDelete", !.on = {n}]

(* EnsureObject: a Job of ours is kept, in whatever state it is.          *)
ensureArtifactsJobForNode(n) ==
  /\ cmd.at = "ensure" /\ n \in cmd.todo
  /\ \/ JobOf(n) = NoJob /\ NewJob(n) /\ NodeDone(n)
     \/ JobOf(n) # NoJob /\ IsOurs(n) /\ NodeDone(n) /\ UNCHANGED job
     \/ JobOf(n) # NoJob /\ ~IsOurs(n) /\ DeleteInForeground(n)
  /\ UNCHANGED <<nodes, holds, pods, secret, plan, spent>>

waitForDelete ==
  /\ cmd.at = "waitDelete"
  /\ \E n \in cmd.on : JobOf(n) = NoJob /\ NewJob(n) /\ NodeDone(n)
  /\ UNCHANGED <<nodes, holds, pods, secret, plan, spent>>

(* The nodes are listed anew; one without a Job of ours is an error.      *)
ensureArtifactsOnNodes ==
  /\ cmd.at = "wait"
  /\ \/ /\ \A n \in members : IsOurs(n) /\ JobOf(n).status = "succeeded"
        /\ cmd' = [cmd EXCEPT !.at = "cleanup", !.jobs = members, !.todo = members]
     \/ /\ \E n \in members : ~IsOurs(n) \/ JobOf(n).status = "failed"
        /\ Return("error")
  /\ UNCHANGED <<nodes, holds, cluster, spent>>

(* A deletion that fails is only logged.                                  *)
deleteArtifactsJobForNode(n) ==
  /\ cmd.at = "cleanup" /\ n \in cmd.todo
  /\ \/ job' = [job EXCEPT ![NameWithLengthLimit(n)] = NoJob] /\ UNCHANGED spent
     \/ Spend("errors", MaxErrors) /\ UNCHANGED job
  /\ cmd' = [cmd EXCEPT !.todo = @ \ {n}, !.at = IF cmd.todo = {n} THEN "cleanSecret" ELSE @]
  /\ UNCHANGED <<nodes, holds, pods, secret, plan>>

deleteLicenseIDSecret ==
  /\ cmd.at = "cleanSecret"
  /\ \/ secret' = FALSE /\ UNCHANGED spent
     \/ Spend("errors", MaxErrors) /\ UNCHANGED secret
  /\ IF AirGap THEN Goto("plan") ELSE Return("ok")
  /\ UNCHANGED <<nodes, holds, job, pods, plan>>

(* Mutant: the plan that is there is kept.                                *)
KeepPlan ==
  /\ cmd.at = "plan"
  /\ plan' = IF plan = NoPlan THEN [of |-> cmd.of, targets |-> members, left |-> members]
             ELSE [plan EXCEPT !.of = cmd.of]
  /\ Goto("waitPlan")
  /\ UNCHANGED <<nodes, holds, job, pods, secret, spent>>

(* A plan of another installation is replaced.                            *)
EnsureAirgapArtifactsPlan ==
  /\ cmd.at = "plan"
  /\ plan' = IF plan.of = cmd.of THEN plan
             ELSE [of |-> cmd.of, targets |-> members, left |-> members]
  /\ Goto("waitPlan")
  /\ UNCHANGED <<nodes, holds, job, pods, secret, spent>>

WaitForAirgapArtifactsAutopilotPlan ==
  /\ cmd.at = "waitPlan"
  /\ \/ plan.of # cmd.of /\ Return("error")
     \/ plan.of = cmd.of /\ plan.left = {} /\ Return("ok")
  /\ UNCHANGED <<nodes, holds, cluster, spent>>

Command ==
  \/ deleteSecret \/ createSecret \/ EnsureArtifactsJobForNodes
  \/ (\E n \in Nodes : ensureArtifactsJobForNode(n) \/ deleteArtifactsJobForNode(n))
  \/ waitForDelete \/ ensureArtifactsOnNodes \/ deleteLicenseIDSecret
  \/ EnsureAirgapArtifactsPlan \/ WaitForAirgapArtifactsAutopilotPlan

CommandError ==
  /\ cmd.at \notin {"idle", "cleanup", "cleanSecret"}
  /\ Spend("errors", MaxErrors)
  /\ Return("error")
  /\ UNCHANGED <<nodes, holds, cluster>>

CommandKilled ==
  /\ cmd.at # "idle"
  /\ Spend("kills", MaxKills)
  /\ Return("error")
  /\ UNCHANGED <<nodes, holds, cluster>>

-----------------------------------------------------------------------------
(* The cluster.                                                            *)

(* The pod's container waits for the secret that it takes a variable from; *)
(* then it writes over what the node has, file by file.                   *)
StartPod(m) ==
  /\ job[m].status = "active" /\ secret
  /\ \A p \in pods : p.name = m => p.of # job[m].of
  /\ \E n \in job[m].node :
       /\ pods' = pods \cup {[name |-> m, node |-> n, of |-> job[m].of]}
       /\ holds' = [holds EXCEPT ![n] = 0]
  /\ UNCHANGED <<nodes, job, secret, plan, cmd, spent>>

Owns(p) == job[p.name].status = "active" /\ job[p.name].of = p.of

PodSucceeds(p) ==
  /\ pods' = pods \ {p}
  /\ holds' = [holds EXCEPT ![p.node] = p.of]
  /\ job' = IF Owns(p) THEN [job EXCEPT ![p.name].status = "succeeded"] ELSE job
  /\ UNCHANGED <<nodes, secret, plan, cmd, spent>>

(* Mutant: the Job tries again for ever.                                  *)
PodFailsAgain(p) ==
  /\ Spend("podFails", MaxPodFails)
  /\ pods' = pods \ {p}
  /\ job' = IF Owns(p) THEN [job EXCEPT ![p.name].fails = @ + 1] ELSE job
  /\ UNCHANGED <<nodes, holds, secret, plan, cmd>>

PodFails(p) ==
  /\ Spend("podFails", MaxPodFails)
  /\ pods' = pods \ {p}
  /\ job' = IF Owns(p)
            THEN [job EXCEPT ![p.name].fails = @ + 1,
                             ![p.name].status = IF job[p.name].fails >= BackoffLimit
                                                THEN "failed" ELSE @]
            ELSE job
  /\ UNCHANGED <<nodes, holds, secret, plan, cmd>>

(* The pod of a Job that is being deleted is stopped first.               *)
StopPod(p) ==
  /\ job[p.name].status = "deleting"
  /\ pods' = pods \ {p}
  /\ UNCHANGED <<nodes, holds, job, secret, plan, cmd, spent>>

JobDeleted(m) ==
  /\ job[m].status = "deleting" /\ \A p \in pods : p.name # m
  /\ job' = [job EXCEPT ![m] = NoJob]
  /\ UNCHANGED <<nodes, holds, pods, secret, plan, cmd, spent>>

AutopilotLoadImages(n) ==
  /\ n \in plan.left
  /\ loaded' = [loaded EXCEPT ![n] = holds[n]]
  /\ plan' = [plan EXCEPT !.left = @ \ {n}]
  /\ UNCHANGED <<members, joining, holds, job, pods, secret, cmd, spent>>

(* A machine joins with the artifacts of the installation that was the    *)
(* newest when it began.                                                  *)
JoinStart(n) ==
  /\ n \notin members /\ joining[n] = 0
  /\ joining' = [joining EXCEPT ![n] = cmd.of]
  /\ UNCHANGED <<members, loaded, holds, cluster, cmd, spent>>

JoinFinish(n) ==
  /\ joining[n] # 0
  /\ members' = members \cup {n}
  /\ holds' = [holds EXCEPT ![n] = joining[n]]
  /\ loaded' = [loaded EXCEPT ![n] = joining[n]]
  /\ joining' = [joining EXCEPT ![n] = 0]
  /\ UNCHANGED <<cluster, cmd, spent>>

JobController == \E m \in Nodes : StartPod(m) \/ JobDeleted(m)
Kubelet       == \E p \in pods : PodSucceeds(p) \/ StopPod(p)
Autopilot     == \E n \in Nodes : AutopilotLoadImages(n)

Next ==
  \/ Start \/ Command \/ CommandError \/ CommandKilled
  \/ JobController \/ Kubelet \/ (\E p \in pods : PodFails(p)) \/ Autopilot
  \/ (\E n \in Nodes : JoinStart(n) \/ JoinFinish(n))

Spec == Init /\ [][Next]_vars

(* Fairness: a command, once started, runs on; controllers, kubelets and  *)
(* autopilot do their work.  No command has to be started, nothing has to *)
(* fail or join.                                                          *)
Fairness == WF_vars(Command) /\ WF_vars(JobController) /\ WF_vars(Kubelet) /\ WF_vars(Autopilot)
FairSpec == Spec /\ Fairness

-----------------------------------------------------------------------------
(* Properties.                                                             *)

(* No two pods write to one node's data directory at a time, although the *)
(* Jobs of a killed command go on while the next one creates its own.     *)
OneCopyAtATime == \A p, q \in pods : p.node = q.node => p = q

(* While a command waits, no Job that it has seen to is missing: none is  *)
(* still being deleted from the installation before.                      *)
JobsStay == cmd.at = "wait" => \A n \in cmd.jobs : IsOurs(n) /\ JobOf(n).status # "deleting"

(* The Jobs of one command never get in the way of the next one's.         *)
CopiesAreSafe ==
  /\ OneCopyAtATime
  /\ JobsStay

(* A command that ends well leaves the artifacts of its installation on   *)
(* every node that it has found, whatever Jobs and mixtures it has met,   *)
(* and, unless an attempt before it was interrupted, their images loaded  *)
(* on those that have been in the cluster all along.                      *)
SuccessMeansPlaced ==
  cmd.result = "ok" =>
    /\ \A n \in cmd.jobs : holds[n] = cmd.of
    /\ AirGap /\ spent["errors"] + spent["kills"] = 0 =>
         \A n \in cmd.jobs \cap Initial : loaded[n] = cmd.of

(* A command that ends well leaves the images loaded on every node.  It    *)
(* does not hold for a node that joined after the plan that loads them was *)
(* created: run again for the installation, the command keeps the plan.    *)
ImagesOnEveryNode ==
  cmd.result = "ok" /\ AirGap => \A n \in cmd.jobs : loaded[n] = cmd.of

(* A command ends: its pods never wait for ever for the secret that an    *)
(* earlier command has deleted.                                           *)
EveryCommandEnds == cmd.at # "idle" ~> cmd.at = "idle"
=============================================================================
