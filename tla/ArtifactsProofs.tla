--------------------------- MODULE ArtifactsProofs ---------------------------
(***************************************************************************)
(* What holds of Artifacts for every number of nodes, installations,       *)
(* commands and failures.                                                  *)
(***************************************************************************)
EXTENDS Artifacts, TLAPS

Bounds     == {"commands", "errors", "kills", "podFails"}
JobTypes   == [of: 0..LastInstallation, node: SUBSET Nodes,
               status: {"none", "active", "succeeded", "failed", "deleting"},
               fails: 0..BackoffLimit + 1]
PlanTypes  == [of: 0..LastInstallation, targets: SUBSET Nodes, left: SUBSET Nodes]
CmdTypes   == [of: Installations, at: Steps, result: {"none", "ok", "error"},
               jobs: SUBSET Nodes, todo: SUBSET Nodes, on: SUBSET Nodes]
PodTypes   == [name: Nodes, node: Nodes, of: Installations]

(* A Job that is still tried has a failure left.                          *)
TriesLeft == \A m \in Nodes : job[m].status = "active" =>
               job[m].fails <= BackoffLimit /\ job[m].of # 0

TypeInv == TypeOK /\ TriesLeft

LEMMA NamesAreNodes == \A n \in Nodes : NameWithLengthLimit(n) \in Nodes
  BY ConstantsAssumption DEF NameWithLengthLimit

LEMMA JobsHaveTypes ==
  /\ NoJob \in JobTypes
  /\ \A i \in Installations, n \in Nodes :
       [of |-> i, node |-> {n}, status |-> "active", fails |-> 0] \in JobTypes
  BY ConstantsAssumption DEF NoJob, JobTypes, Installations

LEMMA NewJobTypes ==
  ASSUME TypeInv, NEW n \in Nodes, NewJob(n)
  PROVE  job' \in [Nodes -> JobTypes] /\ TriesLeft'
<1> DEFINE new == [of |-> cmd.of, node |-> {n}, status |-> "active", fails |-> 0]
<1>1. cmd.of \in Installations /\ cmd.of # 0
  BY DEF TypeInv, TypeOK, Installations
<1>2. new \in JobTypes
  BY <1>1, JobsHaveTypes
<1>3. job \in [Nodes -> JobTypes]
  BY DEF TypeInv, TypeOK, JobTypes
<1>4. job' = [job EXCEPT ![NameWithLengthLimit(n)] = new]
  BY DEF NewJob
<1>5. job' \in [Nodes -> JobTypes]
  BY <1>2, <1>3, <1>4
<1>6. \A m \in Nodes : job'[m] = IF m = NameWithLengthLimit(n) THEN new ELSE job[m]
  BY <1>3, <1>4
<1>7. new.fails <= BackoffLimit /\ new.of # 0
  BY <1>1, ConstantsAssumption
<1>8. TriesLeft'
  BY <1>6, <1>7 DEF TriesLeft, TypeInv
<1> QED
  BY <1>5, <1>8

LEMMA DeleteTypes ==
  ASSUME TypeInv, NEW n \in Nodes, DeleteInForeground(n)
  PROVE  job' \in [Nodes -> JobTypes] /\ TriesLeft'
<1>1. job \in [Nodes -> JobTypes] /\ NameWithLengthLimit(n) \in Nodes
  BY NamesAreNodes DEF TypeInv, TypeOK, JobTypes
<1>2. job' = [job EXCEPT ![NameWithLengthLimit(n)].status = "deleting"]
  BY DEF DeleteInForeground
<1>3. job' \in [Nodes -> JobTypes]
  BY <1>1, <1>2 DEF JobTypes
<1>4. \A m \in Nodes : job'[m].status = "active" => job'[m] = job[m]
  BY <1>1, <1>2 DEF JobTypes
<1> QED
  BY <1>3, <1>4 DEF TriesLeft, TypeInv

LEMMA ForgetTypes ==
  ASSUME TypeInv, NEW n \in Nodes, job' = [job EXCEPT ![n] = NoJob]
  PROVE  job' \in [Nodes -> JobTypes] /\ TriesLeft'
<1>1. job \in [Nodes -> JobTypes]
  BY DEF TypeInv, TypeOK, JobTypes
<1>2. job' \in [Nodes -> JobTypes]
  BY <1>1, JobsHaveTypes
<1>3. \A m \in Nodes : job'[m].status = "active" => job'[m] = job[m]
  BY <1>1 DEF NoJob
<1> QED
  BY <1>2, <1>3 DEF TriesLeft, TypeInv

LEMMA SpendTypes ==
  ASSUME TypeOK, NEW b \in Bounds, NEW bound, Spend(b, bound)
  PROVE  spent' \in [Bounds -> Nat]
  BY DEF TypeOK, Spend, Bounds

-----------------------------------------------------------------------------
LEMMA TypeInit == Init => TypeInv
<1> SUFFICES ASSUME Init PROVE TypeInv
  OBVIOUS
<1>1. members \subseteq Nodes /\ joining \in [Nodes -> 0..LastInstallation]
  BY ConstantsAssumption DEF Init
<1>2. holds \in [Nodes -> 0..LastInstallation] /\ loaded \in [Nodes -> 0..LastInstallation]
  BY ConstantsAssumption DEF Init
<1>3. job \in [Nodes -> JobTypes] /\ TriesLeft
  BY JobsHaveTypes DEF Init, TriesLeft, NoJob
<1>4. pods \subseteq PodTypes /\ secret \in BOOLEAN
  BY DEF Init
<1>5. plan \in PlanTypes
  BY ConstantsAssumption DEF Init, NoPlan, PlanTypes
<1>6. cmd \in CmdTypes
  BY ConstantsAssumption DEF Init, CmdTypes, Installations, Steps
<1>7. spent \in [Bounds -> Nat]
  BY DEF Init, Bounds
<1> QED
  BY <1>1, <1>2, <1>3, <1>4, <1>5, <1>6, <1>7
     DEF TypeInv, TypeOK, JobTypes, PlanTypes, CmdTypes, PodTypes, Bounds

LEMMA TypeCmd ==
  ASSUME TypeOK, Start \/ Command \/ CommandError \/ CommandKilled
  PROVE  cmd' \in CmdTypes /\ spent' \in [Bounds -> Nat]
<1> USE DEF Goto, Return, CmdTypes
<1>0. cmd \in CmdTypes /\ members \subseteq Nodes /\ spent \in [Bounds -> Nat]
  BY DEF TypeOK, Bounds
<1>1. CASE Start
  BY <1>0, <1>1, SpendTypes DEF Start, Steps, Bounds
<1>2. CASE deleteSecret \/ createSecret \/ EnsureArtifactsJobForNodes
  BY <1>0, <1>2 DEF deleteSecret, createSecret, EnsureArtifactsJobForNodes, Steps
<1>3. CASE \E n \in Nodes : ensureArtifactsJobForNode(n)
  <2> PICK n \in Nodes : ensureArtifactsJobForNode(n)
    BY <1>3
  <2>1. NodeDone(n) \/ DeleteInForeground(n)
    BY DEF ensureArtifactsJobForNode
  <2>2. spent' = spent
    BY DEF ensureArtifactsJobForNode
  <2>3. {n} \in SUBSET Nodes /\ {} \in SUBSET Nodes /\ cmd.todo \ {n} \in SUBSET Nodes
        /\ {"waitDelete", "wait", "ensure"} \subseteq Steps
    BY <1>0 DEF Steps
  <2>4. CASE NodeDone(n)
    BY <1>0, <2>4, <2>2, <2>3 DEF NodeDone
  <2>5. CASE DeleteInForeground(n)
    BY <1>0, <2>5, <2>2, <2>3 DEF DeleteInForeground
  <2> QED
    BY <1>0, <2>1, <2>4, <2>5, <2>2
<1>4. CASE \E n \in Nodes : deleteArtifactsJobForNode(n)
  BY ZenonT(60), <1>0, <1>4, SpendTypes DEF deleteArtifactsJobForNode, Steps, Bounds
<1>5. CASE waitForDelete
  BY ZenonT(60), <1>0, <1>5 DEF waitForDelete, NodeDone, Steps
<1>6. CASE ensureArtifactsOnNodes
  BY <1>0, <1>6 DEF ensureArtifactsOnNodes, Steps
<1>7. CASE deleteLicenseIDSecret
  BY <1>0, <1>7, SpendTypes DEF deleteLicenseIDSecret, Steps, Bounds
<1>8. CASE EnsureAirgapArtifactsPlan \/ WaitForAirgapArtifactsAutopilotPlan
  BY <1>0, <1>8 DEF EnsureAirgapArtifactsPlan, WaitForAirgapArtifactsAutopilotPlan, Steps
<1>9. CASE CommandError \/ CommandKilled
  BY <1>0, <1>9, SpendTypes DEF CommandError, CommandKilled, Steps, Bounds
<1> QED
  BY <1>1, <1>2, <1>3, <1>4, <1>5, <1>6, <1>7, <1>8, <1>9 DEF Command

LEMMA TypeCommandRest ==
  ASSUME TypeInv, Start \/ Command \/ CommandError \/ CommandKilled
  PROVE  /\ UNCHANGED <<nodes, holds, pods>> /\ secret' \in BOOLEAN /\ plan' \in PlanTypes
         /\ job' \in [Nodes -> JobTypes] /\ TriesLeft'
<1> USE DEF cluster
<1>1. UNCHANGED <<nodes, holds, pods>> /\ secret' \in BOOLEAN
  BY DEF TypeInv, TypeOK, Start, Command, CommandError, CommandKilled, deleteSecret, createSecret,
     EnsureArtifactsJobForNodes, ensureArtifactsJobForNode, deleteArtifactsJobForNode,
     waitForDelete, ensureArtifactsOnNodes, deleteLicenseIDSecret, EnsureAirgapArtifactsPlan,
     WaitForAirgapArtifactsAutopilotPlan
<1>2. plan' = plan \/ plan' = [of |-> cmd.of, targets |-> members, left |-> members]
  BY DEF Start, Command, CommandError, CommandKilled, deleteSecret, createSecret,
     EnsureArtifactsJobForNodes, ensureArtifactsJobForNode, deleteArtifactsJobForNode,
     waitForDelete, ensureArtifactsOnNodes, deleteLicenseIDSecret, EnsureAirgapArtifactsPlan,
     WaitForAirgapArtifactsAutopilotPlan
<1>3. plan' \in PlanTypes
  BY <1>2 DEF TypeInv, TypeOK, PlanTypes, Installations
<1>4. \/ job' = job
      \/ \E n \in Nodes : \/ NewJob(n) \/ DeleteInForeground(n)
                          \/ job' = [job EXCEPT ![NameWithLengthLimit(n)] = NoJob]
  BY DEF TypeInv, TypeOK, Start, Command, CommandError, CommandKilled, deleteSecret, createSecret,
     EnsureArtifactsJobForNodes, ensureArtifactsJobForNode, deleteArtifactsJobForNode,
     waitForDelete, ensureArtifactsOnNodes, deleteLicenseIDSecret, EnsureAirgapArtifactsPlan,
     WaitForAirgapArtifactsAutopilotPlan, CmdTypes
<1>5. job' \in [Nodes -> JobTypes] /\ TriesLeft'
  BY <1>4, NewJobTypes, DeleteTypes, ForgetTypes, NamesAreNodes
     DEF TypeInv, TypeOK, JobTypes, TriesLeft
<1> QED
  BY <1>1, <1>3, <1>5

LEMMA TypeCommand ==
  ASSUME TypeInv, Start \/ Command \/ CommandError \/ CommandKilled
  PROVE  TypeInv'
<1>1. TypeOK
  BY DEF TypeInv
<1>2. cmd' \in CmdTypes /\ spent' \in [Bounds -> Nat]
  BY <1>1, TypeCmd
<1> QED
  BY <1>1, <1>2, TypeCommandRest
     DEF TypeInv, TypeOK, nodes, JobTypes, PlanTypes, CmdTypes, Bounds

LEMMA TypePods ==
  ASSUME TypeInv, Kubelet \/ (\E p \in pods : PodFails(p)) \/ JobController
  PROVE  TypeInv'
<1> USE DEF nodes
<1>0. TypeOK /\ job \in [Nodes -> JobTypes] /\ TriesLeft /\ pods \subseteq PodTypes
  BY DEF TypeInv, TypeOK, JobTypes, PodTypes
<1>1. CASE \E m \in Nodes : StartPod(m)
  <2> PICK m \in Nodes : StartPod(m)
    BY <1>1
  <2>1. job[m].of \in Installations /\ job[m].node \subseteq Nodes
    BY <1>0 DEF TriesLeft, StartPod, JobTypes, Installations
  <2>2. pods' \subseteq PodTypes /\ holds' \in [Nodes -> 0..LastInstallation]
    BY <1>0, <2>1, ConstantsAssumption DEF StartPod, PodTypes, TypeOK
  <2> QED
    BY <1>0, <2>2 DEF StartPod, TypeInv, TypeOK, TriesLeft, PodTypes
<1>2. CASE \E m \in Nodes : JobDeleted(m)
  BY <1>0, <1>2, ForgetTypes DEF JobDeleted, TypeInv, TypeOK, JobTypes
<1>3. CASE \E p \in pods : PodSucceeds(p)
  <2> PICK p \in pods : PodSucceeds(p)
    BY <1>3
  <2>1. p.name \in Nodes /\ p.of \in 0..LastInstallation
    BY <1>0 DEF PodTypes, Installations
  <2>2. pods' \subseteq PodTypes /\ holds' \in [Nodes -> 0..LastInstallation]
    BY <1>0, <2>1 DEF PodSucceeds, TypeOK
  <2>3. job' \in [Nodes -> JobTypes] /\ TriesLeft'
    BY <1>0, <2>1 DEF PodSucceeds, JobTypes, TriesLeft
  <2> QED
    BY <1>0, <2>2, <2>3 DEF PodSucceeds, TypeInv, TypeOK, PodTypes, JobTypes
<1>4. CASE \E p \in pods : StopPod(p)
  BY <1>0, <1>4 DEF StopPod, TypeInv, TypeOK, TriesLeft
<1>5. CASE \E p \in pods : PodFails(p)
  <2> PICK p \in pods : PodFails(p)
    BY <1>5
  <2>1. p.name \in Nodes
    BY <1>0 DEF PodTypes
  <2>2. job' \in [Nodes -> JobTypes] /\ TriesLeft'
    <3>1. CASE ~Owns(p)
      BY <1>0, <3>1 DEF PodFails, TriesLeft
    <3>2. CASE Owns(p)
      <4>1. job[p.name].fails \in 0..BackoffLimit
        BY <1>0, <2>1, <3>2, ConstantsAssumption DEF Owns, TriesLeft, JobTypes
      <4> QED
        BY <1>0, <2>1, <3>2, <4>1, ConstantsAssumption DEF PodFails, JobTypes, TriesLeft
    <3> QED
      BY <3>1, <3>2
  <2>3. spent' \in [Bounds -> Nat] /\ pods' \subseteq PodTypes
    BY <1>0, SpendTypes DEF PodFails, Bounds
  <2> QED
    BY <1>0, <2>2, <2>3 DEF PodFails, TypeInv, TypeOK, PodTypes, JobTypes, Bounds
<1> QED
  BY <1>1, <1>2, <1>3, <1>4, <1>5 DEF Kubelet, JobController

LEMMA TypeMachines ==
  ASSUME TypeInv, Autopilot \/ (\E n \in Nodes : JoinStart(n) \/ JoinFinish(n))
  PROVE  TypeInv'
<1> USE DEF cluster
<1>1. CASE Autopilot
  BY SMTT(60), <1>1 DEF Autopilot, AutopilotLoadImages, TypeInv, TypeOK, TriesLeft
<1>2. CASE \E n \in Nodes : JoinStart(n)
  BY <1>2 DEF JoinStart, TypeInv, TypeOK, TriesLeft, Installations
<1>3. CASE \E n \in Nodes : JoinFinish(n)
  BY <1>3, ConstantsAssumption DEF JoinFinish, TypeInv, TypeOK, TriesLeft
<1> QED
  BY <1>1, <1>2, <1>3

LEMMA TypeStep == TypeInv /\ [Next]_vars => TypeInv'
<1>1. TypeInv /\ UNCHANGED vars => TypeInv'
  BY DEF TypeInv, TypeOK, TriesLeft, vars, nodes, cluster
<1> QED
  BY <1>1, TypeCommand, TypePods, TypeMachines DEF Next

(* Every variable keeps its type; in particular no Job counts more failed *)
(* pods than it has tries.                                                *)
THEOREM TypeCorrect == Spec => []TypeOK
<1>1. TypeInv => TypeOK
  BY DEF TypeInv
<1> QED
  BY <1>1, TypeInit, TypeStep, PTL DEF Spec

-----------------------------------------------------------------------------
(* A pod runs only while the Job that created it is there, for the Job's  *)
(* own node; what a command deletes at its end has no pod.                *)
PodsInv ==
  /\ \A p \in pods : /\ job[p.name].of = p.of /\ job[p.name].node = {p.node}
                     /\ job[p.name].status \in {"active", "deleting"}
  /\ \A p, q \in pods : p.name = q.name => p = q
  /\ \A m \in Nodes : job[m] = NoJob \/
       \E n \in Nodes : job[m].node = {n} /\ m = NameWithLengthLimit(n)
  /\ cmd.at = "cleanup" => \A n \in cmd.todo : JobOf(n).status \in {"none", "succeeded"}

(* Only the Jobs of earlier installations are being deleted, so that none *)
(* is which the command has seen to.                                      *)
Ensuring == {"ensure", "waitDelete", "wait"}

JobsInv ==
  /\ \A m \in Nodes : /\ job[m].of <= cmd.of
                      /\ job[m].status = "deleting" => job[m].of < cmd.of
  /\ cmd.at \in Ensuring =>
       \A n \in cmd.jobs \ cmd.todo : IsOurs(n) /\ JobOf(n).status # "deleting"
  /\ cmd.at = "wait" => cmd.todo = {}
  /\ cmd.at = "waitDelete" => cmd.on \subseteq cmd.todo

CopyInv == TypeInv /\ PodsInv /\ JobsInv

(* With names of their own: a Job that has succeeded has left its         *)
(* installation's artifacts on its node, and nothing touches them before  *)
(* the next command does.                                                 *)
Placing == {"cleanup", "cleanSecret", "plan", "waitPlan"}

PlacedInv ==
  /\ Initial \subseteq members /\ cmd.jobs \subseteq members /\ cmd.todo \subseteq cmd.jobs
  /\ \A n \in Nodes \ members : job[n].status = "none"
  /\ \A n \in Nodes : joining[n] # 0 => n \notin members
  /\ \A n \in Nodes : job[n].status = "succeeded" => holds[n] = job[n].of
  /\ cmd.at # "idle" => cmd.result = "none"
  /\ cmd.at \in Placing \/ cmd.result = "ok" =>
       /\ Initial \subseteq cmd.jobs
       /\ \A n \in cmd.jobs : holds[n] = cmd.of /\ job[n].status \in {"none", "succeeded"}

(* When no command was interrupted, a plan that has images left to load   *)
(* is the running command's, and what it has loaded is its installation's.*)
Undisturbed == spent["errors"] = 0 /\ spent["kills"] = 0

LoadedInv ==
  Undisturbed =>
    /\ plan.left # {} => cmd.at = "waitPlan"
    /\ plan.of # 0 => \A n \in Initial \ plan.left : loaded[n] = plan.of
    /\ cmd.at = "waitPlan" => plan.of = cmd.of
    /\ cmd.result = "ok" /\ AirGap => plan.of = cmd.of /\ plan.left = {}

SuccessInv == CopyInv /\ PlacedInv /\ LoadedInv

LEMMA CopyInit == Init => CopyInv
<1> SUFFICES ASSUME Init PROVE CopyInv
  OBVIOUS
<1>1. PodsInv
  BY DEF Init, PodsInv, NoJob
<1>2. JobsInv
  BY DEF Init, JobsInv, NoJob, Ensuring
<1> QED
  BY <1>1, <1>2, TypeInit DEF CopyInv

LEMMA CopyTypes ==
  ASSUME CopyInv
  PROVE  /\ job \in [Nodes -> JobTypes] /\ pods \subseteq PodTypes /\ members \subseteq Nodes
         /\ cmd \in CmdTypes /\ cmd.of \in Nat \ {0} /\ \A m \in Nodes : job[m].of \in Nat
<1>1. /\ job \in [Nodes -> JobTypes] /\ pods \subseteq PodTypes /\ members \subseteq Nodes
      /\ cmd \in CmdTypes
  BY DEF CopyInv, TypeInv, TypeOK, JobTypes, PodTypes, CmdTypes
<1>2. cmd.of \in Nat \ {0}
  BY <1>1, ConstantsAssumption DEF CmdTypes, Installations
<1>3. \A m \in Nodes : job[m].of \in Nat
  BY <1>1, ConstantsAssumption DEF JobTypes
<1> QED
  BY <1>1, <1>2, <1>3

(* The new Job of a node, whose name is free.                             *)
LEMMA NewJobKeeps ==
  ASSUME CopyInv, NEW k \in Nodes, k \in cmd.todo, JobOf(k) = NoJob, NewJob(k), NodeDone(k),
         cmd.at \in {"ensure", "waitDelete"}, UNCHANGED pods
  PROVE  PodsInv' /\ JobsInv'
<1> DEFINE K   == NameWithLengthLimit(k)
           new == [of |-> cmd.of, node |-> {k}, status |-> "active", fails |-> 0]
<1>1. /\ job \in [Nodes -> JobTypes] /\ pods \subseteq PodTypes /\ K \in Nodes /\ cmd \in CmdTypes
      /\ cmd.of \in Nat \ {0} /\ \A m \in Nodes : job[m].of \in Nat
  BY CopyTypes, NamesAreNodes
<1>2. \A m \in Nodes : job'[m] = IF m = K THEN new ELSE job[m]
  BY <1>1 DEF NewJob
<1>3. /\ cmd'.of = cmd.of /\ cmd'.jobs = cmd.jobs /\ cmd'.todo = cmd.todo \ {k}
      /\ cmd'.at = IF cmd.todo = {k} THEN "wait" ELSE "ensure"
  BY <1>1 DEF NodeDone, CmdTypes
<1>4. \A p \in pods : p.name # K /\ p.name \in Nodes
  BY <1>1 DEF CopyInv, PodsInv, JobOf, NoJob, PodTypes
<1>5. PodsInv'
  <2>1. \A p \in pods' : job'[p.name] = job[p.name]
    BY <1>2, <1>4
  <2>2. \A m \in Nodes : job'[m] = NoJob \/
          \E n \in Nodes : job'[m].node = {n} /\ m = NameWithLengthLimit(n)
    BY <1>2 DEF CopyInv, PodsInv
  <2> QED
    BY <1>3, <2>1, <2>2 DEF CopyInv, PodsInv
<1>6. JobsInv'
  <2>1. \A m \in Nodes : /\ job'[m].of <= cmd'.of
                         /\ job'[m].status = "deleting" => job'[m].of < cmd'.of
    BY <1>1, <1>2, <1>3 DEF CopyInv, JobsInv
  <2>2. ASSUME NEW n \in cmd'.jobs \ cmd'.todo
        PROVE  IsOurs(n)' /\ JobOf(n)'.status # "deleting"
    <3>1. n \in Nodes /\ NameWithLengthLimit(n) \in Nodes
      BY <1>1, <1>3, NamesAreNodes DEF CmdTypes
    <3>2. CASE NameWithLengthLimit(n) = K
      BY <1>2, <1>3, <3>1, <3>2 DEF IsOurs, JobOf
    <3>3. CASE NameWithLengthLimit(n) # K
      BY <1>2, <1>3, <3>1, <3>3 DEF IsOurs, JobOf, CopyInv, JobsInv, Ensuring
    <3> QED
      BY <3>2, <3>3
  <2>3. (cmd'.at = "wait" => cmd'.todo = {}) /\ cmd'.at # "waitDelete"
    BY <1>3
  <2> QED
    BY <2>1, <2>2, <2>3 DEF JobsInv
<1> QED
  BY <1>5, <1>6

(* The Job of an earlier installation, which is deleted first.            *)
LEMMA DeleteKeeps ==
  ASSUME CopyInv, NEW k \in Nodes, ~IsOurs(k), JobOf(k) # NoJob, DeleteInForeground(k),
         cmd.at = "ensure", k \in cmd.todo, UNCHANGED pods
  PROVE  PodsInv' /\ JobsInv'
<1> DEFINE K == NameWithLengthLimit(k)
<1>1. /\ job \in [Nodes -> JobTypes] /\ pods \subseteq PodTypes /\ K \in Nodes /\ cmd \in CmdTypes
      /\ cmd.of \in Nat \ {0} /\ \A m \in Nodes : job[m].of \in Nat
  BY CopyTypes, NamesAreNodes
<1>2. \A m \in Nodes :
        /\ job'[m].of = job[m].of /\ job'[m].node = job[m].node
        /\ job'[m].status = IF m = K THEN "deleting" ELSE job[m].status
  BY <1>1 DEF DeleteInForeground, JobTypes
<1>3. /\ cmd'.of = cmd.of /\ cmd'.jobs = cmd.jobs /\ cmd'.todo = cmd.todo /\ cmd'.on = {k}
      /\ cmd'.at = "waitDelete"
  BY <1>1 DEF DeleteInForeground, CmdTypes
<1>4. job[K].of < cmd.of
  BY <1>1 DEF CopyInv, JobsInv, IsOurs, JobOf
<1>5. PodsInv'
  <2>1. \A p \in pods' : p.name \in Nodes
    BY <1>1 DEF PodTypes
  <2>2. \E n \in Nodes : job[K].node = {n} /\ K = NameWithLengthLimit(n)
    BY <1>1 DEF CopyInv, PodsInv, JobOf
  <2>3. \A m \in Nodes : m # K => job'[m] = job[m]
    BY <1>1 DEF DeleteInForeground
  <2> QED
    BY <1>2, <1>3, <2>1, <2>2, <2>3 DEF CopyInv, PodsInv
<1>6. JobsInv'
  <2>1. ASSUME NEW n \in cmd'.jobs \ cmd'.todo
        PROVE  IsOurs(n)' /\ JobOf(n)'.status # "deleting"
    <3>1. n \in Nodes /\ NameWithLengthLimit(n) \in Nodes
      BY <1>1, <1>3, NamesAreNodes DEF CmdTypes
    <3>2. IsOurs(n) /\ JobOf(n).status # "deleting"
      BY <1>3 DEF CopyInv, JobsInv, Ensuring
    <3>3. NameWithLengthLimit(n) # K
      BY <3>2 DEF IsOurs, JobOf
    <3> QED
      BY <1>2, <1>3, <3>1, <3>2, <3>3 DEF IsOurs, JobOf
  <2> QED
    BY <1>2, <1>3, <1>4, <2>1 DEF CopyInv, JobsInv
<1> QED
  BY <1>5, <1>6

LEMMA WaitKeeps ==
  ASSUME CopyInv, waitForDelete
  PROVE  PodsInv' /\ JobsInv'
<1> PICK k \in cmd.on : JobOf(k) = NoJob /\ NewJob(k) /\ NodeDone(k)
  BY DEF waitForDelete
<1>1. k \in Nodes /\ k \in cmd.todo
  BY CopyTypes DEF CopyInv, JobsInv, CmdTypes, waitForDelete
<1> QED
  BY <1>1, NewJobKeeps DEF waitForDelete

(* The other steps of the command leave the Jobs alone, or delete those   *)
(* that have succeeded.                                                   *)
LEMMA CommandKeeps ==
  ASSUME CopyInv, Start \/ Command \/ CommandError \/ CommandKilled
  PROVE  PodsInv' /\ JobsInv'
<1> USE DEF cluster, Goto, Return
<1>0. /\ job \in [Nodes -> JobTypes] /\ pods \subseteq PodTypes /\ members \subseteq Nodes
      /\ cmd \in CmdTypes /\ cmd.of \in Nat \ {0} /\ \A m \in Nodes : job[m].of \in Nat
  BY CopyTypes
<1>1. ASSUME UNCHANGED <<job, pods>>, cmd'.of \in {cmd.of, cmd.of + 1},
             cmd'.at \notin {"cleanup", "waitDelete", "wait"},
             cmd'.at = "ensure" => cmd'.jobs = cmd'.todo
      PROVE  PodsInv' /\ JobsInv'
  <2>1. PodsInv'
    BY <1>1 DEF CopyInv, PodsInv, JobOf
  <2>2. JobsInv'
    BY <1>0, <1>1 DEF CopyInv, JobsInv, Ensuring
  <2> QED
    BY <2>1, <2>2
<1>2. CASE Start
  BY <1>0, <1>1, <1>2 DEF Start, CmdTypes
<1>3. CASE deleteSecret \/ createSecret \/ EnsureArtifactsJobForNodes
  BY <1>0, <1>1, <1>3 DEF deleteSecret, createSecret, EnsureArtifactsJobForNodes, CmdTypes
<1>4. CASE \E n \in Nodes : ensureArtifactsJobForNode(n)
  <2> PICK k \in Nodes : ensureArtifactsJobForNode(k)
    BY <1>4
  <2>0. cmd.at = "ensure" /\ k \in cmd.todo /\ UNCHANGED pods
    BY DEF ensureArtifactsJobForNode
  <2>1. CASE JobOf(k) = NoJob /\ NewJob(k) /\ NodeDone(k)
    BY <2>0, <2>1, NewJobKeeps
  <2>2. CASE JobOf(k) # NoJob /\ ~IsOurs(k) /\ DeleteInForeground(k)
    BY <2>0, <2>2, DeleteKeeps
  <2>3. CASE JobOf(k) # NoJob /\ IsOurs(k) /\ NodeDone(k) /\ UNCHANGED job
    <3>1. /\ cmd'.of = cmd.of /\ cmd'.jobs = cmd.jobs /\ cmd'.todo = cmd.todo \ {k}
          /\ cmd'.at = IF cmd.todo = {k} THEN "wait" ELSE "ensure"
      BY <1>0, <2>3 DEF NodeDone, CmdTypes
    <3>2. NameWithLengthLimit(k) \in Nodes
      BY NamesAreNodes
    <3>3. JobOf(k).status # "deleting"
      BY <1>0, <2>3, <3>2 DEF CopyInv, JobsInv, IsOurs, JobOf
    <3>4. PodsInv'
      BY <2>0, <2>3, <3>1 DEF CopyInv, PodsInv, JobOf
    <3>5. ASSUME NEW n \in cmd'.jobs \ cmd'.todo
          PROVE  IsOurs(n)' /\ JobOf(n)'.status # "deleting"
      <4>1. n = k \/ n \in cmd.jobs \ cmd.todo
        BY <3>1
      <4>2. IsOurs(n) /\ JobOf(n).status # "deleting"
        BY <2>0, <2>3, <3>3, <4>1 DEF CopyInv, JobsInv, Ensuring
      <4> QED
        BY <2>3, <3>1, <4>2 DEF IsOurs, JobOf
    <3>6. JobsInv'
      BY <2>3, <3>1, <3>5 DEF CopyInv, JobsInv
    <3> QED
      BY <3>4, <3>6
  <2> QED
    BY <2>1, <2>2, <2>3 DEF ensureArtifactsJobForNode
<1>6. CASE ensureArtifactsOnNodes
  <2>1. CASE Return("error")
    BY <1>0, <1>1, <1>6, <2>1 DEF ensureArtifactsOnNodes, CmdTypes
  <2>2. CASE /\ \A n \in members : IsOurs(n) /\ JobOf(n).status = "succeeded"
             /\ cmd' = [cmd EXCEPT !.at = "cleanup", !.jobs = members, !.todo = members]
    <3>1. cmd'.of = cmd.of /\ cmd'.at = "cleanup" /\ cmd'.todo = members /\ UNCHANGED <<job, pods>>
      BY <1>0, <1>6, <2>2 DEF ensureArtifactsOnNodes, CmdTypes
    <3>2. PodsInv'
      BY <2>2, <3>1 DEF CopyInv, PodsInv, JobOf
    <3>3. JobsInv'
      BY <1>0, <3>1 DEF CopyInv, JobsInv, Ensuring
    <3> QED
      BY <3>2, <3>3
  <2> QED
    BY <1>6, <2>1, <2>2 DEF ensureArtifactsOnNodes
<1>7. CASE \E n \in Nodes : deleteArtifactsJobForNode(n)
  <2> PICK k \in Nodes : deleteArtifactsJobForNode(k)
    BY <1>7
  <2> DEFINE K == NameWithLengthLimit(k)
  <2>1. /\ cmd'.of = cmd.of /\ cmd'.todo \subseteq cmd.todo /\ cmd'.at \notin Ensuring
        /\ cmd.at = "cleanup" /\ pods' = pods /\ k \in cmd.todo /\ K \in Nodes
    BY <1>0, NamesAreNodes DEF deleteArtifactsJobForNode, CmdTypes, Ensuring
  <2>2. \A m \in Nodes : job'[m] = job[m] \/ (m = K /\ job'[m] = NoJob)
    BY <1>0, <2>1 DEF deleteArtifactsJobForNode
  <2>3. \A p \in pods : p.name \in Nodes /\ job'[p.name] = job[p.name]
    BY <1>0, <2>1, <2>2 DEF CopyInv, PodsInv, JobOf, PodTypes
  <2>4. ASSUME NEW n \in cmd'.todo
        PROVE  JobOf(n)'.status \in {"none", "succeeded"}
    <3>1. NameWithLengthLimit(n) \in Nodes /\ n \in cmd.todo
      BY <1>0, <2>1, NamesAreNodes DEF CmdTypes
    <3> QED
      BY <2>1, <2>2, <3>1 DEF CopyInv, PodsInv, JobOf, NoJob
  <2>5. PodsInv'
    BY <2>1, <2>2, <2>3, <2>4 DEF CopyInv, PodsInv
  <2>6. JobsInv'
    BY <1>0, <2>1, <2>2 DEF CopyInv, JobsInv, NoJob, Ensuring
  <2> QED
    BY <2>5, <2>6
<1>8. CASE waitForDelete
  BY <1>8, WaitKeeps
<1>9. CASE deleteLicenseIDSecret \/ EnsureAirgapArtifactsPlan \/ WaitForAirgapArtifactsAutopilotPlan
  BY <1>0, <1>1, <1>9 DEF deleteLicenseIDSecret, EnsureAirgapArtifactsPlan,
     WaitForAirgapArtifactsAutopilotPlan, CmdTypes
<1>10. CASE CommandError \/ CommandKilled
  BY <1>0, <1>1, <1>10 DEF CommandError, CommandKilled, CmdTypes
<1> QED
  BY <1>2, <1>3, <1>4, <1>6, <1>7, <1>8, <1>9, <1>10 DEF Command

LEMMA PodsKeep ==
  ASSUME CopyInv, Kubelet \/ (\E p \in pods : PodFails(p)) \/ JobController
  PROVE  PodsInv' /\ JobsInv'
<1> USE DEF nodes
<1>0. /\ job \in [Nodes -> JobTypes] /\ pods \subseteq PodTypes /\ members \subseteq Nodes
      /\ cmd \in CmdTypes /\ cmd.of \in Nat \ {0} /\ \A m \in Nodes : job[m].of \in Nat
  BY CopyTypes
<1>1. \A n \in cmd.todo \cup cmd.jobs : n \in Nodes /\ NameWithLengthLimit(n) \in Nodes
  BY <1>0, NamesAreNodes DEF CmdTypes
<1>2. \A p \in pods : p.name \in Nodes /\ p.node \in Nodes
  BY <1>0 DEF PodTypes
<1>3. CASE \E m \in Nodes : StartPod(m)
  <2> PICK m \in Nodes : StartPod(m)
    BY <1>3
  <2> PICK n \in job[m].node : pods' = pods \cup {[name |-> m, node |-> n, of |-> job[m].of]}
    BY DEF StartPod
  <2>1. \A p \in pods : p.name # m
    BY DEF StartPod, CopyInv, PodsInv
  <2>2. job[m].node = {n} /\ job[m].status = "active"
    BY DEF StartPod, CopyInv, PodsInv, NoJob
  <2>3. job' = job /\ cmd' = cmd
    BY DEF StartPod
  <2> QED
    BY <2>1, <2>2, <2>3 DEF CopyInv, PodsInv, JobsInv, JobOf, IsOurs
<1>4. CASE \E m \in Nodes : JobDeleted(m)
  <2> PICK m \in Nodes : JobDeleted(m)
    BY <1>4
  <2>1. \A k \in Nodes : job'[k] = IF k = m THEN NoJob ELSE job[k]
    BY <1>0 DEF JobDeleted
  <2>2. cmd' = cmd /\ pods' = pods /\ job[m].status = "deleting" /\ \A p \in pods : p.name # m
    BY DEF JobDeleted
  <2>3. PodsInv'
    BY ZenonT(60), <1>1, <1>2, <2>1, <2>2 DEF CopyInv, PodsInv, JobOf, NoJob
  <2>4. job[m].of < cmd.of
    BY <2>2 DEF CopyInv, JobsInv
  <2>5. JobsInv'
    BY <1>0, <1>1, <2>1, <2>2, <2>4 DEF CopyInv, JobsInv, JobOf, IsOurs, NoJob
  <2> QED
    BY <2>3, <2>5
<1>5. ASSUME NEW p \in pods, pods' = pods \ {p}, cmd' = cmd,
             \A m \in Nodes :
               job'[m] = job[m] \/
               /\ m = p.name /\ Owns(p)
               /\ job'[m].of = job[m].of /\ job'[m].node = job[m].node
               /\ job'[m].status \in {"active", "succeeded", "failed"}
      PROVE  PodsInv' /\ JobsInv'
  <2>1. \A q \in pods' : q.name # p.name /\ q \in pods /\ job'[q.name] = job[q.name]
    BY <1>2, <1>5 DEF CopyInv, PodsInv
  <2>2. \A m \in Nodes : job'[m] = NoJob \/
          \E n \in Nodes : job'[m].node = {n} /\ m = NameWithLengthLimit(n)
    <3> TAKE m \in Nodes
    <3>1. CASE job'[m] = job[m]
      BY <3>1 DEF CopyInv, PodsInv
    <3>2. CASE m = p.name /\ Owns(p) /\ job'[m].node = job[m].node
      BY <3>2 DEF CopyInv, PodsInv, Owns, NoJob
    <3> QED
      BY <1>5, <3>1, <3>2
  <2>3. cmd'.at = "cleanup" => \A n \in cmd'.todo : JobOf(n)'.status \in {"none", "succeeded"}
    BY <1>1, <1>5 DEF CopyInv, PodsInv, JobOf, Owns
  <2>4. PodsInv'
    BY <2>1, <2>2, <2>3 DEF CopyInv, PodsInv
  <2>5. JobsInv'
    BY <1>0, <1>1, <1>5 DEF CopyInv, JobsInv, JobOf, IsOurs
  <2> QED
    BY <2>4, <2>5
<1>6. CASE \E p \in pods : PodSucceeds(p)
  <2> PICK p \in pods : PodSucceeds(p)
    BY <1>6
  <2>1. \A m \in Nodes : job'[m] = job[m] \/
          /\ m = p.name /\ Owns(p)
          /\ job'[m].of = job[m].of /\ job'[m].node = job[m].node
          /\ job'[m].status \in {"active", "succeeded", "failed"}
    BY SMTT(60), <1>0, <1>2 DEF PodSucceeds, JobTypes
  <2> QED
    BY <1>5, <2>1 DEF PodSucceeds
<1>7. CASE \E p \in pods : PodFails(p)
  <2> PICK p \in pods : PodFails(p)
    BY <1>7
  <2>1. \A m \in Nodes : job'[m] = job[m] \/
          /\ m = p.name /\ Owns(p)
          /\ job'[m].of = job[m].of /\ job'[m].node = job[m].node
          /\ job'[m].status \in {"active", "succeeded", "failed"}
    BY <1>0, <1>2 DEF PodFails, JobTypes, Owns
  <2> QED
    BY <1>5, <2>1 DEF PodFails
<1>8. CASE \E p \in pods : StopPod(p)
  BY <1>5, <1>8 DEF StopPod
<1> QED
  BY <1>3, <1>4, <1>6, <1>7, <1>8 DEF Kubelet, JobController

LEMMA CopyStep == CopyInv /\ [Next]_vars => CopyInv'
<1> USE DEF nodes, cluster
<1>1. CopyInv /\ UNCHANGED <<job, pods, cmd>> => PodsInv' /\ JobsInv'
  BY DEF CopyInv, PodsInv, JobsInv, JobOf, IsOurs
<1>2. UNCHANGED vars \/ Autopilot \/ (\E n \in Nodes : JoinStart(n) \/ JoinFinish(n))
        => UNCHANGED <<job, pods, cmd>>
  BY DEF vars, Autopilot, AutopilotLoadImages, JoinStart, JoinFinish
<1>3. CopyInv /\ [Next]_vars => PodsInv' /\ JobsInv'
  BY <1>1, <1>2, CommandKeeps, PodsKeep DEF Next
<1> QED
  BY <1>3, TypeStep DEF CopyInv

(* However often a command is killed or fails, and whatever Jobs it       *)
(* leaves, no two pods ever write to one node's data directory.           *)
THEOREM CopiesExclude == Spec => []OneCopyAtATime
<1>1. CopyInv => OneCopyAtATime
  <2> SUFFICES ASSUME CopyInv, NEW p \in pods, NEW q \in pods, p.node = q.node
               PROVE  p = q
    BY DEF OneCopyAtATime
  <2>1. p.name \in Nodes /\ q.name \in Nodes
    BY CopyTypes DEF PodTypes
  <2>2. p.name = NameWithLengthLimit(p.node) /\ q.name = NameWithLengthLimit(q.node)
    BY <2>1 DEF CopyInv, PodsInv, NoJob
  <2> QED
    BY <2>2 DEF CopyInv, PodsInv
<1> QED
  BY <1>1, CopyInit, CopyStep, PTL DEF Spec

(* A command that waits has every Job that it has seen to, for its own    *)
(* installation and not being deleted.                                    *)
THEOREM JobsAreThere == Spec => []JobsStay
<1>1. CopyInv => JobsStay
  BY DEF CopyInv, JobsInv, JobsStay, Ensuring
<1> QED
  BY <1>1, CopyInit, CopyStep, PTL DEF Spec

(* Copies exclude one another and a command's Jobs stay, whatever Jobs     *)
(* earlier commands have left.                                             *)
THEOREM CopiesStaySafe == Spec => []CopiesAreSafe
<1>1. OneCopyAtATime /\ JobsStay => CopiesAreSafe
  BY DEF CopiesAreSafe
<1> QED
  BY CopiesExclude, JobsAreThere, <1>1, PTL

-----------------------------------------------------------------------------
(* No two names are cut to one.                                           *)
DistinctNames == \A m, n \in LongNames : m = n

LEMMA NamesAreKept == ASSUME DistinctNames PROVE \A n \in Nodes : NameWithLengthLimit(n) = n
  BY DEF DistinctNames, NameWithLengthLimit

LEMMA SuccessInit == Init => SuccessInv
<1> SUFFICES ASSUME Init PROVE SuccessInv
  OBVIOUS
<1>1. PlacedInv
  BY ConstantsAssumption DEF Init, PlacedInv, NoJob, Placing
<1>2. LoadedInv
  BY DEF Init, LoadedInv, NoPlan
<1> QED
  BY <1>1, <1>2, CopyInit DEF SuccessInv

LEMMA PlacedTypes ==
  ASSUME SuccessInv
  PROVE  /\ job \in [Nodes -> JobTypes] /\ pods \subseteq PodTypes /\ members \subseteq Nodes
         /\ cmd \in CmdTypes /\ cmd.of \in Nat \ {0} /\ plan \in PlanTypes
         /\ joining \in [Nodes -> 0..LastInstallation] /\ holds \in [Nodes -> 0..LastInstallation]
         /\ loaded \in [Nodes -> 0..LastInstallation] /\ spent \in [Bounds -> Nat]
  BY CopyTypes DEF SuccessInv, CopyInv, TypeInv, TypeOK, PlanTypes, Bounds

LEMMA PlacedCommand ==
  ASSUME SuccessInv, DistinctNames, Start \/ Command \/ CommandError \/ CommandKilled
  PROVE  PlacedInv'
<1> USE DEF cluster, nodes, Goto, Return
<1>0. /\ job \in [Nodes -> JobTypes] /\ members \subseteq Nodes /\ cmd \in CmdTypes
      /\ \A n \in Nodes : NameWithLengthLimit(n) = n
  BY PlacedTypes, NamesAreKept
<1>1. ASSUME UNCHANGED <<job, members, joining, holds>>, cmd'.jobs \subseteq members,
             cmd'.todo \subseteq cmd'.jobs, cmd'.at # "idle" => cmd'.result = "none",
             \/ cmd'.at \notin Placing /\ cmd'.result # "ok"
             \/ cmd.at \in Placing /\ cmd'.jobs = cmd.jobs /\ cmd'.of = cmd.of
      PROVE  PlacedInv'
  <2>1. cmd'.at \in Placing \/ cmd'.result = "ok" =>
          cmd.at \in Placing /\ cmd'.jobs = cmd.jobs /\ cmd'.of = cmd.of
    BY <1>1
  <2>2. cmd'.at \in Placing \/ cmd'.result = "ok" =>
          /\ Initial \subseteq cmd'.jobs
          /\ \A n \in cmd'.jobs : holds'[n] = cmd'.of /\ job'[n].status \in {"none", "succeeded"}
    BY <1>1, <2>1 DEF SuccessInv, PlacedInv
  <2> QED
    BY <1>1, <2>2 DEF SuccessInv, PlacedInv
<1>2. CASE Start
  <2>1. /\ cmd'.jobs = {} /\ cmd'.todo = {} /\ cmd'.at = "dropSecret" /\ cmd'.result = "none"
        /\ UNCHANGED <<job, members, joining, holds>>
    BY <1>2 DEF Start
  <2> QED
    BY <1>1, <2>1 DEF Placing
<1>3. CASE deleteSecret \/ createSecret \/ EnsureArtifactsJobForNodes
  <2>1. cmd.result = "none" /\ cmd.jobs \subseteq members /\ cmd.todo \subseteq cmd.jobs
    BY <1>3 DEF deleteSecret, createSecret, EnsureArtifactsJobForNodes, SuccessInv, PlacedInv
  <2>2. /\ \/ cmd'.jobs = cmd.jobs /\ cmd'.todo = cmd.todo
           \/ cmd'.jobs = members /\ cmd'.todo = members
        /\ cmd'.result = cmd.result /\ cmd'.at \in {"secret", "list", "ensure"}
        /\ UNCHANGED <<job, members, joining, holds>>
    BY <1>0, <1>3, <2>1 DEF deleteSecret, createSecret, EnsureArtifactsJobForNodes, CmdTypes
  <2>3. cmd'.at \notin Placing
    BY <2>2 DEF Placing
  <2> QED
    BY <1>1, <2>1, <2>2, <2>3
<1>4. ASSUME NEW k \in members, UNCHANGED <<members, joining, holds>>, cmd.at \in Ensuring,
             \A m \in Nodes : job'[m] = job[m] \/ (m = k /\ job'[m].status # "succeeded"),
             cmd'.jobs = cmd.jobs, cmd'.todo \subseteq cmd.todo, cmd'.result = cmd.result,
             cmd'.at \in Ensuring
      PROVE  PlacedInv'
  BY <1>0, <1>4 DEF SuccessInv, PlacedInv, Placing, Ensuring
<1>5. ASSUME NEW k \in members, NewJob(k)
      PROVE  \A m \in Nodes : job'[m] = job[m] \/ (m = k /\ job'[m].status # "succeeded")
  BY <1>0, <1>5 DEF NewJob
<1>6. ASSUME NEW k \in members, NodeDone(k)
      PROVE  /\ cmd'.jobs = cmd.jobs /\ cmd'.todo \subseteq cmd.todo /\ cmd'.result = cmd.result
             /\ cmd'.at \in Ensuring
  BY <1>0, <1>6 DEF NodeDone, CmdTypes, Ensuring
<1>7. CASE \E n \in Nodes : ensureArtifactsJobForNode(n)
  <2> PICK k \in Nodes : ensureArtifactsJobForNode(k)
    BY <1>7
  <2>1. cmd.at \in Ensuring /\ k \in members /\ UNCHANGED <<members, joining, holds>>
    BY DEF ensureArtifactsJobForNode, Ensuring, SuccessInv, PlacedInv
  <2>2. CASE NodeDone(k) /\ (NewJob(k) \/ UNCHANGED job)
    BY <1>4, <1>5, <1>6, <2>1, <2>2
  <2>3. CASE DeleteInForeground(k)
    <3>1. \A m \in Nodes : job'[m] = job[m] \/ (m = k /\ job'[m].status # "succeeded")
      BY <1>0, <2>3 DEF DeleteInForeground, JobTypes
    <3>2. /\ cmd'.jobs = cmd.jobs /\ cmd'.todo \subseteq cmd.todo /\ cmd'.result = cmd.result
          /\ cmd'.at \in Ensuring
      BY <1>0, <2>3 DEF DeleteInForeground, CmdTypes, Ensuring
    <3> QED
      BY <1>4, <2>1, <3>1, <3>2
  <2> QED
    BY <2>2, <2>3 DEF ensureArtifactsJobForNode
<1>8. CASE waitForDelete
  <2> PICK k \in cmd.on : NewJob(k) /\ NodeDone(k)
    BY <1>8 DEF waitForDelete
  <2>1. cmd.at \in Ensuring /\ k \in members /\ UNCHANGED <<members, joining, holds>>
    BY <1>8 DEF waitForDelete, Ensuring, SuccessInv, PlacedInv, CopyInv, JobsInv
  <2> QED
    BY <1>4, <1>5, <1>6, <2>1
<1>9. CASE ensureArtifactsOnNodes
  <2>1. CASE Return("error")
    BY <1>0, <1>1, <1>9, <2>1 DEF ensureArtifactsOnNodes, CmdTypes, SuccessInv, PlacedInv, Placing
  <2>2. CASE /\ \A n \in members : IsOurs(n) /\ JobOf(n).status = "succeeded"
             /\ cmd' = [cmd EXCEPT !.at = "cleanup", !.jobs = members, !.todo = members]
    <3>1. /\ cmd'.jobs = members /\ cmd'.todo = members /\ cmd'.of = cmd.of /\ cmd'.at = "cleanup"
          /\ cmd'.result = cmd.result
      BY <1>0, <2>2 DEF CmdTypes
    <3>2. UNCHANGED <<job, members, joining, holds>> /\ cmd.at = "wait"
      BY <1>9 DEF ensureArtifactsOnNodes
    <3>3. \A n \in members : holds[n] = cmd.of /\ job[n].status = "succeeded"
      BY <1>0, <2>2 DEF IsOurs, JobOf, SuccessInv, PlacedInv
    <3> QED
      BY <3>1, <3>2, <3>3 DEF SuccessInv, PlacedInv
  <2> QED
    BY <1>9, <2>1, <2>2 DEF ensureArtifactsOnNodes
<1>10. CASE \E n \in Nodes : deleteArtifactsJobForNode(n)
  <2> PICK k \in Nodes : deleteArtifactsJobForNode(k)
    BY <1>10
  <2>1. /\ cmd'.jobs = cmd.jobs /\ cmd'.todo \subseteq cmd.todo /\ cmd'.of = cmd.of
        /\ cmd'.result = cmd.result /\ cmd'.at # "idle" /\ cmd.at = "cleanup"
        /\ UNCHANGED <<members, joining, holds>>
    BY <1>0 DEF deleteArtifactsJobForNode, CmdTypes
  <2>2. \A m \in Nodes : job'[m] = job[m] \/ job'[m] = NoJob
    BY <1>0 DEF deleteArtifactsJobForNode
  <2> QED
    BY <1>0, <2>1, <2>2 DEF SuccessInv, PlacedInv, Placing, NoJob
<1>11. CASE deleteLicenseIDSecret \/ EnsureAirgapArtifactsPlan \/ WaitForAirgapArtifactsAutopilotPlan
  BY ZenonT(60), <1>0, <1>1, <1>11 DEF deleteLicenseIDSecret, EnsureAirgapArtifactsPlan,
     WaitForAirgapArtifactsAutopilotPlan, CmdTypes, Placing, SuccessInv, PlacedInv
<1>12. CASE CommandError \/ CommandKilled
  BY <1>0, <1>1, <1>12 DEF CommandError, CommandKilled, CmdTypes, Placing, SuccessInv, PlacedInv
<1> QED
  BY <1>2, <1>3, <1>7, <1>8, <1>9, <1>10, <1>11, <1>12 DEF Command

LEMMA PlacedPods ==
  ASSUME SuccessInv, DistinctNames,
         Kubelet \/ (\E p \in pods : PodFails(p)) \/ JobController
  PROVE  PlacedInv'
<1> USE DEF nodes
<1>0. /\ job \in [Nodes -> JobTypes] /\ members \subseteq Nodes /\ cmd \in CmdTypes
      /\ holds \in [Nodes -> 0..LastInstallation] /\ pods \subseteq PodTypes
      /\ \A n \in Nodes : NameWithLengthLimit(n) = n
  BY PlacedTypes, NamesAreKept
<1>1. \A p \in pods : /\ p.node \in Nodes /\ p.name = p.node
                      /\ job[p.node].status \in {"active", "deleting"}
                      /\ job[p.node].of = p.of
  <2> TAKE p \in pods
  <2>1. p.node \in Nodes /\ p.name \in Nodes
    BY <1>0 DEF PodTypes
  <2> QED
    BY <1>0, <2>1 DEF SuccessInv, CopyInv, PodsInv, NoJob
<1>2. cmd' = cmd /\ members' = members /\ joining' = joining
  BY DEF Kubelet, JobController, StartPod, JobDeleted, PodSucceeds, PodFails, StopPod
<1>3. CASE \E m \in Nodes : StartPod(m)
  <2> PICK m \in Nodes : StartPod(m)
    BY <1>3
  <2>1. job[m].node = {m} /\ job[m].status = "active" /\ job' = job
    BY <1>0 DEF StartPod, SuccessInv, CopyInv, PodsInv, NoJob
  <2>2. \A n \in Nodes : n # m => holds'[n] = holds[n]
    BY <1>0, <2>1 DEF StartPod
  <2> QED
    BY <1>0, <1>2, <2>1, <2>2 DEF SuccessInv, PlacedInv, CmdTypes
<1>4. CASE \E m \in Nodes : JobDeleted(m)
  <2> PICK m \in Nodes : JobDeleted(m)
    BY <1>4
  <2>1. holds' = holds /\ \A n \in Nodes : job'[n] = job[n] \/ job'[n] = NoJob
    BY <1>0 DEF JobDeleted
  <2> QED
    BY <1>0, <1>2, <2>1 DEF SuccessInv, PlacedInv, CmdTypes, NoJob
<1>5. CASE \E p \in pods : PodSucceeds(p)
  <2> PICK p \in pods : PodSucceeds(p)
    BY <1>5
  <2>1. \A n \in Nodes : n # p.node => holds'[n] = holds[n] /\ job'[n] = job[n]
    BY <1>0, <1>1 DEF PodSucceeds
  <2>2. holds'[p.node] = p.of /\ job'[p.node].of = p.of /\ job'[p.node].status # "none"
    BY <1>0, <1>1 DEF PodSucceeds, JobTypes
  <2> QED
    BY <1>0, <1>1, <1>2, <2>1, <2>2 DEF SuccessInv, PlacedInv, CmdTypes
<1>6. CASE \E p \in pods : PodFails(p)
  <2> PICK p \in pods : PodFails(p)
    BY <1>6
  <2>1. \A n \in Nodes : n # p.node => job'[n] = job[n]
    BY <1>0, <1>1 DEF PodFails
  <2>2. job'[p.node].status \notin {"none", "succeeded"} /\ holds' = holds
    BY <1>0, <1>1 DEF PodFails, JobTypes, Owns
  <2> QED
    BY <1>0, <1>1, <1>2, <2>1, <2>2 DEF SuccessInv, PlacedInv, CmdTypes
<1>7. CASE \E p \in pods : StopPod(p)
  BY <1>2, <1>7 DEF StopPod, SuccessInv, PlacedInv
<1> QED
  BY <1>3, <1>4, <1>5, <1>6, <1>7 DEF Kubelet, JobController

LEMMA PlacedMachines ==
  ASSUME SuccessInv, Autopilot \/ (\E n \in Nodes : JoinStart(n) \/ JoinFinish(n))
  PROVE  PlacedInv'
<1> USE DEF cluster
<1>0. /\ members \subseteq Nodes /\ cmd \in CmdTypes
      /\ holds \in [Nodes -> 0..LastInstallation] /\ joining \in [Nodes -> 0..LastInstallation]
  BY PlacedTypes
<1>1. CASE Autopilot
  BY <1>1 DEF Autopilot, AutopilotLoadImages, SuccessInv, PlacedInv
<1>2. CASE \E n \in Nodes : JoinStart(n)
  BY <1>0, <1>2 DEF JoinStart, SuccessInv, PlacedInv
<1>3. CASE \E n \in Nodes : JoinFinish(n)
  <2> PICK n \in Nodes : JoinFinish(n)
    BY <1>3
  <2>1. n \notin members /\ members' = members \cup {n} /\ UNCHANGED <<job, cmd>>
    BY DEF JoinFinish, SuccessInv, PlacedInv
  <2>2. \A m \in Nodes : m # n => holds'[m] = holds[m] /\ joining'[m] = joining[m]
    BY <1>0 DEF JoinFinish
  <2>3. joining'[n] = 0
    BY <1>0 DEF JoinFinish
  <2> QED
    BY <1>0, <2>1, <2>2, <2>3 DEF SuccessInv, PlacedInv
<1> QED
  BY <1>1, <1>2, <1>3

LEMMA LoadedCommand ==
  ASSUME SuccessInv, Start \/ Command \/ CommandError \/ CommandKilled
  PROVE  LoadedInv'
<1> USE DEF cluster, nodes, Goto, Return
<1>0. cmd \in CmdTypes /\ plan \in PlanTypes /\ spent \in [Bounds -> Nat] /\ cmd.of \in Nat \ {0}
  BY PlacedTypes
<1>1. Undisturbed' => Undisturbed
  <2>1. spent' = spent \/ \E b \in Bounds, bound \in Nat : Spend(b, bound)
    BY ConstantsAssumption DEF Bounds, Start, Command, CommandError, CommandKilled,
     deleteSecret, createSecret, EnsureArtifactsJobForNodes, ensureArtifactsJobForNode,
     deleteArtifactsJobForNode, waitForDelete, ensureArtifactsOnNodes, deleteLicenseIDSecret,
     EnsureAirgapArtifactsPlan, WaitForAirgapArtifactsAutopilotPlan
  <2>2. \A b \in Bounds : spent'[b] = 0 => spent[b] = 0
    BY <1>0, <2>1 DEF Spend
  <2> QED
    BY <2>2 DEF Undisturbed, Bounds
<1>2. ASSUME UNCHANGED <<plan, loaded>>, cmd.at # "waitPlan",
             cmd'.at # "waitPlan", cmd'.result = "ok" => ~AirGap
      PROVE  LoadedInv'
  BY <1>1, <1>2 DEF SuccessInv, LoadedInv
<1>3. CASE Start
  BY <1>0, <1>2, <1>3 DEF Start
<1>4. CASE deleteSecret \/ createSecret \/ EnsureArtifactsJobForNodes
  BY <1>0, <1>2, <1>4 DEF deleteSecret, createSecret, EnsureArtifactsJobForNodes, CmdTypes,
     SuccessInv, PlacedInv
<1>5. CASE \E n \in Nodes : ensureArtifactsJobForNode(n)
  BY ZenonT(60), <1>0, <1>2, <1>5 DEF ensureArtifactsJobForNode, NodeDone, DeleteInForeground, CmdTypes,
     SuccessInv, PlacedInv
<1>6. CASE waitForDelete
  BY <1>0, <1>2, <1>6 DEF waitForDelete, NodeDone, CmdTypes, SuccessInv, PlacedInv
<1>7. CASE ensureArtifactsOnNodes
  BY <1>0, <1>2, <1>7 DEF ensureArtifactsOnNodes, CmdTypes, SuccessInv, PlacedInv
<1>8. CASE \E n \in Nodes : deleteArtifactsJobForNode(n)
  BY <1>0, <1>2, <1>8 DEF deleteArtifactsJobForNode, CmdTypes, SuccessInv, PlacedInv
<1>9. CASE deleteLicenseIDSecret
  BY <1>0, <1>2, <1>9 DEF deleteLicenseIDSecret, CmdTypes, SuccessInv, PlacedInv
<1>10. CASE EnsureAirgapArtifactsPlan
  <2>1. /\ cmd'.of = cmd.of /\ cmd'.at = "waitPlan" /\ cmd'.result = "none" /\ cmd.at = "plan"
        /\ loaded' = loaded
    BY <1>0, <1>10 DEF EnsureAirgapArtifactsPlan, CmdTypes, SuccessInv, PlacedInv
  <2>2. CASE plan.of = cmd.of
    BY <1>1, <1>10, <2>1, <2>2 DEF EnsureAirgapArtifactsPlan, SuccessInv, LoadedInv
  <2>3. CASE plan.of # cmd.of
    <3>1. plan'.of = cmd.of /\ plan'.left = members
      BY <1>10, <2>3 DEF EnsureAirgapArtifactsPlan
    <3>2. Initial \ plan'.left = {}
      BY <3>1 DEF SuccessInv, PlacedInv
    <3> QED
      BY <2>1, <3>1, <3>2 DEF LoadedInv
  <2> QED
    BY <2>2, <2>3
<1>11. CASE WaitForAirgapArtifactsAutopilotPlan
  <2>1. UNCHANGED <<plan, loaded>> /\ cmd'.of = cmd.of /\ cmd'.at = "idle" /\ cmd.at = "waitPlan"
    BY <1>0, <1>11 DEF WaitForAirgapArtifactsAutopilotPlan, CmdTypes
  <2>2. \/ plan.of # cmd.of /\ cmd'.result = "error"
        \/ plan.of = cmd.of /\ plan.left = {}
    BY <1>0, <1>11 DEF WaitForAirgapArtifactsAutopilotPlan, CmdTypes
  <2> QED
    BY <1>1, <2>1, <2>2 DEF SuccessInv, LoadedInv
<1>12. CASE CommandError \/ CommandKilled
  <2>1. ~Undisturbed'
    BY <1>0, <1>12 DEF CommandError, CommandKilled, Spend, Undisturbed, Bounds
  <2> QED
    BY <2>1 DEF LoadedInv
<1> QED
  BY <1>3, <1>4, <1>5, <1>6, <1>7, <1>8, <1>9, <1>10, <1>11, <1>12 DEF Command

LEMMA LoadedOthers ==
  ASSUME SuccessInv, \/ Kubelet \/ (\E p \in pods : PodFails(p)) \/ JobController
                     \/ Autopilot \/ (\E n \in Nodes : JoinStart(n) \/ JoinFinish(n))
  PROVE  LoadedInv'
<1> USE DEF cluster, nodes
<1>0. /\ plan \in PlanTypes /\ spent \in [Bounds -> Nat]
      /\ loaded \in [Nodes -> 0..LastInstallation]
  BY PlacedTypes
<1>1. ASSUME UNCHANGED <<plan, loaded, cmd>>, Undisturbed' => Undisturbed
      PROVE  LoadedInv'
  BY <1>1 DEF SuccessInv, LoadedInv
<1>2. CASE Kubelet \/ JobController
  BY <1>1, <1>2 DEF Kubelet, JobController, StartPod, JobDeleted, PodSucceeds, StopPod, Undisturbed
<1>3. CASE \E p \in pods : PodFails(p)
  BY <1>0, <1>1, <1>3 DEF PodFails, Spend, Undisturbed, Bounds
<1>4. CASE Autopilot
  <2> PICK n \in Nodes : AutopilotLoadImages(n)
    BY <1>4 DEF Autopilot
  <2>1. /\ plan'.of = plan.of /\ plan'.left = plan.left \ {n} /\ n \in plan.left
        /\ UNCHANGED <<cmd, spent>>
    BY <1>0 DEF AutopilotLoadImages, PlanTypes
  <2>2. \A m \in Nodes : loaded'[m] = IF m = n THEN holds[n] ELSE loaded[m]
    BY <1>0 DEF AutopilotLoadImages
  <2>3. ASSUME Undisturbed
        PROVE  plan.of = cmd.of /\ (n \in Initial => holds[n] = cmd.of)
    BY <2>1, <2>3 DEF SuccessInv, LoadedInv, PlacedInv, Placing
  <2>4. Undisturbed' => Undisturbed
    BY <2>1 DEF Undisturbed
  <2>5. ASSUME Undisturbed, NEW m \in Initial \ plan'.left, plan.of # 0
        PROVE  loaded'[m] = plan'.of
    BY <2>1, <2>2, <2>3, <2>5, ConstantsAssumption DEF SuccessInv, LoadedInv
  <2> QED
    BY <2>1, <2>4, <2>5 DEF SuccessInv, LoadedInv
<1>5. CASE \E n \in Nodes : JoinStart(n)
  BY <1>1, <1>5 DEF JoinStart, Undisturbed
<1>6. CASE \E n \in Nodes : JoinFinish(n)
  <2> PICK n \in Nodes : JoinFinish(n)
    BY <1>6
  <2>1. n \notin Initial
    BY DEF JoinFinish, SuccessInv, PlacedInv
  <2>2. UNCHANGED <<plan, cmd, spent>> /\ \A m \in Nodes : m # n => loaded'[m] = loaded[m]
    BY <1>0 DEF JoinFinish
  <2> QED
    BY <2>1, <2>2, ConstantsAssumption DEF SuccessInv, LoadedInv, Undisturbed
<1> QED
  BY <1>2, <1>3, <1>4, <1>5, <1>6

LEMMA SuccessStep ==
  ASSUME DistinctNames
  PROVE  SuccessInv /\ [Next]_vars => SuccessInv'
<1>1. SuccessInv /\ UNCHANGED vars => PlacedInv' /\ LoadedInv'
  BY DEF SuccessInv, PlacedInv, LoadedInv, Undisturbed, vars, nodes, cluster
<1>2. SuccessInv /\ [Next]_vars => PlacedInv' /\ LoadedInv'
  BY <1>1, PlacedCommand, PlacedPods, PlacedMachines, LoadedCommand, LoadedOthers DEF Next
<1> QED
  BY <1>2, CopyStep DEF SuccessInv

(* When no two nodes' names are cut to one, a command that ends well has  *)
(* the artifacts of its installation on every node that it found, and, if *)
(* none before was interrupted, their images loaded on the first nodes.   *)
THEOREM SuccessIsReal == ASSUME DistinctNames PROVE Spec => []SuccessMeansPlaced
<1>1. SuccessInv => SuccessMeansPlaced
  <2> SUFFICES ASSUME SuccessInv, cmd.result = "ok"
               PROVE  /\ \A n \in cmd.jobs : holds[n] = cmd.of
                      /\ AirGap /\ spent["errors"] + spent["kills"] = 0 =>
                           \A n \in cmd.jobs \cap Initial : loaded[n] = cmd.of
    BY DEF SuccessMeansPlaced
  <2>1. \A n \in cmd.jobs : holds[n] = cmd.of
    BY DEF SuccessInv, PlacedInv
  <2>2. spent["errors"] \in Nat /\ spent["kills"] \in Nat /\ cmd.of # 0
    BY PlacedTypes DEF Bounds
  <2>3. spent["errors"] + spent["kills"] = 0 => Undisturbed
    BY <2>2 DEF Undisturbed
  <2>4. AirGap /\ Undisturbed => \A n \in Initial : loaded[n] = cmd.of
    BY <2>2 DEF SuccessInv, LoadedInv
  <2> QED
    BY <2>1, <2>3, <2>4
<1>2. SuccessInv /\ [Next]_vars => SuccessInv'
  BY SuccessStep
<1> QED
  BY <1>1, <1>2, SuccessInit, PTL DEF Spec
=============================================================================
