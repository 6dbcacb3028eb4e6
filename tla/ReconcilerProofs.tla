-------------------------- MODULE ReconcilerProofs --------------------------
(***************************************************************************)
(* What holds of Reconciler for every number of machines, Installations,   *)
(* joins, changes and errors.                                              *)
(***************************************************************************)
EXTENDS Reconciler, TLAPS

-----------------------------------------------------------------------------
(* What the cache takes to be current is.                                 *)
CacheInv ==
  \A i \in cache.current : cache.state[i] = state[i] /\ cache.status[i] = status[i]

(* The upgrade has not touched what comes after its Installation, and the *)
(* state of its own follows from how far it is.                           *)
UpgradeInv ==
  /\ \A i \in Installations : i > upgrade.of => state[i] = "absent" /\ status[i] = NoStatus
  /\ state[upgrade.of] = IF upgrade.at = "state" THEN "Created"
                         ELSE IF upgrade.at = "idle" THEN "Installed" ELSE "Installing"

(* A reconciliation whose write will be accepted holds the state that is  *)
(* there, of an Installation in use, and knows no node less.              *)
Unsaved == {"nodes", "preflights", "openebs", "save"}

ReconcileInv ==
  /\ r.at # "idle" => r.in \in Installations
  /\ r.at \in Unsaved /\ ~r.conflict =>
       /\ r.state = state[r.in]
       /\ r.in \in Active(state)
       /\ r.at = "nodes" => \A n \in Nodes : r.status[n] = None => status[r.in][n] = None

(* Whoever is known, wherever that is, has a Job or is about to have one. *)
PreflightInv ==
  /\ PreflightsCopied
  /\ \A i \in Installations, n \in Nodes : cache.status[i][n] # None => n \in preflights
  /\ r.at \in Unsaved =>
       \A n \in Nodes : r.status[n] # None =>
         n \in preflights \/ (r.at = "preflights" /\ n \in r.todo)

(* A member that its Installation does not know, or that the batch holds  *)
(* as new, has joined more often than it was reported.                    *)
AddedInv ==
  /\ AddedOnce
  /\ \A i \in Installations, n \in members :
       state[i] # "Obsolete" /\ status[i][n] = None => added[i][n] < joins[n]
  /\ \A n \in members :
       r.at \in Unsaved \ {"nodes"} /\ r.status[n] = None => added[r.in][n] < joins[n]
  /\ \A n \in r.batch :
       r.at \in Unsaved \ {"nodes"} /\ ~r.conflict =>
         r.status[n] # None /\ added[r.in][n] < joins[n]
  /\ \A n \in r.todo :
       r.at = "report" =>
         /\ added[r.in][n] < joins[n]
         /\ state[r.in] # "Obsolete" => status[r.in][n] # None

IInv == TypeOK /\ CacheInv /\ UpgradeInv /\ ReconcileInv /\ PreflightInv /\ AddedInv

-----------------------------------------------------------------------------
LEMMA Values ==
  /\ Installations \subseteq Nat /\ 1 \in Installations /\ LastInstallation \in Nat
  /\ MaxErrors \in Nat
  /\ None \in EventType /\ NoStatus \in [Nodes -> EventType]
  /\ \A n \in Nodes : NoStatus[n] = None
  BY ConstantsAssumption DEF ConstantsAssumption, Installations, None, EventType, NoStatus

(* An event is never mistaken for none: it names its Installation.        *)
LEMMA EventTypes ==
  ASSUME joins \in [Nodes -> Nat], changes \in [Nodes -> Nat],
         NEW i \in Installations, NEW n \in Nodes
  PROVE  Event(i, n) \in EventType /\ Event(i, n) # None
<1>1. i \in 0..LastInstallation /\ i # 0 /\ i \in Nat
  BY ConstantsAssumption DEF ConstantsAssumption, Installations
<1>2. Event(i, n) \in EventType
  BY <1>1 DEF Event, EventType
<1>3. Event(i, n).of # None.of
  BY <1>1 DEF Event, None
<1> QED
  BY <1>2, <1>3

LEMMA IdleTypes ==
  /\ Idle \in [at: {"idle", "nodes", "preflights", "openebs", "save", "report"},
               in: 0..LastInstallation, state: States, status: [Nodes -> EventType],
               batch: SUBSET Nodes, todo: SUBSET Nodes, conflict: BOOLEAN]
  /\ Idle.at = "idle" /\ Idle.in = 0 /\ Idle.batch = {} /\ Idle.todo = {}
  BY Values DEF Idle, States

LEMMA InitInv == Init => IInv
<1> SUFFICES ASSUME Init PROVE IInv
  OBVIOUS
<1> USE Values, IdleTypes DEF Init
<1>1. state \in [Installations -> States] /\ status \in [Installations -> [Nodes -> EventType]]
  BY DEF States
<1>2. TypeOK
  BY <1>1 DEF TypeOK
<1>3. CacheInv /\ UpgradeInv
  BY DEF CacheInv, UpgradeInv, Installations
<1>4. ReconcileInv /\ PreflightInv
  BY DEF ReconcileInv, PreflightInv, PreflightsCopied, Unsaved
<1>5. AddedInv
  BY DEF AddedInv, AddedOnce
<1> QED
  BY <1>2, <1>3, <1>4, <1>5 DEF IInv

-----------------------------------------------------------------------------
(* The cluster and the cache.  A node that joins raises the count that    *)
(* every part of AddedInv compares with.                                  *)
LEMMA NodeInv ==
  ASSUME IInv, NEW m \in Nodes, NodeJoins(m) \/ NodeChanges(m) \/ NodeLeaves(m)
  PROVE  IInv'
<1> USE DEF IInv, api
<1>1. UNCHANGED <<state, status, cache, preflights, added, r, upgrade, errors>>
  BY DEF NodeJoins, NodeChanges, NodeLeaves
<1>2. /\ joins \in [Nodes -> Nat] /\ changes \in [Nodes -> Nat] /\ members \subseteq Nodes
      /\ r.batch \subseteq Nodes /\ r.todo \subseteq Nodes
  BY DEF TypeOK
<1>4. /\ joins' \in [Nodes -> Nat] /\ changes' \in [Nodes -> Nat] /\ members' \subseteq Nodes
      /\ \A n \in Nodes : joins'[n] >= joins[n]
      /\ \A n \in members' : n \in members \/ joins'[n] > joins[n]
  <2> HIDE DEF IInv
  <2>1. CASE NodeJoins(m)
    BY <1>2, <2>1 DEF NodeJoins
  <2>2. CASE NodeChanges(m)
    BY <1>2, <2>2 DEF NodeChanges
  <2>3. CASE NodeLeaves(m)
    BY <1>2, <2>3 DEF NodeLeaves
  <2> QED
    BY <2>1, <2>2, <2>3
<1>7. TypeOK'
  BY <1>1, <1>4 DEF TypeOK
<1>3. CacheInv' /\ UpgradeInv' /\ ReconcileInv' /\ PreflightInv'
  BY <1>1 DEF CacheInv, UpgradeInv, ReconcileInv, PreflightInv, PreflightsCopied, Active
<1>5. \A i \in Installations, n \in Nodes : added[i][n] \in Nat /\ added[i][n] <= joins[n]
  BY DEF TypeOK, AddedInv, AddedOnce
<1>6. r.at \in Unsaved \/ r.at = "report" => r.in \in Installations
  BY DEF ReconcileInv, Unsaved
<1>8. AddedInv'
  BY <1>1, <1>2, <1>4, <1>5, <1>6 DEF AddedInv, AddedOnce
<1> QED
  BY <1>7, <1>3, <1>8

LEMMA CacheFollowsInv == IInv /\ CacheFollows => IInv'
<1> SUFFICES ASSUME IInv, CacheFollows PROVE IInv'
  OBVIOUS
<1> USE DEF IInv, CacheFollows, nodes
<1>1. TypeOK' /\ CacheInv' /\ UpgradeInv' /\ ReconcileInv' /\ AddedInv'
  BY DEF TypeOK, CacheInv, UpgradeInv, ReconcileInv, AddedInv, AddedOnce, Active
<1>2. PreflightInv'
  BY DEF PreflightInv, PreflightsCopied
<1> QED
  BY <1>1, <1>2

-----------------------------------------------------------------------------
(* The reconciler.  Its reads, which write nothing but its own state.     *)
RunType == [at: {"idle", "nodes", "preflights", "openebs", "save", "report"},
            in: 0..LastInstallation, state: States, status: [Nodes -> EventType],
            batch: SUBSET Nodes, todo: SUBSET Nodes, conflict: BOOLEAN]

(* If the write will be accepted, the cache has what there is; a node not *)
(* in the status taken over is not in the newest Installation's either.   *)
LEMMA ReconcileStep == IInv /\ Reconcile => IInv'
<1> SUFFICES ASSUME IInv, Reconcile PROVE IInv'
  OBVIOUS
<1> USE DEF IInv
<1>1. PICK in \in Installations, from \in Installations :
        /\ CoalesceInstallations(in, from)
        /\ r' = [Idle EXCEPT !.at = "nodes", !.in = in, !.state = cache.state[in],
                             !.status = cache.status[from], !.conflict = in \notin cache.current]
  BY DEF Reconcile
<1>2. /\ cache.state \in [Installations -> States]
      /\ cache.status \in [Installations -> [Nodes -> EventType]]
      /\ in \in 0..LastInstallation
  BY DEF TypeOK, Installations
<1>3. /\ r' \in RunType
      /\ r'.at = "nodes" /\ r'.in = in /\ r'.state = cache.state[in] /\ r'.batch = {}
      /\ r'.status = cache.status[from] /\ r'.conflict = (in \notin cache.current) /\ r'.todo = {}
  BY <1>1, <1>2, IdleTypes DEF RunType
<1>4. UNCHANGED <<nodes, api, preflights, added, upgrade, errors>>
  BY DEF Reconcile
<1>5. \A n \in Nodes : cache.status[from][n] = None => cache.status[in][n] = None
  <2>1. CASE from = in
    BY <2>1
  <2>2. CASE cache.status[in] = NoStatus
    BY <2>2, Values
  <2>3. from = in \/ cache.status[in] = NoStatus
    BY <1>1, Values DEF CoalesceInstallations, Newest, Active
  <2> QED
    BY <2>1, <2>2, <2>3
<1>6. in \in Active(cache.state)
  BY <1>1 DEF CoalesceInstallations, Newest
<1>7. TypeOK'
  BY <1>3, <1>4 DEF TypeOK, RunType, nodes, api
<1>8. CacheInv' /\ UpgradeInv'
  BY <1>4 DEF CacheInv, UpgradeInv, api
<1>9. ReconcileInv'
  BY <1>3, <1>4, <1>5, <1>6 DEF ReconcileInv, CacheInv, Active, api
<1>10. PreflightInv' /\ AddedInv'
  BY <1>3, <1>4 DEF PreflightInv, PreflightsCopied, AddedInv, AddedOnce, api, nodes, Unsaved
<1> QED
  BY <1>7, <1>8, <1>9, <1>10

(* Every member is known from here on, and the members that were not are  *)
(* the batch.                                                             *)
LEMMA NodeStatusesStep == IInv /\ ReconcileNodeStatuses => IInv'
<1> SUFFICES ASSUME IInv, ReconcileNodeStatuses PROVE IInv'
  OBVIOUS
<1> USE DEF IInv
<1> DEFINE new == {n \in members : r.status[n] = None}
<1>1. /\ r \in RunType /\ members \subseteq Nodes
      /\ joins \in [Nodes -> Nat] /\ changes \in [Nodes -> Nat]
  BY DEF TypeOK, RunType
<1>2. r.at = "nodes" /\ r.in \in Installations
  BY DEF ReconcileNodeStatuses, ReconcileInv
<1>3. /\ NodesStatus(r.in) \in [Nodes -> EventType]
      /\ \A n \in Nodes : NodesStatus(r.in)[n] = None <=> n \notin members
  BY <1>1, <1>2, EventTypes, Values DEF NodesStatus
<1>4. /\ r' \in RunType
      /\ r'.at = "preflights" /\ r'.in = r.in /\ r'.state = r.state /\ r'.conflict = r.conflict
      /\ r'.status = NodesStatus(r.in) /\ r'.batch = new /\ r'.todo = new
  BY <1>1, <1>3 DEF ReconcileNodeStatuses, RunType
<1>5. UNCHANGED <<nodes, api, preflights, added, upgrade, errors>>
  BY DEF ReconcileNodeStatuses
<1>6. TypeOK'
  BY <1>4, <1>5 DEF TypeOK, RunType, nodes, api
<1>7. CacheInv' /\ UpgradeInv'
  BY <1>5 DEF CacheInv, UpgradeInv, api
<1>8. ReconcileInv'
  BY <1>2, <1>4, <1>5 DEF ReconcileInv, Active, api, Unsaved
<1>9. PreflightInv'
  BY <1>1, <1>2, <1>3, <1>4, <1>5 DEF PreflightInv, PreflightsCopied, api, Unsaved
<1>10. ~r.conflict => \A n \in new : added[r.in][n] < joins[n]
  BY <1>1, <1>2 DEF ReconcileInv, AddedInv, Active, Unsaved
<1>11. AddedInv'
  BY <1>1, <1>3, <1>4, <1>5, <1>10 DEF AddedInv, AddedOnce, api, nodes, Unsaved
<1> QED
  BY <1>6, <1>7, <1>8, <1>9, <1>11

LEMMA CopyStep == IInv /\ CopyHostPreflightResultsFromNodes => IInv'
<1> SUFFICES ASSUME IInv, CopyHostPreflightResultsFromNodes PROVE IInv'
  OBVIOUS
<1> USE DEF IInv
<1>1. r \in RunType /\ r.todo \subseteq Nodes
  BY DEF TypeOK, RunType
<1>2. UNCHANGED <<nodes, api, added, upgrade, errors>> /\ r.at = "preflights"
  BY DEF CopyHostPreflightResultsFromNodes
<1>3. /\ r' \in RunType
      /\ r'.in = r.in /\ r'.state = r.state /\ r'.status = r.status /\ r'.conflict = r.conflict
      /\ r'.batch = r.batch
      /\ \/ /\ r'.at = "preflights"
            /\ \E n \in r.todo : r'.todo = r.todo \ {n} /\ preflights' = preflights \cup {n}
         \/ r.todo = {} /\ r'.todo = {} /\ r'.at = "openebs" /\ preflights' = preflights
  BY <1>1 DEF CopyHostPreflightResultsFromNodes, RunType
<1>4. TypeOK'
  BY <1>1, <1>2, <1>3 DEF TypeOK, RunType, nodes, api
<1>5. CacheInv' /\ UpgradeInv'
  BY <1>2 DEF CacheInv, UpgradeInv, api
<1>6. ReconcileInv'
  BY <1>2, <1>3 DEF ReconcileInv, Active, api, Unsaved
<1>7. PreflightInv'
  BY <1>2, <1>3 DEF PreflightInv, PreflightsCopied, api, Unsaved
<1>8. AddedInv'
  BY <1>2, <1>3 DEF AddedInv, AddedOnce, api, nodes, Unsaved
<1> QED
  BY <1>4, <1>5, <1>6, <1>7, <1>8

(* A reconciliation that ends leaves nothing behind in its own state.     *)
LEMMA EndStep ==
  ASSUME IInv, r' = Idle, UNCHANGED <<nodes, api, preflights, added, upgrade>>,
         errors' \in 0..MaxErrors
  PROVE  IInv'
<1> USE DEF IInv, nodes, api
<1>1. TypeOK'
  BY IdleTypes DEF TypeOK
<1>2. CacheInv' /\ UpgradeInv' /\ ReconcileInv' /\ PreflightInv' /\ AddedInv'
  BY IdleTypes DEF CacheInv, UpgradeInv, ReconcileInv, PreflightInv, PreflightsCopied,
     AddedInv, AddedOnce, Unsaved
<1> QED
  BY <1>1, <1>2

LEMMA FailTypes == TypeOK /\ Fail => errors' \in 0..MaxErrors
  BY Values DEF TypeOK, Fail

(* The write of the status keeps the state and makes known only what has  *)
(* been seen to, whether the events are sent afterwards or not.           *)
LEMMA StatusUpdateStep ==
  ASSUME IInv, StatusUpdate, r.at \in {"openebs", "save"},
         UNCHANGED <<nodes, preflights, added, upgrade>>, errors' \in 0..MaxErrors,
         r' = Idle \/ (r.at = "save" /\ r' = [r EXCEPT !.at = "report", !.todo = r.batch])
  PROVE  IInv' /\ state' = state
<1> USE DEF IInv, nodes
<1>1. /\ r \in RunType /\ r.in \in Installations /\ ~r.conflict
      /\ r.state = state[r.in] /\ r.in \in Active(state)
      /\ state \in [Installations -> States] /\ status \in [Installations -> [Nodes -> EventType]]
      /\ r.status \in [Nodes -> EventType]
  BY DEF TypeOK, RunType, ReconcileInv, StatusUpdate, Unsaved
<1>2. /\ state' = state
      /\ status' = [status EXCEPT ![r.in] = r.status]
      /\ \/ cache' = cache /\ status' = status
         \/ cache' = [cache EXCEPT !.current = @ \ {r.in}]
  BY <1>1 DEF StatusUpdate, Write
<1>3. /\ r' \in RunType
      /\ \/ r'.at = "idle" /\ r'.batch = {} /\ r'.todo = {}
         \/ /\ r.at = "save" /\ r'.at = "report" /\ r'.in = r.in /\ r'.batch = r.batch
            /\ r'.todo = r.batch
  BY <1>1, IdleTypes DEF RunType
<1>4. /\ cache' \in [state: [Installations -> States],
                     status: [Installations -> [Nodes -> EventType]], current: SUBSET Installations]
      /\ cache'.state = cache.state /\ cache'.status = cache.status
      /\ cache'.current \subseteq cache.current
      /\ r.in \in cache'.current => status' = status
  <2>1. cache \in [state: [Installations -> States],
                  status: [Installations -> [Nodes -> EventType]], current: SUBSET Installations]
    BY DEF TypeOK
  <2>2. CASE cache' = cache /\ status' = status
    BY <2>1, <2>2
  <2>3. CASE cache' = [cache EXCEPT !.current = @ \ {r.in}]
    <3> HIDE DEF IInv
    <3>1. cache'.current = cache.current \ {r.in} /\ cache'.current \in SUBSET Installations
      BY <2>1, <2>3
    <3> QED
      BY <2>1, <2>3, <3>1
  <2> QED
    BY <1>2, <2>2, <2>3
<1>5. status' \in [Installations -> [Nodes -> EventType]]
  BY <1>1, <1>2
<1>11. TypeOK'
  BY <1>1, <1>2, <1>3, <1>4, <1>5 DEF TypeOK, RunType
<1>12. CacheInv'
  BY <1>1, <1>2, <1>4 DEF CacheInv, TypeOK
<1>6. ~(r.in > upgrade.of)
  BY <1>1 DEF UpgradeInv, Active
<1>7. UpgradeInv'
  BY <1>1, <1>2, <1>6 DEF UpgradeInv
<1>8. ReconcileInv'
  BY <1>1, <1>3 DEF ReconcileInv, Unsaved
<1>9. PreflightInv'
  <2>1. \A n \in Nodes : r.status[n] # None => n \in preflights
    BY DEF PreflightInv, Unsaved
  <2>2. PreflightsCopied'
    BY <1>1, <1>2, <2>1 DEF PreflightInv, PreflightsCopied
  <2> QED
    BY <1>3, <1>4, <2>2 DEF PreflightInv, Unsaved
<1>10. AddedInv'
  <2>1. \A n \in members : r.status[n] = None => added[r.in][n] < joins[n]
    BY DEF AddedInv, Unsaved
  <2>2. \A i \in Installations, n \in members :
          state[i] # "Obsolete" /\ status'[i][n] = None => added[i][n] < joins[n]
    BY <1>1, <1>2, <2>1 DEF AddedInv
  <2>3. r.at = "save" => \A n \in r.batch :
          added[r.in][n] < joins[n] /\ status'[r.in][n] # None
    BY <1>1, <1>2 DEF AddedInv, Unsaved
  <2> QED
    BY <1>2, <1>3, <2>2, <2>3 DEF AddedInv, AddedOnce, Unsaved
<1> QED
  BY <1>2, <1>11, <1>12, <1>7, <1>8, <1>9, <1>10

LEMMA OpenebsStep == IInv /\ ReconcileOpenebs => IInv' /\ state' = state
<1> SUFFICES ASSUME IInv, ReconcileOpenebs PROVE IInv' /\ state' = state
  OBVIOUS
<1>1. r.at = "openebs" /\ UNCHANGED <<nodes, preflights, added, upgrade>> /\ errors \in 0..MaxErrors
  BY DEF ReconcileOpenebs, IInv, TypeOK
<1>2. CASE r' = [r EXCEPT !.at = "save"] /\ UNCHANGED <<api, errors>>
  <2>1. /\ r \in RunType /\ r' \in RunType /\ r'.at = "save" /\ r'.in = r.in /\ r'.state = r.state
        /\ r'.status = r.status /\ r'.conflict = r.conflict /\ r'.batch = r.batch
        /\ r'.todo = r.todo /\ r.todo = {}
    BY <1>1, <1>2 DEF IInv, TypeOK, RunType
  <2>2. TypeOK'
    BY <1>1, <1>2, <2>1 DEF IInv, TypeOK, RunType, nodes, api
  <2>3. CacheInv' /\ UpgradeInv'
    BY <1>1, <1>2 DEF IInv, CacheInv, UpgradeInv, api
  <2>4. ReconcileInv'
    BY <1>1, <1>2, <2>1 DEF IInv, ReconcileInv, Active, api, Unsaved
  <2>5. PreflightInv'
    BY <1>1, <1>2, <2>1 DEF IInv, PreflightInv, PreflightsCopied, api, Unsaved
  <2>6. AddedInv'
    BY <1>1, <1>2, <2>1 DEF IInv, AddedInv, AddedOnce, api, nodes, Unsaved
  <2> QED
    BY <1>2, <2>2, <2>3, <2>4, <2>5, <2>6 DEF IInv, api
<1>3. CASE Fail /\ r' = Idle /\ StatusUpdate
  BY <1>1, <1>3, FailTypes, StatusUpdateStep DEF IInv
<1>4. CASE Fail /\ r' = Idle /\ UNCHANGED api
  BY <1>1, <1>4, FailTypes, EndStep DEF IInv, api
<1> QED
  BY <1>2, <1>3, <1>4 DEF ReconcileOpenebs

LEMMA SaveStep == IInv /\ SaveStatus => IInv' /\ state' = state
<1> SUFFICES ASSUME IInv, SaveStatus PROVE IInv' /\ state' = state
  OBVIOUS
<1>1. r.at = "save" /\ UNCHANGED <<nodes, preflights, added, upgrade, errors>>
      /\ errors' \in 0..MaxErrors
  BY DEF SaveStatus, IInv, TypeOK
<1>2. CASE StatusUpdate /\ r' = [r EXCEPT !.at = "report", !.todo = r.batch]
  BY <1>1, <1>2, StatusUpdateStep
<1>3. CASE r.conflict /\ r' = Idle /\ UNCHANGED api
  BY <1>1, <1>3, EndStep DEF api
<1> QED
  BY <1>2, <1>3 DEF SaveStatus

(* Whom the batch names has joined once more than was reported, so one    *)
(* event may be sent.                                                     *)
LEMMA ReportStep == IInv /\ ReportNodesChanges => IInv'
<1> SUFFICES ASSUME IInv, ReportNodesChanges PROVE IInv'
  OBVIOUS
<1>1. r.at = "report" /\ UNCHANGED <<nodes, api, preflights, upgrade>> /\ errors' \in 0..MaxErrors
  BY FailTypes DEF ReportNodesChanges, IInv, TypeOK
<1>2. CASE r' = Idle /\ UNCHANGED added
  BY <1>1, <1>2, EndStep
<1>3. ASSUME NEW m \in r.todo, r' = [r EXCEPT !.todo = @ \ {m}],
             added' = [added EXCEPT ![r.in][m] = @ + 1] \/ added' = added
      PROVE  IInv'
  <2> USE DEF IInv
  <2>1. /\ r \in RunType /\ r' \in RunType /\ r'.at = "report" /\ r'.in = r.in
        /\ r'.batch = r.batch /\ r'.todo = r.todo \ {m}
        /\ r.in \in Installations /\ m \in Nodes /\ r.todo \subseteq Nodes
        /\ members \subseteq Nodes /\ joins \in [Nodes -> Nat]
    BY <1>1, <1>3 DEF TypeOK, RunType, ReconcileInv
  <2>7. added \in [Installations -> [Nodes -> Nat]]
    BY DEF TypeOK
  <2>2. /\ added' \in [Installations -> [Nodes -> Nat]]
        /\ \A i \in Installations, n \in Nodes :
             added'[i][n] = added[i][n] \/ (i = r.in /\ n = m /\ added'[i][n] = added[i][n] + 1)
    <3>1. added[r.in] \in [Nodes -> Nat] /\ added[r.in][m] \in Nat
      BY <2>1, <2>7
    <3>2. CASE added' = added
      BY <2>7, <3>2
    <3>3. CASE added' = [added EXCEPT ![r.in][m] = @ + 1]
      <4>1. /\ added'[r.in] = [added[r.in] EXCEPT ![m] = @ + 1]
            /\ \A i \in Installations \ {r.in} : added'[i] = added[i]
            /\ DOMAIN added' = Installations /\ added' = [i \in Installations |-> added'[i]]
        BY <2>1, <2>7, <3>3
      <4>2. /\ added'[r.in] \in [Nodes -> Nat] /\ added'[r.in][m] = added[r.in][m] + 1
            /\ \A n \in Nodes \ {m} : added'[r.in][n] = added[r.in][n]
        BY <2>1, <3>1, <4>1
      <4>3. \A i \in Installations : added'[i] \in [Nodes -> Nat]
        BY <2>7, <4>1, <4>2
      <4>4. added' \in [Installations -> [Nodes -> Nat]]
        BY <4>1, <4>3
      <4> QED
        BY <4>1, <4>2, <4>4
    <3> QED
      BY <1>3, <3>2, <3>3
  <2>3. TypeOK'
    BY <1>1, <2>1, <2>2 DEF TypeOK, RunType, nodes, api
  <2>4. CacheInv' /\ UpgradeInv' /\ ReconcileInv' /\ PreflightInv'
    BY <1>1, <2>1 DEF CacheInv, UpgradeInv, ReconcileInv, PreflightInv, PreflightsCopied, api, Unsaved
  <2>5. /\ added[r.in][m] < joins[m]
        /\ state[r.in] # "Obsolete" => status[r.in][m] # None
    BY <1>1 DEF AddedInv
  <2>6. AddedInv'
    BY <1>1, <2>1, <2>2, <2>5, <2>7 DEF AddedInv, AddedOnce, nodes, api, Unsaved
  <2> QED
    BY <2>3, <2>4, <2>6
<1> QED
  BY <1>2, <1>3 DEF ReportNodesChanges

LEMMA ErrorStep == IInv /\ ReconcileError => IInv'
  BY FailTypes, EndStep DEF ReconcileError, IInv

-----------------------------------------------------------------------------
(* The upgrade.                                                           *)

(* A write to an Installation takes it out of what is current.            *)
LEMMA WriteTypes ==
  ASSUME TypeOK, CacheInv, NEW i \in Installations, NEW s \in States,
         NEW st \in [Nodes -> EventType], Write(i, s, st)
  PROVE  /\ state' = [state EXCEPT ![i] = s] /\ status' = [status EXCEPT ![i] = st]
         /\ state' \in [Installations -> States]
         /\ status' \in [Installations -> [Nodes -> EventType]]
         /\ cache' \in [state: [Installations -> States],
                        status: [Installations -> [Nodes -> EventType]],
                        current: SUBSET Installations]
         /\ cache'.status = cache.status
         /\ CacheInv'
<1> DEFINE CacheType == [state: [Installations -> States],
                         status: [Installations -> [Nodes -> EventType]],
                         current: SUBSET Installations]
<1>1. /\ cache \in CacheType
      /\ state \in [Installations -> States]
      /\ status \in [Installations -> [Nodes -> EventType]]
  BY DEF TypeOK
<1>2. state' = [state EXCEPT ![i] = s] /\ status' = [status EXCEPT ![i] = st]
  BY DEF Write
<1>3. CASE cache' = cache /\ state[i] = s /\ status[i] = st
  <2>1. state' = state /\ status' = status
    BY <1>1, <1>2, <1>3
  <2> QED
    BY <1>1, <1>2, <1>3, <2>1 DEF CacheInv
<1>4. CASE cache' = [cache EXCEPT !.current = @ \ {i}]
  <2>1. /\ cache'.current = cache.current \ {i} /\ cache'.current \in SUBSET Installations
        /\ cache'.state = cache.state /\ cache'.status = cache.status
    BY <1>1, <1>4
  <2>2. cache' \in CacheType
    BY <1>1, <1>4, <2>1
  <2>3. CacheInv'
    BY <1>1, <1>2, <2>1 DEF CacheInv
  <2> QED
    BY <1>1, <1>2, <2>1, <2>2, <2>3
<1> QED
  BY <1>3, <1>4 DEF Write

LEMMA CreateInstallationStep == IInv /\ CreateInstallation => IInv'
<1> SUFFICES ASSUME IInv, CreateInstallation PROVE IInv'
  OBVIOUS
<1> USE DEF IInv
<1> DEFINE i == upgrade.of + 1
<1>12. upgrade.at = "idle" /\ upgrade.of \in Installations /\ upgrade.of < LastInstallation
  BY DEF TypeOK, CreateInstallation
<1>1. upgrade.of \in Nat /\ i \in Installations /\ i > upgrade.of
  BY <1>12, ConstantsAssumption DEF ConstantsAssumption, Installations
<1>2. /\ upgrade' = [of |-> i, at |-> "state"] /\ Write(i, "Created", NoStatus)
      /\ UNCHANGED <<nodes, preflights, added, r, errors>>
  BY DEF CreateInstallation
<1>3. state[i] = "absent" /\ status[i] = NoStatus
  BY <1>1 DEF UpgradeInv
<1>4. /\ state' = [state EXCEPT ![i] = "Created"] /\ status' = [status EXCEPT ![i] = NoStatus]
      /\ state' \in [Installations -> States]
      /\ status' \in [Installations -> [Nodes -> EventType]]
      /\ cache' \in [state: [Installations -> States],
                     status: [Installations -> [Nodes -> EventType]],
                     current: SUBSET Installations]
      /\ cache'.status = cache.status
      /\ CacheInv'
  BY <1>1, <1>2, Values, WriteTypes DEF States
<1>5. status' = status /\ \A k \in Installations : k # i => state'[k] = state[k]
  BY <1>3, <1>4 DEF TypeOK
<1>6. TypeOK'
  BY <1>1, <1>2, <1>4 DEF TypeOK, nodes
<1>7. UpgradeInv'
  <2>1. upgrade'.of = i /\ upgrade'.at = "state" /\ state'[i] = "Created"
    BY <1>1, <1>2, <1>4 DEF TypeOK
  <2>2. \A k \in Installations : k > i => k > upgrade.of /\ k # i
    BY <1>1, Values
  <2> QED
    BY <1>5, <2>1, <2>2 DEF UpgradeInv
<1>8. ReconcileInv'
  BY <1>2, <1>3, <1>5 DEF ReconcileInv, Active, Unsaved
<1>9. PreflightInv'
  BY <1>2, <1>4, <1>5 DEF PreflightInv, PreflightsCopied
<1>10. \A k \in Installations : state'[k] # "Obsolete" => state[k] # "Obsolete"
  BY <1>3, <1>5
<1>13. r.at = "report" => r.in \in Installations
  BY DEF ReconcileInv
<1>11. AddedInv'
  BY <1>2, <1>5, <1>10, <1>13 DEF AddedInv, AddedOnce, nodes
<1> QED
  BY <1>4, <1>6, <1>7, <1>8, <1>9, <1>11

(* What both writes of a state have in common: the reconciliation of that *)
(* Installation, if one is under way, will be refused.                    *)
LEMMA UpdateStep ==
  ASSUME IInv, NEW i \in Installations, NEW s \in States, NEW st \in [Nodes -> EventType],
         UpdateInstallationStatus(i, s, st), UNCHANGED <<nodes, preflights, added, errors>>,
         upgrade' \in [of: Installations, at: {"idle", "state", "disable", "job"}],
         (s = "Obsolete" /\ st = NoStatus) \/ (state[i] # "Obsolete" /\ st = status[i])
  PROVE  /\ TypeOK' /\ CacheInv' /\ ReconcileInv' /\ PreflightInv' /\ AddedInv'
         /\ state' = [state EXCEPT ![i] = s] /\ status' = [status EXCEPT ![i] = st]
<1> USE DEF IInv
<1>1. /\ state' = [state EXCEPT ![i] = s] /\ status' = [status EXCEPT ![i] = st]
      /\ state' \in [Installations -> States]
      /\ status' \in [Installations -> [Nodes -> EventType]]
      /\ cache' \in [state: [Installations -> States],
                     status: [Installations -> [Nodes -> EventType]],
                     current: SUBSET Installations]
      /\ cache'.status = cache.status
      /\ CacheInv'
  BY WriteTypes DEF UpdateInstallationStatus
<1>2. /\ state \in [Installations -> States] /\ status \in [Installations -> [Nodes -> EventType]]
      /\ r \in RunType
      /\ members \subseteq Nodes /\ r.todo \subseteq Nodes /\ r.batch \subseteq Nodes
  BY DEF TypeOK, RunType
<1>3. /\ r' \in RunType
      /\ r'.at = r.at /\ r'.in = r.in /\ r'.state = r.state /\ r'.status = r.status
      /\ r'.batch = r.batch /\ r'.todo = r.todo
      /\ ~r'.conflict => ~r.conflict /\ r.in # i
  BY <1>2 DEF UpdateInstallationStatus, RunType
<1>4. TypeOK'
  BY <1>1, <1>3 DEF TypeOK, RunType, nodes
<1>5. \A k \in Installations : k # i => state'[k] = state[k] /\ status'[k] = status[k]
  BY <1>1, <1>2
<1>6. state'[i] = s /\ status'[i] = st
  BY <1>1, <1>2
<1>7. ReconcileInv'
  BY <1>3, <1>5 DEF ReconcileInv, Active, Unsaved
<1>8. \A k \in Installations, n \in Nodes : status'[k][n] = None \/ status'[k][n] = status[k][n]
  BY <1>5, <1>6, Values
<1>9. PreflightInv'
  BY <1>1, <1>3, <1>8 DEF PreflightInv, PreflightsCopied
<1>10. \A k \in Installations : state'[k] # "Obsolete" =>
         state[k] # "Obsolete" /\ status'[k] = status[k]
  BY <1>5, <1>6
<1>11. r.at = "report" => r.in \in Installations
  BY DEF ReconcileInv
<1>12. AddedInv'
  BY <1>2, <1>3, <1>10, <1>11 DEF AddedInv, AddedOnce, nodes
<1> QED
  BY <1>1, <1>4, <1>7, <1>9, <1>12

LEMMA SetStateStep == IInv /\ SetInstallationState => IInv'
<1> SUFFICES ASSUME IInv, SetInstallationState PROVE IInv'
  OBVIOUS
<1> USE DEF IInv
<1>1. /\ upgrade \in [of: Installations, at: {"idle", "state", "disable", "job"}]
      /\ upgrade.of \in Installations /\ status[upgrade.of] \in [Nodes -> EventType]
      /\ state[upgrade.of] # "Obsolete"
      /\ state \in [Installations -> States] /\ status \in [Installations -> [Nodes -> EventType]]
  BY DEF TypeOK, UpgradeInv
<1>2. PICK s \in {"Installing", "Installed"}, at \in {"disable", "idle"} :
        /\ s = "Installed" <=> at = "idle"
        /\ UpdateInstallationStatus(upgrade.of, s, status[upgrade.of])
        /\ upgrade' = [upgrade EXCEPT !.at = at]
  BY DEF SetInstallationState
<1>3. UNCHANGED <<nodes, preflights, added, errors>>
  BY DEF SetInstallationState
<1>4. /\ upgrade' \in [of: Installations, at: {"idle", "state", "disable", "job"}]
      /\ upgrade'.of = upgrade.of /\ upgrade'.at = at
  BY <1>1, <1>2
<1>5. /\ TypeOK' /\ CacheInv' /\ ReconcileInv' /\ PreflightInv' /\ AddedInv'
      /\ state' = [state EXCEPT ![upgrade.of] = s]
      /\ status' = [status EXCEPT ![upgrade.of] = status[upgrade.of]]
  <2>1. s \in States
    BY DEF States
  <2> HIDE DEF IInv
  <2> QED
    BY <1>1, <1>2, <1>3, <1>4, <2>1, UpdateStep
<1>6. UpgradeInv'
  BY <1>1, <1>2, <1>4, <1>5, Values DEF UpgradeInv
<1> QED
  BY <1>5, <1>6

LEMMA DisableStep == IInv /\ disableOldInstallations => IInv'
<1> SUFFICES ASSUME IInv, disableOldInstallations PROVE IInv'
  OBVIOUS
<1> USE DEF IInv
<1>1. /\ upgrade \in [of: Installations, at: {"idle", "state", "disable", "job"}]
      /\ upgrade.at = "disable" /\ upgrade.of \in Installations
      /\ state \in [Installations -> States] /\ status \in [Installations -> [Nodes -> EventType]]
  BY DEF TypeOK, disableOldInstallations
<1>2. UNCHANGED <<nodes, preflights, added, errors>>
  BY DEF disableOldInstallations
<1>3. ASSUME NEW i \in Active(state) \ {upgrade.of}, UpdateInstallationStatus(i, "Obsolete", NoStatus),
             UNCHANGED upgrade
      PROVE  IInv'
  <2>1. i \in Installations /\ ~(i > upgrade.of) /\ i # upgrade.of
    BY <1>3 DEF Active, UpgradeInv
  <2>2. /\ TypeOK' /\ CacheInv' /\ ReconcileInv' /\ PreflightInv' /\ AddedInv'
        /\ state' = [state EXCEPT ![i] = "Obsolete"] /\ status' = [status EXCEPT ![i] = NoStatus]
    BY <1>1, <1>2, <1>3, <2>1, Values, UpdateStep DEF States
  <2>3. UpgradeInv'
    BY <1>1, <1>3, <2>1, <2>2, Values DEF UpgradeInv
  <2> QED
    BY <2>2, <2>3
<1>4. CASE upgrade' = [upgrade EXCEPT !.at = "job"] /\ UNCHANGED <<api, r>>
  <2>1. /\ upgrade' \in [of: Installations, at: {"idle", "state", "disable", "job"}]
        /\ upgrade'.of = upgrade.of /\ upgrade'.at = "job"
    BY <1>1, <1>4
  <2> QED
    BY <1>1, <1>2, <1>4, <2>1 DEF TypeOK, CacheInv, UpgradeInv, ReconcileInv, PreflightInv,
       PreflightsCopied, AddedInv, AddedOnce, Active, nodes, api
<1> QED
  BY <1>3, <1>4 DEF disableOldInstallations

-----------------------------------------------------------------------------
LEMMA StepInv == IInv /\ [Next]_vars => IInv'
<1> SUFFICES ASSUME IInv, [Next]_vars PROVE IInv'
  OBVIOUS
<1>1. CASE Reconciliation
  BY <1>1, ReconcileStep, NodeStatusesStep, CopyStep, OpenebsStep, SaveStep, ReportStep
     DEF Reconciliation
<1>2. CASE ReconcileError
  BY <1>2, ErrorStep
<1>3. CASE \E n \in Nodes : NodeJoins(n) \/ NodeChanges(n) \/ NodeLeaves(n)
  BY <1>3, NodeInv
<1>4. CASE CacheFollows \/ CreateInstallation \/ SetInstallationState \/ disableOldInstallations
  BY <1>4, CacheFollowsInv, CreateInstallationStep, SetStateStep, DisableStep
<1>5. CASE UNCHANGED vars
  BY <1>5 DEF vars, nodes, api, IInv, TypeOK, CacheInv, UpgradeInv, ReconcileInv, PreflightInv,
     PreflightsCopied, AddedInv, AddedOnce, Active
<1> QED
  BY <1>1, <1>2, <1>3, <1>4, <1>5 DEF Next

(* The invariant holds of every behaviour of the reconciler, the cluster  *)
(* and the upgrade.                                                       *)
THEOREM Invariance == Spec => []IInv
  BY InitInv, StepInv, PTL DEF Spec

(* Every variable keeps its type, and only a reconciliation that copies   *)
(* or reports has nodes left to go through.                               *)
THEOREM TypeCorrect == Spec => []TypeOK
<1>1. IInv => TypeOK
  BY DEF IInv
<1> QED
  BY Invariance, <1>1, PTL

(* A node is known to an Installation only when the Job that copies its   *)
(* preflight results has been created, whatever fails in between          *)
(* (CopyHostPreflightResultsFromNodes comes before the write of the       *)
(* status).                                                               *)
THEOREM PreflightsAreCopied == Spec => []PreflightsCopied
<1>1. IInv => PreflightsCopied
  BY DEF IInv, PreflightInv
<1> QED
  BY Invariance, <1>1, PTL

(* No Installation reports a node as added more often than it joins: the  *)
(* events are sent only after a write that the API server has accepted,   *)
(* however stale the cache that the batch was computed from.              *)
THEOREM NodesAreAddedOnce == Spec => []AddedOnce
<1>1. IInv => AddedOnce
  BY DEF IInv, AddedInv
<1> QED
  BY Invariance, <1>1, PTL

(* A node is noticed once, and its preflight results are copied before.    *)
THEOREM NodesNoticedOnce == Spec => []NodesAreNoticed
<1>1. PreflightsCopied /\ AddedOnce => NodesAreNoticed
  BY DEF NodesAreNoticed
<1> QED
  BY PreflightsAreCopied, NodesAreAddedOnce, <1>1, PTL

-----------------------------------------------------------------------------
(* What a step does to the states.                                        *)
ObsoleteInv == \A i \in Installations : state[i] = "Obsolete" => status[i] = NoStatus
RankGrows   == \A i \in Installations : Rank(state'[i]) >= Rank(state[i])

LEMMA RankTypes ==
  /\ Rank("absent") = 0 /\ Rank("Created") = 1 /\ Rank("Installing") = 2 /\ Rank("Installed") = 3
  /\ Rank("Obsolete") = 4
  /\ \A s \in States : Rank(s) \in 0..4
<1>1. Rank("absent") = 0 /\ Rank("Created") = 1
  BY DEF Rank
<1>2. Rank("Installing") = 2 /\ Rank("Installed") = 3
  BY DEF Rank
<1>3. Rank("Obsolete") = 4
  BY DEF Rank
<1> QED
  BY <1>1, <1>2, <1>3 DEF States

LEMMA StatusUpdateKeeps ==
  ASSUME IInv, ObsoleteInv, StatusUpdate, r.at \in {"openebs", "save"}
  PROVE  ObsoleteInv' /\ state' = state
<1>1. /\ r.in \in Installations /\ r.state = state[r.in] /\ state[r.in] # "Obsolete"
      /\ state \in [Installations -> States] /\ status \in [Installations -> [Nodes -> EventType]]
  BY DEF IInv, TypeOK, ReconcileInv, StatusUpdate, Unsaved, Active
<1>2. state' = state /\ status' = [status EXCEPT ![r.in] = r.status]
  BY <1>1 DEF StatusUpdate, Write
<1> QED
  BY <1>1, <1>2 DEF ObsoleteInv

LEMMA WriteKeeps ==
  ASSUME IInv, ObsoleteInv, NEW i \in Installations, NEW s \in States,
         NEW st \in [Nodes -> EventType], Write(i, s, st), Rank(s) >= Rank(state[i]),
         s = "Obsolete" => st = NoStatus
  PROVE  ObsoleteInv' /\ RankGrows
<1>1. /\ state \in [Installations -> States] /\ status \in [Installations -> [Nodes -> EventType]]
      /\ state' = [state EXCEPT ![i] = s] /\ status' = [status EXCEPT ![i] = st]
  BY DEF IInv, TypeOK, Write
<1>2. \A k \in Installations : Rank(state[k]) \in 0..4
  BY <1>1, RankTypes
<1> QED
  BY <1>1, <1>2 DEF ObsoleteInv, RankGrows

LEMMA KeepStep ==
  ASSUME IInv, ObsoleteInv, [Next]_vars
  PROVE  ObsoleteInv' /\ RankGrows
<1>1. state \in [Installations -> States] /\ status \in [Installations -> [Nodes -> EventType]]
      /\ upgrade.of \in Installations
  BY DEF IInv, TypeOK
<1>2. ASSUME state' = state PROVE RankGrows
  BY <1>1, <1>2, RankTypes DEF RankGrows
<1>3. CASE UNCHANGED <<state, status>>
  BY <1>2, <1>3 DEF ObsoleteInv
<1>4. CASE ReconcileOpenebs \/ SaveStatus
  BY <1>2, <1>3, <1>4, StatusUpdateKeeps DEF ReconcileOpenebs, SaveStatus, api
<1>5. CASE CreateInstallation
  <2>3. upgrade.of + 1 \in Installations /\ upgrade.of + 1 > upgrade.of
    BY <1>1, <1>5, ConstantsAssumption DEF CreateInstallation, ConstantsAssumption, Installations
  <2>1. upgrade.of + 1 \in Installations /\ state[upgrade.of + 1] = "absent"
    BY <2>3 DEF IInv, UpgradeInv
  <2>2. Rank("Created") >= Rank("absent")
    BY RankTypes
  <2> QED
    BY <1>5, <2>1, <2>2, Values, WriteKeeps DEF CreateInstallation, States
<1>6. CASE SetInstallationState
  <2>1. \/ state[upgrade.of] = "Created" /\ Write(upgrade.of, "Installing", status[upgrade.of])
        \/ state[upgrade.of] = "Installing" /\ Write(upgrade.of, "Installed", status[upgrade.of])
    BY <1>6 DEF SetInstallationState, UpdateInstallationStatus, IInv, UpgradeInv
  <2>2. Rank("Installing") >= Rank("Created") /\ Rank("Installed") >= Rank("Installing")
    BY RankTypes
  <2>3. status[upgrade.of] \in [Nodes -> EventType]
    BY <1>1
  <2> QED
    BY <1>1, <2>1, <2>2, <2>3, WriteKeeps DEF States
<1>7. CASE disableOldInstallations
  <2>1. ASSUME NEW i \in Active(state), Write(i, "Obsolete", NoStatus)
        PROVE  ObsoleteInv' /\ RankGrows
    <3>1. i \in Installations /\ Rank(state[i]) \in 0..4 /\ Rank("Obsolete") = 4
      BY <1>1, RankTypes DEF Active
    <3> QED
      BY <2>1, <3>1, Values, WriteKeeps DEF States
  <2> QED
    BY <1>3, <1>7, <2>1 DEF disableOldInstallations, UpdateInstallationStatus, api
<1> QED
  BY <1>3, <1>4, <1>5, <1>6, <1>7 DEF Next, Reconciliation, Reconcile, ReconcileNodeStatuses,
     CopyHostPreflightResultsFromNodes, ReportNodesChanges, ReconcileError, NodeJoins,
     NodeChanges, NodeLeaves, CacheFollows, vars, api

(* No write takes a state back, and an Installation that the upgrade has  *)
(* made obsolete stays without nodes, though the reconciler writes state  *)
(* and nodes together from an object it read some time ago.               *)
THEOREM StateIsAlwaysKept == Spec => StateIsKept
<1>1. Init => ObsoleteInv
  BY DEF Init, ObsoleteInv
<1>2. IInv /\ ObsoleteInv /\ [Next]_vars => ObsoleteInv' /\ RankGrows
  BY KeepStep
<1>3. IInv /\ ObsoleteInv /\ [Next]_vars => [RankGrows]_vars
  BY <1>2
<1>4. Spec => []ObsoleteInv
  BY Invariance, <1>1, <1>2, PTL DEF Spec
<1>5. Spec => [][RankGrows]_vars
  BY Invariance, <1>3, <1>4, PTL DEF Spec
<1> QED
  BY <1>4, <1>5, PTL DEF StateIsKept, ObsoleteInv, RankGrows

=============================================================================
