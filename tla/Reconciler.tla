----------------------------- MODULE Reconciler -----------------------------
(***************************************************************************)
(* The operator's reconciler                                               *)
(* (operator/controllers/installation_controller.go): it keeps the nodes   *)
(* of the cluster in the status of the newest Installation, has the        *)
(* preflight results of new nodes copied, and reports what has changed.    *)
(*                                                                         *)
(* It reads the Installations from a cache that follows the API server at  *)
(* its own pace.  Between its reads and its one write of the status, nodes *)
(* come, change and go, and an upgrade creates the next Installation,      *)
(* writes its state and makes the older ones obsolete; the API server      *)
(* refuses a write to an object that has changed since the cache took it.  *)
(* The operator may fail or be killed anywhere and then reconciles again.  *)
(*                                                                         *)
(* The cluster has an ID and is online (an airgap one reports nothing).    *)
(* The deletion of upgrade Jobs that ends a reconciliation is in Upgrade.  *)
(***************************************************************************)
EXTENDS Naturals, FiniteSetsExt

CONSTANTS
  Nodes,            \* machines
  LastInstallation, \* installations are numbered in the order of their names
  MaxNodeEvents,    \* bound: nodes that join and changes of nodes, together
  MaxErrors         \* bound: calls of the reconciler that fail, and its restarts

Installations == 1..LastInstallation

ASSUME ConstantsAssumption ==
  /\ LastInstallation \in Nat \ {0}
  /\ {MaxNodeEvents, MaxErrors} \subseteq Nat

VARIABLES
  members,    \* the nodes of the cluster
  joins,      \* how often each machine has joined
  changes,    \* how often each node has changed
  state,      \* Status.State of each Installation
  status,     \* Status.NodesStatus: for each node what its hash covers
  cache,      \* what the operator's cache has of both, and for which it is current
  preflights, \* nodes whose preflight results are being copied or have been
  added,      \* the NodeAdded events that each Installation has reported
  r,          \* the reconciliation that runs
  upgrade,    \* the upgrade that runs
  errors      \* calls that have failed, and restarts

nodes == <<members, joins, changes>>
api   == <<state, status, cache>>
vars  == <<nodes, api, preflights, added, r, upgrade, errors>>

\* "Created" stands for the empty state of an Installation just created.
States == {"absent", "Created", "Installing", "Installed", "Obsolete"}
Rank(s) ==
  CASE s = "absent" -> 0 [] s = "Created" -> 1 [] s = "Installing" -> 2 [] s = "Installed" -> 3
    [] s = "Obsolete" -> 4

(* A node's event, whose hash is kept, holds the node's own data and the  *)
(* installation's version.                                                *)
None     == [of |-> 0, join |-> 0, change |-> 0]
Event(i, n) == [of |-> i, join |-> joins[n], change |-> changes[n]]
NoStatus == [n \in Nodes |-> None]
Idle     == [at |-> "idle", in |-> 0, state |-> "absent", status |-> NoStatus,
             batch |-> {}, todo |-> {}, conflict |-> FALSE]

EventType == [of: 0..LastInstallation, join: Nat, change: Nat]

TypeOK ==
  /\ members \subseteq Nodes
  /\ joins \in [Nodes -> Nat] /\ changes \in [Nodes -> Nat]
  /\ state \in [Installations -> States]
  /\ status \in [Installations -> [Nodes -> EventType]]
  /\ cache \in [state: [Installations -> States],
                status: [Installations -> [Nodes -> EventType]], current: SUBSET Installations]
  /\ preflights \subseteq Nodes
  /\ added \in [Installations -> [Nodes -> Nat]]
  /\ r \in [at: {"idle", "nodes", "preflights", "openebs", "save", "report"},
            in: 0..LastInstallation, state: States, status: [Nodes -> EventType],
            batch: SUBSET Nodes, todo: SUBSET Nodes,
            conflict: BOOLEAN]
  /\ r.todo \subseteq r.batch /\ (r.todo # {} => r.at \in {"preflights", "report"})
  /\ upgrade \in [of: Installations, at: {"idle", "state", "disable", "job"}]
  /\ errors \in 0..MaxErrors

Init ==
  /\ members = {} /\ joins = [n \in Nodes |-> 0] /\ changes = [n \in Nodes |-> 0]
  /\ state = [i \in Installations |-> IF i = 1 THEN "Installed" ELSE "absent"]
  /\ status = [i \in Installations |-> NoStatus]
  /\ cache = [state |-> state, status |-> status, current |-> Installations]
  /\ preflights = {}
  /\ added = [i \in Installations |-> [n \in Nodes |-> 0]]
  /\ r = Idle
  /\ upgrade = [of |-> 1, at |-> "idle"]
  /\ errors = 0

Fail == errors < MaxErrors /\ errors' = errors + 1

NodeEvents == MapThenSumSet(LAMBDA n : joins[n] + changes[n], Nodes)

-----------------------------------------------------------------------------
(* The reconciler.                                                         *)

Active(states) == {i \in Installations : states[i] \notin {"absent", "Obsolete"}}

Newest(i, set) == i \in set /\ \A k \in set : k <= i

(* A new Installation takes over the nodes of the last one that has any.  *)
CoalesceInstallations(in, from) ==
  LET active == Active(cache.state)
      known  == {i \in active : cache.status[i] # NoStatus}
  IN /\ Newest(in, active)
     /\ IF known = {} THEN from = in ELSE Newest(from, known)

Reconcile ==
  /\ r.at = "idle"
  /\ \E in, from \in Installations :
       /\ CoalesceInstallations(in, from)
       /\ r' = [Idle EXCEPT !.at = "nodes", !.in = in, !.state = cache.state[in],
                            !.status = cache.status[from], !.conflict = in \notin cache.current]
  /\ UNCHANGED <<nodes, api, preflights, added, upgrade, errors>>

(* What the newest Installation's status should say of the nodes.         *)
NodesStatus(i) == [n \in Nodes |-> IF n \in members THEN Event(i, n) ELSE None]

(* Mutant: the nodes that are gone are not trimmed.                       *)
ReconcileWithoutTrimming ==
  /\ r.at = "nodes"
  /\ LET new == {n \in members : r.status[n] = None}
     IN r' = [r EXCEPT !.at = "preflights", !.todo = new, !.batch = new,
                       !.status = [n \in Nodes |-> IF n \in members THEN Event(r.in, n) ELSE @[n]]]
  /\ UNCHANGED <<nodes, api, preflights, added, upgrade, errors>>

(* Only the nodes added are kept in the batch of events.                  *)
ReconcileNodeStatuses ==
  /\ r.at = "nodes"
  /\ LET new == {n \in members : r.status[n] = None}
     IN r' = [r EXCEPT !.at = "preflights", !.todo = new, !.batch = new,
                       !.status = NodesStatus(r.in)]
  /\ UNCHANGED <<nodes, api, preflights, added, upgrade, errors>>

(* Mutant: the loop ends with its first node.                             *)
CopyFirst ==
  /\ r.at = "preflights"
  /\ r' = [r EXCEPT !.at = "openebs"]
  /\ \/ \E n \in r.todo : preflights' = preflights \cup {n}
     \/ r.todo = {} /\ UNCHANGED preflights
  /\ UNCHANGED <<nodes, api, added, upgrade, errors>>

(* Mutant: a Job that is not created is only logged.                      *)
CopyOrLog ==
  /\ r.at = "preflights"
  /\ \/ \E n \in r.todo : /\ \/ preflights' = preflights \cup {n} /\ UNCHANGED errors
                             \/ Fail /\ UNCHANGED preflights
                          /\ r' = [r EXCEPT !.todo = @ \ {n}]
     \/ r.todo = {} /\ r' = [r EXCEPT !.at = "openebs"] /\ UNCHANGED <<preflights, errors>>
  /\ UNCHANGED <<nodes, api, added, upgrade>>

(* One Job for each new node; one that exists will do.                    *)
CopyHostPreflightResultsFromNodes ==
  /\ r.at = "preflights"
  /\ \/ \E n \in r.todo : /\ preflights' = preflights \cup {n}
                          /\ r' = [r EXCEPT !.todo = @ \ {n}]
     \/ /\ r.todo = {} /\ r' = [r EXCEPT !.at = "openebs"]
        /\ UNCHANGED preflights
  /\ UNCHANGED <<nodes, api, added, upgrade, errors>>

(* A write of an Installation; one that changes nothing is none.          *)
Write(i, s, st) ==
  /\ state'  = [state EXCEPT ![i] = s]
  /\ status' = [status EXCEPT ![i] = st]
  /\ cache'  = IF state[i] = s /\ status[i] = st THEN cache ELSE [cache EXCEPT !.current = @ \ {i}]

(* Mutant: the status is written over whatever there is.                  *)
Overwrite == Write(r.in, r.state, r.status)

(* Status().Update writes the whole status, or is refused.                *)
StatusUpdate == ~r.conflict /\ Write(r.in, r.state, r.status)

(* When the clean up fails, the status is saved all the same, and nothing *)
(* is reported.                                                           *)
ReconcileOpenebs ==
  /\ r.at = "openebs"
  /\ \/ r' = [r EXCEPT !.at = "save"] /\ UNCHANGED <<api, errors>>
     \/ /\ Fail
        /\ \/ StatusUpdate
           \/ r.conflict /\ UNCHANGED api
        /\ r' = Idle
  /\ UNCHANGED <<nodes, preflights, added, upgrade>>

(* Mutant: a refused write is taken for done.                             *)
SaveStatusOnce ==
  /\ r.at = "save"
  /\ r' = [r EXCEPT !.at = "report", !.todo = r.batch]
  /\ \/ StatusUpdate
     \/ r.conflict /\ UNCHANGED api
  /\ UNCHANGED <<nodes, preflights, added, upgrade, errors>>

SaveStatus ==
  /\ r.at = "save"
  /\ \/ StatusUpdate /\ r' = [r EXCEPT !.at = "report", !.todo = r.batch]
     \/ r.conflict /\ r' = Idle /\ UNCHANGED api
  /\ UNCHANGED <<nodes, preflights, added, upgrade, errors>>

(* An event that is not accepted is logged and dropped.                   *)
ReportNodesChanges ==
  /\ r.at = "report"
  /\ \/ \E n \in r.todo :
          /\ \/ added' = [added EXCEPT ![r.in][n] = @ + 1] /\ UNCHANGED errors
             \/ Fail /\ UNCHANGED added
          /\ r' = [r EXCEPT !.todo = @ \ {n}]
     \/ r.todo = {} /\ r' = Idle /\ UNCHANGED <<added, errors>>
  /\ UNCHANGED <<nodes, api, preflights, upgrade>>

(* A call fails, or the operator is killed.                              *)
ReconcileError ==
  /\ r.at # "idle"
  /\ Fail
  /\ r' = Idle
  /\ UNCHANGED <<nodes, api, preflights, added, upgrade>>

Reconciliation ==
  \/ Reconcile \/ ReconcileNodeStatuses \/ CopyHostPreflightResultsFromNodes
  \/ ReconcileOpenebs \/ SaveStatus \/ ReportNodesChanges

-----------------------------------------------------------------------------
(* The cluster and the upgrade.                                            *)

NodeJoins(n) ==
  /\ n \notin members /\ NodeEvents < MaxNodeEvents
  /\ members' = members \cup {n}
  /\ joins' = [joins EXCEPT ![n] = @ + 1]
  /\ UNCHANGED <<changes, api, preflights, added, r, upgrade, errors>>

NodeChanges(n) ==
  /\ n \in members /\ NodeEvents < MaxNodeEvents
  /\ changes' = [changes EXCEPT ![n] = @ + 1]
  /\ UNCHANGED <<members, joins, api, preflights, added, r, upgrade, errors>>

NodeLeaves(n) ==
  /\ n \in members
  /\ members' = members \ {n}
  /\ UNCHANGED <<joins, changes, api, preflights, added, r, upgrade, errors>>

(* The cache of the Installations catches up.                             *)
CacheFollows ==
  /\ cache.current # Installations
  /\ cache' = [state |-> state, status |-> status, current |-> Installations]
  /\ UNCHANGED <<nodes, state, status, preflights, added, r, upgrade, errors>>

(* UpdateInstallationStatus reads and writes again until it succeeds; the *)
(* reconciler's own write, if it is under way, will then be refused.      *)
UpdateInstallationStatus(i, s, st) ==
  /\ Write(i, s, st)
  /\ r' = [r EXCEPT !.conflict = @ \/ r.in = i]

CreateInstallation ==
  /\ upgrade.at = "idle" /\ upgrade.of < LastInstallation
  /\ Write(upgrade.of + 1, "Created", NoStatus)
  /\ upgrade' = [of |-> upgrade.of + 1, at |-> "state"]
  /\ UNCHANGED <<nodes, preflights, added, r, errors>>

(* The states on the way from Installing to Installed are left out.       *)
SetInstallationState ==
  /\ \/ /\ upgrade.at = "state"
        /\ UpdateInstallationStatus(upgrade.of, "Installing", status[upgrade.of])
        /\ upgrade' = [upgrade EXCEPT !.at = "disable"]
     \/ /\ upgrade.at = "job"
        /\ UpdateInstallationStatus(upgrade.of, "Installed", status[upgrade.of])
        /\ upgrade' = [upgrade EXCEPT !.at = "idle"]
  /\ UNCHANGED <<nodes, preflights, added, errors>>

(* A failure to do so is only logged.                                     *)
disableOldInstallations ==
  /\ upgrade.at = "disable"
  /\ \/ /\ \E i \in Active(state) \ {upgrade.of} : UpdateInstallationStatus(i, "Obsolete", NoStatus)
        /\ UNCHANGED upgrade
     \/ upgrade' = [upgrade EXCEPT !.at = "job"] /\ UNCHANGED <<api, r>>
  /\ UNCHANGED <<nodes, preflights, added, errors>>

Next ==
  \/ Reconciliation \/ ReconcileError
  \/ (\E n \in Nodes : NodeJoins(n) \/ NodeChanges(n) \/ NodeLeaves(n))
  \/ CacheFollows \/ CreateInstallation \/ SetInstallationState \/ disableOldInstallations

Spec == Init /\ [][Next]_vars

(* Fairness: the operator reconciles again and again, after an error at   *)
(* once and otherwise when a node or an Installation changes, and every   *)
(* hour; it runs on, and its cache is told of every change.               *)
FairSpec == Spec /\ WF_vars(Reconciliation) /\ WF_vars(CacheFollows)

-----------------------------------------------------------------------------
(* Properties.                                                             *)

(* The preflight results of a node are copied before the node is known,   *)
(* or nothing would have them copied later: the order of the two writes   *)
(* outlives an operator that is killed between them.                      *)
PreflightsCopied ==
  \A i \in Installations, n \in Nodes : status[i][n] # None => n \in preflights

(* One Installation reports a node as added at most as often as it joins, *)
(* however often its reconciliation is refused, fails and begins anew.    *)
AddedOnce == \A i \in Installations, n \in Nodes : added[i][n] <= joins[n]

(* A node that joins is noticed once: its results are copied before it is  *)
(* known, and its event is not repeated.                                   *)
NodesAreNoticed ==
  /\ PreflightsCopied
  /\ AddedOnce

(* The reconciler's write of the whole status never undoes what an        *)
(* upgrade has written since it read: no state is taken back, and what is *)
(* obsolete keeps no nodes.                                               *)
StateIsKept ==
  /\ [][\A i \in Installations : Rank(state'[i]) >= Rank(state[i])]_vars
  /\ [](\A i \in Installations : state[i] = "Obsolete" => status[i] = NoStatus)

(* The newest Installation ends up with the nodes as they are.            *)
StatusConverges ==
  <>[](\A i \in Installations : Newest(i, Active(state)) => status[i] = NodesStatus(i))

(* A node is reported as added at most as often as it joins, also when an *)
(* upgrade has made the Installation obsolete that knew it.               *)
NodeAddedOnce ==
  \A n \in Nodes : MapThenSumSet(LAMBDA i : added[i][n], Installations) <= joins[n]
=============================================================================
