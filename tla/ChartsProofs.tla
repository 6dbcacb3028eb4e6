---------------------------- MODULE ChartsProofs ----------------------------
(***************************************************************************)
(* What holds of Charts for all releases, extensions and configs, however  *)
(* many helm runs fail and pods are killed.                                *)
(***************************************************************************)
EXTENDS Charts, TLAPS, FiniteSetTheorems

-----------------------------------------------------------------------------
(* The lists of work.  An entry says what diffExtensions has the extension *)
(* at, and seaweedfs is only there in a highly available cluster.          *)
Actions == {"create", "upgrade", "Install", "Upgrade", "Uninstall", "NoChange"}
Items   == [chart : Charts, action : Actions]

IsRight(item, r, available) ==
    /\ item.chart \in AddOns => item.action \in {"create", "upgrade"}
    /\ item.chart \in Extensions =>
          \/ item.action = "create"
          \/ /\ item.chart \in DOMAIN diffExtensions(r)
             /\ item.action = diffExtensions(r)[item.chart]
    /\ item.chart = "seaweedfs" => available

AreRight(list, r, available) ==
    list \in Seq(Items) /\ \A i \in DOMAIN list : IsRight(list[i], r, available)

LEMMA Names ==
    /\ Charts = AddOns \cup Extensions /\ AddOns \cap Extensions = {}
    /\ "seaweedfs" \in AddOns /\ "seaweedfs" \notin Extensions
    /\ "openebs" \in AddOns /\ "admin-console" \in AddOns /\ "registry" \in AddOns
  BY NamesAssumption DEF Charts, AddOns

LEMMA ExtensionNames ==
  ASSUME NEW r \in Releases PROVE ExtensionsOf(r) \subseteq Extensions
  BY ConfigAssumption DEF ExtensionsOf

LEMMA Joined ==
  ASSUME NEW r, NEW available, NEW s, NEW t, AreRight(s, r, available), AreRight(t, r, available)
  PROVE  AreRight(s \o t, r, available)
<1>1. s \o t \in Seq(Items) /\ DOMAIN (s \o t) = 1..(Len(s) + Len(t))
  BY DEF AreRight
<1>2. ASSUME NEW i \in 1..(Len(s) + Len(t)) PROVE IsRight((s \o t)[i], r, available)
  <2>1. CASE i <= Len(s)
    <3>1. (s \o t)[i] = s[i] /\ i \in DOMAIN s
      BY <2>1 DEF AreRight
    <3> QED
      BY <3>1 DEF AreRight
  <2>2. CASE ~(i <= Len(s))
    <3>1. (s \o t)[i] = t[i - Len(s)] /\ i - Len(s) \in DOMAIN t
      BY <2>2 DEF AreRight
    <3> QED
      BY <3>1 DEF AreRight
  <2> QED
    BY <2>1, <2>2
<1> QED
  BY <1>1, <1>2 DEF AreRight

LEMMA MappedTypes ==
  ASSUME NEW S, NEW T, NEW s \in Seq(S), NEW f \in [DOMAIN s -> T]
  PROVE  f \in Seq(T) /\ DOMAIN f = DOMAIN s /\ \A i \in DOMAIN s : s[i] \in S
<1>1. Len(s) \in Nat /\ DOMAIN s = 1..Len(s) /\ \A i \in DOMAIN s : s[i] \in S
  OBVIOUS
<1> QED
  BY <1>1

LEMMA AsTypes ==
  ASSUME NEW S, NEW names \in Seq(S), NEW action
  PROVE  /\ As(action, names) \in [DOMAIN names -> [chart : S, action : {action}]]
         /\ \A i \in DOMAIN names : As(action, names)[i] = [chart |-> names[i], action |-> action]
<1>1. \A i \in DOMAIN names : names[i] \in S
  OBVIOUS
<1>2. \A i \in DOMAIN names :
        [chart |-> names[i], action |-> action] \in [chart : S, action : {action}]
  BY <1>1
<1> QED
  BY <1>2 DEF As

(* The sequences made of a set of extensions have its elements.           *)
LEMMA SortedTypes ==
  ASSUME NEW E, E \subseteq Extensions, NEW order, NEW s \in Sorted(E, order)
  PROVE  s \in Seq(E) /\ Reverse(s) \in Seq(E)
<1>1. Cardinality(E) \in Nat
  BY NamesAssumption, FS_Subset, FS_CardinalityType
<1>2. s \in [1..Cardinality(E) -> E]
  BY DEF Sorted, SetToSeqs
<1>3. s \in Seq(E)
  BY <1>1, <1>2
<1>4. Reverse(s) \in [1..Len(s) -> E]
  BY <1>3 DEF Reverse
<1> QED
  BY <1>3, <1>4

LEMMA AddOnsRight ==
  ASSUME NEW names \in Seq(AddOns), NEW action \in {"create", "upgrade"}, NEW r, NEW available,
         \A i \in DOMAIN names : names[i] = "seaweedfs" => available
  PROVE  AreRight(As(action, names), r, available)
<1>1. As(action, names) \in [DOMAIN names -> [chart : AddOns, action : {action}]]
      /\ \A i \in DOMAIN names : As(action, names)[i] = [chart |-> names[i], action |-> action]
  BY AsTypes
<1>2. [chart : AddOns, action : {action}] \subseteq Items
  BY Names DEF Items, Actions
<1>3. As(action, names) \in [DOMAIN names -> Items]
  BY <1>1, <1>2
<1>4. As(action, names) \in Seq(Items) /\ DOMAIN As(action, names) = DOMAIN names
      /\ \A i \in DOMAIN names : names[i] \in AddOns
  BY <1>3, MappedTypes
<1>5. \A i \in DOMAIN names : IsRight(As(action, names)[i], r, available)
  BY <1>1, <1>4, Names DEF IsRight
<1> QED
  BY <1>4, <1>5 DEF AreRight

LEMMA AddOnLists ==
  ASSUME NEW S, {"openebs", "embedded-cluster-operator", "registry", "velero",
                 "admin-console"} \subseteq S
  PROVE  /\ <<>> \in Seq(S) /\ <<"registry">> \in Seq(S) /\ <<"velero">> \in Seq(S)
         /\ <<"admin-console">> \in Seq(S)
         /\ <<"openebs", "embedded-cluster-operator">> \in Seq(S)
  OBVIOUS

(* A list made from names of extensions.                                  *)
LEMMA ExtensionsRight ==
  ASSUME NEW S, S \subseteq Extensions, NEW s \in Seq(S), NEW f, NEW r, NEW available,
         NEW list, list = [i \in DOMAIN s |-> [chart |-> s[i], action |-> f[s[i]]]],
         \A e \in S : /\ f[e] \in Actions
                      /\ f[e] = "create" \/ (e \in DOMAIN diffExtensions(r) /\ f[e] = diffExtensions(r)[e])
  PROVE  AreRight(list, r, available)
<1>1. \A i \in DOMAIN s : s[i] \in S
  OBVIOUS
<1>2. \A i \in DOMAIN s : list[i] = [chart |-> s[i], action |-> f[s[i]]]
  OBVIOUS
<1>3. \A i \in DOMAIN s : [chart |-> s[i], action |-> f[s[i]]] \in Items
  BY <1>1, Names DEF Items
<1>4. list \in [DOMAIN s -> Items]
  BY <1>3
<1>5. list \in Seq(Items) /\ DOMAIN list = DOMAIN s
  BY <1>4, MappedTypes
<1>6. \A i \in DOMAIN s : IsRight(list[i], r, available)
  BY <1>1, <1>2, Names DEF IsRight
<1> QED
  BY <1>5, <1>6 DEF AreRight

LEMMA InstallAddOns == AreRight(As("create", getAddOnsForInstall(0)), 0, FALSE)
<1> DEFINE S == AddOns \ {"seaweedfs"}
<1>1. {"openebs", "embedded-cluster-operator", "registry", "velero",
       "admin-console"} \subseteq S
  BY DEF AddOns
<1> HIDE DEF S
<1>2. getAddOnsForInstall(0) \in Seq(S)
  BY <1>1, AddOnLists DEF getAddOnsForInstall
<1>3. \A i \in DOMAIN getAddOnsForInstall(0) : getAddOnsForInstall(0)[i] \in S
  BY <1>2
<1>4. getAddOnsForInstall(0) \in Seq(AddOns)
  BY <1>2 DEF S
<1> QED
  BY <1>3, <1>4, AddOnsRight DEF S

LEMMA UpgradeAddOns ==
  ASSUME NEW r, ha \in BOOLEAN
  PROVE  AreRight(As("upgrade", getAddOnsForUpgrade(r)), r, ha)
<1> DEFINE S == AddOns \ (IF ha THEN {} ELSE {"seaweedfs"})
<1>1. {"openebs", "embedded-cluster-operator", "registry", "velero",
       "admin-console"} \subseteq S /\ (ha => "seaweedfs" \in S)
  BY DEF AddOns
<1> HIDE DEF S
<1>2. (IF AirGap /\ ha THEN <<"seaweedfs">> ELSE <<>>) \in Seq(S)
  BY <1>1
<1>3. getAddOnsForUpgrade(r) \in Seq(S)
  BY <1>1, <1>2, AddOnLists DEF getAddOnsForUpgrade
<1>4. \A i \in DOMAIN getAddOnsForUpgrade(r) : getAddOnsForUpgrade(r)[i] \in S
  BY <1>3
<1>5. getAddOnsForUpgrade(r) \in Seq(AddOns)
  BY <1>3 DEF S
<1> QED
  BY <1>4, <1>5, AddOnsRight DEF S

LEMMA InstallExtensions ==
  ASSUME NEW list \in InstallList, NEW available PROVE AreRight(list, 0, available)
<1>1. PICK s \in Sorted(ExtensionsOf(0), InstallOrder) : list = As("create", s)
  BY DEF InstallList
<1>2. 0 \in Releases /\ ExtensionsOf(0) \subseteq Extensions
  BY ExtensionNames, ReleasesAssumption DEF Releases
<1>3. s \in Seq(ExtensionsOf(0))
  BY <1>1, <1>2, SortedTypes
<1> DEFINE f == [e \in Extensions |-> "create"]
<1>4. list = [i \in DOMAIN s |-> [chart |-> s[i], action |-> f[s[i]]]]
  <2>1. \A i \in DOMAIN s : s[i] \in Extensions
    BY <1>2, <1>3
  <2> QED
    BY <1>1, <2>1 DEF As
<1>5. \A e \in ExtensionsOf(0) : f[e] \in Actions /\ f[e] = "create"
  BY <1>2 DEF Actions
<1> HIDE DEF f
<1> QED
  BY <1>2, <1>3, <1>4, <1>5, ExtensionsRight

LEMMA UpgradeExtensions ==
  ASSUME NEW r \in Releases \ {0}, NEW list \in UpgradeList(r), NEW available
  PROVE  AreRight(list, r, available)
<1> DEFINE diff == diffExtensions(r)
<1>1. PICK u \in Sorted(Removed(r), Order(r)), s \in Sorted(DOMAIN diff \ Removed(r), Order(r)) :
        list = Work(r, u, s)
  BY DEF UpgradeList
<1>2. DOMAIN diff \subseteq Extensions
      /\ \A e \in DOMAIN diff : diff[e] \in {"Install", "Upgrade", "Uninstall", "NoChange"}
  <2>1. r \in Releases /\ r - 1 \in Releases
    BY ReleasesAssumption DEF Releases
  <2> QED
    BY <2>1, ExtensionNames DEF diffExtensions
<1>3. Removed(r) \subseteq Extensions /\ \A e \in Removed(r) : e \in DOMAIN diff /\ diff[e] = "Uninstall"
  BY <1>2 DEF Removed
<1> HIDE DEF diff
<1>4. Reverse(u) \in Seq(Removed(r)) /\ s \in Seq(DOMAIN diff \ Removed(r))
  <2>1. DOMAIN diff \ Removed(r) \subseteq Extensions
    BY <1>2
  <2> QED
    BY <1>1, <1>3, <2>1, SortedTypes
<1>5. As("Uninstall", Reverse(u)) =
        [i \in DOMAIN Reverse(u) |-> [chart |-> Reverse(u)[i], action |-> diff[Reverse(u)[i]]]]
  <2>1. \A i \in DOMAIN Reverse(u) : Reverse(u)[i] \in Removed(r)
    BY <1>4
  <2> QED
    BY <1>3, <2>1 DEF As
<1>6. AreRight(As("Uninstall", Reverse(u)), r, available)
  <2>1. \A e \in Removed(r) : diff[e] \in Actions /\ e \in DOMAIN diffExtensions(r)
                              /\ diff[e] = diffExtensions(r)[e]
    BY <1>3 DEF Actions, diff
  <2> QED
    BY <1>3, <1>4, <1>5, <2>1, ExtensionsRight
<1>7. AreRight([i \in DOMAIN s |-> [chart |-> s[i], action |-> diff[s[i]]]], r, available)
  <2>1. \A e \in DOMAIN diff \ Removed(r) : diff[e] \in Actions /\ e \in DOMAIN diffExtensions(r)
                              /\ diff[e] = diffExtensions(r)[e]
    BY <1>2 DEF Actions, diff
  <2>2. DOMAIN diff \ Removed(r) \subseteq Extensions
    BY <1>2
  <2> QED
    BY <1>4, <2>1, <2>2, ExtensionsRight
<1> QED
  BY <1>1, <1>6, <1>7, Joined DEF Work, diff

-----------------------------------------------------------------------------
(* The chart at hand.  Nothing is done to one whose condition is true; the *)
(* hooks that would fail helm are gone before it runs; and what is going   *)
(* to be recorded is so.                                                   *)
IsCurrent(c) ==
    \/ helm[c].state = "deployed" /\ helm[c].version = VersionOf(rel, c)
    \/ c \in Extensions /\ diffExtensions(rel)[c] \in {"Install", "NoChange"}
    \/ c \in Extensions /\ diffExtensions(rel)[c] = "Uninstall" /\ ~ReleaseExists(c)

StageInv ==
    /\ ~Working => todo = <<>>
    /\ todo = <<>> => step = "next"
    /\ stage # "ended" => failed <= BackoffLimit

HandInv == todo # <<>> =>
    /\ step # "next" => cond[Chart] # "True"
    /\ step \in {"ready", "scaling", "scaled"} /\ Chart \in hooks => HookOf(Chart) # Operation
    /\ step = "record" => Action = "create" \/ IsCurrent(Chart)

SeaweedInv == ~ha => cond["seaweedfs"] # "True"

WorkInv == AreRight(todo, rel, ha)

Safe == /\ WorkInv /\ StageInv /\ HandInv /\ SeaweedInv
        /\ ProcessedIsCurrent /\ HooksGone /\ CredentialsAgree

IInv == TypeOK /\ Safe

(* What a condition says is done is left alone.                           *)
Kept == \A c \in Charts : cond[c] = "True" /\ rel' = rel => cond'[c] = "True" /\ helm'[c] = helm[c]

LEMMA HandTypes ==
  ASSUME WorkInv, todo # <<>>
  PROVE  /\ Chart \in Charts /\ Action \in Actions /\ IsRight(Head(todo), rel, ha)
         /\ Chart = "seaweedfs" => ha
         /\ AreRight(Tail(todo), rel, ha)
<1>1. /\ todo \in Seq(Items) /\ Len(todo) >= 1 /\ Head(todo) = todo[1] /\ todo[1] \in Items
      /\ Tail(todo) \in Seq(Items) /\ Len(Tail(todo)) = Len(todo) - 1
      /\ \A i \in 1..(Len(todo) - 1) : Tail(todo)[i] = todo[i + 1]
  BY DEF WorkInv, AreRight
<1>2. \A i \in 1..Len(todo) : IsRight(todo[i], rel, ha)
  BY DEF WorkInv, AreRight
<1>3. IsRight(Head(todo), rel, ha)
  BY <1>1, <1>2
<1>4. \A i \in DOMAIN Tail(todo) : i \in 1..(Len(todo) - 1) /\ i + 1 \in 1..Len(todo)
  BY <1>1
<1>5. AreRight(Tail(todo), rel, ha)
  BY <1>1, <1>2, <1>4 DEF AreRight
<1> QED
  BY <1>1, <1>3, <1>5 DEF Items, Chart, Action, IsRight

LEMMA NoWork == ASSUME NEW r, NEW available PROVE AreRight(<<>>, r, available)
  BY DEF AreRight

LEMMA SafeInit == Init => Safe
<1> SUFFICES ASSUME Init PROVE Safe
  OBVIOUS
<1>1. WorkInv
  BY InstallAddOns DEF Init, WorkInv
<1>2. StageInv
  <2>1. todo # <<>>
    <3>1. Len(getAddOnsForInstall(0)) # 0
      BY DEF getAddOnsForInstall
    <3> QED
      BY <3>1 DEF Init, As
  <2> QED
    BY <2>1, BoundsAssumption DEF Init, StageInv, Working
<1>3. \A c \in Charts : cond[c] = "none"
  BY DEF Init
<1>4. "seaweedfs" \in Charts
  BY Names
<1> QED
  BY <1>1, <1>2, <1>3, <1>4
  DEF Safe, Init, HandInv, SeaweedInv, ProcessedIsCurrent, HooksGone, CredentialsAgree, At

(* A failed or killed pod leaves the list empty.                          *)
LEMMA SafeAttempt ==
  ASSUME IInv, Working, NextAttempt, UNCHANGED <<rel, ha, secret>>,
         \A c \in Charts : cond'[c] = "True" => cond[c] = "True",
         \A c \in Charts : cond[c] = "True" => cond'[c] = "True" /\ helm'[c] = helm[c]
  PROVE  Safe' /\ Kept
<1>1. todo' = <<>> /\ step' = "next" /\ stage' \in {"ended", "waiting"}
  BY DEF NextAttempt
<1>2. WorkInv'
  BY <1>1, NoWork DEF WorkInv
<1>3. StageInv'
  <2>1. stage' # "ended" => ~(failed' > BackoffLimit)
    BY DEF NextAttempt
  <2>2. failed' \in Nat /\ BackoffLimit \in Nat
    BY BoundsAssumption DEF NextAttempt, IInv, TypeOK
  <2> QED
    BY <1>1, <2>1, <2>2 DEF StageInv, Working
<1>4. HandInv' /\ HooksGone'
  BY <1>1 DEF HandInv, HooksGone, At
<1>5. SeaweedInv'
  BY Names DEF IInv, Safe, SeaweedInv
<1>6. ProcessedIsCurrent'
  BY DEF IInv, Safe, ProcessedIsCurrent, ReleaseExists
<1>7. CredentialsAgree' /\ Kept
  BY DEF IInv, Safe, CredentialsAgree, Kept
<1> QED
  BY <1>2, <1>3, <1>4, <1>5, <1>6, <1>7 DEF Safe

LEMMA SafeChartFails ==
  ASSUME IInv, Working, todo # <<>>, step # "next", ChartFails, UNCHANGED <<rel, ha, secret>>,
         \A c \in Charts \ {Chart} : helm'[c] = helm[c]
  PROVE  Safe' /\ Kept
<1>1. Chart \in Charts /\ cond[Chart] # "True" /\ cond \in [Charts -> Status]
  BY HandTypes DEF IInv, Safe, HandInv, TypeOK
<1>2. cond' = cond \/ cond' = [cond EXCEPT ![Chart] = "Failed"]
  BY DEF ChartFails, Set
<1>3. \A c \in Charts : (cond'[c] = "True" <=> cond[c] = "True")
  BY <1>1, <1>2
<1> QED
  BY <1>1, <1>3, SafeAttempt DEF ChartFails, AttemptFails

(* The ways to fail.                                                      *)
LEMMA SafeFaults ==
  ASSUME IInv, Faults \/ HelmRefuses PROVE Safe' /\ Kept
<1>1. CASE ScaleDownTimesOut \/ HelmRefuses \/ CannotBegin
  <2>1. Working /\ todo # <<>> /\ step # "next" /\ ChartFails
    BY <1>1 DEF ScaleDownTimesOut, HelmRefuses, CannotBegin, Ready, At
  <2>2. UNCHANGED <<rel, ha, secret, helm>>
    BY <1>1 DEF ScaleDownTimesOut, HelmRefuses, CannotBegin, objects
  <2> QED
    BY <2>1, <2>2, SafeChartFails
<1>2. CASE HelmFails
  <2>1. Working /\ todo # <<>> /\ step # "next" /\ ChartFails /\ UNCHANGED <<rel, ha, secret>>
    BY <1>2 DEF HelmFails, At
  <2>2. \A c \in Charts \ {Chart} : helm'[c] = helm[c]
    BY <1>2 DEF HelmFails, IInv, TypeOK
  <2> QED
    BY <2>1, <2>2, SafeChartFails
<1>3. CASE CannotRecord \/ Killed
  <2>1. Working /\ NextAttempt /\ UNCHANGED <<rel, ha, secret, cond, helm>>
    BY <1>3 DEF CannotRecord, Killed, AttemptFails, At, objects
  <2> QED
    BY <2>1, SafeAttempt
<1> QED
  BY <1>1, <1>2, <1>3 DEF Faults

-----------------------------------------------------------------------------
(* A step with the chart at hand.                                         *)
LEMMA SafeSkip ==
  ASSUME IInv, Skip \/ markAsProcessed PROVE Safe' /\ Kept
<1> USE DEF IInv, Safe
<1>1. Working /\ todo # <<>> /\ todo' = Tail(todo) /\ step' = "next"
      /\ UNCHANGED <<rel, stage, failed, helm, hooks, secret, ha>>
  BY DEF Skip, markAsProcessed, At, objects
<1>2. Chart \in Charts /\ (Chart = "seaweedfs" => ha)
  BY <1>1, HandTypes
<1>3. /\ \A c \in Charts : cond[c] = "True" => cond'[c] = "True"
      /\ \A c \in Charts : cond'[c] = "True" =>
           cond[c] = "True" \/ (c = Chart /\ IsCurrent(c))
  <2>1. CASE Skip
    BY <2>1 DEF Skip
  <2>2. CASE markAsProcessed
    <3>1. cond' = cond \/ (cond' = [cond EXCEPT ![Chart] = "True"] /\ IsCurrent(Chart))
      BY <1>1, <2>2 DEF markAsProcessed, Set, At, HandInv
    <3> QED
      BY <1>2, <3>1 DEF TypeOK
  <2> QED
    BY <2>1, <2>2
<1>4. WorkInv'
  BY <1>1, HandTypes DEF WorkInv
<1>5. StageInv' /\ HandInv' /\ HooksGone' /\ CredentialsAgree'
  BY <1>1 DEF StageInv, HandInv, HooksGone, CredentialsAgree, At, Working
<1>6. SeaweedInv'
  BY <1>1, <1>2, <1>3, Names DEF SeaweedInv
<1>7. ProcessedIsCurrent'
  BY <1>1, <1>3 DEF ProcessedIsCurrent, IsCurrent, ReleaseExists
<1>8. Kept
  BY <1>1, <1>3 DEF Kept
<1> QED
  BY <1>4, <1>5, <1>6, <1>7, <1>8

(* Beginning with a chart, and the steps that only move on.               *)
LEMMA SafeMoves ==
  ASSUME IInv, markAsProcessing \/ Satisfied \/ ScaleDown \/ ScaledDown PROVE Safe' /\ Kept
<1> USE DEF IInv, Safe
<1>1. Working /\ todo # <<>> /\ UNCHANGED <<rel, stage, todo, failed, helm, hooks, secret, ha>>
  BY DEF markAsProcessing, Satisfied, ScaleDown, ScaledDown, At, objects
<1>2. Chart \in Charts /\ IsRight(Head(todo), rel, ha) /\ UNCHANGED <<Chart, Action>>
  BY <1>1, HandTypes DEF Chart, Action
<1>3. Operation' = Operation
  BY <1>1, <1>2 DEF Operation, ReleaseExists
<1>4. /\ \A c \in Charts : cond'[c] = "True" <=> cond[c] = "True"
      /\ cond'[Chart] # "True" /\ step' \in {"act", "record", "scaling", "scaled"}
  BY <1>1, <1>2 DEF markAsProcessing, AlreadyProcessed, Set, Satisfied, ScaleDown, ScaledDown,
     At, HandInv, TypeOK
<1>5. step' = "record" => Action = "create" \/ IsCurrent(Chart)
  <2>1. CASE Satisfied
    BY <1>2, <2>1, Names DEF Satisfied, NothingToDo, IsCurrent, IsRight, Chart, Action, Charts
  <2>2. CASE ~Satisfied
    BY <2>2 DEF markAsProcessing, ScaleDown, ScaledDown
  <2> QED
    BY <2>1, <2>2
<1>6. step' \in {"scaling", "scaled"} => step \in {"ready", "scaling"}
  BY DEF markAsProcessing, Satisfied, ScaleDown, ScaledDown, At
<1>7. HandInv'
  <2>1. Chart \in hooks /\ step' \in {"scaling", "scaled"} => HookOf(Chart) # Operation
    BY <1>1, <1>6 DEF HandInv
  <2>2. HookOf(Chart)' = HookOf(Chart)
    BY <1>2 DEF HookOf
  <2>3. IsCurrent(Chart) => IsCurrent(Chart)'
    BY <1>1, <1>2 DEF IsCurrent, ReleaseExists
  <2> QED
    BY <1>1, <1>2, <1>3, <1>4, <1>5, <2>1, <2>2, <2>3 DEF HandInv
<1>8. WorkInv' /\ StageInv' /\ HooksGone' /\ CredentialsAgree'
  BY <1>1, <1>4 DEF WorkInv, StageInv, HooksGone, CredentialsAgree, At, Working
<1>9. SeaweedInv' /\ ProcessedIsCurrent' /\ Kept
  BY <1>1, <1>4, Names DEF SeaweedInv, ProcessedIsCurrent, ReleaseExists, Kept
<1> QED
  BY <1>7, <1>8, <1>9

(* Each add-on deletes the hook that its operation would create.          *)
LEMMA SafePrepares ==
  ASSUME IInv, Prepares PROVE Safe' /\ Kept
<1> USE DEF IInv, Safe
<1>1. Working /\ todo # <<>> /\ UNCHANGED <<rel, stage, todo, failed, cond, helm, ha>>
      /\ step = "act" /\ step' = "ready" /\ Prepare
  BY DEF Prepares, At
<1>2. Chart \in Charts /\ IsRight(Head(todo), rel, ha) /\ UNCHANGED <<Chart, Action>>
  BY <1>1, HandTypes DEF Chart, Action
<1>3. Operation' = Operation /\ HookOf(Chart)' = HookOf(Chart)
  BY <1>1, <1>2 DEF Operation, ReleaseExists, HookOf
<1>4. Chart \in hooks' => HookOf(Chart) # Operation
  <2>1. CASE Chart = "openebs"
    <3>1. Action \in {"create", "upgrade"}
      BY <1>2, <2>1, Names DEF IsRight, Chart, Action
    <3>2. Action = "upgrade" => Chart \notin hooks'
      BY <1>1, <2>1 DEF Prepare, ensurePreUpgradeHooksDeleted
    <3> QED
      BY <2>1, <3>1, <3>2 DEF Operation, HookOf
  <2>2. CASE Chart = "admin-console"
    BY <1>1, <2>2 DEF Prepare, ensurePostUpgradeHooksDeleted, HookOf
  <2>3. CASE Chart = "seaweedfs"
    BY <1>1, <2>3 DEF Prepare, ensurePostInstallHooksDeleted, HookOf
  <2>4. CASE Chart \notin {"openebs", "admin-console", "seaweedfs"}
    BY <2>4 DEF HookOf, Operation
  <2> QED
    BY <2>1, <2>2, <2>3, <2>4
<1>5. HandInv'
  BY <1>1, <1>2, <1>3, <1>4 DEF HandInv
<1>6. CredentialsAgree'
  BY <1>1 DEF Prepare, ensureS3Secret, createUpgradePreRequisites, ensureRegistryS3Secret,
     CredentialsAgree, TypeOK
<1>7. WorkInv' /\ StageInv' /\ HooksGone'
  BY <1>1 DEF WorkInv, StageInv, HooksGone, At, Working
<1>8. SeaweedInv' /\ ProcessedIsCurrent' /\ Kept
  BY <1>1 DEF SeaweedInv, ProcessedIsCurrent, ReleaseExists, Kept
<1> QED
  BY <1>5, <1>6, <1>7, <1>8

(* helm works on a chart whose condition is not true.                     *)
LEMMA SafeHelm ==
  ASSUME IInv, HelmBegins \/ HelmSucceeds PROVE Safe' /\ Kept
<1> USE DEF IInv, Safe
<1>1. Working /\ todo # <<>> /\ step # "next"
      /\ UNCHANGED <<rel, stage, todo, failed, cond, hooks, secret, ha>>
  BY DEF HelmBegins, HelmSucceeds, Ready, At, objects
<1>2. Chart \in Charts /\ IsRight(Head(todo), rel, ha) /\ UNCHANGED <<Chart, Action>>
      /\ cond[Chart] # "True"
  BY <1>1, HandTypes DEF Chart, Action, HandInv
<1>3. \A c \in Charts \ {Chart} : helm'[c] = helm[c]
  BY DEF HelmBegins, HelmSucceeds, TypeOK
<1>4. WorkInv' /\ CredentialsAgree' /\ SeaweedInv'
  BY <1>1 DEF WorkInv, CredentialsAgree, SeaweedInv
<1>5. StageInv'
  BY <1>1 DEF StageInv, Working
<1>6. ProcessedIsCurrent' /\ Kept
  BY <1>1, <1>2, <1>3 DEF ProcessedIsCurrent, ReleaseExists, Kept
<1>7. HandInv' /\ HooksGone'
  <2>1. CASE HelmBegins
    <3>1. step' = "helm" /\ helm'[Chart].state = Operation /\ step \in {"ready", "scaled"}
      BY <1>2, <2>1 DEF HelmBegins, Ready, At, TypeOK
    <3>2. HookOf(Chart)' = HookOf(Chart)
      BY <1>2 DEF HookOf
    <3> QED
      BY <1>1, <1>2, <3>1, <3>2 DEF HandInv, HooksGone, At
  <2>2. CASE HelmSucceeds
    <3>1. step' = "record"
      BY <2>2 DEF HelmSucceeds
    <3>2. helm'[Chart] = IF Action = "Uninstall" THEN NotDeployed ELSE Deployed(VersionOf(rel, Chart))
      BY <1>2, <2>2 DEF HelmSucceeds, TypeOK
    <3>3. Action = "Uninstall" =>
            Chart \in Extensions /\ diffExtensions(rel)[Chart] = "Uninstall"
      BY <1>2, Names DEF IsRight, Chart, Action, Charts
    <3>4. IsCurrent(Chart)'
      BY <1>1, <1>2, <3>2, <3>3 DEF IsCurrent, ReleaseExists, NotDeployed, Deployed
    <3> QED
      BY <1>1, <1>2, <3>1, <3>4 DEF HandInv, HooksGone, At
  <2> QED
    BY <2>1, <2>2
<1> QED
  BY <1>4, <1>5, <1>6, <1>7

-----------------------------------------------------------------------------
(* New lists, new releases, and what else happens.                        *)
LEMMA SafeLists ==
  ASSUME IInv, AddOnsDone \/ Retry PROVE Safe' /\ Kept
<1> USE DEF IInv, Safe
<1>1. UNCHANGED <<rel, step, failed, cond, helm, hooks, secret, ha>> /\ stage # "ended"
      /\ todo = <<>>
  BY DEF AddOnsDone, Retry, objects, StageInv, Working
<1>2. WorkInv'
  <2>1. CASE Retry
    BY <1>1, <2>1, UpgradeAddOns DEF Retry, WorkInv, TypeOK
  <2>2. CASE AddOnsDone /\ rel = 0
    BY <1>1, <2>2, InstallExtensions DEF AddOnsDone, WorkInv
  <2>3. CASE AddOnsDone /\ rel # 0
    BY <1>1, <2>3, UpgradeExtensions DEF AddOnsDone, WorkInv, TypeOK
  <2> QED
    BY <2>1, <2>2, <2>3
<1>3. step' = "next" /\ stage' \in {"addons", "extensions"}
  BY <1>1 DEF AddOnsDone, Retry, StageInv
<1>4. StageInv' /\ HandInv' /\ HooksGone' /\ CredentialsAgree'
  BY <1>1, <1>3 DEF StageInv, HandInv, HooksGone, CredentialsAgree, At, Working
<1>5. SeaweedInv' /\ ProcessedIsCurrent' /\ Kept
  BY <1>1 DEF SeaweedInv, ProcessedIsCurrent, ReleaseExists, Kept
<1> QED
  BY <1>2, <1>4, <1>5

LEMMA SafeBetween ==
  ASSUME IInv, ExtensionsDone \/ StartUpgrade \/ EnableHA \/ MastersSettle \/ UNCHANGED vars
  PROVE  Safe' /\ Kept
<1> USE DEF IInv, Safe
<1>1. CASE ExtensionsDone
  <2>1. UNCHANGED <<rel, todo, step, failed, cond, helm, hooks, secret, ha>> /\ stage' = "ended"
        /\ todo = <<>>
    BY <1>1 DEF ExtensionsDone, objects
  <2> QED
    BY <2>1 DEF WorkInv, StageInv, HandInv, HooksGone, CredentialsAgree, At, Working,
       SeaweedInv, ProcessedIsCurrent, ReleaseExists, Kept
<1>2. CASE StartUpgrade
  <2>1. rel' = rel + 1 /\ stage' = "addons" /\ step' = step /\ failed' = 0 /\ ha' = ha
        /\ secret' = secret /\ cond' = [c \in Charts |-> "none"] /\ step = "next"
        /\ todo' = As("upgrade", getAddOnsForUpgrade(rel + 1))
    BY <1>2 DEF StartUpgrade, objects, StageInv, Working, NewConditions
  <2>2. WorkInv'
    BY <2>1, UpgradeAddOns DEF WorkInv, TypeOK
  <2>3. StageInv'
    BY <2>1, BoundsAssumption DEF StageInv, Working
  <2>4. rel' # rel
    BY <2>1, ReleasesAssumption DEF TypeOK, Releases
  <2> QED
    BY <2>1, <2>2, <2>3, <2>4, Names DEF HandInv, HooksGone, CredentialsAgree, At, SeaweedInv,
       ProcessedIsCurrent, Kept
<1>3. CASE EnableHA
  <2>1. UNCHANGED <<rel, stage, todo, step, failed, cond, hooks>> /\ ha' = TRUE /\ ~ha
        /\ stage = "ended" /\ todo = <<>> /\ secret' = [seaweedfs |-> 1, registry |-> 1]
        /\ \A c \in Charts \ {"seaweedfs"} : helm'[c] = helm[c]
    BY <1>3 DEF EnableHA, process, StageInv, Working, TypeOK
  <2>2. WorkInv'
    BY <2>1, NoWork DEF WorkInv
  <2>3. StageInv' /\ HandInv' /\ HooksGone' /\ CredentialsAgree' /\ SeaweedInv'
    BY <2>1 DEF StageInv, HandInv, HooksGone, CredentialsAgree, SeaweedInv, At, Working
  <2>4. cond["seaweedfs"] # "True"
    BY <2>1 DEF SeaweedInv
  <2>5. ProcessedIsCurrent' /\ Kept
    BY <2>1, <2>4 DEF ProcessedIsCurrent, ReleaseExists, Kept
  <2> QED
    BY <2>2, <2>3, <2>5
<1>4. CASE MastersSettle \/ UNCHANGED vars
  <2>1. UNCHANGED <<rel, stage, todo, step, failed, cond, helm, hooks, secret, ha>>
    BY <1>4 DEF MastersSettle, vars, process, objects
  <2>2. WorkInv' /\ StageInv' /\ HooksGone' /\ CredentialsAgree' /\ SeaweedInv'
    BY <2>1 DEF WorkInv, StageInv, HooksGone, CredentialsAgree, SeaweedInv, At, Working, Chart,
       HookOf
  <2>3. ProcessedIsCurrent' /\ Kept
    BY <2>1 DEF ProcessedIsCurrent, ReleaseExists, Kept
  <2>4. HandInv'
    BY <2>1 DEF HandInv, IsCurrent, ReleaseExists, Chart, Action, Operation, HookOf
  <2> QED
    BY <2>2, <2>3, <2>4
<1> QED
  BY <1>1, <1>2, <1>3, <1>4

LEMMA SafeStep ==
  ASSUME IInv, [Next]_vars PROVE Safe' /\ Kept
  BY SafeFaults, SafeSkip, SafeMoves, SafePrepares, SafeHelm, SafeLists, SafeBetween
  DEF Next, Step

-----------------------------------------------------------------------------
(* Types.                                                                 *)
Helms   == [state : {"none", "deployed", "failed"} \cup Pending, version : Versions]
Masters == [exists : BOOLEAN, replicas : {0, 1, 3}, pods : {0, 1, 3}, raft : BOOLEAN]

LEMMA VersionTypes ==
  ASSUME NEW r \in Releases, NEW c PROVE VersionOf(r, c) \in Versions
<1>1. ASSUME c \in ExtensionsOf(r) PROVE ConfigOf[r][c].version \in Versions
  <2>1. ConfigOf[r][c].version \in {ConfigOf[r][e].version : e \in ExtensionsOf(r)}
    BY <1>1
  <2> QED
    BY <2>1 DEF Versions
<1>2. r \in Versions /\ None \in Versions
  BY DEF Versions
<1> QED
  BY <1>1, <1>2 DEF VersionOf

LEMMA HelmTypes ==
  /\ NotDeployed \in Helms
  /\ \A v \in Versions : Deployed(v) \in Helms
  /\ \A h \in Helms, s \in {"failed"} \cup Pending : [h EXCEPT !.state = s] \in Helms
  /\ \A h \in Helms : h.version \in Versions
<1>1. None \in Versions
  BY DEF Versions
<1> QED
  BY <1>1 DEF Helms, NotDeployed, Deployed

LEMMA ItemTypes ==
  ASSUME NEW list, NEW r, NEW available, AreRight(list, r, available)
  PROVE  \A i \in DOMAIN list : list[i].chart \in Charts /\ list[i].action \in Actions
<1>1. \A i \in DOMAIN list : list[i] \in Items
  BY DEF AreRight
<1> QED
  BY <1>1 DEF Items

(* All but the list.                                                      *)
ProcessTypes ==
    /\ rel \in Releases /\ stage \in {"addons", "extensions", "waiting", "ended"}
    /\ step \in Places /\ failed \in 0..(BackoffLimit + 1)
    /\ outcome \in [Releases -> Outcomes] /\ cond \in [Charts -> Status]
    /\ faults \in 0..MaxFaults /\ kills \in 0..MaxKills

ClusterTypes ==
    /\ helm \in [Charts -> Helms] /\ masters \in Masters
    /\ hooks \subseteq Charts /\ ha \in BOOLEAN
    /\ secret \in [seaweedfs : 0..1, registry : 0..1]

LEMMA Typed ==
  ASSUME TypeOK PROVE ProcessTypes /\ ClusterTypes
  BY DEF TypeOK, ProcessTypes, ClusterTypes, Helms, Masters

LEMMA TypesOf ==
  ASSUME WorkInv, ProcessTypes, ClusterTypes PROVE TypeOK
<1>1. \A i \in DOMAIN todo : todo[i].chart \in Charts /\ todo[i].action \in Actions
  BY ItemTypes DEF WorkInv
<1> QED
  BY <1>1 DEF TypeOK, ProcessTypes, ClusterTypes, Helms, Masters, Actions

LEMMA TypesKept ==
  ASSUME WorkInv', ProcessTypes', ClusterTypes' PROVE TypeOK'
<1>1. \A i \in DOMAIN todo' : todo'[i].chart \in Charts /\ todo'[i].action \in Actions
  BY ItemTypes DEF WorkInv
<1> QED
  BY <1>1 DEF TypeOK, ProcessTypes, ClusterTypes, Helms, Masters, Actions

LEMMA TypeInit == Init => TypeOK
<1> SUFFICES ASSUME Init PROVE TypeOK
  OBVIOUS
<1>1. WorkInv
  BY SafeInit DEF Safe
<1>2. ProcessTypes
  <2>1. outcome \in [Releases -> Outcomes] /\ cond \in [Charts -> Status]
    BY DEF Init, Outcomes, Status
  <2>2. 0 \in 0..MaxFaults /\ 0 \in 0..MaxKills /\ 0 \in 0..(BackoffLimit + 1) /\ 0 \in Releases
    BY ReleasesAssumption, BoundsAssumption DEF Releases
  <2> QED
    BY <2>1, <2>2 DEF Init, ProcessTypes, Places
<1>3. ClusterTypes
  <2>1. helm \in [Charts -> Helms]
    BY HelmTypes DEF Init
  <2>2. hooks \subseteq Charts /\ ha \in BOOLEAN /\ masters \in Masters
    BY DEF Init, Masters
  <2>3. secret \in [seaweedfs : 0..1, registry : 0..1]
    BY DEF Init
  <2> QED
    BY <2>1, <2>2, <2>3 DEF ClusterTypes
<1> QED
  BY <1>1, <1>2, <1>3, TypesOf

(* A failing attempt.                                                     *)
LEMMA TypeAttempt ==
  ASSUME IInv, Working, NextAttempt
  PROVE  /\ failed' \in 0..(BackoffLimit + 1) /\ stage' \in {"addons", "extensions", "waiting", "ended"}
         /\ step' \in Places
<1>1. failed \in Nat /\ failed <= BackoffLimit /\ BackoffLimit \in Nat
  BY BoundsAssumption DEF IInv, Safe, StageInv, Working, TypeOK
<1> QED
  BY <1>1 DEF NextAttempt, Places

LEMMA TypeFails ==
  ASSUME IInv, Working, AttemptFails
  PROVE  /\ failed' \in 0..(BackoffLimit + 1) /\ stage' \in {"addons", "extensions", "waiting", "ended"}
         /\ step' \in Places /\ outcome' \in [Releases -> Outcomes]
<1>1. outcome' = outcome \/ outcome' = [outcome EXCEPT ![rel] = "Failed"]
  BY DEF AttemptFails, MarkFailed
<1> QED
  BY <1>1, TypeAttempt DEF AttemptFails, IInv, TypeOK, Outcomes

LEMMA TypeFaults ==
  ASSUME IInv, Faults \/ HelmRefuses, WorkInv' PROVE TypeOK'
<1>0. ProcessTypes /\ ClusterTypes /\ Safe
  BY Typed DEF IInv
<1> USE <1>0 DEF ProcessTypes, ClusterTypes
<1>1. Working /\ UNCHANGED <<rel, ha, secret>>
  BY DEF Faults, HelmRefuses, ScaleDownTimesOut, CannotBegin, CannotRecord, HelmFails, Killed,
     At, Ready, objects
<1>2. AttemptFails \/ (NextAttempt /\ UNCHANGED outcome)
  BY DEF Faults, HelmRefuses, ScaleDownTimesOut, CannotBegin, CannotRecord, HelmFails, Killed,
     ChartFails
<1>3. /\ failed' \in 0..(BackoffLimit + 1) /\ stage' \in {"addons", "extensions", "waiting", "ended"}
      /\ step' \in Places /\ outcome' \in [Releases -> Outcomes]
  BY <1>1, <1>2, TypeAttempt, TypeFails
<1>4. cond' \in [Charts -> Status]
  <2>1. cond' = cond \/ cond' = [cond EXCEPT ![Chart] = "Failed"]
    BY DEF Faults, HelmRefuses, ScaleDownTimesOut, CannotBegin, CannotRecord, HelmFails, Killed,
       ChartFails, Set
  <2> QED
    BY <2>1 DEF Status
<1>5. faults' \in 0..MaxFaults /\ kills' \in 0..MaxKills
  <2>1. MaxFaults \in Nat /\ MaxKills \in Nat
    BY BoundsAssumption
  <2>2. faults' = faults \/ (faults < MaxFaults /\ faults' = faults + 1)
    BY DEF Faults, HelmRefuses, ScaleDownTimesOut, CannotBegin, CannotRecord, HelmFails, Killed,
       Fault
  <2>3. kills' = kills \/ (kills < MaxKills /\ kills' = kills + 1)
    BY DEF Faults, HelmRefuses, ScaleDownTimesOut, CannotBegin, CannotRecord, HelmFails, Killed
  <2> QED
    BY <2>1, <2>2, <2>3
<1>6. hooks' \subseteq Charts
  <2>1. hooks' = hooks \/ hooks' \in HooksLeft
    BY DEF Faults, HelmRefuses, ScaleDownTimesOut, CannotBegin, CannotRecord, HelmFails, Killed,
       objects
  <2> QED
    BY <2>1 DEF HooksLeft
<1>7. helm' \in [Charts -> Helms] /\ masters' \in Masters
  <2>1. CASE HelmFails
    <3>1. PICK left \in LeftByFailure(Chart) :
            /\ helm' = [helm EXCEPT ![Chart] = left]
            /\ \/ masters' = masters
               \/ masters' = [masters EXCEPT !.replicas = 1]
               \/ masters' = [masters EXCEPT !.replicas = 3]
      BY <2>1 DEF HelmFails
    <3>2. Chart \in Charts
      BY <2>1, HandTypes DEF HelmFails, At, Safe
    <3>3. helm[Chart] \in Helms
      BY <3>2
    <3>4. /\ [helm[Chart] EXCEPT !.state = "failed"] \in Helms
          /\ Deployed(helm[Chart].version) \in Helms
      BY <3>3, HelmTypes
    <3>5. \/ left = [helm[Chart] EXCEPT !.state = "failed"] \/ left = helm[Chart]
          \/ left = Deployed(helm[Chart].version)
      BY <3>1 DEF LeftByFailure
    <3>6. left \in Helms
      BY <3>3, <3>4, <3>5
    <3>7. helm' \in [Charts -> Helms]
      BY <3>1, <3>6
    <3> QED
      BY <3>1, <3>7 DEF Masters
  <2>2. CASE ~HelmFails
    <3>1. UNCHANGED <<helm, masters>>
      BY <2>2 DEF Faults, HelmRefuses, ScaleDownTimesOut, CannotBegin, CannotRecord, Killed,
         objects
    <3> QED
      BY <3>1
  <2> QED
    BY <2>1, <2>2
<1>8. ProcessTypes' /\ ClusterTypes'
  BY <1>1, <1>3, <1>4, <1>5, <1>6, <1>7
<1> QED
  BY <1>8, TypesKept

(* The steps of a pod with a chart, and of the masters.                   *)
LEMMA TypeWork ==
  ASSUME IInv, WorkInv',
         \/ Skip \/ markAsProcessing \/ Satisfied \/ Prepares \/ ScaleDown \/ ScaledDown
         \/ HelmBegins \/ HelmSucceeds \/ markAsProcessed \/ MastersSettle
  PROVE  TypeOK'
<1>0. ProcessTypes /\ ClusterTypes /\ Safe
  BY Typed DEF IInv
<1> USE <1>0 DEF ProcessTypes, ClusterTypes
<1>1. UNCHANGED <<rel, stage, failed, outcome, ha, faults, kills>>
  BY DEF Skip, markAsProcessing, Satisfied, Prepares, ScaleDown, ScaledDown, HelmBegins,
     HelmSucceeds, markAsProcessed, MastersSettle, process, objects
<1>2. step' \in Places
  BY DEF Skip, markAsProcessing, Satisfied, Prepares, ScaleDown, ScaledDown, HelmBegins,
     HelmSucceeds, markAsProcessed, MastersSettle, process, Places
<1>3. cond' \in [Charts -> Status]
  <2>1. cond' = cond \/ \E s \in Status : cond' = [cond EXCEPT ![Chart] = s]
    BY DEF Skip, markAsProcessing, Satisfied, Prepares, ScaleDown, ScaledDown, HelmBegins,
       HelmSucceeds, markAsProcessed, MastersSettle, Set, Status
  <2> QED
    BY <2>1
<1>4. helm' \in [Charts -> Helms]
  <2>1. CASE HelmBegins
    <3>1. helm' = [helm EXCEPT ![Chart].state = Operation] /\ Operation \in Pending
      BY <2>1 DEF HelmBegins, Operation, Pending
    <3>2. Chart \in Charts
      BY <2>1, HandTypes DEF HelmBegins, Ready, At, Safe
    <3>3. helm \in [Charts -> Helms]
      BY DEF Helms
    <3>4. [helm[Chart] EXCEPT !.state = Operation] \in Helms
      BY <3>1, <3>2, <3>3, HelmTypes
    <3> QED
      BY <3>1, <3>3, <3>4
  <2>2. CASE HelmSucceeds
    BY <2>2, HelmTypes, VersionTypes DEF HelmSucceeds, Helms
  <2>3. CASE ~HelmBegins /\ ~HelmSucceeds
    BY <2>3 DEF Skip, markAsProcessing, Satisfied, Prepares, ScaleDown, ScaledDown,
       markAsProcessed, MastersSettle, Helms
  <2> QED
    BY <2>1, <2>2, <2>3
<1>5. masters' \in Masters
  <2>1. CASE HelmBegins
    <3>1. Raft \in BOOLEAN
      BY DEF Raft, Masters
    <3> QED
      BY <2>1, <3>1 DEF HelmBegins, Masters
  <2>2. CASE ScaleDown \/ MastersSettle
    BY <2>2 DEF ScaleDown, MastersSettle, Masters
  <2>3. CASE ~HelmBegins /\ ~ScaleDown /\ ~MastersSettle
    BY <2>3 DEF Skip, markAsProcessing, Satisfied, Prepares, ScaledDown, HelmSucceeds,
       markAsProcessed, objects, Masters
  <2> QED
    BY <2>1, <2>2, <2>3
<1>6. hooks' \subseteq Charts /\ secret' \in [seaweedfs : 0..1, registry : 0..1]
  <2>1. CASE Prepares
    <3>1. hooks' \subseteq hooks
      BY <2>1 DEF Prepares, Prepare, ensurePreUpgradeHooksDeleted, ensurePostInstallHooksDeleted,
         ensurePostUpgradeHooksDeleted
    <3>2. secret' \in {secret, ensureS3Secret, ensureRegistryS3Secret}
      BY <2>1 DEF Prepares, Prepare, createUpgradePreRequisites
    <3>3. /\ secret.seaweedfs \in 0..1 /\ secret.registry \in 0..1
          /\ ensureS3Secret \in [seaweedfs : 0..1, registry : 0..1]
          /\ ensureRegistryS3Secret \in [seaweedfs : 0..1, registry : 0..1]
      BY DEF ensureS3Secret, ensureRegistryS3Secret
    <3> QED
      BY <3>1, <3>2, <3>3
  <2>2. CASE ~Prepares
    BY <2>2 DEF Skip, markAsProcessing, Satisfied, ScaleDown, ScaledDown, HelmBegins,
       HelmSucceeds, markAsProcessed, MastersSettle, objects
  <2> QED
    BY <2>1, <2>2
<1>7. ProcessTypes' /\ ClusterTypes'
  BY <1>1, <1>2, <1>3, <1>4, <1>5, <1>6
<1> QED
  BY <1>7, TypesKept

LEMMA TypeBetween ==
  ASSUME IInv, WorkInv',
         \/ AddOnsDone \/ ExtensionsDone \/ Retry \/ StartUpgrade \/ EnableHA \/ UNCHANGED vars
  PROVE  TypeOK'
<1>0. ProcessTypes /\ ClusterTypes /\ Safe
  BY Typed DEF IInv
<1> USE <1>0 DEF ProcessTypes, ClusterTypes
<1>1. CASE AddOnsDone \/ Retry \/ ExtensionsDone
  <2>1. UNCHANGED <<rel, step, failed, cond, helm, hooks, secret, masters, ha, faults, kills>>
    BY <1>1 DEF AddOnsDone, Retry, ExtensionsDone, objects
  <2>2. outcome' \in [Releases -> Outcomes]
        /\ stage' \in {"addons", "extensions", "waiting", "ended"}
    BY <1>1 DEF AddOnsDone, Retry, ExtensionsDone, Outcomes
  <2> QED
    BY <2>1, <2>2, TypesKept
<1>2. CASE StartUpgrade
  <2>1. UNCHANGED <<step, helm, hooks, secret, masters, ha, faults, kills>>
        /\ rel' = rel + 1 /\ stage' = "addons" /\ failed' = 0 /\ rel < LastRelease
        /\ outcome' = [outcome EXCEPT ![rel + 1] = "Installing"]
        /\ cond' = [c \in Charts |-> "none"]
    BY <1>2 DEF StartUpgrade, objects, NewConditions
  <2>2. rel' \in Releases /\ failed' \in 0..(BackoffLimit + 1)
    BY <2>1, ReleasesAssumption, BoundsAssumption DEF Releases
  <2>3. outcome' \in [Releases -> Outcomes] /\ cond' \in [Charts -> Status]
    BY <2>1 DEF Outcomes, Status
  <2> QED
    BY <2>1, <2>2, <2>3, TypesKept
<1>3. CASE EnableHA
  <2>1. UNCHANGED <<rel, stage, todo, step, failed, outcome, cond, hooks, faults, kills>>
        /\ ha' = TRUE /\ secret' = [seaweedfs |-> 1, registry |-> 1]
        /\ masters' = MastersOf(rel)
        /\ helm' = [helm EXCEPT !["seaweedfs"] = Deployed(VersionOf(rel, "seaweedfs"))]
    BY <1>3 DEF EnableHA, process
  <2>2. masters' \in Masters
    BY <2>1 DEF MastersOf, Masters
  <2>3. helm' \in [Charts -> Helms]
    BY <2>1, HelmTypes, VersionTypes DEF Helms
  <2> QED
    BY <2>1, <2>2, <2>3, TypesKept
<1>4. CASE UNCHANGED vars
  BY <1>4, TypesKept DEF vars, process, objects
<1> QED
  BY <1>1, <1>2, <1>3, <1>4

LEMMA Step1 == ASSUME IInv, [Next]_vars PROVE IInv' /\ Kept
<1>1. Safe' /\ Kept
  BY SafeStep
<1>2. WorkInv'
  BY <1>1 DEF Safe
<1>3. TypeOK'
  BY <1>2, TypeFaults, TypeWork, TypeBetween DEF Next, Step
<1> QED
  BY <1>1, <1>3 DEF IInv

LEMMA Invariant == Spec => []IInv
<1>1. Init => IInv
  BY TypeInit, SafeInit DEF IInv
<1>2. IInv /\ [Next]_vars => IInv'
  BY Step1
<1> QED
  BY <1>1, <1>2, PTL DEF Spec

-----------------------------------------------------------------------------
(* Every variable keeps its type, whatever fails and is killed.           *)
THEOREM TypeCorrect == Spec => []TypeOK
<1>1. IInv => TypeOK
  BY DEF IInv
<1> QED
  BY <1>1, Invariant, PTL

(* What a pod has completed is not touched by the pods after it.          *)
THEOREM CompletedIsKept == Spec => ProcessedOnce
<1>1. IInv /\ [Next]_vars =>
        [\A c \in Charts : cond[c] = "True" /\ rel' = rel
            => cond'[c] = "True" /\ helm'[c] = helm[c]]_vars
  BY Step1 DEF Kept
<1> QED
  BY <1>1, Invariant, PTL DEF Spec, ProcessedOnce

(* What helm has deployed of a chart changes to what the release under    *)
(* way has it at, and to nothing else: not by a failure, a rollback or a  *)
(* retry.                                                                 *)
LEMMA RolloutStep ==
  ASSUME IInv, [Next]_vars PROVE [R!Next]_(R!vars)
<1> DEFINE shown == [c \in Charts |-> helm[c].version]
<1> USE DEF IInv, TypeOK
<1>1. ASSUME NEW c \in Charts, rel' = rel, NEW h, h.version = VersionOf(rel, c),
             helm' = [helm EXCEPT ![c] = h]
      PROVE  R!Next
  <2>1. shown' = [shown EXCEPT ![c] = VersionOf(rel, c)]
    BY <1>1
  <2>2. [r \in Releases |-> [d \in Charts |-> VersionOf(r, d)]][rel][c] = VersionOf(rel, c)
    OBVIOUS
  <2>3. R!Apply(c)
    BY <1>1, <2>1, <2>2 DEF R!Apply
  <2> QED
    BY <2>3 DEF R!Next
<1>2. CASE HelmSucceeds
  <2>1. Chart \in Charts /\ IsRight(Head(todo), rel, ha)
    BY <1>2, HandTypes DEF HelmSucceeds, At, Safe
  <2>2. Action = "Uninstall" => VersionOf(rel, Chart) = None
    <3>1. ASSUME Action = "Uninstall" PROVE VersionOf(rel, Chart) = None
      <4>1. Chart \in Extensions /\ Chart \in DOMAIN diffExtensions(rel)
            /\ diffExtensions(rel)[Chart] = "Uninstall"
        BY <2>1, <3>1, Names DEF IsRight, Chart, Action, Charts
      <4>2. Chart \notin ExtensionsOf(rel)
        BY <4>1 DEF diffExtensions
      <4> QED
        BY <4>1, <4>2, Names DEF VersionOf
    <3> QED
      BY <3>1
  <2> DEFINE h == IF Action = "Uninstall" THEN NotDeployed ELSE Deployed(VersionOf(rel, Chart))
  <2>3. h.version = VersionOf(rel, Chart)
    BY <2>2 DEF NotDeployed, Deployed
  <2>4. rel' = rel /\ helm' = [helm EXCEPT ![Chart] = h]
    BY <1>2 DEF HelmSucceeds
  <2> QED
    BY <1>1, <2>1, <2>3, <2>4
<1>3. CASE EnableHA
  BY <1>1, <1>3, Names DEF EnableHA, Deployed, Charts
<1>4. CASE StartUpgrade
  <2>1. R!Begin
    BY <1>4 DEF StartUpgrade, R!Begin
  <2> QED
    BY <2>1 DEF R!Next
<1>5. ASSUME rel' = rel, \A c \in Charts : helm'[c].version = helm[c].version
      PROVE  UNCHANGED R!vars
  BY <1>5 DEF R!vars
<1>6. CASE HelmBegins
  BY <1>5, <1>6 DEF HelmBegins
<1>7. CASE HelmFails
  <2>1. PICK left \in LeftByFailure(Chart) : helm' = [helm EXCEPT ![Chart] = left]
    BY <1>7 DEF HelmFails
  <2>2. Chart \in Charts
    BY <1>7, HandTypes DEF HelmFails, At, Safe
  <2>3. left.version = helm[Chart].version
    BY <2>1, <2>2 DEF LeftByFailure, Deployed
  <2> QED
    BY <1>5, <1>7, <2>1, <2>2, <2>3 DEF HelmFails
<1>8. CASE UNCHANGED <<rel, helm>>
  BY <1>5, <1>8
<1>9. HelmSucceeds \/ EnableHA \/ StartUpgrade \/ HelmBegins \/ HelmFails \/ UNCHANGED <<rel, helm>>
  BY DEF Next, Step, Faults, Skip, markAsProcessing, Satisfied, Prepares, ScaleDown, ScaledDown,
     HelmRefuses, markAsProcessed, AddOnsDone, ExtensionsDone, Retry, MastersSettle,
     ScaleDownTimesOut, CannotBegin, CannotRecord, Killed, vars
<1> QED
  BY <1>2, <1>3, <1>4, <1>6, <1>7, <1>8, <1>9

(* Whatever helm does and however the pods of the Jobs end, what is       *)
(* deployed follows the releases as Rollout has it.                       *)
THEOREM ChartsFollowReleases == Spec => ImplementsRollout
<1>1. Init => R!Init
  BY DEF Init, R!Init, NotDeployed
<1>2. IInv /\ [Next]_vars => [R!Next]_(R!vars)
  BY RolloutStep
<1> QED
  BY <1>1, <1>2, Invariant, PTL DEF Spec, ImplementsRollout, R!Spec

-----------------------------------------------------------------------------
(* What is left to do.  The list of an upgrade has removed extensions      *)
(* first, and every extension of the two releases is on it or done.        *)
Before(a, b, r) ==
    \/ a.action = "Uninstall" /\ b.action # "Uninstall"
    \/ a.action = "Uninstall" /\ b.action = "Uninstall" /\ Order(r)[b.chart] <= Order(r)[a.chart]
    \/ a.action # "Uninstall" /\ b.action # "Uninstall" /\ Order(r)[a.chart] <= Order(r)[b.chart]

Ordered(list, r) == \A i, j \in DOMAIN list : i < j => Before(list[i], list[j], r)

Holds(list, c) == \E i \in DOMAIN list : list[i].chart = c

(* Of which part of the lists the entries are.                            *)
PartsOf(list, r, part) == \A i \in DOMAIN list :
    /\ list[i].action = "create" <=> r = 0
    /\ part = "addons" => list[i].chart \in AddOns
    /\ part = "extensions" => list[i].chart \in Extensions
    /\ part = "extensions" /\ r = 0 => list[i].chart \in ExtensionsOf(0)

PartInv == PartsOf(todo, rel, stage) /\ (rel = 0 => stage # "waiting")

OrderInv ==
    /\ rel > 0 /\ stage = "extensions" =>
         /\ Ordered(todo, rel)
         /\ \A e \in DOMAIN diffExtensions(rel) : cond[e] = "True" \/ Holds(todo, e)

-----------------------------------------------------------------------------
(* What helm has of the extensions.                                        *)
Sound(r, e) ==
    \/ helm[e].version = VersionOf(r, e)
    \/ helm[e].state \in Pending \cup {"failed"} /\ e \in ExtensionsOf(r)

Diff(e) == IF e \in DOMAIN diffExtensions(rel) THEN diffExtensions(rel)[e] ELSE "NoChange"

(* No chart is deployed at no version, none that is not there has one.    *)
HelmInv == \A c \in Charts :
    /\ helm[c].state = "none" => helm[c].version = None
    /\ helm[c].state = "deployed" => helm[c].version # None

(* helm is not run for what has not changed.                              *)
ActionInv == todo # <<>> /\ step \in {"ready", "scaling", "scaled", "helm"} => Action # "NoChange"

OutcomeInv ==
    /\ \A r \in Releases : r > rel => outcome[r] = "none"
    /\ outcome[rel] = "Installed" => stage = "ended"

(* While the cluster is installed.                                        *)
InstallInv == rel = 0 =>
    /\ \A c \in Charts : cond[c] = "none"
    /\ \A e \in Extensions :
          /\ stage = "addons" \/ e \notin ExtensionsOf(0) => helm[e] = NotDeployed
          /\ stage = "extensions" /\ e \in ExtensionsOf(0) =>
                Holds(todo, e) \/ helm[e].version = VersionOf(0, e)
    /\ stage = "extensions" /\ step = "record" => helm[Chart].version = VersionOf(0, Chart)

AllInstalled(n) == \A r \in 0..n : outcome[r] = "Installed"

(* While the cluster is upgraded.                                         *)
UpgradeInv == rel > 0 /\ AllInstalled(rel - 1) => \A e \in Extensions :
    /\ Diff(e) = "NoChange" => Sound(rel - 1, e)
    /\ Diff(e) = "Install" => helm[e].version \in {None, VersionOf(rel, e)}

FoundInv == rel > 0 => \A e \in Extensions :
    Diff(e) = "Install" /\ (cond[e] = "True" \/ (todo # <<>> /\ Chart = e /\ step = "record"))
    => ReleaseExists(e)

SoundInv == AllInstalled(rel) => \A e \in Extensions : Sound(rel, e)

ListInv == PartInv /\ OrderInv

CurrentInv ==
    /\ HelmInv /\ ActionInv /\ OutcomeInv /\ InstallInv /\ UpgradeInv /\ FoundInv /\ SoundInv

-----------------------------------------------------------------------------
(* The masters of seaweedfs.                                               *)
HAInv ==
    /\ ha => AirGap
    /\ ~ha => masters.replicas = 0
    /\ rel = 0 /\ stage # "ended" => ~ha
    /\ ha => /\ helm["seaweedfs"].state \notin {"none", "installing"}
             /\ helm["seaweedfs"].version \in 0..rel

(* A release with the HA values does not leave a single master where it   *)
(* has been.                                                              *)
Reached == \/ cond["seaweedfs"] = "True"
           \/ todo # <<>> /\ Chart = "seaweedfs" /\ step \in {"helm", "record"}

ScaleInv ==
    /\ todo # <<>> /\ step \in {"scaling", "scaled"} => masters.replicas = 0
    /\ ha /\ rel >= FixedAt /\ Reached => masters.replicas # 1

SeaweedListed ==
    ha /\ stage = "addons" /\ rel > 0 => cond["seaweedfs"] = "True" \/ Holds(todo, "seaweedfs")

SeaweedDone ==
    ha /\ (stage = "extensions" \/ outcome[rel] = "Installed") =>
        helm["seaweedfs"] = Deployed(rel) /\ (rel >= FixedAt => masters.replicas # 1)

SeaweedNewer ==
    ha /\ rel > 0 /\ rel - 1 >= FixedAt /\ outcome[rel - 1] = "Installed" =>
        helm["seaweedfs"].version >= rel - 1 /\ masters.replicas # 1

MasterInv == HAInv /\ ScaleInv /\ SeaweedListed /\ SeaweedDone /\ SeaweedNewer

-----------------------------------------------------------------------------
(* The lists, whatever they are worked through for.                        *)

LEMMA SortedHasAll ==
  ASSUME NEW E, E \subseteq Extensions, NEW order, NEW s \in Sorted(E, order)
  PROVE  /\ s \in Seq(E) /\ \A e \in E : \E i \in DOMAIN s : s[i] = e
         /\ \A i, j \in DOMAIN s : i < j => order[s[i]] <= order[s[j]]
<1> DEFINE D == 1..Cardinality(E)
<1>1. IsFiniteSet(E) /\ Cardinality(E) \in Nat
  BY NamesAssumption, FS_Subset, FS_CardinalityType
<1>2. IsFiniteSet(D) /\ Cardinality(D) = Cardinality(E)
  <2>1. Cardinality(D) = IF 1 > Cardinality(E) THEN 0 ELSE Cardinality(E) - 1 + 1
    BY SMTT(60), <1>1, FS_Interval
  <2> QED
    BY <1>1, <2>1, FS_Interval
<1>3. s \in [D -> E] /\ \A i, j \in D : i # j => s[i] # s[j]
  BY DEF Sorted, SetToSeqs
<1> HIDE DEF D
<1>4. s \in Injection(D, E)
  BY <1>3 DEF Injection, IsInjective
<1>5. s \in Surjection(D, E)
  BY <1>1, <1>2, <1>4, FS_Injection
<1>6. \A e \in E : \E i \in D : s[i] = e
  BY <1>5 DEF Surjection
<1> QED
  BY <1>3, <1>6, SortedTypes DEF Sorted

(* Where the entries of an upgrade's list come from.                      *)
LEMMA WorkEntries ==
  ASSUME NEW r, NEW S, NEW u \in Seq(S), NEW T, NEW s \in Seq(T)
  PROVE  /\ Len(u) \in Nat /\ Len(s) \in Nat
         /\ DOMAIN Work(r, u, s) = 1..(Len(u) + Len(s))
         /\ \A i \in 1..Len(u) :
               Work(r, u, s)[i] = [chart |-> u[Len(u) - i + 1], action |-> "Uninstall"]
         /\ \A i \in (Len(u) + 1)..(Len(u) + Len(s)) :
               Work(r, u, s)[i] = [chart |-> s[i - Len(u)],
                                   action |-> diffExtensions(r)[s[i - Len(u)]]]
<1> DEFINE back == As("Uninstall", Reverse(u))
           forth == [i \in DOMAIN s |-> [chart |-> s[i], action |-> diffExtensions(r)[s[i]]]]
           All == {back[i] : i \in 1..Len(u)} \cup {forth[i] : i \in 1..Len(s)}
<1>1. Len(u) \in Nat /\ Len(s) \in Nat /\ DOMAIN s = 1..Len(s)
  OBVIOUS
<1>2. /\ DOMAIN Reverse(u) = 1..Len(u)
      /\ \A i \in 1..Len(u) : Reverse(u)[i] = u[Len(u) - i + 1]
  BY DEF Reverse
<1>3. /\ back = [i \in 1..Len(u) |-> [chart |-> Reverse(u)[i], action |-> "Uninstall"]]
      /\ forth = [i \in 1..Len(s) |-> [chart |-> s[i], action |-> diffExtensions(r)[s[i]]]]
  BY <1>1, <1>2 DEF As
<1>4. back \in [1..Len(u) -> All] /\ forth \in [1..Len(s) -> All]
  BY <1>3
<1>5. \A i \in 1..Len(u) : back[i] = [chart |-> u[Len(u) - i + 1], action |-> "Uninstall"]
  BY <1>2, <1>3
<1>6. \A i \in 1..Len(s) : forth[i] = [chart |-> s[i], action |-> diffExtensions(r)[s[i]]]
  BY <1>3
<1>7. Work(r, u, s) = back \o forth
  BY DEF Work
<1> HIDE DEF back, forth, All
<1>8. /\ back \in Seq(All) /\ Len(back) = Len(u)
      /\ forth \in Seq(All) /\ Len(forth) = Len(s)
  BY <1>1, <1>4
<1>9. /\ DOMAIN (back \o forth) = 1..(Len(u) + Len(s))
      /\ \A i \in 1..Len(u) : (back \o forth)[i] = back[i]
      /\ \A i \in (Len(u) + 1)..(Len(u) + Len(s)) : (back \o forth)[i] = forth[i - Len(u)]
  BY <1>1, <1>8
<1>10. \A i \in (Len(u) + 1)..(Len(u) + Len(s)) : i - Len(u) \in 1..Len(s)
  BY <1>1
<1> QED
  BY <1>1, <1>5, <1>6, <1>7, <1>9, <1>10

LEMMA DiffTypes ==
  ASSUME NEW r \in Releases \ {0}
  PROVE  /\ r - 1 \in Releases
         /\ DOMAIN diffExtensions(r) = ExtensionsOf(r) \cup ExtensionsOf(r - 1)
         /\ DOMAIN diffExtensions(r) \subseteq Extensions
         /\ \A e \in DOMAIN diffExtensions(r) :
               /\ diffExtensions(r)[e] \in {"Install", "Upgrade", "Uninstall", "NoChange"}
               /\ Order(r)[e] \in Nat
<1>1. r \in Releases /\ r - 1 \in Releases
  BY ReleasesAssumption DEF Releases
<1>2. ExtensionsOf(r) \cup ExtensionsOf(r - 1) \subseteq Extensions
  BY <1>1, ExtensionNames
<1>3. DOMAIN diffExtensions(r) = ExtensionsOf(r) \cup ExtensionsOf(r - 1)
  BY DEF diffExtensions
<1>4. \A e \in ExtensionsOf(r) \cup ExtensionsOf(r - 1) : Order(r)[e] \in Nat
  <2>1. \A e \in ExtensionsOf(r) : ConfigOf[r][e].order \in Nat
    BY <1>1, ConfigAssumption DEF ExtensionsOf
  <2>2. \A e \in ExtensionsOf(r - 1) : ConfigOf[r - 1][e].order \in Nat
    BY <1>1, ConfigAssumption DEF ExtensionsOf
  <2> QED
    BY <2>1, <2>2 DEF Order
<1>5. \A e \in DOMAIN diffExtensions(r) :
         diffExtensions(r)[e] \in {"Install", "Upgrade", "Uninstall", "NoChange"}
  BY <1>3 DEF diffExtensions
<1> QED
  BY <1>1, <1>2, <1>3, <1>4, <1>5

(* The list of an upgrade has every extension of the two releases, in     *)
(* order.                                                                 *)
LEMMA UpgradeListOrdered ==
  ASSUME NEW r \in Releases \ {0}, NEW list \in UpgradeList(r)
  PROVE  /\ Ordered(list, r) /\ PartsOf(list, r, "extensions")
         /\ \A e \in DOMAIN diffExtensions(r) : Holds(list, e)
<1> DEFINE others == DOMAIN diffExtensions(r) \ Removed(r)
<1>1. PICK u \in Sorted(Removed(r), Order(r)), s \in Sorted(others, Order(r)) :
        list = Work(r, u, s)
  BY DEF UpgradeList
<1>2. /\ Removed(r) \subseteq Extensions /\ others \subseteq Extensions
      /\ others \cup Removed(r) = DOMAIN diffExtensions(r)
  BY DiffTypes DEF Removed
<1>3. \A e \in others : diffExtensions(r)[e] \notin {"Uninstall", "create"}
  BY DiffTypes DEF Removed
<1> HIDE DEF others
<1>4. /\ u \in Seq(Removed(r)) /\ \A e \in Removed(r) : \E i \in DOMAIN u : u[i] = e
      /\ \A i, j \in DOMAIN u : i < j => Order(r)[u[i]] <= Order(r)[u[j]]
  BY <1>1, <1>2, SortedHasAll
<1>5. /\ s \in Seq(others) /\ \A e \in others : \E i \in DOMAIN s : s[i] = e
      /\ \A i, j \in DOMAIN s : i < j => Order(r)[s[i]] <= Order(r)[s[j]]
  BY <1>1, <1>2, SortedHasAll
<1> DEFINE m == Len(u)
           n == Len(s)
<1>6. /\ m \in Nat /\ n \in Nat /\ DOMAIN list = 1..(m + n)
      /\ \A i \in 1..m : list[i] = [chart |-> u[m - i + 1], action |-> "Uninstall"]
      /\ \A i \in (m + 1)..(m + n) :
           list[i] = [chart |-> s[i - m], action |-> diffExtensions(r)[s[i - m]]]
  <2>1. u \in Seq(Removed(r)) /\ s \in Seq(others)
    BY <1>4, <1>5
  <2> HIDE DEF m, n
  <2>2. /\ Len(u) \in Nat /\ Len(s) \in Nat
        /\ DOMAIN Work(r, u, s) = 1..(Len(u) + Len(s))
        /\ \A i \in 1..Len(u) :
              Work(r, u, s)[i] = [chart |-> u[Len(u) - i + 1], action |-> "Uninstall"]
        /\ \A i \in (Len(u) + 1)..(Len(u) + Len(s)) :
              Work(r, u, s)[i] = [chart |-> s[i - Len(u)],
                                  action |-> diffExtensions(r)[s[i - Len(u)]]]
    BY <2>1, WorkEntries
  <2> QED
    BY <1>1, <2>2, Zenon DEF m, n
<1>7. DOMAIN u = 1..m /\ DOMAIN s = 1..n
  BY <1>4, <1>5
<1>8. /\ \A i \in 1..m : u[i] \in Removed(r)
      /\ \A i \in 1..n : s[i] \in others
  BY <1>4, <1>5
<1> HIDE DEF m, n
<1>9. /\ m \in Nat /\ n \in Nat
      /\ \A i \in 1..m : m - i + 1 \in 1..m
      /\ \A i \in (m + 1)..(m + n) : i - m \in 1..n
  BY <1>6
<1>10. /\ \A i \in 1..m : list[i].chart = u[m - i + 1] /\ list[i].action = "Uninstall"
       /\ \A i \in (m + 1)..(m + n) :
            list[i].chart = s[i - m] /\ list[i].action \notin {"Uninstall", "create"}
  <2>1. ASSUME NEW i \in 1..m PROVE list[i].chart = u[m - i + 1] /\ list[i].action = "Uninstall"
    <3>1. list[i] = [chart |-> u[m - i + 1], action |-> "Uninstall"]
      BY <1>6
    <3> QED
      BY <3>1
  <2>2. ASSUME NEW i \in (m + 1)..(m + n)
        PROVE  list[i].chart = s[i - m] /\ list[i].action \notin {"Uninstall", "create"}
    <3>1. s[i - m] \in others
      BY <1>8, <1>9
    <3>2. diffExtensions(r)[s[i - m]] \notin {"Uninstall", "create"}
      BY <1>3, <3>1
    <3>3. list[i] = [chart |-> s[i - m], action |-> diffExtensions(r)[s[i - m]]]
      BY <1>6
    <3> QED
      BY <3>2, <3>3
  <2> QED
    BY <2>1, <2>2
<1>11. Ordered(list, r)
  <2> SUFFICES ASSUME NEW i \in 1..(m + n), NEW j \in 1..(m + n), i < j
               PROVE  Before(list[i], list[j], r)
    BY <1>6 DEF Ordered
  <2>1. CASE j <= m
    <3>1. i \in 1..m /\ j \in 1..m /\ m - j + 1 < m - i + 1
      BY <1>9, <2>1
    <3>2. Order(r)[u[m - j + 1]] <= Order(r)[u[m - i + 1]]
      BY <1>4, <1>7, <1>9, <3>1
    <3> QED
      BY <1>10, <3>1, <3>2 DEF Before
  <2>2. CASE i <= m /\ ~(j <= m)
    <3>1. i \in 1..m /\ j \in (m + 1)..(m + n)
      BY <1>9, <2>2
    <3> QED
      BY <1>10, <3>1 DEF Before
  <2>3. CASE ~(i <= m)
    <3>1. i \in (m + 1)..(m + n) /\ j \in (m + 1)..(m + n) /\ i - m < j - m
      BY <1>9, <2>3
    <3>2. i - m \in 1..n /\ j - m \in 1..n
      BY <1>9, <3>1
    <3>3. Order(r)[s[i - m]] <= Order(r)[s[j - m]]
      BY <1>5, <1>7, <3>1, <3>2
    <3> QED
      BY <1>10, <3>1, <3>3 DEF Before
  <2> QED
    BY <1>9, <2>1, <2>2, <2>3
<1>12. PartsOf(list, r, "extensions")
  <2> SUFFICES ASSUME NEW i \in 1..(m + n)
               PROVE  list[i].chart \in Extensions /\ list[i].action # "create"
    BY <1>6 DEF PartsOf
  <2>1. CASE i \in 1..m
    BY <1>2, <1>8, <1>9, <1>10, <2>1
  <2>2. CASE i \in (m + 1)..(m + n)
    BY <1>2, <1>8, <1>9, <1>10, <2>2
  <2> QED
    BY <1>9, <2>1, <2>2
<1>13. ASSUME NEW e \in DOMAIN diffExtensions(r) PROVE Holds(list, e)
  <2>1. CASE e \in Removed(r)
    <3>1. PICK i \in 1..m : u[i] = e
      BY <1>4, <1>7, <2>1
    <3>2. m - i + 1 \in 1..m /\ m - i + 1 \in 1..(m + n) /\ m - (m - i + 1) + 1 = i
      BY <1>9
    <3>3. list[m - i + 1].chart = u[m - (m - i + 1) + 1]
      BY <1>10, <3>2
    <3> QED
      BY <1>6, <3>1, <3>2, <3>3 DEF Holds
  <2>2. CASE e \in others
    <3>1. PICK i \in 1..n : s[i] = e
      BY <1>5, <1>7, <2>2
    <3>2. m + i \in (m + 1)..(m + n) /\ m + i \in 1..(m + n) /\ (m + i) - m = i
      BY <1>9
    <3>3. list[m + i].chart = s[(m + i) - m]
      BY <1>10, <3>2
    <3> QED
      BY <1>6, <3>1, <3>2, <3>3 DEF Holds
  <2> QED
    BY <1>2, <2>1, <2>2
<1> QED
  BY <1>11, <1>12, <1>13

(* The list of an install has every extension of the first release.       *)
LEMMA InstallListComplete ==
  ASSUME NEW list \in InstallList
  PROVE  PartsOf(list, 0, "extensions") /\ \A e \in ExtensionsOf(0) : Holds(list, e)
<1>1. PICK s \in Sorted(ExtensionsOf(0), InstallOrder) : list = As("create", s)
  BY DEF InstallList
<1>2. 0 \in Releases /\ ExtensionsOf(0) \subseteq Extensions
  BY ExtensionNames, ReleasesAssumption DEF Releases
<1>3. s \in Seq(ExtensionsOf(0)) /\ \A e \in ExtensionsOf(0) : \E i \in DOMAIN s : s[i] = e
  BY <1>1, <1>2, SortedHasAll
<1>4. /\ \A i \in DOMAIN s : s[i] \in ExtensionsOf(0)
      /\ DOMAIN list = DOMAIN s
      /\ \A i \in DOMAIN s : list[i] = [chart |-> s[i], action |-> "create"]
  BY <1>1, <1>3 DEF As
<1> QED
  BY <1>2, <1>3, <1>4 DEF PartsOf, Holds

(* So do the lists of add-ons.                                            *)
LEMMA AddOnParts ==
  ASSUME NEW names \in Seq(AddOns), NEW action, NEW r, action = "create" <=> r = 0
  PROVE  PartsOf(As(action, names), r, "addons")
<1>1. /\ \A i \in DOMAIN names : names[i] \in AddOns
      /\ DOMAIN As(action, names) = DOMAIN names
      /\ \A i \in DOMAIN names : As(action, names)[i] = [chart |-> names[i], action |-> action]
  BY DEF As
<1> QED
  BY <1>1 DEF PartsOf

LEMMA UpgradeAddOnParts ==
  ASSUME NEW r, r # 0
  PROVE  /\ PartsOf(As("upgrade", getAddOnsForUpgrade(r)), r, "addons")
         /\ ha /\ AirGap => Holds(As("upgrade", getAddOnsForUpgrade(r)), "seaweedfs")
<1>1. {"openebs", "embedded-cluster-operator", "registry", "velero", "admin-console",
       "seaweedfs"} \subseteq AddOns
  BY DEF AddOns
<1>2. getAddOnsForUpgrade(r) \in Seq(AddOns)
  <2>1. (IF AirGap /\ ha THEN <<"seaweedfs">> ELSE <<>>) \in Seq(AddOns)
    BY <1>1
  <2> QED
    BY <1>1, <2>1, AddOnLists DEF getAddOnsForUpgrade
<1>3. ASSUME ha, AirGap PROVE Holds(As("upgrade", getAddOnsForUpgrade(r)), "seaweedfs")
  <2> DEFINE front == <<"openebs", "embedded-cluster-operator">> \o <<"registry">>
             back == IF r \in Recovery THEN <<"velero">> ELSE <<>>
             last == <<"admin-console">>
  <2>1. getAddOnsForUpgrade(r) = ((front \o <<"seaweedfs">>) \o back) \o last
    BY <1>3 DEF getAddOnsForUpgrade
  <2>2. /\ front \in Seq(AddOns) /\ back \in Seq(AddOns) /\ last \in Seq(AddOns)
        /\ <<"seaweedfs">> \in Seq(AddOns)
    BY <1>1, AddOnLists
  <2>3. Len(front) \in Nat /\ Len(back) \in Nat /\ Len(last) \in Nat
    BY <2>2
  <2> DEFINE k == Len(front) + 1
  <2> HIDE DEF front, back, last
  <2>4. (front \o <<"seaweedfs">>)[k] = "seaweedfs" /\ k \in 1..Len(front \o <<"seaweedfs">>)
        /\ front \o <<"seaweedfs">> \in Seq(AddOns)
    BY <2>2, <2>3
  <2> DEFINE a == front \o <<"seaweedfs">>
  <2> HIDE DEF a
  <2>5. (a \o back)[k] = "seaweedfs" /\ k \in 1..Len(a \o back) /\ a \o back \in Seq(AddOns)
    BY <2>2, <2>4 DEF a
  <2> DEFINE b == a \o back
  <2> HIDE DEF b
  <2>6. (b \o last)[k] = "seaweedfs" /\ k \in DOMAIN (b \o last)
    BY <2>2, <2>5 DEF b
  <2>7. getAddOnsForUpgrade(r)[k] = "seaweedfs" /\ k \in DOMAIN getAddOnsForUpgrade(r)
    BY <2>1, <2>6 DEF a, b
  <2> QED
    BY <2>7 DEF Holds, As
<1> QED
  BY <1>2, <1>3, AddOnParts

(* What a step does to the list.                                          *)
Moves ==
    \/ UNCHANGED <<rel, stage, todo>>
    \/ /\ Working /\ todo # <<>> /\ todo' = Tail(todo) /\ UNCHANGED <<rel, stage>>
       /\ cond'[Chart] = "True" \/ Action = "create"
       /\ step = "record" \/ cond[Chart] = "True"
    \/ /\ todo' = <<>> /\ stage' \in {"ended", "waiting"} /\ rel' = rel
       /\ rel = 0 => stage' = "ended"

LEMMA ListMoves ==
  ASSUME IInv, [Next]_vars PROVE Moves \/ AddOnsDone \/ Retry \/ StartUpgrade
<1>1. NextAttempt /\ rel' = rel => Moves
  BY DEF NextAttempt, Moves
<1>2. CASE Skip \/ markAsProcessed
  <2>1. Working /\ todo # <<>> /\ todo' = Tail(todo) /\ UNCHANGED <<rel, stage>>
    BY <1>2 DEF Skip, markAsProcessed, At
  <2>2. Chart \in Charts /\ cond \in [Charts -> Status]
    BY <2>1, HandTypes DEF IInv, Safe, TypeOK
  <2>3. cond'[Chart] = "True" \/ Action = "create"
    BY <1>2, <2>2 DEF Skip, AlreadyProcessed, markAsProcessed, Set
  <2>4. step = "record" \/ cond[Chart] = "True"
    BY <1>2 DEF Skip, AlreadyProcessed, markAsProcessed, At
  <2> QED
    BY <2>1, <2>3, <2>4 DEF Moves
<1>3. CASE ExtensionsDone
  BY <1>3 DEF ExtensionsDone, Moves
<1>4. CASE Faults \/ HelmRefuses
  BY <1>1, <1>4 DEF Faults, HelmRefuses, ScaleDownTimesOut, CannotBegin, HelmFails, CannotRecord,
     Killed, ChartFails, AttemptFails
<1>5. CASE \/ markAsProcessing \/ Satisfied \/ Prepares \/ ScaleDown \/ ScaledDown \/ HelmBegins
           \/ HelmSucceeds \/ MastersSettle \/ EnableHA \/ UNCHANGED vars
  BY <1>5 DEF markAsProcessing, Satisfied, Prepares, ScaleDown, ScaledDown, HelmBegins,
     HelmSucceeds, MastersSettle, EnableHA, vars, process, Moves
<1> QED
  BY <1>2, <1>3, <1>4, <1>5 DEF Next, Step

LEMMA Tails ==
  ASSUME WorkInv, todo # <<>>
  PROVE  /\ 1 \in DOMAIN todo /\ todo[1] = Head(todo)
         /\ \A i \in DOMAIN Tail(todo) : i + 1 \in DOMAIN todo /\ Tail(todo)[i] = todo[i + 1]
         /\ \A i \in DOMAIN todo : i # 1 => i > 1 /\ i - 1 \in DOMAIN Tail(todo)
                                            /\ Tail(todo)[i - 1] = todo[i]
         /\ DOMAIN Tail(todo) \subseteq Nat
<1>1. /\ todo \in Seq(Items) /\ Len(todo) \in Nat /\ Len(todo) >= 1 /\ DOMAIN todo = 1..Len(todo)
      /\ Tail(todo) \in Seq(Items) /\ Len(Tail(todo)) = Len(todo) - 1
      /\ DOMAIN Tail(todo) = 1..(Len(todo) - 1)
      /\ \A i \in 1..(Len(todo) - 1) : Tail(todo)[i] = todo[i + 1]
      /\ todo[1] = Head(todo)
  BY DEF WorkInv, AreRight
<1>2. \A i \in 1..(Len(todo) - 1) : i + 1 \in 1..Len(todo)
  BY <1>1
<1>3. \A i \in 1..Len(todo) : i # 1 => i > 1 /\ i - 1 \in 1..(Len(todo) - 1) /\ (i - 1) + 1 = i
  BY <1>1
<1> QED
  BY <1>1, <1>2, <1>3

(* An entry is the one at hand or is behind it.                           *)
LEMMA HeldBehind ==
  ASSUME WorkInv, todo # <<>>, NEW c, Holds(todo, c), c # Chart PROVE Holds(Tail(todo), c)
<1>1. PICK i \in DOMAIN todo : todo[i].chart = c
  BY DEF Holds
<1>2. i # 1
  BY <1>1, Tails DEF Chart
<1>3. i - 1 \in DOMAIN Tail(todo) /\ Tail(todo)[i - 1] = todo[i]
  BY <1>2, Tails
<1> QED
  BY <1>1, <1>3 DEF Holds

LEMMA OrderedBehind ==
  ASSUME WorkInv, todo # <<>>, NEW r, Ordered(todo, r) PROVE Ordered(Tail(todo), r)
<1> SUFFICES ASSUME NEW i \in DOMAIN Tail(todo), NEW j \in DOMAIN Tail(todo), i < j
             PROVE  Before(Tail(todo)[i], Tail(todo)[j], r)
  BY DEF Ordered
<1>1. i + 1 \in DOMAIN todo /\ j + 1 \in DOMAIN todo /\ i + 1 < j + 1
  BY Tails
<1>2. Tail(todo)[i] = todo[i + 1] /\ Tail(todo)[j] = todo[j + 1]
  BY Tails
<1> QED
  BY <1>1, <1>2 DEF Ordered

LEMMA PartsBehind ==
  ASSUME WorkInv, todo # <<>>, NEW r, NEW part, PartsOf(todo, r, part)
  PROVE  PartsOf(Tail(todo), r, part)
<1>1. \A i \in DOMAIN Tail(todo) : i + 1 \in DOMAIN todo /\ Tail(todo)[i] = todo[i + 1]
  BY Tails
<1> QED
  BY <1>1 DEF PartsOf

LEMMA NoParts == ASSUME NEW r, NEW part PROVE PartsOf(<<>>, r, part)
  BY DEF PartsOf

LEMMA ListInit == Init => ListInv
<1> SUFFICES ASSUME Init PROVE ListInv
  OBVIOUS
<1>1. {"openebs", "embedded-cluster-operator", "registry", "velero",
       "admin-console"} \subseteq AddOns
  BY DEF AddOns
<1>2. getAddOnsForInstall(0) \in Seq(AddOns)
  BY <1>1, AddOnLists DEF getAddOnsForInstall
<1> QED
  BY <1>2, AddOnParts DEF Init, ListInv, PartInv, OrderInv

LEMMA ListStep == ASSUME IInv, ListInv, [Next]_vars PROVE ListInv'
<1> USE DEF ListInv, PartInv, OrderInv
<1>1. WorkInv /\ WorkInv' /\ rel \in Nat /\ Kept
  BY Step1, ReleasesAssumption DEF IInv, Safe, TypeOK, Releases
<1>2. ASSUME rel' = rel, NEW e \in DOMAIN diffExtensions(rel), rel > 0, cond[e] = "True"
      PROVE  cond'[e] = "True"
  <2>1. rel \in Releases \ {0}
    BY <1>2 DEF IInv, TypeOK
  <2>2. e \in Charts
    BY <1>2, <2>1, DiffTypes DEF Charts
  <2> QED
    BY <1>1, <1>2, <2>2 DEF Kept
<1>3. CASE UNCHANGED <<rel, stage, todo>>
  BY <1>2, <1>3
<1>4. CASE /\ Working /\ todo # <<>> /\ todo' = Tail(todo) /\ UNCHANGED <<rel, stage>>
           /\ cond'[Chart] = "True" \/ Action = "create"
  <2>1. PartInv'
    BY <1>1, <1>4, PartsBehind
  <2>2. ASSUME rel > 0, stage = "extensions" PROVE Ordered(Tail(todo), rel)
    BY <1>1, <1>4, <2>2, OrderedBehind
  <2>3. ASSUME rel > 0, stage = "extensions", NEW e \in DOMAIN diffExtensions(rel)
        PROVE  cond'[e] = "True" \/ Holds(Tail(todo), e)
    <3>1. CASE cond[e] = "True"
      BY <1>2, <1>4, <2>3, <3>1
    <3>2. CASE e = Chart
      BY <1>1, <1>4, <2>3, <3>2, Tails DEF PartsOf, Action
    <3>3. CASE cond[e] # "True" /\ e # Chart
      BY <1>1, <1>4, <2>3, <3>3, HeldBehind
    <3> QED
      BY <3>1, <3>2, <3>3
  <2> QED
    BY <1>4, <2>1, <2>2, <2>3
<1>5. CASE /\ todo' = <<>> /\ stage' \in {"ended", "waiting"} /\ rel' = rel
           /\ rel = 0 => stage' = "ended"
  BY <1>5, NoParts
<1>6. CASE AddOnsDone
  <2>1. UNCHANGED <<rel, cond>> /\ stage' = "extensions"
        /\ todo' \in IF rel = 0 THEN InstallList ELSE UpgradeList(rel)
    BY <1>6 DEF AddOnsDone
  <2>2. CASE rel = 0
    BY <2>1, <2>2, InstallListComplete
  <2>3. CASE rel # 0
    <3>1. rel \in Releases \ {0}
      BY <2>3 DEF IInv, TypeOK
    <3> QED
      BY <2>1, <2>3, <3>1, UpgradeListOrdered
  <2> QED
    BY <2>2, <2>3
<1>7. CASE Retry \/ StartUpgrade
  <2>1. stage' = "addons" /\ rel' \in Nat /\ rel' # 0
        /\ todo' = As("upgrade", getAddOnsForUpgrade(rel'))
    BY <1>1, <1>7 DEF Retry, StartUpgrade
  <2> QED
    BY <2>1, UpgradeAddOnParts
<1> QED
  BY <1>3, <1>4, <1>5, <1>6, <1>7, ListMoves DEF Moves

(* What helm is at comes no earlier than what is not done.                *)
LEMMA ListOrder == ASSUME IInv, ListInv PROVE InOrder
<1> SUFFICES ASSUME At("helm"), rel > 0, stage = "extensions",
                    NEW e \in DOMAIN diffExtensions(rel), cond[e] # "True"
             PROVE  LET gone == diffExtensions(rel)[e] = "Uninstall" IN
                    \/ Action # "Uninstall" /\ ~gone /\ Order(rel)[e] >= Order(rel)[Chart]
                    \/ Action = "Uninstall" /\ (gone => Order(rel)[e] <= Order(rel)[Chart])
  BY DEF InOrder
<1>1. WorkInv /\ rel \in Releases \ {0} /\ todo # <<>>
  BY DEF IInv, Safe, TypeOK, At
<1>2. PICK i \in DOMAIN todo : todo[i].chart = e
  BY DEF ListInv, OrderInv, Holds
<1>3. e \in Extensions /\ Order(rel)[e] \in Nat
  BY <1>1, DiffTypes
<1>4. todo[i].action = diffExtensions(rel)[e]
  BY <1>1, <1>2, <1>3 DEF WorkInv, AreRight, IsRight, ListInv, PartInv, PartsOf
<1>5. CASE i = 1
  <2>1. Chart = e /\ Action = diffExtensions(rel)[e]
    BY <1>1, <1>2, <1>4, <1>5, Tails DEF Chart, Action
  <2> QED
    BY <1>3, <2>1
<1>6. CASE i # 1
  <2>1. i > 1 /\ 1 \in DOMAIN todo /\ todo[1] = Head(todo)
    BY <1>1, <1>6, Tails
  <2>2. Before(todo[1], todo[i], rel)
    BY <2>1 DEF ListInv, OrderInv, Ordered
  <2>3. Chart \in DOMAIN diffExtensions(rel)
    BY <1>1, <2>1, HandTypes DEF IsRight, Chart, Action, ListInv, PartInv, PartsOf
  <2>4. Order(rel)[Chart] \in Nat
    BY <1>1, <2>3, DiffTypes
  <2> QED
    BY <1>2, <1>3, <1>4, <2>1, <2>2, <2>4 DEF Before, Chart, Action
<1> QED
  BY <1>5, <1>6

(* The extension at hand.                                                 *)
LEMMA HandOfList ==
  ASSUME IInv, ListInv, Working, todo # <<>>
  PROVE  /\ Chart \in Charts
         /\ Action = "create" <=> rel = 0
         /\ Chart \in Extensions => stage = "extensions"
         /\ Chart \in Extensions /\ rel = 0 => Chart \in ExtensionsOf(0)
         /\ Chart \in Extensions /\ rel # 0 =>
              /\ Chart \in DOMAIN diffExtensions(rel)
              /\ Action = diffExtensions(rel)[Chart] /\ Diff(Chart) = Action
         /\ Chart \in AddOns => Action \in {"create", "upgrade"}
<1>1. WorkInv
  BY DEF IInv, Safe
<1>2. 1 \in DOMAIN todo /\ todo[1] = Head(todo)
  BY <1>1, Tails
<1>3. Chart \in Charts /\ IsRight(Head(todo), rel, ha)
  BY <1>1, HandTypes
<1>4. /\ Action = "create" <=> rel = 0
      /\ stage = "addons" => Chart \in AddOns
      /\ stage = "extensions" /\ rel = 0 => Chart \in ExtensionsOf(0)
  BY <1>2 DEF ListInv, PartInv, PartsOf, Chart, Action
<1> QED
  BY <1>3, <1>4, Names DEF IsRight, Chart, Action, Working, Diff

(* What is deployed has a version.                                        *)
LEMMA WantedAtHand ==
  ASSUME IInv, ListInv, Working, todo # <<>>, Action # "Uninstall"
  PROVE  VersionOf(rel, Chart) # None
<1>1. rel \in Releases /\ rel \in Nat /\ None \notin Nat
  BY NamesAssumption, ReleasesAssumption DEF IInv, TypeOK, Releases
<1>2. CASE Chart \in AddOns
  BY <1>1, <1>2 DEF VersionOf
<1>3. CASE Chart \in Extensions
  <2>1. Chart \in ExtensionsOf(rel)
    <3>1. CASE rel = 0
      BY <1>3, <3>1, HandOfList
    <3>2. CASE rel # 0
      BY <1>3, <3>2, HandOfList DEF diffExtensions
    <3> QED
      BY <3>1, <3>2
  <2>2. ConfigOf[rel][Chart].version \in Nat
    BY <1>1, <2>1, ConfigAssumption DEF ExtensionsOf
  <2> QED
    BY <1>1, <1>3, <2>1, <2>2, Names DEF VersionOf
<1>4. Chart \in Charts
  BY HandOfList
<1> QED
  BY <1>2, <1>3, <1>4, Names

(* What a step does to what helm has.                                     *)
LEMMA HelmMoves ==
  ASSUME IInv, [Next]_vars
  PROVE  HelmBegins \/ HelmSucceeds \/ HelmFails \/ EnableHA \/ helm' = helm
  BY DEF Next, Step, Faults, Skip, markAsProcessing, Satisfied, Prepares, ScaleDown, ScaledDown,
     HelmRefuses, markAsProcessed, AddOnsDone, ExtensionsDone, Retry, MastersSettle,
     ScaleDownTimesOut, CannotBegin, CannotRecord, Killed, StartUpgrade, vars

LEMMA HelmFailsTo ==
  ASSUME IInv, HelmFails
  PROVE  /\ Chart \in Charts /\ helm'[Chart].version = helm[Chart].version
         /\ \A c \in Charts \ {Chart} : helm'[c] = helm[c]
         /\ \/ helm'[Chart].state = "failed"
            \/ helm'[Chart].state = "deployed" /\ helm[Chart].version # None
            \/ helm'[Chart] = helm[Chart]
<1>1. PICK left \in LeftByFailure(Chart) : helm' = [helm EXCEPT ![Chart] = left]
  BY DEF HelmFails
<1>2. Chart \in Charts /\ helm \in [Charts -> Helms]
  BY HandTypes, Typed DEF HelmFails, At, IInv, Safe, ClusterTypes
<1>3. helm[Chart] \in Helms
  BY <1>2
<1>4. /\ left.version = helm[Chart].version
      /\ left.state = "failed" \/ left = helm[Chart] \/ (left.state = "deployed" /\ helm[Chart].version # None)
  BY <1>1, <1>3 DEF LeftByFailure, Deployed, Helms
<1> QED
  BY <1>1, <1>2, <1>4

LEMMA HelmBeginsTo ==
  ASSUME IInv, HelmBegins
  PROVE  /\ Chart \in Charts /\ helm'[Chart].version = helm[Chart].version
         /\ helm'[Chart].state = Operation /\ Operation \in Pending
         /\ \A c \in Charts \ {Chart} : helm'[c] = helm[c]
<1>1. Chart \in Charts /\ helm \in [Charts -> Helms]
  BY HandTypes, Typed DEF HelmBegins, Ready, At, IInv, Safe, ClusterTypes
<1>2. helm[Chart] \in Helms
  BY <1>1
<1>3. helm' = [helm EXCEPT ![Chart].state = Operation] /\ Operation \in Pending
  BY DEF HelmBegins, Operation, Pending
<1> QED
  BY <1>1, <1>2, <1>3 DEF Helms

LEMMA HelmSucceedsTo ==
  ASSUME IInv, HelmSucceeds
  PROVE  /\ Chart \in Charts /\ \A c \in Charts \ {Chart} : helm'[c] = helm[c]
         /\ helm'[Chart] = IF Action = "Uninstall" THEN NotDeployed
                           ELSE Deployed(VersionOf(rel, Chart))
<1>1. Chart \in Charts /\ helm \in [Charts -> Helms]
  BY HandTypes, Typed DEF HelmSucceeds, At, IInv, Safe, ClusterTypes
<1> QED
  BY <1>1 DEF HelmSucceeds

LEMMA EnableHATo ==
  ASSUME IInv, EnableHA
  PROVE  /\ \A c \in Charts \ {"seaweedfs"} : helm'[c] = helm[c]
         /\ helm'["seaweedfs"] = Deployed(rel)
<1>1. helm \in [Charts -> Helms] /\ "seaweedfs" \in Charts
  BY Names, Typed DEF IInv, ClusterTypes
<1> QED
  BY <1>1, Names DEF EnableHA, VersionOf

LEMMA HelmStep ==
  ASSUME IInv, ListInv, HelmInv, [Next]_vars PROVE HelmInv'
<1> USE DEF HelmInv
<1>1. CASE HelmBegins
  BY <1>1, HelmBeginsTo DEF Pending
<1>2. CASE HelmSucceeds
  <2>1. Working /\ todo # <<>>
    BY <1>2 DEF HelmSucceeds, At
  <2> QED
    BY <1>2, <2>1, HelmSucceedsTo, WantedAtHand DEF Deployed, NotDeployed
<1>3. CASE HelmFails
  BY <1>3, HelmFailsTo
<1>4. CASE EnableHA
  <2>1. rel # None
    BY NamesAssumption, ReleasesAssumption DEF IInv, TypeOK, Releases
  <2> QED
    BY <1>4, <2>1, EnableHATo DEF Deployed
<1>5. CASE helm' = helm
  BY <1>5
<1> QED
  BY <1>1, <1>2, <1>3, <1>4, <1>5, HelmMoves

LEMMA ActionStep ==
  ASSUME IInv, ListInv, ActionInv, [Next]_vars PROVE ActionInv'
<1> USE DEF ActionInv
<1>1. CASE Prepares
  BY <1>1 DEF Prepares, NothingToDo, Action
<1>2. CASE ScaleDown \/ ScaledDown \/ HelmBegins
  BY <1>2 DEF ScaleDown, ScaledDown, HelmBegins, Ready, At, Action
<1>3. CASE \/ Skip \/ markAsProcessed \/ markAsProcessing \/ Satisfied \/ HelmSucceeds
           \/ Faults \/ HelmRefuses
  <2>1. step' \in {"next", "act", "record"}
    BY <1>3 DEF Skip, markAsProcessed, markAsProcessing, Satisfied, HelmSucceeds, Faults,
       HelmRefuses, ScaleDownTimesOut, CannotBegin, HelmFails, CannotRecord, Killed, ChartFails,
       AttemptFails, NextAttempt, At
  <2> QED
    BY <2>1
<1>4. CASE AddOnsDone \/ ExtensionsDone \/ Retry \/ StartUpgrade
  <2>1. step' = "next"
    BY <1>4 DEF AddOnsDone, ExtensionsDone, Retry, StartUpgrade, IInv, Safe, StageInv, Working
  <2> QED
    BY <2>1
<1>5. CASE EnableHA \/ MastersSettle \/ UNCHANGED vars
  BY <1>5 DEF EnableHA, MastersSettle, vars, process, Action
<1> QED
  BY <1>1, <1>2, <1>3, <1>4, <1>5 DEF Next, Step

(* What a step does to the outcomes.                                      *)
LEMMA OutcomeMoves ==
  ASSUME IInv, [Next]_vars
  PROVE  \/ ExtensionsDone \/ StartUpgrade
         \/ /\ rel' = rel
            /\ \/ outcome' = outcome
               \/ outcome' = [outcome EXCEPT ![rel] = "Failed"]
            /\ stage' = stage \/ stage # "ended"
<1>1. AttemptFails => \/ outcome' = outcome
                      \/ outcome' = [outcome EXCEPT ![rel] = "Failed"]
  BY DEF AttemptFails, MarkFailed
<1>2. CASE Faults \/ HelmRefuses
  BY <1>1, <1>2 DEF Faults, HelmRefuses, ScaleDownTimesOut, CannotBegin, HelmFails, CannotRecord,
     Killed, ChartFails, At, Ready, Working
<1>3. CASE \/ Skip \/ markAsProcessed \/ markAsProcessing \/ Satisfied \/ Prepares \/ ScaleDown
           \/ ScaledDown \/ HelmBegins \/ HelmSucceeds \/ MastersSettle \/ EnableHA \/ UNCHANGED vars
  BY <1>3 DEF Skip, markAsProcessed, markAsProcessing, Satisfied, Prepares, ScaleDown, ScaledDown,
     HelmBegins, HelmSucceeds, MastersSettle, EnableHA, vars, process
<1>4. CASE AddOnsDone \/ Retry
  BY <1>4 DEF AddOnsDone, Retry
<1> QED
  BY <1>2, <1>3, <1>4 DEF Next, Step

LEMMA OutcomeStep ==
  ASSUME IInv, OutcomeInv, [Next]_vars
  PROVE  /\ OutcomeInv'
         /\ \A r \in Releases : r < rel => outcome'[r] = outcome[r]
<1>1. rel \in Releases /\ rel \in Nat /\ Releases \subseteq Nat /\ outcome \in [Releases -> Outcomes]
  BY ReleasesAssumption DEF IInv, TypeOK, Releases
<1>2. CASE ExtensionsDone
  <2>1. rel' = rel /\ stage' = "ended" /\ outcome' = [outcome EXCEPT ![rel] = "Installed"]
    BY <1>2 DEF ExtensionsDone
  <2> QED
    BY <1>1, <2>1 DEF OutcomeInv
<1>3. CASE StartUpgrade
  <2>1. rel' = rel + 1 /\ rel' \in Releases /\ outcome' = [outcome EXCEPT ![rel + 1] = "Installing"]
    BY <1>1, <1>3, ReleasesAssumption DEF StartUpgrade, Releases
  <2> QED
    BY <1>1, <2>1 DEF OutcomeInv
<1>4. CASE /\ rel' = rel
           /\ outcome' = outcome \/ outcome' = [outcome EXCEPT ![rel] = "Failed"]
           /\ stage' = stage \/ stage # "ended"
  BY <1>1, <1>4 DEF OutcomeInv
<1> QED
  BY <1>2, <1>3, <1>4, OutcomeMoves

(* What a step does to the conditions of a release.                       *)
LEMMA CondMoves ==
  ASSUME IInv, [Next]_vars, NEW c \in Charts, rel' = rel, cond'[c] = "True", cond[c] # "True"
  PROVE  markAsProcessed /\ c = Chart /\ Action # "create"
<1>1. cond \in [Charts -> Status]
  BY DEF IInv, TypeOK
<1>2. CASE markAsProcessed
  BY <1>1, <1>2 DEF markAsProcessed, Set
<1>3. CASE Faults \/ HelmRefuses
  <2>1. cond' = cond \/ cond' = [cond EXCEPT ![Chart] = "Failed"]
    BY <1>3 DEF Faults, HelmRefuses, ScaleDownTimesOut, CannotBegin, HelmFails, CannotRecord,
       Killed, ChartFails, Set
  <2> QED
    BY <1>1, <2>1
<1>4. CASE markAsProcessing
  BY <1>1, <1>4 DEF markAsProcessing, Set
<1>5. CASE \/ Skip \/ Satisfied \/ Prepares \/ ScaleDown \/ ScaledDown \/ HelmBegins \/ HelmSucceeds
           \/ AddOnsDone \/ ExtensionsDone \/ Retry \/ MastersSettle \/ EnableHA \/ UNCHANGED vars
  BY <1>5 DEF Skip, Satisfied, Prepares, ScaleDown, ScaledDown, HelmBegins, HelmSucceeds,
     AddOnsDone, ExtensionsDone, Retry, MastersSettle, EnableHA, vars
<1>6. CASE StartUpgrade
  BY <1>6 DEF StartUpgrade, NewConditions
<1> QED
  BY <1>2, <1>3, <1>4, <1>5, <1>6 DEF Next, Step

(* How the chart at hand comes to be recorded.                            *)
LEMMA RecordMoves ==
  ASSUME IInv, [Next]_vars, todo' # <<>>, step' = "record"
  PROVE  \/ UNCHANGED <<rel, stage, todo, step>>
         \/ (HelmSucceeds \/ Satisfied) /\ UNCHANGED <<rel, stage, todo>>
<1>1. CASE Faults \/ HelmRefuses
  BY <1>1 DEF Faults, HelmRefuses, ScaleDownTimesOut, CannotBegin, HelmFails, CannotRecord,
     Killed, ChartFails, AttemptFails, NextAttempt
<1>2. CASE Skip \/ markAsProcessed \/ markAsProcessing \/ Prepares \/ ScaleDown \/ ScaledDown
           \/ HelmBegins
  BY <1>2 DEF Skip, markAsProcessed, markAsProcessing, Prepares, ScaleDown, ScaledDown, HelmBegins,
     At
<1>3. CASE AddOnsDone \/ ExtensionsDone \/ Retry \/ StartUpgrade
  BY <1>3 DEF AddOnsDone, ExtensionsDone, Retry, StartUpgrade, IInv, Safe, StageInv, Working
<1>4. CASE HelmSucceeds \/ Satisfied \/ EnableHA \/ MastersSettle \/ UNCHANGED vars
  BY <1>4 DEF HelmSucceeds, Satisfied, EnableHA, MastersSettle, vars, process
<1> QED
  BY <1>1, <1>2, <1>3, <1>4 DEF Next, Step

LEMMA RelMoves ==
  ASSUME IInv, [Next]_vars
  PROVE  /\ rel \in Releases /\ rel' \in Releases /\ rel \in Nat /\ Releases \subseteq Nat
         /\ rel' = rel \/ (StartUpgrade /\ rel' = rel + 1)
<1>1. rel \in Releases /\ rel' \in Releases /\ Releases \subseteq Nat
  BY Step1, ReleasesAssumption DEF IInv, TypeOK, Releases
<1> QED
  BY <1>1, OutcomeMoves DEF ExtensionsDone, StartUpgrade

LEMMA InstallInit == Init => InstallInv
<1> SUFFICES ASSUME Init PROVE InstallInv
  OBVIOUS
<1>1. Extensions \subseteq Charts
  BY Names
<1> QED
  BY <1>1 DEF Init, InstallInv

LEMMA InstallStep ==
  ASSUME IInv, ListInv, InstallInv, [Next]_vars PROVE InstallInv'
<1> SUFFICES ASSUME rel' = 0 PROVE InstallInv'
  BY DEF InstallInv
<1>1. rel = 0 /\ ~StartUpgrade
  BY RelMoves DEF StartUpgrade
<1>2. WorkInv /\ 0 \in Releases /\ ExtensionsOf(0) \subseteq Extensions
  BY ExtensionNames, ReleasesAssumption DEF IInv, Safe, Releases
<1>3. \A c \in Charts : cond'[c] = "none"
  <2>1. \A c \in Charts : cond[c] = "none"
    BY <1>1 DEF InstallInv
  <2>2. todo # <<>> /\ Working => Action = "create"
    BY <1>1, HandOfList
  <2>3. cond' = cond
    BY <1>1, <2>2 DEF Next, Step, Faults, Skip, markAsProcessing, Satisfied, Prepares, ScaleDown,
       ScaledDown, HelmBegins, HelmRefuses, HelmSucceeds, HelmFails, markAsProcessed, AddOnsDone,
       ExtensionsDone, Retry, MastersSettle, ScaleDownTimesOut, CannotBegin, CannotRecord, Killed,
       EnableHA, vars, ChartFails, At, Ready
  <2> QED
    BY <2>1, <2>3
<1>4. ASSUME NEW e \in Extensions, helm'[e] # helm[e]
      PROVE  /\ stage = "extensions" /\ e \in ExtensionsOf(0) /\ todo # <<>> /\ e = Chart
             /\ UNCHANGED <<stage, todo>> \/ stage' \in {"ended", "waiting"}
  <2>1. e \in Charts /\ e # "seaweedfs"
    BY Names
  <2>2. (HelmBegins \/ HelmSucceeds \/ HelmFails) /\ e = Chart
    BY <1>4, <2>1, HelmMoves, HelmBeginsTo, HelmSucceedsTo, HelmFailsTo, EnableHATo
  <2>3. /\ Working /\ todo # <<>>
        /\ UNCHANGED <<stage, todo>> \/ stage' \in {"ended", "waiting"}
    BY <2>2 DEF HelmBegins, HelmSucceeds, HelmFails, Ready, At, ChartFails, AttemptFails, NextAttempt
  <2> QED
    BY <1>1, <2>2, <2>3, HandOfList
<1>5. ASSUME NEW e \in Extensions, stage' = "addons" \/ e \notin ExtensionsOf(0)
      PROVE  helm'[e] = NotDeployed
  <2>1. stage' = "addons" => stage = "addons"
    BY <1>1, ListMoves DEF Moves, AddOnsDone, Retry, ListInv, PartInv
  <2>2. helm[e] = NotDeployed
    BY <1>1, <1>5, <2>1 DEF InstallInv
  <2>3. helm'[e] = helm[e]
    BY <1>4, <1>5, <2>1
  <2> QED
    BY <2>2, <2>3
<1>6. ASSUME NEW e \in Extensions, stage' = "extensions", e \in ExtensionsOf(0)
      PROVE  Holds(todo', e) \/ helm'[e].version = VersionOf(0, e)
  <2>1. CASE AddOnsDone
    <3>1. todo' \in InstallList
      BY <1>1, <2>1 DEF AddOnsDone
    <3> QED
      BY <1>6, <3>1, InstallListComplete
  <2>2. CASE UNCHANGED <<rel, stage, todo>>
    <3>1. CASE helm'[e] = helm[e]
      BY <1>1, <1>6, <2>2, <3>1 DEF InstallInv
    <3>2. CASE helm'[e] # helm[e]
      <4>1. e = Chart /\ todo # <<>>
        BY <1>4, <3>2
      <4> QED
        BY <1>2, <2>2, <4>1, Tails DEF Holds, Chart
    <3> QED
      BY <3>1, <3>2
  <2>3. CASE /\ Working /\ todo # <<>> /\ todo' = Tail(todo) /\ UNCHANGED <<rel, stage>>
             /\ step = "record" \/ cond[Chart] = "True"
    <3>1. helm'[e] = helm[e]
      <4>1. Tail(todo) # todo
        <5>1. todo \in Seq(Items) /\ Len(Tail(todo)) = Len(todo) - 1 /\ Len(todo) \in Nat
          BY <1>2, <2>3 DEF WorkInv, AreRight
        <5> QED
          BY <5>1
      <4> QED
        BY <1>4, <1>6, <2>3, <4>1
    <3>2. CASE helm[e].version = VersionOf(0, e)
      BY <3>1, <3>2
    <3>3. CASE Holds(todo, e) /\ e # Chart
      BY <1>2, <2>3, <3>3, HeldBehind
    <3>4. CASE e = Chart
      <4>1. step = "record"
        BY <1>1, <2>3, HandOfList DEF InstallInv
      <4> QED
        BY <1>1, <1>6, <2>3, <3>1, <3>4, <4>1 DEF InstallInv
    <3> QED
      BY <1>1, <1>6, <2>3, <3>2, <3>3, <3>4 DEF InstallInv
  <2> QED
    BY <1>1, <1>6, <2>1, <2>2, <2>3, ListMoves DEF Moves, Retry, ListInv, PartInv
<1>7. ASSUME stage' = "extensions", step' = "record"
      PROVE  helm'[Chart'].version = VersionOf(0, Chart')
  <2>1. todo' # <<>>
    BY <1>7, Step1 DEF IInv, Safe, StageInv
  <2>2. CASE UNCHANGED <<rel, stage, todo, step>>
    <3>1. Chart' = Chart /\ Chart \in Extensions
      BY <1>1, <1>2, <1>7, <2>1, <2>2, Tails DEF Chart, ListInv, PartInv, PartsOf
    <3>2. helm[Chart].version = VersionOf(0, Chart)
      BY <1>1, <1>7, <2>2 DEF InstallInv
    <3>3. ~HelmBegins /\ ~HelmSucceeds /\ ~HelmFails
      BY <1>7, <2>2 DEF HelmBegins, HelmSucceeds, HelmFails, At, Ready
    <3>4. helm'[Chart] = helm[Chart]
      BY <3>1, <3>3, Names, HelmMoves, EnableHATo
    <3> QED
      BY <3>1, <3>2, <3>4
  <2>3. CASE (HelmSucceeds \/ Satisfied) /\ UNCHANGED <<rel, stage, todo>>
    <3>1. Chart' = Chart /\ Action = "create"
      BY <1>1, <1>7, <2>1, <2>3, HandOfList DEF Chart, Working
    <3>2. HelmSucceeds
      BY <2>3, <3>1 DEF Satisfied, NothingToDo
    <3> QED
      BY <1>1, <3>1, <3>2, HelmSucceedsTo DEF Deployed
  <2> QED
    BY <1>7, <2>1, <2>2, <2>3, RecordMoves
<1> QED
  BY <1>1, <1>3, <1>5, <1>6, <1>7 DEF InstallInv

(* helm works on an extension of an upgrade only when its entry says so.  *)
LEMMA HelmOnExtension ==
  ASSUME IInv, ListInv, ActionInv, [Next]_vars, rel # 0, NEW e \in Extensions, helm'[e] # helm[e]
  PROVE  /\ HelmBegins \/ HelmSucceeds \/ HelmFails
         /\ Working /\ todo # <<>> /\ e = Chart /\ Diff(e) = Action
         /\ Action \in {"Install", "Upgrade", "Uninstall"}
<1>1. e \in Charts /\ e # "seaweedfs"
  BY Names
<1>2. (HelmBegins \/ HelmSucceeds \/ HelmFails) /\ e = Chart
  BY <1>1, HelmMoves, HelmBeginsTo, HelmSucceedsTo, HelmFailsTo, EnableHATo
<1>3. Working /\ todo # <<>> /\ step \in {"ready", "scaled", "helm"}
  BY <1>2 DEF HelmBegins, HelmSucceeds, HelmFails, Ready, At
<1>4. Action # "NoChange"
  BY <1>3 DEF ActionInv
<1>5. Chart \in DOMAIN diffExtensions(rel) /\ Action = diffExtensions(rel)[Chart] /\ Diff(Chart) = Action
  BY <1>2, <1>3, HandOfList
<1>6. rel \in Releases \ {0}
  BY DEF IInv, TypeOK
<1>7. Action \in {"Install", "Upgrade", "Uninstall", "NoChange"}
  BY <1>5, <1>6, DiffTypes
<1> QED
  BY <1>2, <1>3, <1>4, <1>5, <1>7

LEMMA UpgradeStep ==
  ASSUME IInv, ListInv, HelmInv, ActionInv, OutcomeInv, UpgradeInv, SoundInv, [Next]_vars
  PROVE  UpgradeInv'
<1> SUFFICES ASSUME rel' > 0, AllInstalled(rel - 1)', NEW e \in Extensions
             PROVE  /\ Diff(e)' = "NoChange" => Sound(rel - 1, e)'
                    /\ Diff(e)' = "Install" => (helm[e].version \in {None, VersionOf(rel, e)})'
  BY DEF UpgradeInv
<1>1. rel \in Releases /\ rel \in Nat /\ rel' \in Nat /\ rel' \in Releases
  BY RelMoves
<1>2. CASE rel' = rel
  <2>1. AllInstalled(rel - 1)
    <3>1. ASSUME NEW r \in 0..(rel - 1) PROVE outcome[r] = "Installed"
      <4>1. r \in Releases /\ r < rel
        BY <1>1, ReleasesAssumption DEF Releases
      <4>2. outcome'[r] = "Installed"
        BY <1>2 DEF AllInstalled
      <4> QED
        BY <4>1, <4>2, OutcomeStep
    <3> QED
      BY <3>1 DEF AllInstalled
  <2>2. /\ Diff(e) = "NoChange" => Sound(rel - 1, e)
        /\ Diff(e) = "Install" => helm[e].version \in {None, VersionOf(rel, e)}
    BY <1>1, <1>2, <2>1 DEF UpgradeInv
  <2>3. Diff(e)' = Diff(e)
    BY <1>2 DEF Diff
  <2>4. CASE helm'[e] = helm[e]
    BY <1>2, <2>2, <2>3, <2>4 DEF Sound
  <2>5. CASE helm'[e] # helm[e]
    <3>1. /\ HelmBegins \/ HelmSucceeds \/ HelmFails
          /\ Working /\ todo # <<>> /\ e = Chart /\ Diff(e) = Action
          /\ Action \in {"Install", "Upgrade", "Uninstall"}
      BY <1>1, <1>2, <2>5, HelmOnExtension
    <3>2. Diff(e) = "Install" =>
            helm'[e].version \in {helm[e].version, VersionOf(rel, e)}
      BY <3>1, HelmBeginsTo, HelmSucceedsTo, HelmFailsTo DEF Deployed
    <3> QED
      BY <1>2, <2>2, <2>3, <3>1, <3>2
  <2> QED
    BY <2>4, <2>5
<1>3. CASE StartUpgrade /\ rel' = rel + 1
  <2>1. helm' = helm /\ rel' - 1 = rel
    BY <1>1, <1>3 DEF StartUpgrade
  <2>2. AllInstalled(rel)
    <3>1. \A r \in 0..rel : outcome'[r] = "Installed"
      BY <1>1, <2>1 DEF AllInstalled
    <3>2. \A r \in 0..rel : r \in Releases /\ r # rel + 1
      BY <1>1, ReleasesAssumption DEF Releases
    <3>3. outcome' = [outcome EXCEPT ![rel + 1] = "Installing"] /\ outcome \in [Releases -> Outcomes]
      BY <1>3 DEF StartUpgrade, IInv, TypeOK
    <3> QED
      BY <3>1, <3>2, <3>3 DEF AllInstalled
  <2>3. Sound(rel, e)
    BY <2>2 DEF SoundInv
  <2>4. Diff(e)' = "Install" => e \notin ExtensionsOf(rel)
    <3>1. rel' \in Releases \ {0}
      BY <1>1
    <3>2. Diff(e)' = "Install" => e \in DOMAIN diffExtensions(rel') /\ diffExtensions(rel')[e] = "Install"
      BY DEF Diff
    <3> QED
      BY <2>1, <3>2 DEF diffExtensions
  <2>5. e \notin ExtensionsOf(rel) => helm[e].version = None
    BY <2>3, Names DEF Sound, VersionOf
  <2> QED
    BY <2>1, <2>3, <2>4, <2>5 DEF Sound
<1> QED
  BY <1>2, <1>3, RelMoves

LEMMA FoundStep ==
  ASSUME IInv, ListInv, ActionInv, FoundInv, [Next]_vars PROVE FoundInv'
<1> SUFFICES ASSUME rel' > 0, NEW e \in Extensions, Diff(e)' = "Install",
                    cond'[e] = "True" \/ (todo' # <<>> /\ Chart' = e /\ step' = "record")
             PROVE  ReleaseExists(e)'
  BY DEF FoundInv
<1>1. rel \in Releases /\ rel \in Nat /\ rel' \in Nat /\ e \in Charts
  BY RelMoves, Names
<1>2. CASE StartUpgrade
  BY <1>1, <1>2 DEF StartUpgrade, NewConditions, IInv, Safe, StageInv, Working
<1>3. CASE rel' = rel
  <2>1. Diff(e) = "Install" /\ rel > 0 /\ rel # 0
    BY <1>1, <1>3 DEF Diff
  <2>2. CASE cond'[e] = "True"
    <3>1. CASE cond[e] = "True"
      <4>1. ReleaseExists(e) /\ helm'[e] = helm[e]
        BY <1>1, <1>3, <2>1, <3>1, Step1 DEF FoundInv, Kept
      <4> QED
        BY <4>1 DEF ReleaseExists
    <3>2. CASE cond[e] # "True"
      <4>1. markAsProcessed /\ e = Chart
        BY <1>1, <1>3, <2>2, <3>2, CondMoves
      <4>2. ReleaseExists(e)
        BY <2>1, <4>1 DEF FoundInv, markAsProcessed, At
      <4> QED
        BY <4>1, <4>2 DEF markAsProcessed, ReleaseExists
    <3> QED
      BY <3>1, <3>2
  <2>3. CASE todo' # <<>> /\ Chart' = e /\ step' = "record"
    <3>1. CASE UNCHANGED <<rel, stage, todo, step>>
      <4>1. Chart = e /\ ReleaseExists(e)
        BY <2>1, <2>3, <3>1 DEF FoundInv, Chart
      <4>2. ~HelmBegins /\ ~HelmSucceeds /\ ~HelmFails
        BY <2>3, <3>1 DEF HelmBegins, HelmSucceeds, HelmFails, At, Ready
      <4>3. helm'[e] = helm[e]
        BY <2>1, <4>2, HelmOnExtension
      <4> QED
        BY <4>1, <4>3 DEF ReleaseExists
    <3>2. CASE (HelmSucceeds \/ Satisfied) /\ UNCHANGED <<rel, stage, todo>>
      <4>1. Chart = e /\ Working /\ todo # <<>>
        BY <2>3, <3>2 DEF Chart, HelmSucceeds, Satisfied, At
      <4>2. Action = "Install"
        BY <2>1, <4>1, HandOfList
      <4>3. CASE HelmSucceeds
        BY <4>1, <4>2, <4>3, HelmSucceedsTo DEF Deployed, ReleaseExists
      <4>4. CASE Satisfied
        BY <4>1, <4>2, <4>4 DEF Satisfied, NothingToDo, ReleaseExists
      <4> QED
        BY <3>2, <4>3, <4>4
    <3> QED
      BY <2>3, <3>1, <3>2, RecordMoves
  <2> QED
    BY <2>2, <2>3
<1> QED
  BY <1>2, <1>3, RelMoves

(* What is so when an upgrade, or the install, has come to its end.       *)
LEMMA SoundAtEnd ==
  ASSUME IInv, ListInv, CurrentInv, stage = "extensions", todo = <<>>,
         rel > 0 => AllInstalled(rel - 1), NEW e \in Extensions
  PROVE  Sound(rel, e)
<1>1. rel \in Releases /\ rel \in Nat /\ e \in Charts /\ e \notin AddOns
  BY Names, ReleasesAssumption DEF IInv, TypeOK, Releases
<1>2. ~Holds(todo, e)
  BY DEF Holds
<1>3. CASE rel = 0
  <2>1. CASE e \in ExtensionsOf(0)
    BY <1>2, <1>3, <2>1 DEF CurrentInv, InstallInv, Sound
  <2>2. CASE e \notin ExtensionsOf(0)
    BY <1>1, <1>3, <2>2 DEF CurrentInv, InstallInv, Sound, NotDeployed, VersionOf
  <2> QED
    BY <2>1, <2>2
<1>4. CASE rel # 0
  <2>1. rel \in Releases \ {0} /\ rel > 0
    BY <1>1, <1>4
  <2>2. e \in DOMAIN diffExtensions(rel) => cond[e] = "True"
    BY <1>2, <2>1 DEF ListInv, OrderInv
  <2>3. CASE e \notin ExtensionsOf(rel) /\ e \notin ExtensionsOf(rel - 1)
    <3>1. Diff(e) = "NoChange"
      BY <2>1, <2>3, DiffTypes DEF Diff
    <3>2. Sound(rel - 1, e)
      BY <2>1, <3>1 DEF CurrentInv, UpgradeInv
    <3> QED
      BY <1>1, <2>3, <3>2 DEF Sound, VersionOf
  <2>4. CASE e \in ExtensionsOf(rel) /\ e \in ExtensionsOf(rel - 1)
    <3>1. CASE ConfigOf[rel - 1][e] = ConfigOf[rel][e]
      <4>1. Diff(e) = "NoChange"
        BY <2>4, <3>1 DEF Diff, diffExtensions
      <4>2. Sound(rel - 1, e)
        BY <2>1, <4>1 DEF CurrentInv, UpgradeInv
      <4> QED
        BY <1>1, <2>4, <3>1, <4>2 DEF Sound, VersionOf
    <3>2. CASE ConfigOf[rel - 1][e] # ConfigOf[rel][e]
      <4>1. e \in DOMAIN diffExtensions(rel) /\ diffExtensions(rel)[e] = "Upgrade"
        BY <2>4, <3>2 DEF diffExtensions
      <4> QED
        BY <1>1, <2>2, <4>1 DEF IInv, Safe, ProcessedIsCurrent, Sound
    <3> QED
      BY <3>1, <3>2
  <2>5. CASE e \in ExtensionsOf(rel) /\ e \notin ExtensionsOf(rel - 1)
    <3>1. e \in DOMAIN diffExtensions(rel) /\ Diff(e) = "Install"
      BY <2>5 DEF Diff, diffExtensions
    <3>2. helm[e].version \in {None, VersionOf(rel, e)} /\ ReleaseExists(e)
      BY <2>1, <2>2, <3>1 DEF CurrentInv, UpgradeInv, FoundInv
    <3>3. helm[e].version = None => helm[e].state \in Pending \cup {"failed"}
      BY <1>1, <3>2 DEF CurrentInv, HelmInv, ReleaseExists, IInv, TypeOK
    <3> QED
      BY <2>5, <3>2, <3>3 DEF Sound
  <2>6. CASE e \notin ExtensionsOf(rel) /\ e \in ExtensionsOf(rel - 1)
    <3>1. e \in DOMAIN diffExtensions(rel) /\ diffExtensions(rel)[e] = "Uninstall"
      BY <2>6 DEF diffExtensions
    <3>2. helm[e].version = VersionOf(rel, e) \/ ~ReleaseExists(e)
      BY <1>1, <2>2, <3>1 DEF IInv, Safe, ProcessedIsCurrent
    <3>3. ~ReleaseExists(e) => helm[e].version = None
      BY <1>1 DEF CurrentInv, HelmInv, ReleaseExists
    <3> QED
      BY <1>1, <2>6, <3>2, <3>3 DEF Sound, VersionOf
  <2> QED
    BY <2>3, <2>4, <2>5, <2>6
<1> QED
  BY <1>3, <1>4

LEMMA SoundStep ==
  ASSUME IInv, ListInv, CurrentInv, [Next]_vars PROVE SoundInv'
<1> SUFFICES ASSUME AllInstalled(rel)', NEW e \in Extensions PROVE Sound(rel, e)'
  BY DEF SoundInv
<1>1. rel \in Releases /\ rel \in Nat /\ rel' \in Nat /\ rel' \in Releases /\ e \in Charts
  BY RelMoves, Names
<1>2. outcome \in [Releases -> Outcomes]
  BY DEF IInv, TypeOK
<1>3. ~StartUpgrade
  <2> SUFFICES ASSUME StartUpgrade PROVE FALSE
    OBVIOUS
  <2>1. rel' = rel + 1 /\ outcome' = [outcome EXCEPT ![rel + 1] = "Installing"]
    BY DEF StartUpgrade
  <2>2. outcome'[rel'] = "Installing"
    BY <1>1, <1>2, <2>1
  <2>3. outcome'[rel'] = "Installed"
    BY <1>1 DEF AllInstalled
  <2> QED
    BY <2>2, <2>3
<1>4. rel' = rel
  BY <1>3, RelMoves
<1>5. \A r \in 0..(rel - 1) : outcome[r] = "Installed"
  <2>1. \A r \in 0..(rel - 1) : r \in Releases /\ r < rel /\ r \in 0..rel
    BY <1>1, ReleasesAssumption DEF Releases
  <2>2. \A r \in 0..(rel - 1) : outcome'[r] = "Installed"
    BY <1>4, <2>1 DEF AllInstalled
  <2> QED
    BY <2>1, <2>2, OutcomeStep DEF CurrentInv
<1>6. CASE ExtensionsDone
  <2>1. stage = "extensions" /\ todo = <<>> /\ helm' = helm
    BY <1>6 DEF ExtensionsDone
  <2>2. AllInstalled(rel - 1)
    BY <1>5 DEF AllInstalled
  <2>3. Sound(rel, e)
    BY <2>1, <2>2, SoundAtEnd
  <2> QED
    BY <1>4, <2>1, <2>3 DEF Sound
<1>7. CASE ~ExtensionsDone
  <2>1. outcome'[rel] = "Installed"
    BY <1>1, <1>4 DEF AllInstalled
  <2>2. outcome[rel] = "Installed"
    BY <1>1, <1>2, <1>3, <1>7, <2>1, OutcomeMoves
  <2>3. stage = "ended"
    BY <2>2 DEF CurrentInv, OutcomeInv
  <2>4. Sound(rel, e)
    <3>1. \A r \in 0..rel : r \in 0..(rel - 1) \/ r = rel
      BY <1>1
    <3>2. AllInstalled(rel)
      BY <1>5, <2>2, <3>1 DEF AllInstalled
    <3> QED
      BY <3>2 DEF CurrentInv, SoundInv
  <2>5. ~HelmBegins /\ ~HelmSucceeds /\ ~HelmFails
    BY <2>3 DEF HelmBegins, HelmSucceeds, HelmFails, Ready, At, Working
  <2>6. helm'[e] = helm[e]
    BY <1>1, <2>5, Names, HelmMoves, EnableHATo
  <2> QED
    BY <1>4, <2>4, <2>6 DEF Sound
<1> QED
  BY <1>6, <1>7

LEMMA CurrentInit == Init => CurrentInv
<1> SUFFICES ASSUME Init PROVE CurrentInv
  OBVIOUS
<1>1. \A c \in Charts : helm[c] = NotDeployed
  BY DEF Init
<1>2. 0 \in Releases /\ Releases \subseteq Nat /\ rel = 0
  BY ReleasesAssumption DEF Init, Releases
<1>3. HelmInv
  BY <1>1 DEF HelmInv, NotDeployed
<1>4. OutcomeInv
  BY <1>2 DEF OutcomeInv, Init
<1>5. SoundInv
  BY <1>2 DEF SoundInv, AllInstalled, Init
<1> QED
  BY <1>2, <1>3, <1>4, <1>5, InstallInit DEF CurrentInv, ActionInv, UpgradeInv, FoundInv, Init

LEMMA CurrentStep ==
  ASSUME IInv, ListInv, CurrentInv, [Next]_vars PROVE CurrentInv'
<1>1. HelmInv' /\ ActionInv' /\ OutcomeInv' /\ InstallInv'
  BY HelmStep, ActionStep, OutcomeStep, InstallStep DEF CurrentInv
<1>2. UpgradeInv' /\ FoundInv' /\ SoundInv'
  BY UpgradeStep, FoundStep, SoundStep DEF CurrentInv
<1> QED
  BY <1>1, <1>2 DEF CurrentInv

-----------------------------------------------------------------------------
(* seaweedfs at hand.                                                      *)
LEMMA SeaweedAtHand ==
  ASSUME IInv, ListInv, HAInv, Working, todo # <<>>, Chart = "seaweedfs"
  PROVE  /\ ha /\ rel > 0 /\ rel \in Nat /\ stage = "addons"
         /\ Action = "upgrade" /\ Operation = "upgrading"
         /\ step = "next" \/ cond["seaweedfs"] # "True"
         /\ VersionOf(rel, Chart) = rel
<1>1. ha /\ rel \in Nat
  BY HandTypes, ReleasesAssumption DEF IInv, Safe, TypeOK, Releases
<1>2. rel # 0
  BY <1>1 DEF HAInv, Working
<1>3. Action = "upgrade"
  BY <1>2, HandOfList, Names
<1>4. stage = "addons"
  <2>1. WorkInv
    BY DEF IInv, Safe
  <2>2. stage = "extensions" => Chart \in Extensions
    BY <2>1, Tails DEF ListInv, PartInv, PartsOf, Chart
  <2> QED
    BY <2>2, Names DEF Working
<1>5. Operation = "upgrading"
  BY <1>1, <1>3 DEF Operation, ReleaseExists, HAInv
<1>6. step = "next" \/ cond["seaweedfs"] # "True"
  BY DEF IInv, Safe, HandInv
<1>7. VersionOf(rel, Chart) = rel
  BY Names DEF VersionOf
<1> QED
  BY <1>1, <1>2, <1>3, <1>4, <1>5, <1>6, <1>7

(* What a step does to seaweedfs.                                         *)
SeaweedSame == helm'["seaweedfs"] = helm["seaweedfs"] /\ masters'.replicas = masters.replicas

LEMMA SeaweedMoves ==
  ASSUME IInv, [Next]_vars
  PROVE  \/ SeaweedSame \/ EnableHA
         \/ Chart = "seaweedfs" /\ (ScaleDown \/ HelmBegins \/ HelmSucceeds \/ HelmFails)
<1>1. masters \in Masters /\ "seaweedfs" \in Charts
  BY Names, Typed DEF IInv, ClusterTypes
<1>2. CASE ScaleDown
  BY <1>2 DEF ScaleDown, Restarts
<1>3. CASE HelmBegins /\ Chart # "seaweedfs"
  BY <1>1, <1>3, HelmBeginsTo DEF SeaweedSame, HelmBegins
<1>4. CASE HelmSucceeds /\ Chart # "seaweedfs"
  BY <1>1, <1>4, HelmSucceedsTo DEF SeaweedSame, HelmSucceeds, objects
<1>5. CASE HelmFails /\ Chart # "seaweedfs"
  BY <1>1, <1>5, HelmFailsTo DEF SeaweedSame, HelmFails
<1>6. CASE MastersSettle
  BY <1>1, <1>6 DEF SeaweedSame, MastersSettle, Masters
<1>7. CASE ~(ScaleDown \/ HelmBegins \/ HelmSucceeds \/ HelmFails \/ MastersSettle \/ EnableHA)
  BY <1>7 DEF SeaweedSame, Next, Step, Faults, Skip, markAsProcessing, Satisfied, Prepares,
     ScaledDown, HelmRefuses, markAsProcessed, AddOnsDone, ExtensionsDone, Retry,
     ScaleDownTimesOut, CannotBegin, CannotRecord, Killed, StartUpgrade, vars, objects
<1> QED
  BY <1>2, <1>3, <1>4, <1>5, <1>6, <1>7

LEMMA HelmBeginsSeaweed ==
  ASSUME IInv, ListInv, HAInv, HelmBegins, Chart = "seaweedfs"
  PROVE  /\ masters'.replicas = IF rel < FixedAt THEN 1 ELSE 3
         /\ helm'["seaweedfs"].version = helm["seaweedfs"].version
         /\ helm'["seaweedfs"].state = "upgrading"
         /\ Working /\ todo # <<>> /\ UNCHANGED <<rel, stage, todo, outcome, cond, ha>>
         /\ step \in {"ready", "scaled"} /\ step' = "helm"
<1>1. Working /\ todo # <<>> /\ step \in {"ready", "scaled"} /\ step' = "helm"
      /\ UNCHANGED <<rel, stage, todo, outcome, cond, ha>>
  BY DEF HelmBegins, Ready, At
<1>2. masters \in Masters
  BY Typed DEF IInv, ClusterTypes
<1>3. masters'.replicas = IF rel < FixedAt THEN 1 ELSE 3
  BY <1>2 DEF HelmBegins, Masters
<1> QED
  BY <1>1, <1>3, SeaweedAtHand, HelmBeginsTo

LEMMA HelmFailsSeaweed ==
  ASSUME IInv, HelmFails, Chart = "seaweedfs"
  PROVE  /\ helm'["seaweedfs"].version = helm["seaweedfs"].version
         /\ helm'["seaweedfs"].state \in {"failed", "deployed", helm["seaweedfs"].state}
         /\ \/ masters'.replicas = masters.replicas
            \/ masters'.replicas = IF helm["seaweedfs"].version < FixedAt THEN 1 ELSE 3
         /\ Working /\ todo # <<>> /\ step = "helm" /\ todo' = <<>> /\ step' = "next"
         /\ stage' \in {"waiting", "ended"}
         /\ \A c \in Charts : cond'[c] = "True" => cond[c] = "True"
         /\ cond["seaweedfs"] # "True"
<1>1. PICK left \in LeftByFailure(Chart) :
        /\ helm' = [helm EXCEPT ![Chart] = left]
        /\ masters' = IF Chart = "seaweedfs" /\ left.state = "deployed"
                      THEN [masters EXCEPT !.replicas = IF left.version < FixedAt THEN 1 ELSE 3]
                      ELSE masters
  BY DEF HelmFails
<1>2. helm \in [Charts -> Helms] /\ masters \in Masters /\ cond \in [Charts -> Status]
      /\ "seaweedfs" \in Charts
  BY Names, Typed DEF IInv, ClusterTypes, ProcessTypes
<1>3. helm'["seaweedfs"] = left
  BY <1>1, <1>2
<1>4. helm'["seaweedfs"].version = helm["seaweedfs"].version
      /\ helm'["seaweedfs"].state \in {"failed", "deployed", helm["seaweedfs"].state}
  BY HelmFailsTo
<1>5. \/ masters'.replicas = masters.replicas
      \/ masters'.replicas = IF helm["seaweedfs"].version < FixedAt THEN 1 ELSE 3
  BY <1>1, <1>2, <1>3, <1>4 DEF Masters
<1>6. Working /\ todo # <<>> /\ step = "helm" /\ todo' = <<>> /\ step' = "next"
      /\ stage' \in {"waiting", "ended"}
  BY DEF HelmFails, At, ChartFails, AttemptFails, NextAttempt
<1>7. \A c \in Charts : cond'[c] = "True" => cond[c] = "True"
  BY <1>2 DEF HelmFails, ChartFails, Set
<1>8. cond["seaweedfs"] # "True"
  BY <1>6 DEF IInv, Safe, HandInv
<1> QED
  BY <1>4, <1>5, <1>6, <1>7, <1>8

LEMMA EnableHASeaweed ==
  ASSUME IInv, EnableHA
  PROVE  /\ helm'["seaweedfs"] = Deployed(rel) /\ AirGap /\ ~ha /\ ha'
         /\ masters'.replicas = IF rel < FixedAt THEN 1 ELSE 3
         /\ UNCHANGED <<rel, stage, todo, step, cond, outcome>>
         /\ stage = "ended" /\ todo = <<>>
  BY EnableHATo DEF EnableHA, MastersOf, process, IInv, Safe, StageInv, Working

(* Only enable-ha makes a cluster highly available.                       *)
LEMMA HAMoves ==
  ASSUME IInv, [Next]_vars PROVE EnableHA \/ ha' = ha
  BY DEF Next, Step, Faults, Skip, markAsProcessing, Satisfied, Prepares, ScaleDown, ScaledDown,
     HelmBegins, HelmRefuses, HelmSucceeds, HelmFails, markAsProcessed, AddOnsDone,
     ExtensionsDone, Retry, MastersSettle, ScaleDownTimesOut, CannotBegin, CannotRecord, Killed,
     StartUpgrade, vars

LEMMA HAStep == ASSUME IInv, ListInv, HAInv, [Next]_vars PROVE HAInv'
<1>1. rel \in Nat /\ rel' \in Nat /\ rel' >= rel /\ (rel' = rel \/ rel' = rel + 1)
      /\ ha \in BOOLEAN /\ ha' \in BOOLEAN
  BY RelMoves, Step1 DEF IInv, TypeOK
<1>2. CASE EnableHA
  BY <1>1, <1>2, EnableHASeaweed DEF HAInv, Deployed
<1>3. CASE ~EnableHA
  <2>1. ha' = ha
    BY <1>3, HAMoves
  <2>2. ha => AirGap
    BY DEF HAInv
  <2>3. ~ha => masters'.replicas = 0
    <3>1. ASSUME ~ha PROVE SeaweedSame
      <4>1. Working /\ todo # <<>> => Chart # "seaweedfs"
        BY <3>1, HandTypes DEF IInv, Safe
      <4> QED
        BY <1>3, <4>1, SeaweedMoves DEF ScaleDown, HelmBegins, HelmSucceeds, HelmFails, At, Ready
    <3> QED
      BY <3>1 DEF SeaweedSame, HAInv
  <2>4. rel' = 0 /\ stage' # "ended" => ~ha
    <3> SUFFICES ASSUME rel' = 0, stage' # "ended" PROVE ~ha
      OBVIOUS
    <3>1. rel = 0 /\ ~StartUpgrade
      BY <1>1, RelMoves DEF StartUpgrade
    <3>2. stage # "ended"
      BY <3>1, OutcomeMoves DEF ExtensionsDone
    <3> QED
      BY <3>1, <3>2 DEF HAInv
  <2>5. ASSUME ha
        PROVE  /\ helm'["seaweedfs"].state \notin {"none", "installing"}
               /\ helm'["seaweedfs"].version \in 0..rel'
    <3>1. /\ helm["seaweedfs"].state \notin {"none", "installing"}
          /\ helm["seaweedfs"].version \in 0..rel
      BY <2>5 DEF HAInv
    <3>2. CASE SeaweedSame \/ ScaleDown
      BY <1>1, <3>1, <3>2 DEF SeaweedSame, ScaleDown
    <3>3. CASE Chart = "seaweedfs" /\ HelmBegins
      BY <1>1, <3>1, <3>3, HelmBeginsSeaweed
    <3>4. CASE Chart = "seaweedfs" /\ HelmSucceeds
      <4>1. Working /\ todo # <<>> /\ rel' = rel
        BY <3>4 DEF HelmSucceeds, At
      <4> QED
        BY <1>1, <3>4, <4>1, SeaweedAtHand, HelmSucceedsTo DEF Deployed
    <3>5. CASE Chart = "seaweedfs" /\ HelmFails
      BY <1>1, <3>1, <3>5, HelmFailsSeaweed
    <3> QED
      BY <1>3, <3>2, <3>3, <3>4, <3>5, SeaweedMoves
  <2> QED
    BY <2>1, <2>2, <2>3, <2>4, <2>5 DEF HAInv
<1> QED
  BY <1>2, <1>3

(* How helm comes to be at work, or the masters scaled down.              *)
LEMMA PlaceMoves ==
  ASSUME IInv, [Next]_vars, todo' # <<>>, step' \in {"scaling", "scaled", "helm"}
  PROVE  \/ UNCHANGED <<rel, stage, todo, step>>
         \/ ScaleDown /\ step' = "scaling"
         \/ ScaledDown /\ step' = "scaled"
         \/ HelmBegins /\ step' = "helm"
<1>1. CASE Faults \/ HelmRefuses
  BY <1>1 DEF Faults, HelmRefuses, ScaleDownTimesOut, CannotBegin, HelmFails, CannotRecord,
     Killed, ChartFails, AttemptFails, NextAttempt
<1>2. CASE Skip \/ markAsProcessed \/ markAsProcessing \/ Prepares \/ ScaleDown \/ ScaledDown
           \/ HelmBegins \/ HelmSucceeds \/ Satisfied
  BY <1>2 DEF Skip, markAsProcessed, markAsProcessing, Prepares, ScaleDown, ScaledDown, HelmBegins,
     HelmSucceeds, Satisfied, At
<1>3. CASE AddOnsDone \/ ExtensionsDone \/ Retry \/ StartUpgrade
  BY <1>3 DEF AddOnsDone, ExtensionsDone, Retry, StartUpgrade, IInv, Safe, StageInv, Working
<1>4. CASE EnableHA \/ MastersSettle \/ UNCHANGED vars
  BY <1>4 DEF EnableHA, MastersSettle, vars, process
<1> QED
  BY <1>1, <1>2, <1>3, <1>4 DEF Next, Step

(* While the masters are not brought down or up.                          *)
LEMMA MastersKept ==
  ASSUME IInv, [Next]_vars, ~EnableHA, ~(Chart = "seaweedfs" /\ (ScaleDown \/ HelmBegins \/ HelmFails))
  PROVE  masters'.replicas = masters.replicas
<1>1. HelmSucceeds => masters' = masters
  BY DEF HelmSucceeds, objects
<1> QED
  BY <1>1, SeaweedMoves DEF SeaweedSame

LEMMA ScaledStep ==
  ASSUME IInv, ListInv, HAInv, ScaleInv, [Next]_vars, todo' # <<>>, step' \in {"scaling", "scaled"}
  PROVE  masters'.replicas = 0
<1>1. CASE ScaleDown
  <2>1. masters \in Masters
    BY Typed DEF IInv, ClusterTypes
  <2> QED
    BY <1>1, <2>1 DEF ScaleDown, Masters
<1>2. CASE ScaledDown
  BY <1>2 DEF ScaledDown, At, ScaleInv, objects
<1>3. CASE UNCHANGED <<rel, stage, todo, step>> /\ ~ScaleDown
  <2>1. ~HelmBegins /\ ~HelmFails
    BY <1>3 DEF HelmBegins, HelmFails, At
  <2>2. ~EnableHA
    BY EnableHASeaweed, <1>3
  <2>3. masters'.replicas = masters.replicas
    BY <1>3, <2>1, <2>2, MastersKept
  <2> QED
    BY <1>3, <2>3 DEF ScaleInv
<1> QED
  BY <1>1, <1>2, <1>3, PlaceMoves

LEMMA ReachedStep ==
  ASSUME IInv, ListInv, HAInv, ScaleInv, [Next]_vars, ha', rel' >= FixedAt, Reached'
  PROVE  masters'.replicas # 1
<1>1. CASE EnableHA
  BY <1>1, EnableHASeaweed, ReleasesAssumption DEF IInv, TypeOK, Releases
<1>2. CASE StartUpgrade
  <2>1. "seaweedfs" \in Charts
    BY Names
  <2>2. step' = "next"
    BY <1>2 DEF StartUpgrade, IInv, Safe, StageInv, Working
  <2>3. cond'["seaweedfs"] = "none"
    BY <1>2, <2>1 DEF StartUpgrade, NewConditions
  <2> QED
    BY <2>2, <2>3 DEF Reached
<1>3. CASE ~EnableHA /\ ~StartUpgrade
  <2>1. rel' = rel /\ ha' = ha /\ rel >= FixedAt /\ ha
    BY <1>3, RelMoves, HAMoves
  <2>2. CASE cond'["seaweedfs"] = "True"
    <3>1. CASE cond["seaweedfs"] = "True"
      <4>1. ~(Chart = "seaweedfs" /\ (ScaleDown \/ HelmBegins \/ HelmFails))
        BY <3>1, SeaweedAtHand DEF ScaleDown, HelmBegins, HelmFails, Ready, At
      <4>2. masters'.replicas = masters.replicas
        BY <1>3, <4>1, MastersKept
      <4> QED
        BY <2>1, <3>1, <4>2 DEF ScaleInv, Reached
    <3>2. CASE cond["seaweedfs"] # "True"
      <4>1. markAsProcessed /\ Chart = "seaweedfs"
        BY <2>1, <2>2, <3>2, CondMoves, Names
      <4> QED
        BY <2>1, <4>1 DEF markAsProcessed, At, ScaleInv, Reached, objects
    <3> QED
      BY <3>1, <3>2
  <2>3. CASE todo' # <<>> /\ Chart' = "seaweedfs" /\ step' = "helm"
    <3>1. CASE HelmBegins
      <4>1. Chart = "seaweedfs"
        BY <2>3, <3>1 DEF HelmBegins, Chart
      <4> QED
        BY <2>1, <3>1, <4>1, HelmBeginsSeaweed, ReleasesAssumption DEF IInv, TypeOK, Releases
    <3>2. CASE UNCHANGED <<rel, stage, todo, step>>
      <4>1. ~ScaleDown /\ ~HelmBegins /\ ~HelmFails
        BY <2>3, <3>2 DEF HelmBegins, HelmFails, ScaleDown, Ready, At, ChartFails, AttemptFails, NextAttempt
      <4>2. masters'.replicas = masters.replicas
        BY <1>3, <4>1, MastersKept
      <4> QED
        BY <2>1, <2>3, <3>2, <4>2 DEF ScaleInv, Reached, Chart
    <3> QED
      BY <2>3, <3>1, <3>2, PlaceMoves
  <2>4. CASE todo' # <<>> /\ Chart' = "seaweedfs" /\ step' = "record"
    <3>1. CASE HelmSucceeds /\ UNCHANGED <<rel, stage, todo>>
      BY <2>1, <2>4, <3>1 DEF HelmSucceeds, At, objects, ScaleInv, Reached, Chart
    <3>2. CASE Satisfied /\ UNCHANGED <<rel, stage, todo>>
      <4>1. Working /\ todo # <<>> /\ Chart = "seaweedfs" /\ NothingToDo
        BY <2>4, <3>2 DEF Satisfied, At, Chart
      <4> QED
        BY <4>1, SeaweedAtHand DEF NothingToDo
    <3>3. CASE UNCHANGED <<rel, stage, todo, step>>
      <4>1. ~ScaleDown /\ ~HelmBegins /\ ~HelmFails
        BY <2>4, <3>3 DEF HelmBegins, HelmFails, ScaleDown, Ready, At
      <4>2. masters'.replicas = masters.replicas
        BY <1>3, <4>1, MastersKept
      <4> QED
        BY <2>1, <2>4, <3>3, <4>2 DEF ScaleInv, Reached, Chart
    <3> QED
      BY <2>4, <3>1, <3>2, <3>3, RecordMoves
  <2> QED
    BY <2>2, <2>3, <2>4 DEF Reached
<1> QED
  BY <1>1, <1>2, <1>3

LEMMA ScaleStep == ASSUME IInv, ListInv, HAInv, ScaleInv, [Next]_vars PROVE ScaleInv'
  BY ScaledStep, ReachedStep DEF ScaleInv

LEMMA SeaweedListedStep ==
  ASSUME IInv, ListInv, HAInv, SeaweedListed, [Next]_vars PROVE SeaweedListed'
<1> SUFFICES ASSUME ha', stage' = "addons", rel' > 0
             PROVE  cond'["seaweedfs"] = "True" \/ Holds(todo', "seaweedfs")
  BY DEF SeaweedListed
<1>1. ~EnableHA
  BY EnableHASeaweed
<1>2. ha /\ AirGap
  BY <1>1, HAMoves DEF HAInv
<1>3. WorkInv /\ "seaweedfs" \in Charts
  BY Names DEF IInv, Safe
<1>4. Kept
  BY Step1
<1>5. CASE UNCHANGED <<rel, stage, todo>>
  <2>1. cond["seaweedfs"] = "True" \/ Holds(todo, "seaweedfs")
    BY <1>2, <1>5 DEF SeaweedListed
  <2>2. cond["seaweedfs"] = "True" => cond'["seaweedfs"] = "True"
    BY <1>3, <1>4, <1>5 DEF Kept
  <2> QED
    BY <1>5, <2>1, <2>2
<1>6. CASE /\ Working /\ todo # <<>> /\ todo' = Tail(todo) /\ UNCHANGED <<rel, stage>>
           /\ cond'[Chart] = "True" \/ Action = "create"
  <2>1. cond["seaweedfs"] = "True" \/ Holds(todo, "seaweedfs")
    BY <1>2, <1>6 DEF SeaweedListed
  <2>2. cond["seaweedfs"] = "True" => cond'["seaweedfs"] = "True"
    BY <1>3, <1>4, <1>6 DEF Kept
  <2>3. Holds(todo, "seaweedfs") /\ Chart # "seaweedfs" => Holds(todo', "seaweedfs")
    BY <1>3, <1>6, HeldBehind
  <2>4. Action # "create"
    BY <1>6, HandOfList
  <2> QED
    BY <1>6, <2>1, <2>2, <2>3, <2>4
<1>7. CASE Retry
  <2>1. rel # 0
    BY <1>7 DEF Retry, ListInv, PartInv
  <2>2. todo' = As("upgrade", getAddOnsForUpgrade(rel))
    BY <1>7 DEF Retry
  <2> QED
    BY <1>2, <2>1, <2>2, UpgradeAddOnParts
<1>8. CASE StartUpgrade
  <2>1. rel + 1 # 0
    BY RelMoves
  <2>2. todo' = As("upgrade", getAddOnsForUpgrade(rel + 1))
    BY <1>8 DEF StartUpgrade
  <2>3. Holds(As("upgrade", getAddOnsForUpgrade(rel + 1)), "seaweedfs")
    BY <1>2, <2>1, UpgradeAddOnParts
  <2> QED
    BY <2>2, <2>3
<1>9. ~AddOnsDone
  BY DEF AddOnsDone
<1> QED
  BY <1>5, <1>6, <1>7, <1>8, <1>9, ListMoves DEF Moves

LEMMA SeaweedIsDone ==
  ASSUME IInv, HAInv, ScaleInv, SeaweedListed, stage = "addons", todo = <<>>, ha
  PROVE  helm["seaweedfs"] = Deployed(rel) /\ (rel >= FixedAt => masters.replicas # 1)
<1>1. rel > 0
  BY ReleasesAssumption DEF HAInv, IInv, TypeOK, Releases
<1>2. cond["seaweedfs"] = "True"
  BY <1>1 DEF SeaweedListed, Holds
<1>3. "seaweedfs" \in Charts /\ "seaweedfs" \notin Extensions /\ VersionOf(rel, "seaweedfs") = rel
  BY Names DEF VersionOf
<1>4. helm["seaweedfs"].state = "deployed" /\ helm["seaweedfs"].version = rel
  BY <1>2, <1>3 DEF IInv, Safe, ProcessedIsCurrent
<1>5. helm["seaweedfs"] \in Helms
  BY <1>3, Typed DEF IInv, ClusterTypes
<1> QED
  BY <1>2, <1>4, <1>5 DEF Helms, Deployed, ScaleInv, Reached

LEMMA SeaweedDoneStep ==
  ASSUME IInv, ListInv, OutcomeInv, HAInv, ScaleInv, SeaweedListed, SeaweedDone, [Next]_vars
  PROVE  SeaweedDone'
<1> SUFFICES ASSUME ha', stage' = "extensions" \/ outcome'[rel'] = "Installed"
             PROVE  /\ helm'["seaweedfs"] = Deployed(rel')
                    /\ rel' >= FixedAt => masters'.replicas # 1
  BY DEF SeaweedDone, Deployed
<1>1. rel \in Nat /\ rel \in Releases /\ FixedAt \in Nat /\ outcome \in [Releases -> Outcomes]
  BY ReleasesAssumption DEF IInv, TypeOK, Releases
<1>2. CASE EnableHA
  BY <1>1, <1>2, EnableHASeaweed
<1>3. CASE AddOnsDone
  BY <1>3, SeaweedIsDone DEF AddOnsDone, objects
<1>4. CASE StartUpgrade
  <2>1. rel' = rel + 1 /\ outcome'[rel + 1] = "Installing" /\ stage' = "addons"
    BY <1>1, <1>4, ReleasesAssumption DEF StartUpgrade, Releases
  <2> QED
    BY <2>1
<1>5. CASE ~EnableHA /\ ~AddOnsDone /\ ~StartUpgrade
  <2>1. rel' = rel /\ ha
    BY <1>5, RelMoves, HAMoves
  <2>2. stage' = "extensions" => stage = "extensions"
    BY <1>5, ListMoves DEF Moves, Retry
  <2>3. outcome'[rel] = "Installed" => stage = "extensions" \/ outcome[rel] = "Installed"
    BY <1>1, <1>5, OutcomeMoves DEF ExtensionsDone
  <2>4. helm["seaweedfs"] = Deployed(rel) /\ (rel >= FixedAt => masters.replicas # 1)
        /\ stage \in {"extensions", "ended"}
    BY <2>1, <2>2, <2>3 DEF SeaweedDone, OutcomeInv
  <2>5. Working /\ todo # <<>> => Chart # "seaweedfs"
    BY <2>4, SeaweedAtHand
  <2>6. SeaweedSame
    BY <1>5, <2>5, SeaweedMoves DEF ScaleDown, HelmBegins, HelmSucceeds, HelmFails, Ready, At
  <2> QED
    BY <2>1, <2>4, <2>6 DEF SeaweedSame
<1> QED
  BY <1>2, <1>3, <1>4, <1>5

LEMMA SeaweedNewerStep ==
  ASSUME IInv, ListInv, OutcomeInv, HAInv, SeaweedDone, SeaweedNewer, [Next]_vars
  PROVE  SeaweedNewer'
<1> SUFFICES ASSUME ha', rel' > 0, rel' - 1 >= FixedAt, outcome'[rel' - 1] = "Installed"
             PROVE  helm'["seaweedfs"].version >= rel' - 1 /\ masters'.replicas # 1
  BY DEF SeaweedNewer
<1>1. rel \in Nat /\ rel \in Releases /\ FixedAt \in Nat /\ Releases = 0..LastRelease
      /\ LastRelease \in Nat /\ masters \in Masters
  BY ReleasesAssumption, Typed DEF IInv, TypeOK, Releases, ClusterTypes
<1>2. CASE EnableHA
  BY <1>1, <1>2, EnableHASeaweed DEF Deployed
<1>3. CASE StartUpgrade
  <2>1. rel' = rel + 1 /\ ha /\ UNCHANGED <<helm, masters>>
    BY <1>3 DEF StartUpgrade, objects
  <2>2. outcome'[rel] = outcome[rel]
    BY <1>1, <1>3 DEF StartUpgrade, IInv, TypeOK
  <2>3. outcome[rel] = "Installed" /\ rel >= FixedAt
    BY <1>1, <2>1, <2>2
  <2> QED
    BY <1>1, <2>1, <2>3 DEF SeaweedDone, Deployed
<1>4. CASE ~EnableHA /\ ~StartUpgrade
  <2>1. rel' = rel /\ ha
    BY <1>4, RelMoves, HAMoves
  <2>2. outcome'[rel - 1] = outcome[rel - 1]
    BY <1>1, <2>1, OutcomeStep
  <2>3. helm["seaweedfs"].version >= rel - 1 /\ masters.replicas # 1 /\ rel >= FixedAt
        /\ helm["seaweedfs"].version \in 0..rel
    BY <1>1, <2>1, <2>2 DEF SeaweedNewer, HAInv
  <2>4. CASE SeaweedSame
    BY <2>1, <2>3, <2>4 DEF SeaweedSame
  <2>5. CASE ScaleDown
    BY <1>1, <2>1, <2>3, <2>5 DEF ScaleDown, Masters
  <2>6. CASE Chart = "seaweedfs" /\ HelmBegins
    BY <1>1, <2>1, <2>3, <2>6, HelmBeginsSeaweed
  <2>7. CASE Chart = "seaweedfs" /\ HelmSucceeds
    <3>1. Working /\ todo # <<>> /\ masters' = masters
      BY <2>7 DEF HelmSucceeds, At, objects
    <3> QED
      BY <1>1, <2>1, <2>3, <2>7, <3>1, SeaweedAtHand, HelmSucceedsTo DEF Deployed
  <2>8. CASE Chart = "seaweedfs" /\ HelmFails
    BY <1>1, <2>1, <2>3, <2>8, HelmFailsSeaweed
  <2> QED
    BY <1>4, <2>4, <2>5, <2>6, <2>7, <2>8, SeaweedMoves
<1> QED
  BY <1>2, <1>3, <1>4

LEMMA MasterInit == Init => MasterInv
  BY DEF Init, MasterInv, HAInv, ScaleInv, SeaweedListed, SeaweedDone, SeaweedNewer

LEMMA MasterStep ==
  ASSUME IInv, ListInv, CurrentInv, MasterInv, [Next]_vars PROVE MasterInv'
<1>1. HAInv' /\ ScaleInv' /\ SeaweedListed'
  BY HAStep, ScaleStep, SeaweedListedStep DEF MasterInv
<1>2. SeaweedDone' /\ SeaweedNewer'
  BY SeaweedDoneStep, SeaweedNewerStep DEF MasterInv, CurrentInv
<1> QED
  BY <1>1, <1>2 DEF MasterInv

(* The single master is scaled down before it gets the values of three.   *)
LEMMA MastersStep ==
  ASSUME IInv, ListInv, MasterInv, [Next]_vars,
         masters.replicas = 1, rel > 0, outcome[rel - 1] = "Installed"
  PROVE  masters'.replicas # 3
<1>1. rel \in Nat /\ FixedAt \in Nat /\ masters \in Masters
  BY ReleasesAssumption, Typed DEF IInv, TypeOK, Releases, ClusterTypes
<1>2. ha
  BY DEF MasterInv, HAInv
<1>3. ~EnableHA
  BY <1>2, EnableHASeaweed
<1>4. rel - 1 < FixedAt
  BY <1>1, <1>2 DEF MasterInv, SeaweedNewer
<1>5. CASE Chart = "seaweedfs" /\ HelmBegins
  <2>1. step # "scaled"
    BY <1>5, HelmBeginsSeaweed DEF MasterInv, ScaleInv
  <2>2. Working /\ todo # <<>> /\ ~Restarts
    BY <1>5, <2>1 DEF HelmBegins, Ready, At
  <2> QED
    BY <1>4, <1>5, <2>2, SeaweedAtHand DEF Restarts, needsScalingRestart, MasterInv
<1>6. CASE Chart = "seaweedfs" /\ HelmFails
  <2>1. step = "helm" /\ todo # <<>>
    BY <1>6, HelmFailsSeaweed
  <2>2. rel < FixedAt
    BY <1>1, <1>2, <1>6, <2>1 DEF MasterInv, ScaleInv, Reached
  <2>3. helm["seaweedfs"].version \in 0..rel
    BY <1>2 DEF MasterInv, HAInv
  <2>4. helm["seaweedfs"].version < FixedAt
    BY <1>1, <2>2, <2>3
  <2> QED
    BY <1>6, <2>4, HelmFailsSeaweed
<1>7. CASE ScaleDown
  BY <1>1, <1>7 DEF ScaleDown, Masters
<1>8. CASE masters'.replicas = masters.replicas
  BY <1>8
<1> QED
  BY <1>3, <1>5, <1>6, <1>7, <1>8, MastersKept

-----------------------------------------------------------------------------
AllInv == IInv /\ ListInv /\ CurrentInv /\ MasterInv

LEMMA Everything == Spec => []AllInv
<1>1. Init => AllInv
  BY SafeInit, TypeInit, ListInit, CurrentInit, MasterInit DEF AllInv, IInv
<1>2. AllInv /\ [Next]_vars => AllInv'
  BY Step1, ListStep, CurrentStep, MasterStep DEF AllInv
<1> QED
  BY <1>1, <1>2, PTL DEF Spec

LEMMA AllIsCurrent == ASSUME AllInv PROVE ChartsAreCurrent
<1>1. InOrder
  BY ListOrder DEF AllInv
<1>2. InstalledIsCurrent
  BY DEF AllInv, CurrentInv, SoundInv, AllInstalled, Sound, InstalledIsCurrent
<1>3. RecordedExists
  BY DEF AllInv, CurrentInv, FoundInv, Diff, RecordedExists
<1> QED
  BY <1>1, <1>2, <1>3 DEF AllInv, IInv, Safe, ChartsAreCurrent

(* Over all the pods of a Job, for the charts that a condition is true of: *)
(* an add-on, and an extension that was upgraded, is deployed as the       *)
(* release wants it; one that was removed is gone; of one that was         *)
(* installed there is some release, maybe a failed one; of one that has    *)
(* not changed nothing is claimed.  No hook is left for helm to fail on,   *)
(* and the registry has the credentials of seaweedfs.                      *)
THEOREM ConditionsAreTrue ==
    Spec => [](ProcessedIsCurrent /\ RecordedExists /\ HooksGone /\ CredentialsAgree)
<1>1. AllInv => ProcessedIsCurrent /\ RecordedExists /\ HooksGone /\ CredentialsAgree
  BY AllIsCurrent DEF ChartsAreCurrent
<1> QED
  BY <1>1, Everything, PTL

(* For any releases, extensions and bounds: types, conditions, hooks and   *)
(* credentials as above, and over all the pods of an upgrade's Job what    *)
(* was removed is dealt with first and in reverse order, the others in the *)
(* order of the config; and when every upgrade has succeeded the           *)
(* extensions are what the config of the release says.                     *)
THEOREM ChartsStayCurrent == Spec => []ChartsAreCurrent
<1>1. AllInv => ChartsAreCurrent
  BY AllIsCurrent
<1> QED
  BY <1>1, Everything, PTL

(* What a pod has completed is kept by those that come after it, and the   *)
(* values with three masters never reach a seaweedfs with a single one     *)
(* that a successful upgrade has left or a rollback has brought back.      *)
THEOREM RetriesStayCareful == Spec => RetriesAreCareful
<1>1. AllInv /\ [Next]_vars
      => [\A c \in Charts : cond[c] = "True" /\ rel' = rel
             => cond'[c] = "True" /\ helm'[c] = helm[c]]_vars
  BY Step1 DEF AllInv, Kept
<1>2. AllInv /\ [Next]_vars
      => [masters.replicas = 1 /\ rel > 0 /\ outcome[rel - 1] = "Installed"
          => masters'.replicas # 3]_vars
  BY MastersStep DEF AllInv
<1> QED
  BY <1>1, <1>2, Everything, PTL DEF Spec, RetriesAreCareful, ProcessedOnce, MastersRestarted

=============================================================================
