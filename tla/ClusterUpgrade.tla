--------------------------- MODULE ClusterUpgrade ---------------------------
(***************************************************************************)
(* What an upgrade promises to whoever watches the cluster, with nothing   *)
(* of how it is driven (no command, configmap, job, pod or autopilot       *)
(* plan).  A release is rolled out in layers, each layer only after the    *)
(* one below it has reached the release: the pause image, Kubernetes on    *)
(* every node, the component images of the cluster configuration, and the  *)
(* helm charts in their order.  The release is announced as installed only *)
(* when every layer has reached it.  Upgrade.tla is shown to implement     *)
(* this module.                                                            *)
(***************************************************************************)
EXTENDS Naturals

CONSTANTS
  Nodes,        \* the members of the cluster
  LastRelease,  \* releases are 0 .. LastRelease; the cluster starts at 0
  K0sOf,        \* the Kubernetes version of each release
  ChartCount    \* the helm charts of every release are 1 .. ChartCount

VARIABLES
  target,       \* the newest release requested
  pauseImage,   \* release whose pause image the cluster config names
  kubelet,      \* Kubernetes version each node reports
  images,       \* release whose component images the cluster config names
  release,      \* release each helm chart is at
  installed     \* releases announced as installed

vars == <<target, pauseImage, kubelet, images, release, installed>>

Releases == 0..LastRelease
Charts   == 1..ChartCount

Init ==
  /\ target = 0
  /\ pauseImage = 0
  /\ kubelet = [n \in Nodes |-> K0sOf[0]]
  /\ images = 0
  /\ release = [c \in Charts |-> 0]
  /\ installed = {0}

(* A newer release is requested. *)
Request ==
  /\ target < LastRelease
  /\ target' = target + 1
  /\ UNCHANGED <<pauseImage, kubelet, images, release, installed>>

(* The first layer. *)
SetPauseImage ==
  /\ pauseImage' = target
  /\ UNCHANGED <<target, kubelet, images, release, installed>>

(* A node reports a newer Kubernetes, never one newer than the pause      *)
(* image in place allows: containerd 2.x rejects the older pause image.   *)
UpgradeNode(n) ==
  \E r \in Releases :
    /\ r <= target
    /\ kubelet[n] < K0sOf[r]
    /\ K0sOf[r] <= K0sOf[pauseImage]
    /\ kubelet' = [kubelet EXCEPT ![n] = K0sOf[r]]
    /\ UNCHANGED <<target, pauseImage, images, release, installed>>

(* The component images follow once every node runs the target's version. *)
SetImages ==
  /\ \A n \in Nodes : kubelet[n] = K0sOf[target]
  /\ images' = target
  /\ UNCHANGED <<target, pauseImage, kubelet, release, installed>>

(* A chart follows once the images and every chart before it are there.   *)
UpgradeChart(c) ==
  /\ images = target
  /\ \A d \in 1..(c - 1) : release[d] = target
  /\ release' = [release EXCEPT ![c] = target]
  /\ UNCHANGED <<target, pauseImage, kubelet, images, installed>>

(* Everything is at the target: it may be announced.                      *)
Announce ==
  /\ \A n \in Nodes : kubelet[n] = K0sOf[target]
  /\ images = target
  /\ \A c \in Charts : release[c] = target
  /\ installed' = installed \cup {target}
  /\ UNCHANGED <<target, pauseImage, kubelet, images, release>>

(* An announcement is taken back (the installation becomes obsolete).     *)
Withdraw(i) ==
  /\ i \in installed
  /\ installed' = installed \ {i}
  /\ UNCHANGED <<target, pauseImage, kubelet, images, release>>

Next ==
  \/ Request
  \/ SetPauseImage
  \/ \E n \in Nodes : UpgradeNode(n)
  \/ SetImages
  \/ \E c \in Charts : UpgradeChart(c)
  \/ Announce
  \/ \E i \in Releases : Withdraw(i)

Spec == Init /\ [][Next]_vars

=============================================================================
