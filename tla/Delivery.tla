------------------------------ MODULE Delivery ------------------------------
(* A release on its way: the vendor lints and ships it, a user installs    *)
(* it, other hosts join, backups are taken, and another host restores from *)
(* one.  What is checked early and in one place has to fit what is relied  *)
(* on late and in another.                                                 *)
EXTENDS AddOnValues, Updates

CONSTANTS
    Scenarios,    \* [vendor, host, request]: how an installation begins
    Joining,      \* the addresses of hosts that may join, with their network
    OtherHosts,   \* hosts that a backup may be restored on
    Restores      \* what restores are asked for

(* The documents of a vendor.  The vendor portal writes the channel        *)
(* release, with domains that it knows and for a release that it promoted. *)
IsSequence(s) == Len(s) \in Nat /\ s = [i \in 1..Len(s) |-> s[i]]
IsOverride(o) == o # None => {o.pods, o.services} \subseteq Entries \cup {None}
NextVersion(d) == IF d.kind = "channel-release" THEN [d EXCEPT !.config.version = "v2"] ELSE d
IsDocument(d) ==
    /\ None \notin {d, NextVersion(d)}
    /\ DOMAIN d = {"kind", "config"} /\ d.kind \in Kinds
    /\ d.kind = "ec-config" => IsSequence(d.config.plugins) /\ IsOverride(d.config.overrides)
    /\ d.kind = "channel-release" =>
          DOMAIN d.config = DOMAIN NoChannel /\ None \notin {d.config, NextVersion(d).config}
KnownTo(portal) ==
    {DefaultDomains[u] : u \in DOMAIN DefaultDomains} \cup portal.hostnames \cup portal.app
        \cup UNION {portal.channels[c] : c \in DOMAIN portal.channels}
WrittenByPortal(d, v) ==
    /\ v.api => \A u \in DOMAIN DefaultDomains : d.config.domains[u] \in {None} \cup KnownTo(v.portal)
    /\ d.config.channel \in DOMAIN v.promoted =>
          \E i \in DOMAIN v.promoted[d.config.channel] :
              v.promoted[d.config.channel][i].label = d.config.version
IsVendor(v) ==
    /\ IsSequence(v.files) /\ \A i \in DOMAIN v.files : IsSequence(v.files[i].docs)
    /\ \A d \in AllDocuments(v.files) :
          IsDocument(d) /\ (d.kind = "channel-release" => WrittenByPortal(d, v))
    /\ IsSequence(v.args) /\ ToSet(v.args) \subseteq DOMAIN v.files
    /\ None \notin DOMAIN v.promoted
    /\ \A c \in DOMAIN v.promoted :
          /\ IsSequence(v.promoted[c])
          /\ \A i \in DOMAIN v.promoted[c] :
                v.promoted[c][i].version \in Int \cup {None} /\ v.promoted[c][i].ec.k8s \in Int

(* Hosts and the flags of commands.                                        *)
IsHost(h) ==
    /\ h.interfaces \in Seq(Interfaces) /\ h.routes \subseteq Blocks
    /\ {h.env.lower, h.env.upper} \subseteq ProxyFlags
    /\ {"interfaces", "env", "routes", "nft", "k0s", "state"} \subseteq DOMAIN h /\ h.state = "new"
IsRequest(r, cmd) ==
    /\ r.cmd = cmd
    /\ {"cmd", "cidr", "pods", "services", "proxy", "overrides", "dir"} \subseteq DOMAIN r
    /\ {r.cidr, r.pods, r.services} \subseteq Entries \cup {None}
    /\ IsOverride(r.overrides)
    /\ r.proxy \in ProxyFlags

ASSUME ScenariosAssumption ==
    \A s \in Scenarios : IsVendor(s.vendor) /\ IsHost(s.host) /\ IsRequest(s.request, "install")
ASSUME OtherHostsAssumption == \A h \in OtherHosts : IsHost(h)
ASSUME RestoresAssumption == \A r \in Restores : IsRequest(r, "restore")

VARIABLES
    shipped,      \* whether the release is in a binary
    plan,         \* the host and the request of the installation to be
    cluster,      \* what runs, or None
    backup,       \* what the annotations of a backup say, or None
    advised       \* the advice that this restore follows, or None

partVars == <<addonVars, app>>
deliveryVars == <<shipped, plan, cluster, backup, advised, partVars>>
vars == <<vendor, lint, checkVars, deliveryVars>>

Init ==
    \E s \in Scenarios :
        /\ vendor = s.vendor /\ lint = NoLint
        /\ release = EmptyRelease /\ host = s.host /\ request = s.request /\ run = NoRun
        /\ shipped = FALSE /\ plan = [host |-> s.host, request |-> s.request]
        /\ cluster = None /\ backup = None /\ advised = None
        /\ installation = None /\ addons = None /\ app = None

(* A release that was not linted, or failed, may be shipped all the same;  *)
(* the binary parses it each time it starts.                               *)
Ship ==
    /\ ~shipped
    /\ lint.outcome # "none" \/ vendor.args = <<>>
    /\ shipped' = TRUE
    /\ release' = ParseRelease(vendor.files)
    /\ UNCHANGED <<vendor, lint, host, request, run, plan, cluster, backup, advised, partVars>>

Install ==
    /\ shipped /\ ~release.broken /\ run = NoRun
    /\ Start(plan.request)
    /\ UNCHANGED <<vendor, lint, release, host, deliveryVars>>

Check == CheckNext /\ UNCHANGED <<vendor, lint, deliveryVars>>

(* The rest of runInstall: the installation is recorded and the addons are *)
(* installed.                                                              *)
Installed ==
    /\ request.cmd = "install" /\ run.outcome = "accepted" /\ cluster = None
    /\ installation' = RecordInstallation(request.license)
    /\ IF ~CanInstallAddOns
       THEN /\ Stop(run, "failed", "registry")
            /\ UNCHANGED <<cluster, addons, app>>
       ELSE /\ cluster' = [nets |-> host.k0s.nets, global |-> run.nets.global, proxy |-> run.proxy,
                           nodes |-> {host.k0s.node}, dir |-> host.k0s.dir, airgap |-> host.k0s.airgap,
                           app |-> Rel.app, version |-> Rel.version]
            /\ InstallAddOns(request.license)
            /\ IF HasApp THEN StartApp ELSE UNCHANGED app
            /\ UNCHANGED run
    /\ UNCHANGED <<vendor, lint, release, host, request, shipped, plan, backup, advised>>

(* runJoinVerifyAndPrompt: a host that the no-proxy list leaves out may    *)
(* not join.                                                               *)
Join(node) ==
    /\ cluster # None /\ backup = None
    /\ node \notin cluster.nodes
    /\ ReachesNode(cluster.proxy, node)
    /\ cluster' = [cluster EXCEPT !.nodes = @ \cup {node}]
    /\ JoinRegistry
    /\ UNCHANGED <<vendor, lint, checkVars, shipped, plan, backup, advised, installation, app>>

(* enable-ha, the upgrade Job, and updates of the application.             *)
Operate ==
    /\ cluster # None /\ backup = None
    /\ \/ (EnableHA(cluster.nodes) \/ UpgradeAddOns) /\ UNCHANGED app
       \/ UpdateNext /\ UNCHANGED addonVars
    /\ UNCHANGED <<vendor, lint, checkVars, shipped, plan, cluster, backup, advised>>

(* Bound: backups are taken of the application as it was installed.        *)
TakeBackup ==
    /\ cluster # None /\ backup = None
    /\ app # None => app.current = app.first /\ app.uploaded = None
    /\ backup' = [nets |-> cluster.nets, dir |-> cluster.dir, airgap |-> cluster.airgap,
                  app |-> cluster.app, version |-> cluster.version]
    /\ UNCHANGED <<vendor, lint, checkVars, shipped, plan, cluster, advised, partVars>>

-----------------------------------------------------------------------------
(* Restoring on another host, with this release or the one after it        *)

Later(r) == IF r.channel = None THEN r ELSE [r EXCEPT !.channel = NextVersion(@)]

Restore(h, r) ==
    /\ backup # None /\ request.cmd = "install"
    /\ host' = h
    /\ release' \in {release, Later(release)}
    /\ Start(r)
    /\ UNCHANGED <<vendor, lint, deliveryVars>>

(* Mutant: of the networks only the pods' is compared.                     *)
MismatchPods ==
    LET supernet == NetworksAreAdjacentAndSameSize(backup.nets.pods, backup.nets.services)
        Plain(reason) == [reason |-> reason, advice |-> None]
    IN  CASE Rel.app # backup.app -> Plain("app")
          [] Rel.version # backup.version -> Plain("version")
          [] Airgap # backup.airgap -> Plain("airgap")
          [] host.k0s.nets.pods # backup.nets.pods ->
               [reason |-> "backup-networks",
                advice |-> IF supernet # None THEN [flag |-> "cidr", value |-> supernet]
                           ELSE [flag |-> "pods-and-services", value |-> backup.nets]]
          [] request.dir # backup.dir ->
               [reason |-> "directory", advice |-> [flag |-> "dir", value |-> [dir |-> backup.dir]]]
          [] OTHER -> Plain("none")

(* isBackupRestorable: the first thing about a backup that does not fit    *)
(* the binary, the flags and the k0s configuration on the disk; for two of *)
(* them it says with which flags to run the command again.                 *)
Mismatch ==
    LET supernet == NetworksAreAdjacentAndSameSize(backup.nets.pods, backup.nets.services)
        Plain(reason) == [reason |-> reason, advice |-> None]
    IN  CASE Rel.app # backup.app -> Plain("app")
          [] Rel.version # backup.version -> Plain("version")
          [] Airgap # backup.airgap -> Plain("airgap")
          [] host.k0s.nets # backup.nets ->
               [reason |-> "backup-networks",
                advice |-> IF supernet # None THEN [flag |-> "cidr", value |-> supernet]
                           ELSE [flag |-> "pods-and-services", value |-> backup.nets]]
          [] request.dir # backup.dir ->
               [reason |-> "directory", advice |-> [flag |-> "dir", value |-> [dir |-> backup.dir]]]
          [] OTHER -> Plain("none")

(* runRestoreStepConfirmBackup: the state is set before the backups are    *)
(* looked at, so that the next run resumes here.                           *)
LookForBackups ==
    /\ At("backups")
    /\ host' = [host EXCEPT !.state = "confirm"]
    /\ IF Mismatch.reason = "none" THEN Ask("restore")
       ELSE run' = [run EXCEPT !.outcome = "refused", !.reason = Mismatch.reason,
                               !.advice = Mismatch.advice]
    /\ UNCHANGED <<vendor, lint, release, request, deliveryVars>>

(* The user runs the command again with what it was told, on the host as   *)
(* it is or after a reset.                                                 *)
Advised(r, a) ==
    CASE a.flag = "cidr" -> [r EXCEPT !.cidr = a.value, !.pods = None, !.services = None]
      [] a.flag = "pods-and-services" -> [r EXCEPT !.cidr = None, !.pods = a.value.pods,
                                                   !.services = a.value.services]
      [] a.flag = "dir" -> [r EXCEPT !.dir = a.value.dir]

FollowAdvice(reset) ==
    /\ run.advice # None /\ (advised # None => advised.advice # run.advice)
    /\ advised' = [advice |-> run.advice, reset |-> reset]
    /\ host' = IF reset THEN [host EXCEPT !.k0s = None, !.state = "new"] ELSE host
    /\ Start(Advised(request, run.advice))
    /\ UNCHANGED <<vendor, lint, release, shipped, plan, cluster, backup, partVars>>

Next ==
    \/ ~shipped /\ LintNext /\ UNCHANGED <<checkVars, deliveryVars>>
    \/ Ship \/ Install \/ Check \/ Installed
    \/ \E n \in Joining : Join(n)
    \/ Operate \/ TakeBackup
    \/ \E h \in OtherHosts, r \in Restores : Restore(h, r)
    \/ LookForBackups
    \/ \E reset \in BOOLEAN : FollowAdvice(reset)

Spec == Init /\ [][Next]_vars

-----------------------------------------------------------------------------

Running == app # None /\ request.cmd = "install"

(* The type of the variables that the steps build up.                      *)
TypeOK ==
    /\ lint.outcome \in {"none", "passed", "failed"} /\ lint.file \in 0..Len(Args)
    /\ run.outcome \in {"none", "accepted", "refused", "aborted", "crashed", "failed"}
    /\ run.step \in {"none"} \cup ToSet(StepsOf(request.cmd))
    /\ run.tries < MaxTries
    /\ release.archives \in Nat /\ release.broken \in BOOLEAN
    /\ host.state \in {"new", "confirm"}
    /\ cluster # None => cluster.nodes # {} /\ DOMAIN addons.first \subseteq DOMAIN addons.values
    /\ Running => /\ app.current \in Updates /\ app.done \subseteq Updates
                  /\ app.status \in {"deployed", "failed"}
                  /\ app.uploaded \in Updates \cup {None}

Accepted(cmd) == request.cmd = cmd /\ run.outcome = "accepted"
Said(question, answer) == <<question, answer>> \in run.asked

(* Lint: what a config that passed calls a plugin, by its name or by its   *)
(* image, is one plugin, wherever in the list the two stand.               *)
PassedPluginsAreDistinct ==
    lint.outcome = "passed" =>
        \A i \in ToSet(Args) :
            LET plugins == LintedConfig(vendor.files[i]).plugins
            IN  \A j, k \in DOMAIN plugins :
                   j # k => /\ plugins[j].name # plugins[k].name
                            /\ plugins[j].image # plugins[k].image

(* pkg/release: files that are named and written as they should be lose    *)
(* none of their documents on the way into the binary.                     *)
NothingLost ==
    shipped /\ backup = None /\ WellFormed(vendor.files) =>
        ~release.broken /\ \A d \in AllDocuments(vendor.files) : HeldIn(release, d)

WasLinted ==
    /\ vendor.api /\ lint.outcome = "passed"
    /\ HasConfig(release) =>
          \E i \in ToSet(Args) :
              vendor.files[i].docs # <<>> /\ vendor.files[i].docs[1] = release.ecConfig

(* Lint and pkg-new/domains: if the config of the binary was linted with   *)
(* the vendor portal and passed, the domains that an installation uses are *)
(* the defaults or ones that the portal knows, even if some of its answers *)
(* failed.                                                                 *)
InstalledDomainsKnown ==
    shipped /\ ~release.broken /\ WasLinted =>
        \A u \in DOMAIN GetDomains(release) : GetDomains(release)[u] \in KnownTo(Portal)

(* verifyLicense and checkAirgapMatches: the license and the bundle, which *)
(* are never compared with each other, are for one app and a channel that  *)
(* the license has, also when another file of the release was mistaken for *)
(* the channel release.                                                    *)
PartsAgree ==
    Accepted("install") /\ Airgap /\ request.bundle.info # None =>
        /\ request.bundle.info.app = request.license.app
        /\ request.bundle.info.channel \in request.license.channels \cup {request.license.channel}

(* Host preflights: where they were passed and nothing is overridden, the  *)
(* networks that k0s gets are free on the host; those of one --cidr do not *)
(* overlap either.                                                         *)
NetworksAreFree ==
    /\ Accepted("install") /\ ~request.skip /\ ~request.ignore
    /\ request.overrides = None /\ Config(release).overrides = None
    =>  LET nets == host.k0s.nets IN
        /\ \A n \in {nets.pods, nets.services} :
              ~Covers(n, host.k0s.node.base) /\ \A r \in host.routes : ~Overlap(n, r)
        /\ run.nets.global # None => ~Overlap(nets.pods, nets.services)

(* populateNoProxy and runJoinVerifyAndPrompt: no node reaches another, or *)
(* without overrides the networks of the cluster, through the proxy.       *)
NodesBypassProxy ==
    cluster # None /\ HasProxy(cluster.proxy) =>
        /\ \A n \in cluster.nodes : NoProxyHasLocalIP(cluster.proxy.list, n.base)
        /\ plan.request.overrides = None /\ Config(release).overrides = None =>
              {cluster.nets.pods, cluster.nets.services} \subseteq ToSet(cluster.proxy.list)

(* "Please rerun with '--cidr ...'": for a cluster that was installed with *)
(* one block and no overrides, the advice on a host that was reset is not  *)
(* refused, and leads on from what it was given for.                       *)
AdviceLeads ==
    /\ advised # None /\ advised.reset
    /\ cluster.global # None /\ cluster.nets.pods = SplitNetworkCIDR(cluster.global).pods
    /\ cluster.nets.services = SplitNetworkCIDR(cluster.global).services
    /\ Config(release).overrides = None /\ request.overrides = None
    =>  /\ run.outcome = "refused" => run.reason # "networks"
        /\ run.advice # advised.advice

(* isBackupRestorable: what a restore goes on with fits the cluster there  *)
(* is, and for a restore that was not resumed also how it was installed.   *)
RestoredAlike ==
    Accepted("restore") =>
        /\ host.k0s.nets = backup.nets
        /\ Rel.app = backup.app /\ Rel.version = backup.version
        /\ ~Said("resume", "yes") => host.k0s.dir = backup.dir /\ host.k0s.airgap = backup.airgap

(* verifyNoInstallation: a command that does not fit a cluster that is     *)
(* there is refused before it changes the host, on every way through       *)
(* install, restore and a restore that was not resumed.                    *)
RefusedInTime == run.reason # "cluster"

(* GenerateHelmValues: what enable-ha and the upgrade Job make of the       *)
(* Installation are the values that install made of flags and license, but *)
(* for high availability, overrides by the user and domains that only the  *)
(* channel release has.                                                    *)
ValuesKept ==
    cluster # None /\ GetDomains(Recorded(installation)) = GetDomains(release) =>
        \A c \in DOMAIN addons.first :
            LET first == addons.first[c] IN
            \A f \in DOMAIN first \ {"ha"} :
                first.patched.user \/ addons.values[c][f] = first[f]

(* GetRegistryClusterIP: in an air gap cluster the registry has an address *)
(* in k0s's network of services, and one that the containerd of each node  *)
(* and the Admin Console know, before and after it is highly available,    *)
(* upgrades and joins.                                                     *)
RegistryServed ==
    cluster # None /\ cluster.airgap =>
        LET ip == addons.values.registry.ip IN
        /\ Covers(cluster.nets.services, ip)
        /\ addons.registries = {ip} /\ addons.secret = ip

(* WithOnlineRequiredReleases, WithAirgapRequiredReleases: of the required *)
(* releases between the one that was installed and the current one none    *)
(* was passed over or left before it ran.  Bundles do this only where the  *)
(* order of the channel is that of its places, and online the license's    *)
(* own channel has to be that of the release.                              *)
InOrder == \A x, y \in Updates : x < y => Before(History, x, y)
RequiredHaveRun ==
    Running /\ (IF Airgap THEN InOrder ELSE License.channel = Rel.channel) =>
        \A r \in Updates :
            /\ History[r].required
            /\ ~Before(History, r, app.first) /\ Before(History, r, app.current)
            => r \in app.done

(* validateK8sVersion: whatever is deployed one after the other, no minor  *)
(* version of Kubernetes is left out.                                      *)
KubernetesByStep ==
    Running => \A v \in History[app.first].ec.k8s..History[app.current].ec.k8s : v \in app.k8s

(* ValidateIsReleaseUpgradable: in a channel whose versions never go back  *)
(* or leave out one of Kubernetes the release after one that runs can      *)
(* always be deployed, so that the way to the last one is open.            *)
Upward ==
    \A x, y \in Updates :
        y = x + 1 =>
            /\ Before(History, x, y)
            /\ ValidateECVersion(History[x].ec, History[y].ec)
            /\ ValidateK8sVersion(History[x].ec.k8s, History[y].ec.k8s)
NeverStranded ==
    Running /\ Upward /\ (Airgap \/ License.channel = Rel.channel) =>
        (app.status = "deployed" /\ app.current + 1 \in Updates => Upgradable(app.current + 1))

(* What an installation is made of is what the vendor wrote, linted and    *)
(* licensed.                                                               *)
ReleaseIsSound ==
    /\ TypeOK
    /\ PassedPluginsAreDistinct
    /\ NothingLost
    /\ InstalledDomainsKnown
    /\ PartsAgree

(* The networks that were checked are the ones that nodes, proxies and the *)
(* registry rely on, from the first host to the last that joins.           *)
NetworksFit ==
    /\ NetworksAreFree
    /\ NodesBypassProxy
    /\ RegistryServed

(* A restore that goes on fits its cluster, and one that does not is       *)
(* refused in time and with advice that helps.                             *)
RestoreFits ==
    /\ RestoredAlike
    /\ AdviceLeads
    /\ RefusedInTime

(* However updates follow one another, fail and are repeated, what each    *)
(* release needs has run before it, and the way to the last one stays      *)
(* open.                                                                   *)
UpdatesLead ==
    /\ RequiredHaveRun
    /\ KubernetesByStep
    /\ NeverStranded
=============================================================================
