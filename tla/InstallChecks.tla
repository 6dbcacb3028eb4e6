---------------------------- MODULE InstallChecks ----------------------------
(* What install and restore decide before there is a cluster: their flags, *)
(* the files they name, the release in the binary, the host and the        *)
(* answers of the user are brought together step by step, and k0s is       *)
(* configured with what comes out.  --yes is "assumeYes".                  *)
EXTENDS Releases, FiniteSets

CONSTANTS
    DefaultCIDR,    \* ecv1beta1.DefaultNetworkCIDR
    DefaultPods,    \* the networks of k0s without a flag
    DefaultServices

ASSUME DefaultsAssumption == {DefaultCIDR, DefaultPods, DefaultServices} \subseteq Blocks

VARIABLES
    release,    \* the release parsed from the binary
    host,       \* [interfaces, best, env, root, routes, nft, k0s, state, current]
    request,    \* the command and its flags
    run         \* how far it is

checkVars == <<release, host, request, run>>

NoRun == [step |-> "none", interface |-> None, nets |-> None, proxy |-> None, k0s |-> None,
          asked |-> {}, tries |-> 0, password |-> None, outcome |-> "none", reason |-> "none",
          advice |-> None]

(* preRunInstall, then verifyAndPrompt; restore has an order of its own.   *)
InstallSteps ==
    <<"flags", "networks", "proxy", "files", "runtime-config", "root", "installed",
      "channel-release", "license", "bundle", "update", "config", "proxy-warning", "password",
      "reporter", "preflights", "cluster">>
RestoreSteps ==
    <<"flags", "networks", "proxy", "files", "runtime-config", "root", "channel-release",
      "bundle", "resume", "installed", "store", "preflights", "cluster", "backups">>
StepsOf(cmd) == IF cmd = "install" THEN InstallSteps ELSE RestoreSteps

At(s) == run.step = s /\ run.outcome = "none"
Go(r) ==
    LET steps == StepsOf(request.cmd)
        i == CHOOSE j \in DOMAIN steps : steps[j] = r.step
    IN  run' = IF i = Len(steps) THEN [r EXCEPT !.outcome = "accepted"]
               ELSE [r EXCEPT !.step = steps[i + 1]]
Stop(r, outcome, reason) == run' = [r EXCEPT !.outcome = outcome, !.reason = reason]
Refuse(reason) == Stop(run, "refused", reason)
Require(ok, r) == IF ok THEN Go(r) ELSE Refuse(run.step)

(* A question: no is the default, an error an interrupt or the end of the  *)
(* input.                                                                  *)
Asked(question, answer) == [run EXCEPT !.asked = @ \cup {<<question, answer>>}]
Ask(question) ==
    \/ Go(Asked(question, "yes"))
    \/ Stop(Asked(question, "no"), "aborted", question)
    \/ Stop(Asked(question, "error"), "refused", question)

still == UNCHANGED <<release, host, request>>

Start(r) ==
    /\ request' = r
    /\ run' = [NoRun EXCEPT !.step = "flags"]

-----------------------------------------------------------------------------
(* preRunInstall                                                           *)

(* buildInstallFlags up to the networks.  A port of 0 is in no conflict.   *)
SamePort(p, q) == p = q /\ p # 0
CheckFlags ==
    /\ At("flags")
    /\ Require(/\ request.tls \in {"none", "pair", "mismatch"}
               /\ ~SamePort(request.ports.manager, request.ports.admin)
               /\ ~SamePort(request.ports.mirror, request.ports.admin),
               [run EXCEPT !.interface = IF request.interface = None THEN BestInterface(host)
                                         ELSE request.interface])
    /\ still

(* cidrConfigFromCmd: --cidr, or its default, is always validated, and     *)
(* excludes the two others; these are not validated.                       *)
GlobalCIDR == IF request.cidr = None THEN DefaultCIDR ELSE request.cidr
CheckNetworks ==
    /\ At("networks")
    /\ Require(/\ request.cidr # None => request.pods = None /\ request.services = None
               /\ ValidateCIDR(GlobalCIDR),
               [run EXCEPT !.nets = CIDRConfig(GlobalCIDR, request.pods, request.services,
                                        [pods |-> DefaultPods, services |-> DefaultServices])])
    /\ still

Node(name) == FirstValidIPNet(host, name)
CheckProxy ==
    LET spec == ProxySpec(WithDefaults(request.proxy, host.env), run.nets, Node(run.interface))
    IN  At("proxy") /\ Require(~spec.err, [run EXCEPT !.proxy = spec]) /\ still

(* buildInstallConfig: every file that is named is read and parsed.        *)
ReadFiles ==
    /\ At("files")
    /\ Require(/\ request.license # None => request.license.valid
               /\ request.values # "invalid"
               /\ request.bundle # None => request.bundle.readable
               /\ request.overrides # None => request.overrides.valid
               /\ request.tls # "mismatch", run)
    /\ still

(* NewK0sConfig: the networks of the flags under the overrides of the      *)
(* vendor and under those of the user.                                     *)
Patch(nets, o) ==
    [pods |-> IF o.pods # None THEN o.pods ELSE nets.pods,
     services |-> IF o.services # None THEN o.services ELSE nets.services]
PatchK0sConfig(nets, o) == IF o = None THEN nets ELSE Patch(nets, o)
ApplyUnsupportedOverrides(nets) ==
    PatchK0sConfig(PatchK0sConfig(nets, Config(release).overrides), request.overrides)

RenderK0sConfig == [images |-> GetDomains(release).proxy]
ApplyHostK0sConfigOverrides(cfg) == [cfg EXCEPT !.nftables = host.nft]
K0sConfig ==
    ApplyHostK0sConfigOverrides(
        [images |-> RenderK0sConfig.images,
         nftables |-> FALSE,
         nets |-> ApplyUnsupportedOverrides([pods |-> run.nets.pods, services |-> run.nets.services]),
         node |-> Node(run.interface),
         airgap |-> request.bundle # None,
         dir |-> request.dir])

(* buildRuntimeConfig: the networks are the patched ones, the block they   *)
(* were to share stays the flag's.                                         *)
BuildRuntimeConfig ==
    /\ At("runtime-config")
    /\ Require(Node(run.interface) # None,
               [run EXCEPT !.nets.pods = K0sConfig.nets.pods,
                           !.nets.services = K0sConfig.nets.services])
    /\ still

CheckRoot == At("root") /\ Require(host.root, run) /\ still

-----------------------------------------------------------------------------
(* verifyAndPrompt, and the beginning of runRestore                        *)

(* Mutant: only install looks for a cluster that is there.                 *)
VerifyNoInstallationUnlessRestore ==
    At("installed") /\ Require(host.k0s = None \/ request.cmd = "restore", run) /\ still

VerifyNoInstallation == At("installed") /\ Require(host.k0s = None, run) /\ still

Rel == ChannelRelease(release)
Airgap == request.bundle # None

VerifyChannelRelease ==
    /\ At("channel-release")
    /\ IF Rel # None /\ Rel.airgap /\ ~Airgap /\ ~request.yes THEN Ask("online") ELSE Go(run)
    /\ still

(* verifyLicense: a license of one channel names it, others list them.     *)
ChannelExists(license) ==
    IF license.channels = {} THEN license.channel = Rel.channel ELSE Rel.channel \in license.channels
VerifyLicense ==
    LET license == request.license IN
    /\ At("license")
    /\ Require(/\ (Rel = None) = (license = None)
               /\ Rel # None =>
                    /\ license.app = Rel.app
                    /\ ChannelExists(license)
                    /\ license.expires \in {"never", "later"}
                    /\ license.enabled, run)
    /\ still

(* Mutant: the channel of the bundle is not compared.                      *)
CheckAirgapApp ==
    LET info == IF Airgap THEN request.bundle.info ELSE None IN
    /\ At("bundle")
    /\ Require(info # None => Rel # None /\ info.app = Rel.app /\ info.version = Rel.version, run)
    /\ still

(* checkAirgapMatches, unless the bundle has no airgap info.               *)
CheckAirgapMatches ==
    LET info == IF Airgap THEN request.bundle.info ELSE None IN
    /\ At("bundle")
    /\ Require(info # None => /\ Rel # None
                              /\ info.app = Rel.app
                              /\ info.channel = Rel.channel
                              /\ info.version = Rel.version, run)
    /\ still

(* getCurrentAppChannelRelease: the last release of the channel, if the    *)
(* API tells.                                                              *)
CurrentAppChannelReleases == {None, host.current}

(* maybePromptForAppUpdate: only the answer no ends the command; an API    *)
(* that does not answer and a prompt that fails are passed over.           *)
CheckForUpdate ==
    /\ At("update")
    /\ IF Airgap \/ Rel = None THEN Go(run)
       ELSE \E current \in CurrentAppChannelReleases :
               IF current \in {None, Rel.version} \/ request.yes THEN Go(run)
               ELSE \/ Go(Asked("update", "yes")) \/ Go(Asked("update", "error"))
                    \/ Stop(Asked("update", "no"), "aborted", "update")
    /\ still

CheckConfig == At("config") /\ Require(ValidateECConfig(release), run) /\ still

VerifyProxyConfig ==
    /\ At("proxy-warning")
    /\ IF run.proxy.http # None /\ run.proxy.https = None /\ ~request.yes
       THEN Ask("http-proxy-only") ELSE Go(run)
    /\ still

(* ensureAdminConsolePassword: three times two equal passwords of enough   *)
(* characters, or what --yes sets.                                         *)
MaxTries == 3

(* Mutant: one try more.                                                   *)
EnsurePasswordLonger ==
    /\ At("password")
    /\ IF request.password # None
       THEN Require(request.password = "long", [run EXCEPT !.password = "long"])
       ELSE IF request.yes THEN Go([run EXCEPT !.password = "default"])
       ELSE \/ Go([Asked("password", "typed") EXCEPT !.password = "long"])
            \/ Stop(Asked("password", "error"), "refused", "password")
            \/ IF run.tries = MaxTries THEN Refuse("password")
               ELSE run' = [Asked("password", "typed") EXCEPT !.tries = @ + 1]
    /\ still

EnsurePassword ==
    /\ At("password")
    /\ IF request.password # None
       THEN Require(request.password = "long", [run EXCEPT !.password = "long"])
       ELSE IF request.yes THEN Go([run EXCEPT !.password = "default"])
       ELSE \/ Go([Asked("password", "typed") EXCEPT !.password = "long"])
            \/ Stop(Asked("password", "error"), "refused", "password")
            \/ IF run.tries + 1 = MaxTries THEN Refuse("password")
               ELSE run' = [Asked("password", "typed") EXCEPT !.tries = @ + 1]
    /\ still

(* buildMetricsReporter reads the license, which a release without a       *)
(* channel does not have.                                                  *)
BuildReporter ==
    /\ At("reporter")
    /\ IF request.license = None THEN Stop(run, "crashed", "reporter") ELSE Go(run)
    /\ still

-----------------------------------------------------------------------------
(* The rest of a restore's beginning                                       *)

(* getECRestoreState: a restore that went further than its installation is *)
(* resumed with the cluster there is, whatever the flags say.              *)
ResumeRestore ==
    /\ At("resume")
    /\ IF host.state = "new" THEN Go(run)
       ELSE \/ run' = [Asked("resume", "yes") EXCEPT !.step = "backups", !.k0s = host.k0s]
            \/ Go(Asked("resume", "no"))
            \/ Stop(Asked("resume", "error"), "refused", "resume")
    /\ still

(* promptForS3BackupStore and validateS3BackupStore                        *)
CheckStore ==
    /\ At("store")
    /\ \/ request.store = "flags" /\ Go(run)
       \/ request.store = "prompt" /\ Go(Asked("store", "typed"))
       \/ request.store = "prompt" /\ Stop(Asked("store", "error"), "refused", "store")
       \/ Refuse("store")   \* no backups there, or no answer
    /\ still

-----------------------------------------------------------------------------
(* Host preflights, and the cluster                                        *)

(* The analyzers on networks: the checked ranges are free and the node's   *)
(* address is outside of them.                                             *)
NetworksAvailable ==
    \A b \in CheckedBlocks(run.nets) :
        /\ \A r \in host.routes : ~Overlap(b, r)
        /\ ~Covers(b, Node(run.interface).base)
Parsable == \A b \in CheckedBlocks(run.nets) : b.kind = "block"

(* runInstallPreflights: the spec is prepared in any case.                 *)
RunPreflights ==
    /\ At("preflights")
    /\ IF ~Parsable THEN Refuse("preflights")
       ELSE IF request.skip THEN Go(run)
       ELSE \/ NetworksAvailable /\ Go(run)
            \/ IF ~request.ignore THEN Refuse("preflights")
               ELSE IF request.yes THEN Go(run)
               ELSE Ask("ignore-preflights")
    /\ still

(* installAndStartCluster writes the k0s configuration, made anew, and     *)
(* refuses one that is there; the host has been changed by then.           *)
InstallCluster ==
    /\ At("cluster")
    /\ IF host.k0s # None THEN Refuse("cluster") /\ UNCHANGED host
       ELSE /\ host' = [host EXCEPT !.k0s = K0sConfig]
            /\ Go([run EXCEPT !.k0s = K0sConfig])
    /\ UNCHANGED <<release, request>>

CheckNext ==
    \/ CheckFlags \/ CheckNetworks \/ CheckProxy \/ ReadFiles \/ BuildRuntimeConfig \/ CheckRoot
    \/ VerifyNoInstallation \/ VerifyChannelRelease \/ VerifyLicense \/ CheckAirgapMatches
    \/ CheckForUpdate \/ CheckConfig \/ VerifyProxyConfig \/ EnsurePassword \/ BuildReporter
    \/ ResumeRestore \/ CheckStore \/ RunPreflights \/ InstallCluster
=============================================================================
