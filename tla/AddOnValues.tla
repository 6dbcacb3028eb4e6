----------------------------- MODULE AddOnValues -----------------------------
(* The Helm values of the addon charts.  install makes them of its flags,  *)
(* the host and the license; enable-ha and the upgrade Job make them again *)
(* of the Installation that install recorded.                              *)
EXTENDS InstallChecks

CONSTANT RegistryIndex   \* _lowerBandIPIndex

(* With an index of 2^n - 1 the address in a network of 2^n addresses      *)
(* would be the one after its end; the code's is 10.                       *)
ASSUME RegistryIndexAssumption ==
    RegistryIndex \in Nat /\ \A n \in 0..W : RegistryIndex + 1 # 2^n

VARIABLES
    installation,   \* what install recorded, or None
    addons          \* [values, first : of each chart, registries : what the
                    \* nodes' containerd was told, secret : what kotsadm was]

addonVars == <<installation, addons>>

RegistryClusterIP(services) == LowerBandIP(services, RegistryIndex)

-----------------------------------------------------------------------------
(* Options                                                                 *)

(* findHostCABundle                                                        *)
HostCABundle == host.ca

(* The runtime configuration at the end of install: the networks are those *)
(* that k0s got.                                                           *)
RuntimeConfig ==
    [services |-> run.nets.services, proxy |-> run.proxy, dir |-> request.dir,
     ca |-> HostCABundle, port |-> request.ports.admin]

(* Mutant: the Installation does not say whether nodes may join.           *)
RecordInstallationOf(license) ==
    [airgap |-> Airgap, ha |-> FALSE, config |-> release.ecConfig, rc |-> RuntimeConfig,
     license |-> [dr |-> license.dr, multi |-> FALSE]]

(* RecordInstallation: of the license, two of its fields.                  *)
RecordInstallation(license) ==
    [airgap |-> Airgap, ha |-> FALSE, config |-> release.ecConfig, rc |-> RuntimeConfig,
     license |-> [dr |-> license.dr, multi |-> license.multi]]

UserCharts == IF request.overrides = None THEN {} ELSE request.overrides.charts

InstallOptions(license) ==
    [rc |-> RuntimeConfig, airgap |-> Airgap, ha |-> FALSE, dr |-> license.dr,
     multi |-> license.multi, config |-> Config(release), user |-> UserCharts,
     domains |-> GetDomains(release)]

(* Of an Installation: the user's overrides of charts are not recorded.    *)
Recorded(in) == [EmptyRelease EXCEPT !.ecConfig = in.config]
OptionsOf(in, ha, domains) ==
    [rc |-> in.rc, airgap |-> in.airgap, ha |-> ha, dr |-> in.license.dr,
     multi |-> in.license.multi, config |-> Config(Recorded(in)), user |-> {},
     domains |-> domains]

(* upgradeAddons: the domains of the channel release are not known to it.  *)
UpgradeOptions(in) == OptionsOf(in, in.ha, GetDomains(Recorded(in)))

(* runEnableHA, in a binary that has the channel release.                  *)
EnableHAOptions(in) ==
    OptionsOf(in, TRUE, GetDomains([Recorded(in) EXCEPT !.channel = release.channel]))

-----------------------------------------------------------------------------
(* Values: "patched" says whose overrides were merged into them last.      *)

Patched(o, chart) ==   \* addOnOverrides and PatchValues
    [vendor |-> chart \in o.config.charts, user |-> chart \in o.user]

Environment(o) == [proxy |-> o.rc.proxy, ca |-> o.rc.ca]

OpenEBSValues(o) ==
    [images |-> o.domains.proxy, dir |-> o.rc.dir, patched |-> Patched(o, "openebs")]
OperatorValues(o) ==
    [images |-> o.domains.proxy, airgap |-> o.airgap, env |-> Environment(o),
     patched |-> Patched(o, "operator")]
RegistryValues(o) ==
    [images |-> o.domains.proxy, ip |-> RegistryClusterIP(o.rc.services), ha |-> o.ha,
     patched |-> Patched(o, "registry")]
VeleroValues(o) ==
    [images |-> o.domains.proxy, env |-> Environment(o), dir |-> o.rc.dir,
     plugins |-> o.config.plugins, patched |-> Patched(o, "velero")]
AdminConsoleValues(o) ==
    [domains |-> o.domains, dir |-> o.rc.dir, ha |-> o.ha, multi |-> o.multi,
     airgap |-> o.airgap, env |-> Environment(o), port |-> o.rc.port,
     patched |-> Patched(o, "admin-console")]

ValuesOf(o, chart) ==
    CASE chart = "openebs" -> OpenEBSValues(o)
      [] chart = "operator" -> OperatorValues(o)
      [] chart = "console" -> AdminConsoleValues(o)
      [] chart = "registry" -> RegistryValues(o)
      [] chart = "velero" -> VeleroValues(o)

(* getAddOnsForInstall and getAddOnsForUpgrade, but for seaweedfs.         *)
Values(o) ==
    [chart \in {"openebs", "operator", "console"} \cup (IF o.airgap THEN {"registry"} ELSE {})
                   \cup (IF o.dr THEN {"velero"} ELSE {}) |-> ValuesOf(o, chart)]

(* EnableHA: the registry and the Admin Console are upgraded.              *)
HAValues(o) ==
    [chart \in {"console"} \cup (IF o.airgap THEN {"registry"} ELSE {}) |-> ValuesOf(o, chart)]

(* Charts that are upgraded get new values.                                *)
Replaced(values, new) ==
    [chart \in DOMAIN values \cup DOMAIN new |->
        IF chart \in DOMAIN new THEN new[chart] ELSE values[chart]]

-----------------------------------------------------------------------------
(* What the commands do                                                    *)

(* Mutant: the address is that of the flags.                               *)
InsecureRegistryOfFlags ==
    RegistryClusterIP(CIDRConfig(GlobalCIDR, request.pods, request.services,
                                 [pods |-> DefaultPods, services |-> DefaultServices]).services)

InsecureRegistry == RegistryClusterIP(run.nets.services)

(* With an air gap bundle there has to be an address for the registry; the *)
(* cluster runs by then.                                                   *)
CanInstallAddOns == Airgap => InsecureRegistry # None
InstallAddOns(license) ==
    LET o == InstallOptions(license) IN
    addons' = [values |-> Values(o), first |-> Values(o),
               registries |-> IF Airgap THEN {InsecureRegistry} ELSE {},
               secret |-> IF Airgap THEN RegistryClusterIP(o.rc.services) ELSE None]

(* The join command names the registry by the address of its service.      *)
JoinRegistry ==
    addons' = [addons EXCEPT !.registries =
                  IF installation.airgap THEN @ \cup {addons.values.registry.ip} ELSE @]

EnableHA(nodes) ==
    /\ installation # None /\ ~installation.ha
    /\ Cardinality(nodes) >= 3
    /\ addons' = [addons EXCEPT !.values = Replaced(@, HAValues(EnableHAOptions(installation)))]
    /\ installation' = [installation EXCEPT !.ha = TRUE]

UpgradeAddOns ==
    /\ installation # None
    /\ addons' = [addons EXCEPT !.values = Replaced(@, Values(UpgradeOptions(installation)))]
    /\ UNCHANGED installation
=============================================================================
