----------------------------- MODULE MCDelivery -----------------------------
(* Addresses of five bits, of which the lower half is private.  A host at  *)
(* 13 in a network of four; clusters get blocks of four or more.           *)
EXTENDS Delivery

MCPrivates == {Block(0, 1)}
MCDefaultCIDR == Block(0, 2)
MCDefaultPods == Block(16, 3)
MCDefaultServices == Block(20, 4)

Interface(name, foreign, net) ==
    [name |-> name, foreign |-> foreign, addrs |-> <<[v4 |-> TRUE, loopback |-> FALSE, net |-> net]>>]
Loopback == [name |-> "lo", foreign |-> FALSE,
             addrs |-> <<[v4 |-> TRUE, loopback |-> TRUE, net |-> Block(31, 5)]>>]
Calico == Interface("cali1", TRUE, Block(1, 5))
V6 == [name |-> "v6", foreign |-> FALSE, addrs |-> <<[v4 |-> FALSE, loopback |-> FALSE, net |-> Block(30, 5)]>>]

Host == [interfaces |-> <<Loopback, Calico, V6, Interface("eth0", FALSE, Block(13, 3))>>,
         best |-> 13, env |-> [lower |-> NoProxies, upper |-> NoProxies], root |-> TRUE,
         routes |-> {Block(12, 3)}, nft |-> TRUE, k0s |-> None, state |-> "new", current |-> "v1",
         ca |-> "bundle"]
MCOtherHosts == {[Host EXCEPT !.routes = {}]}
MCJoining == {Block(14, 3), Block(25, 3)}

MCLicense == [valid |-> TRUE, app |-> "app", channel |-> "stable", channels |-> {},
            expires |-> "never", enabled |-> TRUE, semver |-> FALSE, dr |-> TRUE, multi |-> TRUE]
Info(name, channel, version) == [app |-> name, channel |-> channel, version |-> version]
Bundle(info) == [readable |-> TRUE, info |-> info]
Request ==
    [cmd |-> "install", yes |-> TRUE, interface |-> None, cidr |-> None, pods |-> None,
     services |-> None, proxy |-> NoProxies, license |-> MCLicense, values |-> "none",
     bundle |-> None, overrides |-> None, tls |-> "none", dir |-> "default", password |-> None,
     ports |-> [manager |-> 1, admin |-> 2, mirror |-> 3], ignore |-> FALSE, skip |-> FALSE,
     store |-> "flags"]

Document(kind, config) == [kind |-> kind, config |-> config]
Yaml(docs) == [name |-> "yaml", splits |-> TRUE, docs |-> docs, readable |-> TRUE, syntax |-> TRUE]
Channel == [app |-> "app", channel |-> "stable", version |-> "v1", airgap |-> FALSE,
            domains |-> NoDomains]
ChannelDoc(c) == Document("channel-release", c)
ConfigDoc(c) == Document("ec-config", c)
Shipped(files) == [files |-> files, args |-> <<>>, api |-> FALSE, promoted |-> <<>>,
                   portal |-> [channels |-> <<>>, hasHostnames |-> TRUE, hostnames |-> {}, app |-> {}]]
Vendor == Shipped(<<Yaml(<<ChannelDoc(Channel)>>)>>)

Scenario(v, h, r) == [vendor |-> v, host |-> h, request |-> r]

(* Networks, with and without routes in the way, and overrides.            *)
Overrides(p, s) == [valid |-> TRUE, pods |-> p, services |-> s, charts |-> {}]
NetworkRequests ==
    {[Request EXCEPT !.cidr = c] :
        c \in {None, Block(8, 3), Block(0, 2), Block(9, 3), Block(8, 4), Block(16, 3), Malformed}}
    \cup {[Request EXCEPT !.pods = p[1], !.services = p[2]] :
        p \in {<<Block(4, 4), Block(6, 4)>>, <<Block(6, 4), Block(8, 4)>>, <<Block(4, 4), None>>,
               <<Malformed, Block(6, 4)>>, <<Block(4, 4), Block(8, 3)>>, <<None, Block(4, 3)>>}}
    \cup {[Request EXCEPT !.cidr = Block(8, 3), !.pods = Block(4, 4)],
          [Request EXCEPT !.overrides = Overrides(Block(8, 4), None)],
          [Request EXCEPT !.overrides = [Overrides(None, None) EXCEPT !.valid = FALSE]]}
NetworkScenarios ==
    {Scenario(Vendor, [Host EXCEPT !.routes = rs], r) :
        r \in NetworkRequests, rs \in {{Block(12, 3)}, {Block(12, 3), Block(6, 4)}}}
    \cup {Scenario(Shipped(<<Yaml(<<ChannelDoc(Channel)>>),
                            Yaml(<<ConfigDoc([NoConfig EXCEPT !.overrides = Overrides(None, Block(8, 4))])>>)>>),
                   Host, Request)}

(* Proxies from flags and from the environment.                            *)
Proxies(http, https, no) == [http |-> http, https |-> https, no |-> no]
ProxyScenarios ==
    {Scenario(Vendor, [Host EXCEPT !.env.lower = e], [Request EXCEPT !.proxy = p, !.yes = y]) :
        p \in {Proxies("p", "p", <<IP(13)>>), Proxies("p", None, <<Block(12, 2)>>),
               Proxies(None, "p", <<HostName>>), Proxies("p", "p", <<Malformed>>),
               Proxies(None, None, <<IP(9)>>), Proxies(None, "p", None)},
        e \in {NoProxies, Proxies("q", None, <<IP(9)>>)}, y \in BOOLEAN}
    \cup {Scenario(Vendor, [Host EXCEPT !.env.upper = Proxies("q", "q", None)], Request)}

(* Hosts: interfaces, the user, an installation that is there.             *)
HostScenarios ==
    {Scenario(Vendor, h, r) :
        h \in {[Host EXCEPT !.best = None], [Host EXCEPT !.best = 1], [Host EXCEPT !.root = FALSE],
               [Host EXCEPT !.k0s = "another"]},
        r \in {Request, [Request EXCEPT !.interface = "eth0", !.proxy = Proxies("p", "p", None)]}}
    \cup {Scenario(Vendor, Host, [Request EXCEPT !.interface = "eth9"])}

(* Licenses, bundles and releases.                                         *)
Releases == {Vendor, Shipped(<<>>), Shipped(<<Yaml(<<ChannelDoc([Channel EXCEPT !.airgap = TRUE])>>)>>)}
Licenses == {None, MCLicense, [MCLicense EXCEPT !.app = "other"], [MCLicense EXCEPT !.channel = "beta"],
             [MCLicense EXCEPT !.channels = {"stable", "beta"}],
             [MCLicense EXCEPT !.channels = {"beta"}], [MCLicense EXCEPT !.expires = "past"],
             [MCLicense EXCEPT !.enabled = FALSE]}
BundlesOf == {None, Bundle(None), Bundle(Info("app", "stable", "v1")), Bundle(Info("app", "beta", "v1")),
              Bundle(Info("other", "stable", "v1")), Bundle(Info("app", "stable", "v2"))}
PartScenarios ==
    {Scenario(v, Host, [Request EXCEPT !.license = l, !.bundle = b]) :
        v \in Releases, l \in Licenses, b \in BundlesOf}

(* Flags, prompts and passwords.                                           *)
PromptScenarios ==
    {Scenario(v, [Host EXCEPT !.current = c],
              [Request EXCEPT !.yes = y, !.ignore = i, !.password = p, !.proxy.http = "p"]) :
        v \in Releases, c \in {"v1", "v2"}, y, i \in BOOLEAN, p \in {None, "long", "short"}}
    \cup {Scenario(Vendor, Host, r) :
        r \in {[Request EXCEPT !.tls = "pair"], [Request EXCEPT !.tls = "key only"],
               [Request EXCEPT !.tls = "mismatch"], [Request EXCEPT !.ports.admin = 1],
               [Request EXCEPT !.ports.mirror = 2], [Request EXCEPT !.values = "invalid"],
               [Request EXCEPT !.license.valid = FALSE], [Request EXCEPT !.skip = TRUE],
               [Request EXCEPT !.bundle = [Bundle(None) EXCEPT !.readable = FALSE]]}}

(* The files of a vendor: which of them is which, and where it stands.     *)
Custom(use, d) == [NoDomains EXCEPT ![use] = d]
LintPortal == [channels |-> [beta |-> {"a.example"}, stable |-> {"b.example"}], hasHostnames |-> TRUE,
               hostnames |-> {"c.example"}, app |-> {}]
OldPortal == [channels |-> <<>>, hasHostnames |-> FALSE, hostnames |-> {}, app |-> {"a.example"}]
Plugin(n, i, v) == [name |-> n, image |-> i, valid |-> v]
Plugins == {<<Plugin("x", "i", TRUE), Plugin("y", "j", TRUE)>>,
            <<Plugin("x", "i", TRUE), Plugin("y", "j", TRUE), Plugin("x", "k", TRUE)>>,
            <<Plugin("x", "i", TRUE), Plugin("y", "j", TRUE), Plugin("z", "i", TRUE)>>,
            <<Plugin(None, "i", TRUE)>>, <<Plugin("x", None, TRUE)>>, <<Plugin("x", "i", FALSE)>>}
LintConfigs ==
    {[NoConfig EXCEPT !.domains = Custom(u, d)] :
        u \in {"app", "proxy"}, d \in {"a.example", "b.example", "c.example", "d.example", "replicated.app"}}
    \cup {[NoConfig EXCEPT !.plugins = p] : p \in Plugins}
    \cup {[NoConfig EXCEPT !.ports = {80, None}], [NoConfig EXCEPT !.values = FALSE]}
Linted(files, args, portal) == [files |-> files, args |-> args, api |-> portal # None, promoted |-> <<>>,
                                portal |-> IF portal = None THEN LintPortal ELSE portal]
ChannelFile(p) ==   \* with a domain that the portal knows
    Yaml(<<ChannelDoc(IF p = OldPortal THEN Channel
                      ELSE [Channel EXCEPT !.domains = Custom("app", "b.example")])>>)
LintScenarios ==
    {Scenario(Linted(<<ChannelFile(p), Yaml(<<ConfigDoc(c)>>)>>, <<2>>, p), Host, Request) :
        c \in LintConfigs, p \in {None, LintPortal, OldPortal}}
    \cup {Scenario(Linted(<<ChannelFile(LintPortal), [Yaml(<<ConfigDoc(NoConfig)>>) EXCEPT !.syntax = s, !.readable = r]>>,
                          <<1, 2>>, LintPortal), Host, Request) : s, r \in BOOLEAN}
    \cup {Scenario(Linted(<<ChannelFile(LintPortal), Yaml(<<ConfigDoc([NoConfig EXCEPT !.domains = Custom("app", "d.example")]),
                                               Document("backup", None)>>)>>,
                          <<1, 2>>, LintPortal), Host, Request)}

(* Every two kinds of documents, in one file or in two, and files of other *)
(* names.                                                                  *)
DocumentOf(k) == CASE k = "ec-config" -> ConfigDoc(NoConfig)
                   [] k = "channel-release" -> ChannelDoc(Channel)
                   [] OTHER -> Document(k, None)
FileScenarios ==
    {Scenario(Shipped(files), Host, Request) :
        files \in UNION {{<<Yaml(<<DocumentOf(k[1]), DocumentOf(k[2])>>)>>,
                          <<Yaml(<<DocumentOf(k[1])>>), Yaml(<<DocumentOf(k[2])>>)>>,
                          <<[Yaml(<<DocumentOf(k[1]), DocumentOf(k[2])>>) EXCEPT !.name = "dotted"]>>,
                          <<[Yaml(<<DocumentOf(k[1]), DocumentOf(k[2])>>) EXCEPT !.splits = FALSE]>>} :
                         k \in Kinds \X Kinds}}
    \cup {Scenario(Shipped(<<Yaml(<<ChannelDoc(Channel)>>),
                             [Yaml(<<>>) EXCEPT !.name = "archive"]>>), Host, Request)}

(* Values of charts: with the networks, domains and overrides of each side. *)
OfVendor(domains, charts) ==
    Shipped(<<Yaml(<<ChannelDoc([Channel EXCEPT !.domains = Custom("proxy", "b.example")])>>),
              Yaml(<<ConfigDoc([NoConfig EXCEPT !.domains = domains, !.charts = charts])>>)>>)
ValueScenarios ==
    {Scenario(OfVendor(Custom("proxy", d), c), [Host EXCEPT !.ca = ca],
              [Request EXCEPT !.bundle = Bundle(Info("app", "stable", "v1")), !.cidr = n,
                              !.overrides = [Overrides(None, s) EXCEPT !.charts = u],
                              !.license.dr = m, !.license.multi = m]) :
        d \in {"a.example", None}, c, u \in {{}, {"registry", "velero"}}, ca \in {None, "bundle"},
        n \in {None, Block(0, 3)}, s \in {None, Block(8, 3)}, m \in BOOLEAN}

(* Channels, and licenses that order and choose them.                      *)
EC(v, k) == [valid |-> TRUE, version |-> v, k8s |-> k]
Promoted(l, v, r, ec) == [label |-> l, version |-> v, required |-> r, ec |-> ec]
Straight(r2, r3) == <<Promoted("v1", 1, TRUE, EC(1, 29)), Promoted("v2", 2, r2, EC(1, 30)),
                      Promoted("v3", 3, r3, EC(2, 31)), Promoted("v3", 4, TRUE, EC(3, 31))>>
Hotfix == <<Promoted("v1", 1, FALSE, EC(1, 29)), Promoted("v3", 3, TRUE, EC(2, 29)),
            Promoted("v2", 2, TRUE, EC(2, 29)), Promoted("v4", 4, FALSE, EC(3, 30))>>
Jumps == <<Promoted("v0", 1, TRUE, EC(1, 29)), Promoted("v1", 2, FALSE, EC(1, 29)),
           Promoted("v2", 3, FALSE, EC(2, 31)), Promoted("v3", 4, FALSE, [EC(2, 30) EXCEPT !.valid = FALSE]),
           Promoted("v4", 5, FALSE, EC(1, 30)), Promoted("v5", 6, FALSE, EC(2, 30))>>
Unversioned == <<Promoted("v1", None, FALSE, EC(1, 29)), Promoted("v2", None, TRUE, EC(1, 30)),
                 Promoted("v3", None, FALSE, EC(1, 30))>>
Histories == {Straight(a, b) : a, b \in BOOLEAN} \cup {Hotfix, Jumps, Unversioned}
UpdateScenarios ==
    {Scenario([Vendor EXCEPT !.promoted = [stable |-> h, beta |-> Straight(FALSE, FALSE)]], Host,
              [Request EXCEPT !.license = l, !.bundle = b]) :
        h \in Histories, b \in {None, Bundle(Info("app", "stable", "v1"))},
        l \in {MCLicense, [MCLicense EXCEPT !.semver = TRUE],
               [MCLicense EXCEPT !.channels = {"stable", "beta"}, !.channel = "beta"]}}

MCScenarios == ValueScenarios \cup UpdateScenarios \cup NetworkScenarios \cup ProxyScenarios \cup HostScenarios \cup PartScenarios
    \cup PromptScenarios \cup LintScenarios \cup FileScenarios

Again == [Request EXCEPT !.cmd = "restore", !.license = None]
MCRestores ==
    {Again, [Again EXCEPT !.cidr = Block(4, 3)], [Again EXCEPT !.cidr = Block(8, 3)],
     [Again EXCEPT !.dir = "other", !.store = "prompt"], [Again EXCEPT !.bundle = Bundle(None)],
     [Again EXCEPT !.pods = Block(4, 4), !.services = Block(6, 4)]}
=============================================================================
