------------------------------ MODULE Networks ------------------------------
(* Address blocks, the interfaces of a host, and proxies: what install,    *)
(* join and restore compute from their network flags.                      *)
(*                                                                         *)
(* An address is a number of W bits.  A block is written like a CIDR, with *)
(* a base that need not be the block's first address; single addresses,    *)
(* host names and text that does not parse, which no-proxy lists and flags *)
(* may hold too, have the same fields.                                     *)
EXTENDS Integers, Sequences, FiniteSetsExt

CONSTANTS
    W,            \* bits of an address
    NotLessThan,  \* the longest prefix of a block for a cluster
    Privates,     \* the blocks of private addresses
    Band,         \* the least size of a static band of addresses
    None          \* no value, the empty string of a flag

ASSUME WAssumption == W \in Nat \ {0}
ASSUME NotLessThanAssumption == NotLessThan \in 0..(W - 1)
ASSUME BandAssumption == Band \in Nat \ {0}
ASSUME PrivatesAssumption ==
    \A p \in Privates : p.base \in 0..(2^W - 1) /\ p.len \in 0..NotLessThan

Address == 0..(2^W - 1)
Size(len) == 2^(W - len)
Block(base, len) == [kind |-> "block", base |-> base, len |-> len]
IP(a) == [kind |-> "ip", base |-> a, len |-> W]
HostName == [kind |-> "name", base |-> 0, len |-> 0]
Malformed == [kind |-> "malformed", base |-> 0, len |-> 0]

Blocks == [kind : {"block"}, base : Address, len : 0..W]
Entries == [kind : {"block", "ip", "name", "malformed"}, base : Address, len : 0..W]

ASSUME NoneAssumption == None \notin Entries

First(b) == b.base - (b.base % Size(b.len))
Covers(b, a) == First(b) <= a /\ a < First(b) + Size(b.len)
Canonical(b) == b.base = First(b)
Masked(b) == Block(First(b), b.len)
Overlap(a, b) == Covers(a, First(b)) \/ Covers(b, First(a))

-----------------------------------------------------------------------------
(* Blocks                                                                  *)

ValidateCIDR(b) ==
    /\ b.kind = "block"
    /\ Canonical(b)
    /\ b.len <= NotLessThan
    /\ \E p \in Privates : Covers(p, b.base)

SplitNetworkCIDR(b) ==
    [pods |-> Block(First(b), b.len + 1),
     services |-> Block(First(b) + Size(b.len + 1), b.len + 1)]

(* GetLowerBandIP: the address after the first "index" ones, in the band   *)
(* that Kubernetes gives to services with fixed addresses.                 *)
LowerBandIP(b, index) ==
    LET band == IF Size(b.len) \div 16 < Band THEN Band ELSE Size(b.len) \div 16
        end == First(b) + (IF band < Size(b.len) THEN band ELSE Size(b.len))
        selected == First(b) + index + 1
    IN  IF b.kind = "block" /\ selected <= end THEN selected ELSE None

(* Mutant: the supernet keeps the prefix of its halves.                    *)
SupernetOfHalf(a, b) ==
    IF /\ a.kind = "block" /\ b.kind = "block" /\ a.len = b.len
       /\ First(b) = (First(a) + Size(a.len)) % 2^W
    THEN Block(First(a), a.len) ELSE None

(* The block of a and b, or None: one bit shorter, from the first address  *)
(* of a, whether or not a block of that length starts there; "/-1" does    *)
(* not parse.                                                              *)
NetworksAreAdjacentAndSameSize(a, b) ==
    IF /\ a.kind = "block" /\ b.kind = "block" /\ a.len = b.len
       /\ First(b) = (First(a) + Size(a.len)) % 2^W
    THEN IF a.len = 0 THEN Malformed ELSE Block(First(a), a.len - 1)
    ELSE None

(* getCIDRConfig: cidr is the flag or its default.                         *)
CIDRConfig(cidr, pods, services, default) ==
    IF pods = None /\ services = None
    THEN [pods |-> SplitNetworkCIDR(cidr).pods, services |-> SplitNetworkCIDR(cidr).services,
          global |-> cidr]
    ELSE [pods |-> IF pods = None THEN default.pods ELSE pods,
          services |-> IF services = None THEN default.services ELSE services,
          global |-> None]

(* Mutant: the networks of two flags are checked by the first of them.     *)
CheckedFirstBlock(n) == IF n.global # None THEN {n.global} ELSE {n.pods}

(* What the host preflights check: HostPreflightTemplateData.WithCIDRData. *)
CheckedBlocks(n) == IF n.global # None THEN {n.global} ELSE {n.pods, n.services}

-----------------------------------------------------------------------------
(* Interfaces.  "foreign" interfaces are those of calico and other         *)
(* networks of containers, which isValidInterface tells by their names.    *)

Interfaces ==
    [name : STRING, foreign : BOOLEAN,
     addrs : Seq([v4 : BOOLEAN, loopback : BOOLEAN, net : Blocks])]

FirstAddress(i) ==
    LET usable == {j \in DOMAIN i.addrs : i.addrs[j].v4 /\ ~i.addrs[j].loopback}
    IN  IF usable = {} THEN None ELSE i.addrs[Min(usable)].net

ValidInterface(i) == ~i.foreign /\ FirstAddress(i) # None

FirstValidIPNet(host, name) ==
    LET all == host.interfaces
        named == {j \in DOMAIN all : ValidInterface(all[j]) /\ name \in {None, all[j].name}}
    IN  IF named = {} THEN None ELSE FirstAddress(all[Min(named)])

(* The interface that has the address of the default route; its name is    *)
(* not checked the way FirstValidIPNet does.                               *)
BestInterface(host) ==
    LET all == host.interfaces
        Has(i, a) == \E j \in DOMAIN i.addrs : i.addrs[j].net.base = a
        holders == {j \in DOMAIN all : Has(all[j], host.best)}
    IN  IF host.best = None \/ holders = {} THEN None ELSE all[Min(holders)].name

-----------------------------------------------------------------------------
(* Proxies: http, https and no (a sequence of entries), each None if unset *)

NoProxies == [http |-> None, https |-> None, no |-> None]
ProxyFlags == [http : STRING \cup {None}, https : STRING \cup {None}, no : Seq(Entries) \cup {None}]

(* SetProxyDefaults: the flag, then the variable in lower case, then the   *)
(* one in upper case, each on its own.                                     *)
WithDefaults(flags, env) ==
    [k \in DOMAIN NoProxies |->
        IF flags[k] # None THEN flags[k]
        ELSE IF env.lower[k] # None THEN env.lower[k] ELSE env.upper[k]]

HasProxy(p) == p.http # None \/ p.https # None
AnyMalformed(entries) == \E i \in DOMAIN entries : entries[i].kind = "malformed"
NoProxyHasLocalIP(entries, a) ==
    \E i \in DOMAIN entries :
        \/ entries[i].kind = "ip" /\ entries[i].base = a
        \/ entries[i].kind = "block" /\ Covers(entries[i], a)

(* The entries before the node's own: the defaults, of which none is a     *)
(* node's address, the networks of the cluster and the user's.             *)
NoProxyEntries(p, nets) ==
    <<HostName, nets.pods, nets.services>> \o (IF p.no = None THEN <<>> ELSE p.no)

(* GetProxySpec: "error", or the proxies with the whole no-proxy list in   *)
(* "list".                                                                 *)
ProxySpec(p, nets, node) ==
    LET entries == NoProxyEntries(p, nets)
        Spec(list) == [err |-> FALSE, http |-> p.http, https |-> p.https, list |-> list]
        Error == [err |-> TRUE, http |-> None, https |-> None, list |-> <<>>]
    IN  CASE p = NoProxies -> Spec(<<>>)
          [] ~HasProxy(p) /\ p # NoProxies -> Spec(entries)
          [] HasProxy(p) ->
               IF node = None \/ AnyMalformed(entries) THEN Error
               ELSE IF NoProxyHasLocalIP(entries, node.base) THEN Spec(entries)
               ELSE Spec(Append(entries, Masked(node)))

(* Mutant: a proxy for https alone is taken for none.                      *)
ReachesNodeHttp(spec, node) ==
    spec.http # None =>
        node # None /\ ~AnyMalformed(spec.list) /\ NoProxyHasLocalIP(spec.list, node.base)

(* CheckProxyConfigForLocalIP: how a join or a restore looks at it later.  *)
ReachesNode(spec, node) ==
    HasProxy(spec) => node # None /\ ~AnyMalformed(spec.list) /\ NoProxyHasLocalIP(spec.list, node.base)
=============================================================================
