------------------------------ MODULE LanConfig ------------------------------
(***************************************************************************)
(* The Set/Get LAN Configuration Parameters handlers of                   *)
(* transporthandler.cpp (setLan, getLan) and the reconciliation layer     *)
(* they call, over an abstraction of the network-management service      *)
(* (phosphor-networkd) that owns interfaces, VLANs, addresses and        *)
(* neighbours.                                                            *)
(*                                                                         *)
(* ipmid runs one handler at a time and every D-Bus call it makes is      *)
(* synchronous, so a Set request is one atomic step with respect to the   *)
(* other IPMI requests.  It is not atomic with respect to failures: each  *)
(* handler is the sequence of mutating D-Bus calls the code makes, and a  *)
(* call may fail (InternalFailure / SdBusError), which aborts the handler *)
(* after the calls before it took effect.  The service's own activity     *)
(* (DHCP leases appearing and expiring) interleaves between requests.     *)
(***************************************************************************)
EXTENDS Integers, Sequences, SequencesExt, FiniteSets

CONSTANTS
    Channels,        \* LAN channel numbers
    ChannelName,     \* getChannelName: channel -> interface name
    Ifaces,          \* interface names, as the digits after "eth"
    VlanInputs,      \* 12-bit VLAN ids a client may send
    V4Addrs,         \* IPv4 addresses a client may write
    LeaseAddrs,      \* IPv4 addresses the DHCP server may hand out
    V4Prefixes,      \* prefix lengths a Set Subnet Mask may carry
    V6Addrs,         \* IPv6 addresses a client may write
    V6Selectors,     \* set selectors of Set IPv6 Static Addresses
    GwAddrs,         \* gateway addresses a client may write
    Macs,            \* MAC addresses, abbreviated to their first octets
    MaxV6Static,     \* MAX_IPV6_STATIC_ADDRESSES
    MaxFailures,     \* bound on failed D-Bus calls in one behaviour
    MaxSwallowed,    \* of which Delete calls failing with InternalFailure
    LanParams,       \* the Set LAN parameters clients send in this model
    InitDhcp         \* DHCP modes the physical interfaces may start in

ASSUME ChannelName \in [Channels -> Ifaces]
ASSUME \A i \in Ifaces : i \in Seq(0..9) /\ i # <<>>
ASSUME VlanInputs \subseteq 0..4095
ASSUME InitDhcp \subseteq {"none", "v4", "v6", "both"} /\ InitDhcp # {}
ASSUME MaxV6Static \in Nat /\ MaxFailures \in Nat /\ MaxSwallowed \in 0..MaxFailures

VARIABLES
    net,             \* the network service's state (external, persistent)
    setStatus,       \* static setStatus map of ipmid (volatile)
    lastDisabledVlan,\* static lastDisabledVlan map of ipmid (volatile)
    reply,           \* the last event: who acted, the operation, its outcome
    failures,        \* number of failed D-Bus calls so far
    vlanWritten      \* history: the last VLAN setting a client wrote

vars == <<net, setStatus, lastDisabledVlan, reply, failures,
          vlanWritten>>

-----------------------------------------------------------------------------
(***************************************************************************)
(* Constants of the code and of its header.                               *)
(***************************************************************************)
VLAN_VALUE_MASK == 4095
VLAN_ENABLE_FLAG == 32768
DefaultPrefix4 == 32                 \* AddrFamily<AF_INET>::defaultPrefix
DefaultPrefix6 == 128                \* AddrFamily<AF_INET6>::defaultPrefix
DHCPConf == {"none", "v4", "v6", "both"}
originsV4 == {"Static", "DHCP"}
originsV6Static == {"Static"}
SetStatusFlags == {"Complete", "InProgress", "Commit", "Reserved"}
IPSrcFlags == {"Unspecified", "Static", "DHCP", "BIOS", "BMC", "Other"}
NoGateway == 0                       \* an empty gateway property
NoVlanWrite == [vid |-> 0, en |-> FALSE, known |-> FALSE]

\* ids a VLAN object can be created with: any 12-bit input but 0 (no VLAN);
\* the reserved 0xFFF is representable, the handler's guard keeps it out
VlanIds == VlanInputs \ {0}

(***************************************************************************)
(* Object paths.  A logical interface is the physical interface (vid 0)  *)
(* or one of its VLANs; its D-Bus path is /xyz/openbmc_project/network/  *)
(* eth<name> or eth<name>_<vid>.  Paths are compared as sequences of     *)
(* characters in which '/' < digits < '_', as std::map orders them.       *)
(***************************************************************************)
Slash == -1
Underscore == 10

Logical == [if : Ifaces, vid : {0} \cup VlanIds]
Physical(i) == [if |-> i, vid |-> 0]

RECURSIVE Digits(_)
Digits(k) == IF k < 10 THEN <<k>> ELSE Digits(k \div 10) \o <<k % 10>>

LogicalPath(l) ==
    IF l.vid = 0 THEN l.if ELSE l.if \o <<Underscore>> \o Digits(l.vid)

(* The path of every logical interface, computed once.                   *)
PathOf == [l \in Logical |-> LogicalPath(l)]

RECURSIVE PathLess(_, _)
PathLess(a, b) ==
    \/ a = <<>> /\ b # <<>>
    \/ /\ a # <<>> /\ b # <<>>
       /\ \/ Head(a) < Head(b)
          \/ Head(a) = Head(b) /\ PathLess(Tail(a), Tail(b))

(* Objects of the service: VLAN interfaces, IP addresses, neighbours.     *)
(* The path of an address or neighbour is its interface's path followed  *)
(* by /ipv4/, /ipv6/ or /static_neighbor/ and a hash of the object's     *)
(* attributes; the hash order is represented by the order of the address *)
(* values, then of the other attributes.                                  *)
Object == [kind : {"vlan", "ip", "neigh"}, on : Logical, fam : {0, 4, 6},
           addr : Nat, prefix : Nat, origin : {"None", "Static", "DHCP"},
           mac : Macs \cup {<<>>}]

VlanObject(l) == [kind |-> "vlan", on |-> l, fam |-> 0, addr |-> 0,
                  prefix |-> 0, origin |-> "None", mac |-> <<>>]
IpObject(l, f, a, p, o) == [kind |-> "ip", on |-> l, fam |-> f, addr |-> a,
                            prefix |-> p, origin |-> o, mac |-> <<>>]
NeighObject(l, f, a, m) == [kind |-> "neigh", on |-> l, fam |-> f, addr |-> a,
                            prefix |-> 0, origin |-> "None", mac |-> m]

ObjectPath(o) ==
    PathOf[o.on] \o
        CASE o.kind = "vlan"  -> <<>>
          [] o.kind = "ip"    -> <<Slash, IF o.fam = 4 THEN 50 ELSE 51, o.addr, o.prefix,
                                   IF o.origin = "Static" THEN 0 ELSE 1>>
          [] o.kind = "neigh" -> <<Slash, 60, o.fam, o.addr>> \o o.mac

ObjectLess(a, b) == PathLess(ObjectPath(a), ObjectPath(b))

(* The objects of S in the order std::map iterates their paths.          *)
RECURSIVE SortedObjects(_)
SortedObjects(S) ==
    IF S = {} THEN <<>>
    ELSE LET m == CHOOSE x \in S : \A y \in S \ {x} : ObjectLess(x, y)
         IN <<m>> \o SortedObjects(S \ {m})
LogicalLess(a, b) == PathLess(PathOf[a], PathOf[b])

(* path.find(ifname) != npos: every path starts with .../network/eth,     *)
(* so the name occurs in a path exactly when its digits start the path's *)
(* interface segment.                                                     *)
PathHasName(name, l) == IsPrefix(name, PathOf[l])

First(S, Less(_, _)) == CHOOSE x \in S : \A y \in S \ {x} : Less(x, y)


-----------------------------------------------------------------------------
(***************************************************************************)
(* The service's state and the calls ipmid makes on it.                   *)
(***************************************************************************)
Exists(n, l) == l.vid = 0 \/ VlanObject(l) \in n.objs

(* maybeGetChannelParams: among the VLAN and Ethernet objects whose path *)
(* contains the channel's name, in path order, the first non-VLAN one is *)
(* ifPath and the first VLAN one is logicalPath (default: ifPath).        *)
NamedLogical == [ch \in Channels |-> {l \in Logical : PathHasName(ChannelName[ch], l)}]

ChannelParams(n, ch) ==
    LET named == {l \in NamedLogical[ch] : Exists(n, l)}
        phys  == {l \in named : l.vid = 0}
        vlans == {l \in named : l.vid # 0}
        ifPath == First(phys, LogicalLess)
    IN [ifname |-> ChannelName[ch], ifPath |-> ifPath,
        logicalPath |-> IF vlans = {} THEN ifPath ELSE First(vlans, LogicalLess)]

(* getIfAddr / findIfAddr: the idx-th address of the family on the       *)
(* logical interface, in path order, whose origin is in origins.          *)
IfAddrs(n, l, f, origins) ==
    SortedObjects({o \in n.objs : /\ o.kind = "ip" /\ o.on = l /\ o.fam = f
                                 /\ o.origin \in origins})
HasIfAddr(n, l, f, origins, idx) == idx < Len(IfAddrs(n, l, f, origins))
IfAddr(n, l, f, origins, idx) == IfAddrs(n, l, f, origins)[idx + 1]

getDHCPProperty(n, l) == n.dhcp[l]

(* findStaticNeighbor / findGatewayNeighbor: the static neighbour entry  *)
(* for the family's gateway, if a gateway is set.                         *)
GatewayNeighbors(n, l, f) ==
    {o \in n.objs : /\ o.kind = "neigh" /\ o.on = l /\ o.fam = f
                    /\ o.addr = n.gw[f] /\ n.gw[f] # NoGateway}
findGatewayNeighbor(n, l, f) ==
    First(GatewayNeighbors(n, l, f), ObjectLess)

(* Deleting a VLAN interface removes the objects below it as well.        *)
DeleteObject(n, o) ==
    [n EXCEPT !.objs = IF o.kind = "vlan"
                       THEN {x \in @ : x # o /\ x.on # o.on}
                       ELSE @ \ {o}]

(* The effect of one mutating call.  deleteObjectIfExists swallows the   *)
(* UnknownObject error, so deleting an absent object changes nothing.     *)
Apply(n, call) ==
    CASE call.op = "delete"     -> DeleteObject(n, call.obj)
      [] call.op = "create"     -> [n EXCEPT !.objs = @ \cup {call.obj}]
      [] call.op = "createVlan" -> [n EXCEPT !.objs = @ \cup {VlanObject(call.on)},
                                             !.dhcp[call.on] = "none"]
      [] call.op = "setDhcp"    -> [n EXCEPT !.dhcp[call.on] = call.val]
      [] call.op = "setGateway" -> [n EXCEPT !.gw[call.fam] = call.val]
      [] call.op = "setMac"     -> [n EXCEPT !.mac[call.if] = call.val]

ApplyAll(n, calls) == FoldLeft(Apply, n, calls)

Delete(o) == [op |-> "delete", obj |-> o]
Create(o) == [op |-> "create", obj |-> o]
SetDhcp(l, v) == [op |-> "setDhcp", on |-> l, val |-> v]

-----------------------------------------------------------------------------
(***************************************************************************)
(* The reconciliation layer: each operator gives the sequence of          *)
(* mutating calls the C++ function makes, computed from what it reads.    *)
(***************************************************************************)
NoValue == -1                        \* std::nullopt
InvalidNetmask == -2                 \* a netmask that is not a run of ones

(* setDHCPv4Property: the combined mode written when the IPv4 family is  *)
(* switched to req.  nextDhcp starts as none and only the listed cases   *)
(* assign it.                                                             *)
NextDHCPv4(cur, req) ==
    IF cur = "v6" /\ req = "v4" THEN "both"
    ELSE IF cur = "none" /\ req = "v4" THEN req
    ELSE IF req = "none"
         THEN IF cur = "both" THEN "v6"
              ELSE IF cur = "v4" THEN "none"
              ELSE "none"
    ELSE cur

(* setDHCPv6Property variant that applies the per-family rules even in  *)
(* the non-default mode.                                                  *)
NextDHCPv6IgnoresMode(cur, req, defaultMode) ==
    IF cur = "v4" /\ req = "v6" THEN "both"
    ELSE IF cur = "none" /\ req = "v6" THEN req
    ELSE IF req = "none"
         THEN IF cur = "both" THEN "v4" ELSE "none"
    ELSE cur

(* setDHCPv6Property; with defaultMode FALSE the request is written as is.*)
NextDHCPv6(cur, req, defaultMode) ==
    IF ~defaultMode THEN req
    ELSE IF cur = "v4" /\ req = "v6" THEN "both"
    ELSE IF cur = "none" /\ req = "v6" THEN req
    ELSE IF req = "none"
         THEN IF cur = "both" THEN "v4"
              ELSE IF cur = "v6" THEN "none"
              ELSE "none"
    ELSE cur

isValidMACAddress(mac) ==
    /\ \E k \in DOMAIN mac : mac[k] # 0
    /\ mac[1] % 2 = 0

(* reconfigureIfAddr4 can run only with an existing address or a new one *)
CanReconfigureIfAddr4(n, l, address) ==
    HasIfAddr(n, l, 4, originsV4, 0) \/ address # NoValue

reconfigureIfAddr4(n, l, address, prefix) ==
    LET has == HasIfAddr(n, l, 4, originsV4, 0)
        ifaddr == IfAddr(n, l, 4, originsV4, 0)
        fallbackPrefix == IF has THEN ifaddr.prefix ELSE DefaultPrefix4
    IN (IF has THEN <<Delete(ifaddr)>> ELSE <<>>)
       \o <<Create(IpObject(l, 4,
                            IF address # NoValue THEN address ELSE ifaddr.addr,
                            IF prefix # NoValue THEN prefix ELSE fallbackPrefix,
                            "Static"))>>

reconfigureGatewayMAC(n, l, f, mac) ==
    (IF GatewayNeighbors(n, l, f) # {}
     THEN <<Delete(findGatewayNeighbor(n, l, f))>> ELSE <<>>)
    \o <<Create(NeighObject(l, f, n.gw[f], mac))>>

deconfigureIfAddr6(n, l, idx) ==
    IF HasIfAddr(n, l, 6, originsV6Static, idx)
    THEN <<Delete(IfAddr(n, l, 6, originsV6Static, idx))>>
    ELSE <<>>

reconfigureIfAddr6(n, l, idx, address, prefix) ==
    deconfigureIfAddr6(n, l, idx)
    \o <<Create(IpObject(l, 6, address, prefix, "Static"))>>

getVLANProperty(p) == IF p.ifPath = p.logicalPath THEN 0 ELSE p.logicalPath.vid

(* deconfigureChannel variants: without the name filter, and sparing    *)
(* VLAN objects.                                                          *)
deconfigureChannelAll(n, p) ==
    LET doomed == SortedObjects(n.objs)
        logical == IF \E k \in DOMAIN doomed :
                          ObjectPath(doomed[k]) = PathOf[p.logicalPath]
                   THEN p.ifPath ELSE p.logicalPath
    IN [calls |-> [k \in DOMAIN doomed |-> Delete(doomed[k])]
                  \o <<SetDhcp(logical, NextDHCPv6(n.dhcp[logical], "none", FALSE))>>,
        logicalPath |-> logical]
deconfigureChannelKeepsVlans(n, p) ==
    LET doomed == SortedObjects({o \in n.objs : PathHasName(p.ifname, o.on) /\ o.kind # "vlan"})
        logical == IF \E k \in DOMAIN doomed :
                          ObjectPath(doomed[k]) = PathOf[p.logicalPath]
                   THEN p.ifPath ELSE p.logicalPath
    IN [calls |-> [k \in DOMAIN doomed |-> Delete(doomed[k])]
                  \o <<SetDhcp(logical, NextDHCPv6(n.dhcp[logical], "none", FALSE))>>,
        logicalPath |-> logical]

(* deconfigureChannel: delete, in path order, every deletable object     *)
(* whose path contains the interface name, then clear DHCP on what is    *)
(* left.  Returns the calls and the logical path it leaves in params.     *)
deconfigureChannel(n, p) ==
    LET doomed == SortedObjects({o \in n.objs : PathHasName(p.ifname, o.on)})
        logical == IF \E k \in DOMAIN doomed :
                          ObjectPath(doomed[k]) = PathOf[p.logicalPath]
                   THEN p.ifPath ELSE p.logicalPath
    IN [calls |-> [k \in DOMAIN doomed |-> Delete(doomed[k])]
                  \o <<SetDhcp(logical, NextDHCPv6(n.dhcp[logical], "none", FALSE))>>,
        logicalPath |-> logical]

(* createVLAN: a VLAN named after the channel's interface; the new       *)
(* object becomes the logical path.                                       *)
createVLAN(p, logical, vlan) ==
    IF vlan = 0 THEN [calls |-> <<>>, logicalPath |-> logical]
    ELSE [calls |-> <<[op |-> "createVlan", on |-> [if |-> p.ifname, vid |-> vlan]]>>,
          logicalPath |-> [if |-> p.ifname, vid |-> vlan]]

(* The static IPv6 addresses reconfigureVLAN saves: slots 0, 1, ... up   *)
(* to MAX_IPV6_STATIC_ADDRESSES, stopping at the first missing one.       *)
SavedIfAddrs6(n, old) ==
    LET all6 == IfAddrs(n, old, 6, originsV6Static)
    IN SubSeq(all6, 1, IF Len(all6) < MaxV6Static THEN Len(all6) ELSE MaxV6Static)

(* reconfigureVLAN: save the IPv4 address, the static IPv6 addresses,    *)
(* the DHCP mode and both gateway neighbours of the old logical          *)
(* interface; deconfigure; create the VLAN; restore on the new one.  The *)
(* DHCP restore reads the new interface's mode, which deconfigureChannel *)
(* or the VLAN creation has just made none.                               *)
reconfigureVLAN(n, p, vlan) ==
    LET old == p.logicalPath
        ifaddr4 == IF HasIfAddr(n, old, 4, originsV4, 0)
                   THEN <<IfAddr(n, old, 4, originsV4, 0)>> ELSE <<>>
        ifaddrs6 == SavedIfAddrs6(n, old)
        dhcp == getDHCPProperty(n, old)
        saved == SelectSeq(<<4, 6>>, LAMBDA f : GatewayNeighbors(n, old, f) # {})
        deconf == deconfigureChannel(n, p)
        created == createVLAN(p, deconf.logicalPath, vlan)
        new == created.logicalPath
        Restore(o) == Create([o EXCEPT !.on = new, !.origin = IF o.kind = "ip"
                                                            THEN "Static"
                                                            ELSE o.origin])
    IN deconf.calls \o created.calls
       \o <<SetDhcp(new, NextDHCPv6("none", dhcp, FALSE))>>
       \o [k \in DOMAIN ifaddr4 |-> Restore(ifaddr4[k])]
       \o [k \in DOMAIN ifaddrs6 |-> Restore(ifaddrs6[k])]
       \o [k \in DOMAIN saved |-> Restore(findGatewayNeighbor(n, old, saved[k]))]

-----------------------------------------------------------------------------
(***************************************************************************)
(* The Get LAN Configuration Parameters responses (getLan), as functions  *)
(* of the state.  Byte packing is left out; the fields are kept.          *)
(***************************************************************************)
ZeroMac == [k \in 1..2 |-> 0]

GetIP(n, ch) ==
    LET l == ChannelParams(n, ch).logicalPath
    IN IF HasIfAddr(n, l, 4, originsV4, 0) THEN IfAddr(n, l, 4, originsV4, 0).addr ELSE 0

GetSubnetMask(n, ch) ==                  \* as a prefix; see NetmaskCodec
    LET l == ChannelParams(n, ch).logicalPath
    IN IF HasIfAddr(n, l, 4, originsV4, 0)
       THEN IfAddr(n, l, 4, originsV4, 0).prefix ELSE DefaultPrefix4

GetIPSrc(n, ch) ==
    IF getDHCPProperty(n, ChannelParams(n, ch).logicalPath) \in {"v4", "both"}
    THEN "DHCP" ELSE "Static"

GetGatewayMAC(n, ch, f) ==
    LET l == ChannelParams(n, ch).logicalPath
    IN IF GatewayNeighbors(n, l, f) # {} THEN findGatewayNeighbor(n, l, f).mac
       ELSE ZeroMac

GetVLANId(n, lastDisabled, ch) ==
    LET vlan == getVLANProperty(ChannelParams(n, ch))
    IN IF vlan # 0 THEN vlan + VLAN_ENABLE_FLAG ELSE lastDisabled[ch]

(* getLanIPv6Address for the static slots (set < MAX checked by getLan)  *)
GetIPv6StaticAddress(n, ch, set) ==
    LET l == ChannelParams(n, ch).logicalPath
    IN IF HasIfAddr(n, l, 6, originsV6Static, set)
       THEN [enabled |-> TRUE, addr |-> IfAddr(n, l, 6, originsV6Static, set).addr,
             prefix |-> IfAddr(n, l, 6, originsV6Static, set).prefix,
             status |-> "Active"]
       ELSE [enabled |-> FALSE, addr |-> 0, prefix |-> DefaultPrefix6,
             status |-> "Disabled"]

GetIPv6RouterControl(n, ch) ==
    IF getDHCPProperty(n, ChannelParams(n, ch).logicalPath) \in {"both", "v6"}
    THEN "Dynamic" ELSE "Static"

(* The map holds an entry for every channel; a missing one reads Complete.*)
GetSetStatus(status, ch) == status[ch]

GetMAC(n, ch) == n.mac[ChannelParams(n, ch).ifPath.if]

GetGateway(n) == n.gw[4]                  \* value_or(in_addr{})

(* The IPv6 static router is reported only while DHCPv6 is off.          *)
GetIPv6StaticRouter1IP(n, ch) ==
    IF getDHCPProperty(n, ChannelParams(n, ch).logicalPath) \in {"v4", "none"}
    THEN n.gw[6] ELSE NoGateway

(* Everything a client can read back about a channel's configuration     *)
(* other than the VLAN itself.                                            *)
Observed(n, ch) ==
    [ip |-> GetIP(n, ch), mask |-> GetSubnetMask(n, ch), src |-> GetIPSrc(n, ch),
     v6 |-> [set \in 0..MaxV6Static - 1 |-> GetIPv6StaticAddress(n, ch, set)],
     gwmac |-> [f \in {4, 6} |-> GetGatewayMAC(n, ch, f)],
     router |-> GetIPv6RouterControl(n, ch), mac |-> GetMAC(n, ch),
     gw |-> GetGateway(n), router1 |-> GetIPv6StaticRouter1IP(n, ch)]

-----------------------------------------------------------------------------
(***************************************************************************)
(* Handlers.  Call runs the mutating calls of a handler: all of them and  *)
(* a success response, or, if a call fails, the ones before it and an     *)
(* unspecified-error response.  deleteObjectIfExists swallows a Delete    *)
(* failing with InternalFailure: the object stays, the handler goes on.  *)
(***************************************************************************)
Reply(ch, op, cc) == reply' = [by |-> ch, op |-> op, cc |-> cc]

Call(ch, op, calls) ==
    \/ /\ net' = ApplyAll(net, calls)
       /\ Reply(ch, op, "ok")
       /\ UNCHANGED failures
    \/ /\ failures < MaxFailures
       /\ \E j \in {0} \cup 0..Len(calls) - 1 :
             net' = ApplyAll(net, SubSeq(calls, 1, j))
       /\ Reply(ch, op, "error")
       /\ failures' = failures + 1
    \/ /\ failures < MaxSwallowed
       /\ \E j \in DOMAIN calls :
             /\ calls[j].op = "delete"
             /\ net' = ApplyAll(net, RemoveAt(calls, j))
       /\ Reply(ch, op, "ok")
       /\ failures' = failures + 1

(* A response decided before any call is made.                           *)
Refuse(ch, op, cc) ==
    /\ Reply(ch, op, cc)
    /\ UNCHANGED <<net, failures, setStatus, lastDisabledVlan, vlanWritten>>

Params(ch) == ChannelParams(net, ch)
Dhcp4Active(ch) == getDHCPProperty(net, Params(ch).logicalPath) \in {"v4", "both"}

(* Mutants of the SetStatus case: InProgress granted without looking at   *)
(* the map; Commit releasing the latch; Commit stored in the map.         *)
SetLanSetStatusUnlocked(ch, flag) ==
    /\ flag \in {"Complete", "InProgress"}
    /\ setStatus' = [setStatus EXCEPT ![ch] = flag]
    /\ Reply(ch, "SetStatus", "ok")
    /\ UNCHANGED <<net, failures, lastDisabledVlan, vlanWritten>>
SetLanSetStatusCommitReleases(ch, flag) ==
    /\ flag \in {"Complete", "InProgress", "Commit"}
    /\ setStatus[ch] = "InProgress" => flag # "InProgress"
    /\ setStatus' = [setStatus EXCEPT ![ch] = IF flag = "InProgress" THEN flag ELSE "Complete"]
    /\ Reply(ch, "SetStatus", "ok")
    /\ UNCHANGED <<net, failures, lastDisabledVlan, vlanWritten>>
\* Mutant: the InProgress lock check made before the switch, so that
\* Complete is refused while the latch is held.
SetLanSetStatusLockedComplete(ch, flag) ==
    /\ flag \in {"Complete", "InProgress"}
    /\ \/ setStatus[ch] = "InProgress" /\ Reply(ch, "SetStatus", "locked")
          /\ UNCHANGED setStatus
       \/ setStatus[ch] # "InProgress" /\ Reply(ch, "SetStatus", "ok")
          /\ setStatus' = [setStatus EXCEPT ![ch] = flag]
    /\ UNCHANGED <<net, failures, lastDisabledVlan, vlanWritten>>
SetLanSetStatusStoresCommit(ch, flag) ==
    /\ flag \in {"Complete", "InProgress", "Commit"}
    /\ setStatus[ch] = "InProgress" => flag # "InProgress"
    /\ setStatus' = [setStatus EXCEPT ![ch] = flag]
    /\ Reply(ch, "SetStatus", "ok")
    /\ UNCHANGED <<net, failures, lastDisabledVlan, vlanWritten>>

(* LanParam::SetStatus                                                    *)
SetLanSetStatus(ch, flag) ==
    /\ \/ /\ flag = "Complete"
          /\ setStatus' = [setStatus EXCEPT ![ch] = "Complete"]
          /\ Reply(ch, "SetStatus", "ok")
       \/ /\ flag = "InProgress"
          /\ \/ setStatus[ch] = "InProgress" /\ Reply(ch, "SetStatus", "locked")
                /\ UNCHANGED setStatus
             \/ setStatus[ch] # "InProgress" /\ Reply(ch, "SetStatus", "ok")
                /\ setStatus' = [setStatus EXCEPT ![ch] = "InProgress"]
       \/ /\ flag = "Commit"
          /\ Reply(ch, "SetStatus", IF setStatus[ch] # "InProgress" THEN "invalid" ELSE "ok")
          /\ UNCHANGED setStatus
       \/ /\ flag = "Reserved"
          /\ Reply(ch, "SetStatus", "notSupported")
          /\ UNCHANGED setStatus
    /\ UNCHANGED <<net, failures, lastDisabledVlan, vlanWritten>>

(* LanParam::IP                                                           *)
SetLanIP(ch, ip) ==
    \/ Dhcp4Active(ch) /\ Refuse(ch, "IP", "notAvailable")
    \/ /\ ~Dhcp4Active(ch)
       /\ Call(ch, "IP", reconfigureIfAddr4(net, Params(ch).logicalPath, ip, NoValue))
       /\ UNCHANGED <<setStatus, lastDisabledVlan, vlanWritten>>

(* LanParam::SubnetMask; an invalid netmask and a missing address raise  *)
(* InternalFailure before any call.                                       *)
SetLanSubnetMask(ch, prefix) ==
    LET l == Params(ch).logicalPath
    IN \/ Dhcp4Active(ch) /\ Refuse(ch, "SubnetMask", "notAvailable")
       \/ /\ ~Dhcp4Active(ch)
          /\ \/ prefix = InvalidNetmask
             \/ ~CanReconfigureIfAddr4(net, l, NoValue)
          /\ Refuse(ch, "SubnetMask", "error")
       \/ /\ ~Dhcp4Active(ch) /\ prefix # InvalidNetmask
          /\ CanReconfigureIfAddr4(net, l, NoValue)
          /\ Call(ch, "SubnetMask", reconfigureIfAddr4(net, l, NoValue, prefix))
          /\ UNCHANGED <<setStatus, lastDisabledVlan, vlanWritten>>

(* LanParam::IPSrc                                                        *)
SetLanIPSrc(ch, flag) ==
    LET l == Params(ch).logicalPath
        cur == getDHCPProperty(net, l)
    IN \/ /\ flag \in {"DHCP", "Unspecified", "Static"}
          /\ Call(ch, "IPSrc", <<SetDhcp(l, NextDHCPv4(cur, IF flag = "DHCP"
                                                            THEN "v4" ELSE "none"))>>)
          /\ UNCHANGED <<setStatus, lastDisabledVlan, vlanWritten>>
       \/ flag \in {"BIOS", "BMC"} /\ Refuse(ch, "IPSrc", "invalid")
       \/ flag = "Other" /\ Refuse(ch, "IPSrc", "notSupported")

(* LanParam::MAC                                                          *)
SetLanMAC(ch, mac) ==
    \/ ~isValidMACAddress(mac) /\ Refuse(ch, "MAC", "invalid")
    \/ /\ isValidMACAddress(mac)
       /\ Call(ch, "MAC", <<[op |-> "setMac", if |-> Params(ch).ifPath.if, val |-> mac]>>)
       /\ UNCHANGED <<setStatus, lastDisabledVlan, vlanWritten>>

(* LanParam::Gateway1 (family 4, refused under DHCPv4) and               *)
(* LanParam::IPv6StaticRouter1IP (family 6, no DHCP check).               *)
SetLanGateway(ch, f, gw) ==
    \/ f = 4 /\ Dhcp4Active(ch) /\ Refuse(ch, "Gateway", "notAvailable")
    \/ /\ f = 6 \/ ~Dhcp4Active(ch)
       /\ Call(ch, "Gateway", <<[op |-> "setGateway", fam |-> f, val |-> gw]>>)
       /\ UNCHANGED <<setStatus, lastDisabledVlan, vlanWritten>>

(* LanParam::Gateway1MAC and IPv6StaticRouter1MAC                         *)
SetLanGatewayMAC(ch, f, mac) ==
    LET l == Params(ch).logicalPath
    IN \/ net.gw[f] = NoGateway /\ Refuse(ch, "GatewayMAC", "error")
       \/ /\ net.gw[f] # NoGateway
          /\ Call(ch, "GatewayMAC", reconfigureGatewayMAC(net, l, f, mac))
          /\ UNCHANGED <<setStatus, lastDisabledVlan, vlanWritten>>

(* LanParam::IPv6RouterControl: validation only.  The request must set   *)
(* exactly the bit the channel's DHCP mode implies: Dynamic under DHCPv6, *)
(* Static otherwise.                                                      *)
SetLanIPv6RouterControl(ch, control) ==
    LET expected == IF getDHCPProperty(net, Params(ch).logicalPath) \in {"both", "v6"}
                    THEN {"Dynamic"} ELSE {"Static"}
    IN Refuse(ch, "RouterControl", IF control = expected THEN "ok" ELSE "invalid")

(* LanParam::IPv6StaticAddresses.  The selector is not checked against  *)
(* MAX_IPV6_STATIC_ADDRESSES.  Every request carries prefix 64: the      *)
(* prefix is passed through unchanged and no property depends on it.     *)
SetLanIPv6StaticAddress(ch, set, enabled, ip) ==
    LET l == Params(ch).logicalPath
    IN /\ Call(ch, "IPv6Static", IF enabled THEN reconfigureIfAddr6(net, l, set, ip, 64)
                                 ELSE deconfigureIfAddr6(net, l, set))
       /\ UNCHANGED <<setStatus, lastDisabledVlan, vlanWritten>>

(* lastDisabledVlan[channel] = vlan when the request disables the VLAN. *)
RecordDisabledVlanFlagged(ch, vlanData, vlanEnable) ==   \* stores vlan | flag
    lastDisabledVlan' = [lastDisabledVlan EXCEPT ![ch] =
                            IF vlanEnable THEN vlanData + VLAN_ENABLE_FLAG ELSE vlanData]
RecordDisabledVlan(ch, vlanData, vlanEnable) ==
    lastDisabledVlan' = IF vlanEnable THEN lastDisabledVlan
                        ELSE [lastDisabledVlan EXCEPT ![ch] = vlanData]

SetLanVLANId(ch, vlanData, reserved, vlanEnable) ==
    \/ reserved # 0 /\ Refuse(ch, "VLANId", "invalid")
    \/ /\ reserved = 0 /\ vlanEnable /\ vlanData \in {0, VLAN_VALUE_MASK}
       /\ Refuse(ch, "VLANId", "invalid")
    \/ /\ reserved = 0 /\ (~vlanEnable \/ vlanData \notin {0, VLAN_VALUE_MASK})
       /\ RecordDisabledVlan(ch, vlanData, vlanEnable)
       /\ Call(ch, "VLANId", reconfigureVLAN(net, Params(ch),
                                            IF vlanEnable THEN vlanData ELSE 0))
       /\ vlanWritten' = [vlanWritten EXCEPT ![ch] =
                             IF reply'.cc = "ok"
                             THEN [vid |-> vlanData, en |-> vlanEnable, known |-> TRUE]
                             ELSE NoVlanWrite]
       /\ UNCHANGED <<setStatus>>

-----------------------------------------------------------------------------
(***************************************************************************)
(* The service's own activity and the restart of ipmid.                   *)
(***************************************************************************)
LeasePrefix == 24

(* The DHCP client of a logical interface with DHCPv4 enabled obtains a  *)
(* lease: an IPv4 address object of origin DHCP.                          *)
DhcpLease(l, a) ==
    /\ Exists(net, l)
    /\ net.dhcp[l] \in {"v4", "both"}
    /\ ~\E o \in net.objs : o.kind = "ip" /\ o.on = l /\ o.fam = 4 /\ o.origin = "DHCP"
    /\ net' = [net EXCEPT !.objs = @ \cup {IpObject(l, 4, a, LeasePrefix, "DHCP")}]
    /\ reply' = [by |-> 0, op |-> "lease", cc |-> "ok"]
    /\ UNCHANGED <<setStatus, lastDisabledVlan, failures, vlanWritten>>

(* A lease expires or is dropped after DHCPv4 was switched off.           *)
DhcpExpire(o) ==
    /\ o \in net.objs /\ o.origin = "DHCP"
    /\ net' = [net EXCEPT !.objs = @ \ {o}]
    /\ reply' = [by |-> 0, op |-> "expire", cc |-> "ok"]
    /\ UNCHANGED <<setStatus, lastDisabledVlan, failures, vlanWritten>>

(* ipmid restarts: the two static maps start empty again.  Clients'      *)
(* expectations of the VLAN read-back go with them (the value is only    *)
(* kept in memory, by design).                                            *)
Restart ==
    /\ setStatus' = [ch \in Channels |-> "Complete"]
    /\ lastDisabledVlan' = [ch \in Channels |-> 0]
    /\ vlanWritten' = [ch \in Channels |-> NoVlanWrite]
    /\ reply' = [by |-> 0, op |-> "restart", cc |-> "ok"]
    /\ UNCHANGED <<net, failures>>

-----------------------------------------------------------------------------
InitMacs == {m \in Macs : isValidMACAddress(m)}

(* networkd has the physical interfaces, no VLAN, address, neighbour or  *)
(* gateway yet, and each physical interface in a DHCP mode of InitDhcp;  *)
(* ipmid has just started.                                                *)
Init ==
    /\ net \in [objs : {{}}, dhcp : {d \in [Logical -> DHCPConf] :
                                     \A l \in Logical : d[l] \in IF l.vid = 0 THEN InitDhcp
                                                                  ELSE {"none"}},
               gw : {[f \in {4, 6} |-> NoGateway]}, mac : [Ifaces -> InitMacs]]
    /\ setStatus = [ch \in Channels |-> "Complete"]
    /\ lastDisabledVlan = [ch \in Channels |-> 0]
    /\ reply = [by |-> 0, op |-> "init", cc |-> "ok"]
    /\ failures = 0
    /\ vlanWritten = [ch \in Channels |-> NoVlanWrite]

Sends(p) == p \in LanParams

Next ==
    \/ \E ch \in Channels :
          \/ Sends("SetStatus") /\ \E flag \in SetStatusFlags : SetLanSetStatus(ch, flag)
          \/ Sends("IP") /\ \E ip \in V4Addrs : SetLanIP(ch, ip)
          \/ Sends("SubnetMask") /\ \E p \in V4Prefixes \cup {InvalidNetmask} :
                                      SetLanSubnetMask(ch, p)
          \/ Sends("IPSrc") /\ \E flag \in IPSrcFlags : SetLanIPSrc(ch, flag)
          \/ Sends("MAC") /\ \E m \in Macs : SetLanMAC(ch, m)
          \/ Sends("Gateway") /\ \E f \in {4, 6}, gw \in GwAddrs : SetLanGateway(ch, f, gw)
          \/ Sends("GatewayMAC") /\ \E f \in {4, 6}, m \in Macs : SetLanGatewayMAC(ch, f, m)
          \/ Sends("RouterControl") /\ \E bits \in SUBSET {"Static", "Dynamic"} :
                                         SetLanIPv6RouterControl(ch, bits)
          \/ Sends("IPv6Static") /\ \E set \in V6Selectors, en \in BOOLEAN, ip \in V6Addrs :
                                      SetLanIPv6StaticAddress(ch, set, en, ip)
          \/ Sends("VLANId") /\ \/ \E v \in VlanInputs, en \in BOOLEAN : SetLanVLANId(ch, v, 0, en)
                                \/ SetLanVLANId(ch, 0, 1, TRUE)   \* a reserved bit set
    \/ \E l \in Logical, a \in LeaseAddrs : DhcpLease(l, a)
    \/ \E o \in net.objs : DhcpExpire(o)
    \/ Restart

Spec == Init /\ [][Next]_vars

(* reply only records what the last step was, for the action properties; *)
(* no guard reads it, so states that differ only in it behave alike.      *)
StateView == <<net, setStatus, lastDisabledVlan, failures, vlanWritten>>

-----------------------------------------------------------------------------
TypeOK ==
    /\ net.objs \subseteq Object
    /\ net.dhcp \in [Logical -> DHCPConf]
    /\ net.gw \in [{4, 6} -> {NoGateway} \cup GwAddrs]
    /\ net.mac \in [Ifaces -> Macs]
    /\ setStatus \in [Channels -> SetStatusFlags \ {"Reserved", "Commit"}]
    /\ lastDisabledVlan \in [Channels -> 0..VLAN_VALUE_MASK]
    /\ reply.by \in {0} \cup Channels
    /\ failures \in 0..MaxFailures
    /\ vlanWritten \in [Channels -> [vid : 0..VLAN_VALUE_MASK, en : BOOLEAN,
                                     known : BOOLEAN]]

(* The interface a Set request acted on.                                  *)
ActedOn == ChannelParams(net, reply'.by).logicalPath
SucceededStep(op) == reply'.op = op /\ reply'.cc = "ok" /\ reply'.by \in Channels

(* Set VLAN ID / Get VLAN ID: once a client's VLAN write succeeded, the  *)
(* channel reads back what was written -- the id with the enable flag,   *)
(* or the disabled id from lastDisabledVlan -- whatever Set requests,     *)
(* leases and failed calls happened since.  Channel resolution picks the *)
(* first VLAN object whose path contains the interface name, so this     *)
(* fails if a VLAN survives deconfigureChannel or another interface's    *)
(* VLAN matches the name.                                                 *)
VlanReadBack ==
    \A ch \in Channels :
        vlanWritten[ch].known =>
            GetVLANId(net, lastDisabledVlan, ch) =
                IF vlanWritten[ch].en THEN vlanWritten[ch].vid + VLAN_ENABLE_FLAG
                ELSE vlanWritten[ch].vid

VlanSwapPreservesReadback ==
    [][SucceededStep("VLANId") =>
           Observed(net', reply'.by) = Observed(net, reply'.by)]_vars

(* reconfigureVLAN restores every static IPv6 address of the old logical *)
(* interface on the new one (section 4.6: all configured IPv6 static      *)
(* addresses are snapshotted and replayed).                               *)
StaticV6Of(n, ch) ==
    {o.addr : o \in {x \in n.objs : /\ x.kind = "ip" /\ x.fam = 6 /\ x.origin = "Static"
                                    /\ x.on = ChannelParams(n, ch).logicalPath}}
VlanSwapKeepsStaticV6 ==
    [][SucceededStep("VLANId") =>
           StaticV6Of(net', reply'.by) = StaticV6Of(net, reply'.by)]_vars

(* A Set request on one channel -- including a failed one and a VLAN     *)
(* swap that deletes everything matching the interface name -- leaves   *)
(* the addresses, neighbours, VLANs, DHCP modes and MAC of every other   *)
(* channel's interface untouched.                                         *)
OnIface(n, i) == {o \in n.objs : o.on.if = i}
OtherIfaces == Ifaces \ {ChannelName[reply'.by]}
ChannelIsolation ==
    [][reply'.by \in Channels =>
           \A i \in OtherIfaces :
               /\ OnIface(net', i) = OnIface(net, i)
               /\ \A l \in Logical : l.if = i => net'.dhcp[l] = net.dhcp[l]
               /\ net'.mac[i] = net.mac[i]]_vars

(* Set IP Address Source changes only the IPv4 half of the DHCP mode     *)
(* (section 2: toggles "must compute the combined value without          *)
(* disturbing the other family's bit"): DHCPv6 is on after a successful *)
(* IPSrc request exactly when it was on before.                           *)
V6On(d) == d \in {"v6", "both"}
IPSrcKeepsDhcpV6 ==
    [][SucceededStep("IPSrc") =>
           V6On(net'.dhcp[ActedOn]) = V6On(net.dhcp[ActedOn])]_vars
=============================================================================
