-------------------------- MODULE NetworkInterfaces --------------------------
(***************************************************************************)
(* The host's network interfaces as the server reads them from the kernel   *)
(* over rtnetlink, for clients that enumerate them and for the addresses it *)
(* publishes itself.                                                        *)
(*                                                                         *)
(* kernel is a record: links, a set of [ifindex, name, type, mac];          *)
(* addresses, a set of [ifindex, family, host, prefixlen]; and rtnetlink,   *)
(* "ok" or how an exchange with the kernel fails.  A failed dump throws out *)
(* of functions that are noexcept, and the server is gone: the operators    *)
(* that make a dump answer with a sequence, empty in this case.             *)
(*                                                                         *)
(* An address given to the server or its client is a text [form, host,      *)
(* port] with form "any4", "any6", "dotted" or "other" and port a sequence  *)
(* of at most one number.                                                   *)
(***************************************************************************)
EXTENDS ServiceApiAdapters

\* Pairs of hosts, the text of the first the beginning of that of the second.
CONSTANT TextPrefixes

-----------------------------------------------------------------------------
\* "/24" follows the host unless it is the whole address.
GetAddressAscii(address) ==
    [host   |-> address.host,
     prefix |-> IF address.prefixlen = (IF address.family = "AF_INET" THEN 32 ELSE 128)
                THEN <<>> ELSE <<address.prefixlen>>]

NetlinkIpAddressFromRtnlAddr(address) ==
    [InterfaceIndex |-> address.ifindex, Family |-> address.family,
     PrefixLength |-> address.prefixlen, Address |-> GetAddressAscii(address)]

\* The kernel names the kind of virtual links only.
NetlinkLinkFromRtnlLink(link) ==
    [InterfaceIndex |-> link.ifindex, Name |-> link.name,
     Type |-> Optional(link.type, "none"), MacAddress |-> link.mac]

\* Nothing is sent if there is no socket, nothing read if the dump fails.
CreateNlRouteSocket(kernel) == kernel.rtnetlink # "no socket"

NetlinkEnumerateLinks(kernel) ==
    IF ~CreateNlRouteSocket(kernel) \/ kernel.rtnetlink = "no dump" THEN <<>>
    ELSE <<{NetlinkLinkFromRtnlLink(l) : l \in kernel.links}>>

NetlinkEnumerateIpAddresses(kernel) ==
    IF ~CreateNlRouteSocket(kernel) \/ kernel.rtnetlink = "no dump" THEN <<>>
    ELSE <<{NetlinkIpAddressFromRtnlAddr(a) : a \in kernel.addresses}>>

\* The link of an index, if there is one; only a missing socket throws.
NetlinkLinkFromInterfaceIndex(kernel, index) ==
    LET links == {l \in kernel.links : l.ifindex = index}
    IN  IF links = {} THEN <<>> ELSE <<NetlinkLinkFromRtnlLink(CHOOSE l \in links : TRUE)>>

-----------------------------------------------------------------------------
GetNetworkInterfaceType(link) ==
    CASE link.Type = "wireless" -> "Wifi" [] link.Type = "bridge" -> "Bridge"
      [] link.Type \in {"ethernet", "loopback"} -> "Other" [] OTHER -> "Unknown"

GetNetworkIpFamily(address) ==
    Switch([AF_INET |-> "Ipv4", AF_INET6 |-> "Ipv6"], address.Family, "Unknown")

NetlinkLinkToNetworkInterfaceId(link) ==
    [Name |-> link.Name, Type |-> GetNetworkInterfaceType(link)]

NetlinkIpAddressToNetworkIpAddress(address) ==
    [Family |-> GetNetworkIpFamily(address), Address |-> address.Address,
     PrefixLength |-> address.PrefixLength]

NetlinkToIpAddressInformation(address, link) ==
    [Address |-> address.Address, Family |-> GetNetworkIpFamily(address),
     InterfaceType |-> GetNetworkInterfaceType(link), InterfaceName |-> link.Name]

EnumerateNetworkInterfaces(kernel) ==
    LET Ids(links) == {NetlinkLinkToNetworkInterfaceId(l) : l \in links}
    IN  Each(Ids, NetlinkEnumerateLinks(kernel))

\* if_nametoindex, zero for no such link.
InterfaceIndexOf(kernel, name) ==
    LET links == {l \in kernel.links : l.name = name}
    IN  IF links = {} THEN 0 ELSE (CHOOSE l \in links : TRUE).ifindex

\* (mutant) the addresses of every link
GetNetworkInterfaceAddressesUnfiltered(kernel, index) ==
    LET All(addresses) == {NetlinkIpAddressToNetworkIpAddress(a) : a \in addresses}
    IN  IF index = 0 THEN <<{}>> ELSE Each(All, NetlinkEnumerateIpAddresses(kernel))

\* The addresses of the index the name had when it was looked up.
GetNetworkInterfaceAddresses(kernel, index) ==
    LET OfIndex(addresses) == {NetlinkIpAddressToNetworkIpAddress(a) :
                                a \in {b \in addresses : b.InterfaceIndex = index}}
    IN  IF index = 0 THEN <<{}>> ELSE Each(OfIndex, NetlinkEnumerateIpAddresses(kernel))

-----------------------------------------------------------------------------
\* Any number may follow an "any" address as its port.
GetIpAddressCategory(text) ==
    CASE text.form = "any4" -> "Ipv4Any"
      [] text.form = "any6" -> "Ipv6Any"
      [] text.form = "dotted" /\ Optional(text.port, 0) < 2^16 -> "Ipv4"
      [] OTHER -> "Unknown"

IsAnyAddress(text) == GetIpAddressCategory(text) \in {"Ipv4Any", "Ipv6Any"}

\* The results of GetLocalIpAddressInformation: with an "any" address every
\* address that has a link, and otherwise one that the text begins with, which
\* one is the order of the set.  A text with a prefix length begins none, and of
\* two links with the same address one is kept.
GetLocalIpAddressInformation(kernel, text) ==
    LET Begins(a) == /\ a.Address.prefix = <<>>
                     /\ \/ a.Address.host = text.host
                        \/ <<a.Address.host, text.host>> \in TextPrefixes
        Information(a) ==
            {NetlinkToIpAddressInformation(a, l) :
                l \in ToSet(NetlinkLinkFromInterfaceIndex(kernel, a.InterfaceIndex))}
        All(addresses) == UNION {Information(a) : a \in addresses}
        OnePerAddress(all) == {some \in SUBSET all :
            /\ {i.Address : i \in some} = {i.Address : i \in all}
            /\ \A i, j \in some : i.Address = j.Address => i = j}
        Results(addresses) ==
            CASE IsAnyAddress(text) -> OnePerAddress(All(addresses))
              [] ~IsAnyAddress(text) /\ \E a \in addresses : Begins(a) ->
                    {Information(a) : a \in {b \in addresses : Begins(b)}}
              [] OTHER -> {{}}
    IN  Each(Results, NetlinkEnumerateIpAddresses(kernel))
=============================================================================
