------------------------ MODULE ConfigurationPathProofs ------------------------
(***************************************************************************)
(* What a client is shown of the network interfaces, for any hosts, however *)
(* they change between the steps of an enumeration; and that what it is     *)
(* shown of an access point is what a request for it is decided on, for any *)
(* radios, command lines and requests.  At the end, what a list of commands *)
(* makes of a configuration of hostapd, and what each setter gives it.      *)
(***************************************************************************)
EXTENDS ConfigurationProperties, WellFoundedInduction, FiniteSetTheorems, TLAPS

\* What the server makes of a link and of an address.
Ident(l) == NetlinkLinkToNetworkInterfaceId(NetlinkLinkFromRtnlLink(l))
Parsed(a) == NetlinkIpAddressToNetworkIpAddress(NetlinkIpAddressFromRtnlAddr(a))

\* What a client is shown of an interface and its addresses.
ShowAddress(x) ==
    [address |-> [x.Address EXCEPT !.prefix = <<>>], length |-> x.PrefixLength,
     family |-> ToServiceNetworkAddressFamily(x.Family)]
Show(id, addresses) ==
    [id |-> id.Name, kind |-> ToServiceNetworkInterfaceKind(id.Type),
     addresses |-> {ShowAddress(x) : x \in addresses}]

-----------------------------------------------------------------------------
(* What the server hears of what a client asks, in the client's words: what *)
(* a client asks, but for what is lost of it.                               *)

\* Of the command line, algorithms and AKM suites are dropped, the fallback servers
\* are all for authentication, and an address of a peer that cannot be read is left out.
HeardOfLine(line) ==
    LET Coded(encoding, text) ==
            IF text = <<>> \/ text[1].size = 0 THEN <<>>
            ELSE <<[encoding |-> encoding, size |-> text[1].size, is |-> text[1].is]>>
        key == IF line.psk = <<>> THEN Coded("passphrase", line.passphrase)
               ELSE Coded("hex", line.psk)
        Filled(text) == IF text = <<"">> THEN <<>> ELSE text
        ServerOf(text, list) ==
            LET n == Len(text)
            IN  Server(list, text[n - 1].host, text[n].host,
                       IF text[n - 1].port = <<0>> THEN <<>> ELSE text[n - 1].port)
        Servers(option, list) ==
            [i \in DOMAIN line[option] |-> ServerOf(line[option][i], list)]
        Passwords(sae) == Password(sae.password, Filled(sae.passwordId),
                              IF sae.peer = <<>> \/ sae.peer[1].is = "no address" THEN <<>>
                              ELSE sae.peer)
    IN  CASE line.command \in {"access-point-enable", "ap-enable", "enable", "ape"} ->
                [NothingAsked EXCEPT !.phyType = line.phy, !.bands = line.bands,
                    !.ssid = Filled(line.ssid), !.state = <<"ENABLED">>,
                    !.data = IF key = <<>> /\ line.sae = <<>> THEN <<>>
                             ELSE KeyData(key, Each(Passwords, line.sae))]
          [] line.command \in {"access-point-disable", "ap-disable", "disable", "apd"} ->
                [NothingAsked EXCEPT !.state = <<"DISABLED">>]
          [] line.command \in {"access-point-set-ssid", "ap-set-ssid", "set-ssid", "setssid",
                               "ssid"} ->
                [NothingAsked EXCEPT !.ssid = line.ssid]
          [] line.command \in {"access-point-set-radius", "ap-set-radius", "ap-radius",
                               "radius"} ->
                [NothingAsked EXCEPT !.dot1x =
                    IF \E option \in {"auth", "acct", "fallback"} :
                           \E i \in DOMAIN line[option] : ~Documented(line[option][i])
                    THEN <<>>
                    ELSE Servers("auth", "auth_servers") \o Servers("acct", "acct_servers")
                         \o Servers("fallback", "auth_servers")]
          [] OTHER -> NothingAsked

\* Of a request, an address that is too short is all zeros, and a port is taken modulo 2^16.
HeardOfRequest(request) ==
    LET FieldOr(field, none) == IF field \in DOMAIN request THEN request[field] ELSE none
        Field(field) == FieldOr(field, <<>>)
        ServerOf(s) == Server(IF s.endpoint = "Dot1xRadiusServerEndpointAccounting"
                              THEN "acct_servers" ELSE "auth_servers",
                              s.address, s.sharedSecret,
                              IF s.port = 0 THEN <<>> ELSE <<s.port % 2^16>>)
        Servers(radius) == Each(ServerOf, radius.authenticationServer
                                \o radius.accountingServer \o radius.fallbackServers)
        Mac(m) == IF m.size >= 6 THEN [m EXCEPT !.size = 6] ELSE [size |-> 6, is |-> "zeros"]
        PasswordOf(p) == Password(p.credential,
                                  IF p.passwordId = "" THEN <<>> ELSE <<p.passwordId>>,
                                  Each(Mac, p.peerMacAddress))
        Data(data) == IF data = <<>> \/ (data.psk = <<>> /\ data.sae = <<>>) THEN <<>>
                      ELSE KeyData(Optional(data.psk, <<>>),
                                   Each(PasswordOf, Optional(data.sae, <<>>)))
        Dot1x(dot1x) == Optional(Each(Servers, dot1x.radius), <<>>)
    IN  [NothingAsked EXCEPT
            !.phyType = IF Means(PhyNames, FieldOr("phyType", "")) THEN <<request.phyType>>
                        ELSE <<>>,
            !.dot1x = CASE request.api = "WifiAccessPointEnable" ->
                            Optional(Each(Dot1x, request.dot1x), <<>>)
                        [] request.api = "WifiAccessPointSetAuthenticationDot1x" ->
                            Dot1x(request.dot1x)
                        [] OTHER -> <<>>,
            !.algorithms = Field("algorithms"), !.data = Data(Field("data")),
            !.akmSuites = Field("akmSuites"), !.ciphers = Field("ciphers"),
            !.ssid = [i \in DOMAIN Field("ssid") |-> request.ssid[i].text],
            !.bands = Field("bands"),
            !.bridge = IF FieldOr("bridge", "") = "" THEN <<>> ELSE <<request.bridge>>,
            !.state = CASE request.api = "WifiAccessPointEnable" -> <<"ENABLED">>
                        [] request.api = "WifiAccessPointDisable" -> <<"DISABLED">>
                        [] OTHER -> <<>>]

Heard(c) == IF c.client = "cli" THEN HeardOfLine(c.asked) ELSE HeardOfRequest(c.asked)

-----------------------------------------------------------------------------
(* The inductive invariant                                                   *)

\* The hosts seen since the enumeration began, and what was published at the start.
HostInv ==
    /\ host \in seen /\ seen \subseteq Hosts
    /\ disturbances \in Nat
    /\ disturbances = 0 =>
           /\ seen = {host}
           /\ \A p \in published : \E l \in host.links : \E a \in host.addresses :
                 a.ifindex = l.ifindex /\ p.InterfaceName = l.name /\ p.Address.host = a.host

\* The interfaces of the enumeration are those of a host there was, and all that
\* there were all the time.
ListInv ==
    call.step # "idle" =>
        LET known == call.ids \cup DOMAIN call.information
        IN  /\ \A id \in known : \E h \in seen : \E l \in h.links : id = Ident(l)
            /\ \A g \in seen : \A l \in g.links :
                  (\A h \in seen : l \in h.links) => Ident(l) \in known

\* The index belongs to the name on a host there was.
IndexInv ==
    call.step = "indexed" =>
        /\ call.id \in call.ids
        /\ \E h \in seen : call.index = InterfaceIndexOf(h, call.id.Name)

\* So do the addresses of an interface that is done with, and none is missing
\* that it had all the time.
AddressInv ==
    call.step # "idle" =>
        \A id \in DOMAIN call.information :
            /\ \A x \in call.information[id] : \E h, g \in seen :
                  \E l \in h.links : \E a \in g.addresses :
                      l.name = id.Name /\ a.ifindex = l.ifindex /\ x = Parsed(a)
            /\ \A k \in seen : \A l \in k.links : \A a \in k.addresses :
                  l.name = id.Name /\ a.ifindex = l.ifindex
                  /\ (\A h \in seen : l \in h.links /\ a \in h.addresses)
                  => Parsed(a) \in call.information[id]

Inv == HostInv /\ ListInv /\ IndexInv /\ AddressInv /\ InterfacesReported

-----------------------------------------------------------------------------
(* What the kernel answers, and what a client is shown of it                 *)

\* NetlinkEnumerateLinks: a dump that does not fail has every link once.
LEMMA Links ==
    ASSUME NEW kernel, EnumerateNetworkInterfaces(kernel) # <<>>
    PROVE  EnumerateNetworkInterfaces(kernel)[1] = {Ident(l) : l \in kernel.links}
<1> DEFINE dump == NetlinkEnumerateLinks(kernel)
           Ids(links) == {NetlinkLinkToNetworkInterfaceId(l) : l \in links}
<1>1. EnumerateNetworkInterfaces(kernel) = [i \in DOMAIN dump |-> Ids(dump[i])]
  BY DEF EnumerateNetworkInterfaces, Each
<1>2. dump = <<>> \/ dump = <<{NetlinkLinkFromRtnlLink(l) : l \in kernel.links}>>
  BY DEF NetlinkEnumerateLinks
<1>3. CASE dump = <<>>
  BY <1>1, <1>3
<1>4. CASE dump = <<{NetlinkLinkFromRtnlLink(l) : l \in kernel.links}>>
  <2>1. 1 \in DOMAIN dump /\ dump[1] = {NetlinkLinkFromRtnlLink(l) : l \in kernel.links}
    BY <1>4
  <2>2. EnumerateNetworkInterfaces(kernel)[1] = Ids(dump[1])
    BY <1>1, <2>1
  <2> QED  BY <2>1, <2>2 DEF Ident
<1> QED  BY <1>2, <1>3, <1>4

\* GetNetworkInterfaceAddresses: the addresses of the index, none for no index.
LEMMA Addresses ==
    ASSUME NEW kernel, NEW index, GetNetworkInterfaceAddresses(kernel, index) # <<>>
    PROVE  \A x : x \in GetNetworkInterfaceAddresses(kernel, index)[1] <=>
               /\ index # 0
               /\ \E a \in kernel.addresses : a.ifindex = index /\ x = Parsed(a)
<1> DEFINE dump == NetlinkEnumerateIpAddresses(kernel)
           OfIndex(addresses) == {NetlinkIpAddressToNetworkIpAddress(a) :
                                    a \in {b \in addresses : b.InterfaceIndex = index}}
           result == GetNetworkInterfaceAddresses(kernel, index)
<1>1. CASE index = 0
  <2>1. result = <<{}>>
    BY <1>1 DEF GetNetworkInterfaceAddresses
  <2>2. result[1] = {}
    BY <2>1
  <2> QED  BY <1>1, <2>2
<1>2. CASE index # 0
  <2>1. result = [i \in DOMAIN dump |-> OfIndex(dump[i])]
    BY <1>2 DEF GetNetworkInterfaceAddresses, Each
  <2>2. dump = <<>> \/ dump = <<{NetlinkIpAddressFromRtnlAddr(a) : a \in kernel.addresses}>>
    BY DEF NetlinkEnumerateIpAddresses
  <2>3. CASE dump = <<>>
    BY <2>1, <2>3
  <2>4. CASE dump = <<{NetlinkIpAddressFromRtnlAddr(a) : a \in kernel.addresses}>>
    <3>1. 1 \in DOMAIN dump /\ dump[1] = {NetlinkIpAddressFromRtnlAddr(a) : a \in kernel.addresses}
      BY <2>4
    <3>2. result[1] = OfIndex(dump[1])
      BY <2>1, <3>1
    <3>3. \A a : NetlinkIpAddressFromRtnlAddr(a).InterfaceIndex = a.ifindex
      BY DEF NetlinkIpAddressFromRtnlAddr
    <3>4. \A x : x \in OfIndex(dump[1]) <=>
              \E b \in dump[1] : /\ b.InterfaceIndex = index
                                /\ x = NetlinkIpAddressToNetworkIpAddress(b)
      <4> HIDE DEF dump
      <4> QED  OBVIOUS
    <3>5. \A x : x \in OfIndex(dump[1]) <=>
              \E a \in kernel.addresses : a.ifindex = index /\ x = Parsed(a)
      <4> HIDE DEF dump, OfIndex
      <4> QED  BY <3>1, <3>3, <3>4 DEF Parsed
    <3> QED  BY <1>2, <3>2, <3>5
  <2> QED  BY <2>2, <2>3, <2>4
<1> QED  BY <1>1, <1>2

\* if_nametoindex: the index of the one link of that name, or zero.
LEMMA Index ==
    ASSUME NEW h \in Hosts, NEW name
    PROVE  /\ InterfaceIndexOf(h, name) # 0 =>
                  \E l \in h.links : l.name = name /\ l.ifindex = InterfaceIndexOf(h, name)
           /\ \A l \in h.links : l.name = name => l.ifindex = InterfaceIndexOf(h, name)
<1> DEFINE named == {l \in h.links : l.name = name}
<1>1. CASE named = {}
  BY <1>1 DEF InterfaceIndexOf
<1>2. CASE named # {}
  <2>1. PICK l \in named : l = CHOOSE m \in named : TRUE
    BY <1>2
  <2>2. InterfaceIndexOf(h, name) = l.ifindex
    BY <1>2, <2>1 DEF InterfaceIndexOf
  <2>3. \A m \in h.links : m.name = name => m = l
    BY <2>1, HostAssumption DEF IsHost
  <2> QED  BY <2>1, <2>2, <2>3
<1> QED  BY <1>1, <1>2

\* The conversions between the kernel's link or address and what a client reads.
LEMMA Shown ==
    ASSUME NEW h \in Hosts
    PROVE  /\ \A l \in h.links :
                  /\ Ident(l).Name = l.name
                  /\ ToServiceNetworkInterfaceKind(Ident(l).Type) = ShownLink(h, l).kind
           /\ \A a \in h.addresses : ShowAddress(Parsed(a)) = ShownAddress(a)
<1>1. ASSUME NEW l \in h.links
      PROVE  /\ Ident(l).Name = l.name
             /\ ToServiceNetworkInterfaceKind(Ident(l).Type) = ShownLink(h, l).kind
  <2> DEFINE link == NetlinkLinkFromRtnlLink(l)
  <2>1. link.Name = l.name /\ link.Type = IF l.type = <<>> THEN "none" ELSE l.type[1]
    BY DEF NetlinkLinkFromRtnlLink, Optional
  <2>2. link.Type \notin {"wireless", "ethernet", "loopback"}
    BY <2>1, HostAssumption DEF IsHost
  <2>3. Ident(l).Name = l.name /\ Ident(l).Type = GetNetworkInterfaceType(link)
    BY <2>1 DEF Ident, NetlinkLinkToNetworkInterfaceId
  <2>4. GetNetworkInterfaceType(link) = IF link.Type = "bridge" THEN "Bridge" ELSE "Unknown"
    BY <2>2 DEF GetNetworkInterfaceType
  <2>5. link.Type = "bridge" <=> l.type = <<"bridge">>
    <3>1. l.type = <<>> \/ l.type = <<l.type[1]>>
      BY HostAssumption DEF IsHost
    <3>2. <<"bridge">>[1] = "bridge" /\ <<"bridge">> # <<>> /\ "none" # "bridge"
      OBVIOUS
    <3> QED  BY <2>1, <3>1, <3>2
  <2> QED  BY <2>3, <2>4, <2>5 DEF ToServiceNetworkInterfaceKind, Switch, ShownLink
<1>2. ASSUME NEW a \in h.addresses
      PROVE  ShowAddress(Parsed(a)) = ShownAddress(a)
  <2>1. a.family \in {"AF_INET", "AF_INET6"}
    BY HostAssumption DEF IsHost
  <2>2. /\ Parsed(a).PrefixLength = a.prefixlen
        /\ Parsed(a).Address = GetAddressAscii(a)
        /\ Parsed(a).Family = IF a.family = "AF_INET" THEN "Ipv4" ELSE "Ipv6"
    BY <2>1 DEF Parsed, NetlinkIpAddressToNetworkIpAddress, NetlinkIpAddressFromRtnlAddr,
                GetNetworkIpFamily, Switch
  <2>3. [GetAddressAscii(a) EXCEPT !.prefix = <<>>] = [host |-> a.host, prefix |-> <<>>]
    BY DEF GetAddressAscii
  <2> QED  BY <2>1, <2>2, <2>3 DEF ShowAddress, ShownAddress, ToServiceNetworkAddressFamily, Switch
<1> QED  BY <1>1, <1>2

\* What was published at the start is an address of a link.
LEMMA Published ==
    ASSUME NEW h \in Hosts, NEW text, GetLocalIpAddressInformation(h, text) # <<>>,
           NEW some \in GetLocalIpAddressInformation(h, text)[1], NEW p \in some
    PROVE  \E l \in h.links : \E a \in h.addresses :
              a.ifindex = l.ifindex /\ p.InterfaceName = l.name /\ p.Address.host = a.host
<1> DEFINE dump == NetlinkEnumerateIpAddresses(h)
           Begins(a) == /\ a.Address.prefix = <<>>
                        /\ \/ a.Address.host = text.host
                           \/ <<a.Address.host, text.host>> \in TextPrefixes
           Information(a) ==
               {NetlinkToIpAddressInformation(a, l) :
                   l \in ToSet(NetlinkLinkFromInterfaceIndex(h, a.InterfaceIndex))}
           All(addresses) == UNION {Information(a) : a \in addresses}
           OnePerAddress(all) == {part \in SUBSET all :
               /\ {i.Address : i \in part} = {i.Address : i \in all}
               /\ \A i, j \in part : i.Address = j.Address => i = j}
           Results(addresses) ==
               CASE IsAnyAddress(text) -> OnePerAddress(All(addresses))
                 [] ~IsAnyAddress(text) /\ \E a \in addresses : Begins(a) ->
                       {Information(a) : a \in {b \in addresses : Begins(b)}}
                 [] OTHER -> {{}}
           result == GetLocalIpAddressInformation(h, text)
<1>1. result = [i \in DOMAIN dump |-> Results(dump[i])]
  BY DEF GetLocalIpAddressInformation, Each
<1>2. dump = <<>> \/ dump = <<{NetlinkIpAddressFromRtnlAddr(a) : a \in h.addresses}>>
  BY DEF NetlinkEnumerateIpAddresses
<1>3. /\ 1 \in DOMAIN dump /\ dump[1] = {NetlinkIpAddressFromRtnlAddr(a) : a \in h.addresses}
      /\ result[1] = Results(dump[1])
  <2>1. dump # <<>>
    BY <1>1
  <2>2. 1 \in DOMAIN dump /\ dump[1] = {NetlinkIpAddressFromRtnlAddr(a) : a \in h.addresses}
    BY <1>2, <2>1
  <2> QED  BY <1>1, <2>2
<1> HIDE DEF dump, result
<1>4. \E b \in dump[1] : p \in Information(b)
  <2>1. some \in Results(dump[1])
    BY <1>3 DEF result
  <2> HIDE DEF Begins, Information
  <2>2. CASE IsAnyAddress(text)
    <3>1. some \in OnePerAddress(All(dump[1]))
      BY <2>1, <2>2
    <3>2. p \in All(dump[1])
      BY <3>1
    <3> QED  BY <3>2
  <2>3. CASE ~IsAnyAddress(text) /\ \E a \in dump[1] : Begins(a)
    BY <2>1, <2>3
  <2>4. CASE ~IsAnyAddress(text) /\ ~\E a \in dump[1] : Begins(a)
    <3>1. some \in {{}}
      BY <2>1, <2>4
    <3> QED  BY <3>1
  <2> QED  BY <2>2, <2>3, <2>4
<1>5. PICK b \in dump[1] : p \in Information(b)
  BY <1>4
<1>6. PICK a \in h.addresses : b = NetlinkIpAddressFromRtnlAddr(a)
  BY <1>3
<1>7. b.InterfaceIndex = a.ifindex /\ b.Address.host = a.host
  BY <1>6 DEF NetlinkIpAddressFromRtnlAddr, GetAddressAscii
<1>8. PICK link \in ToSet(NetlinkLinkFromInterfaceIndex(h, a.ifindex)) :
          p = NetlinkToIpAddressInformation(b, link)
  BY <1>5, <1>7
<1>9. PICK l \in h.links : l.ifindex = a.ifindex /\ link = NetlinkLinkFromRtnlLink(l)
  <2> DEFINE links == {l \in h.links : l.ifindex = a.ifindex}
             l == CHOOSE l \in links : TRUE
             found == NetlinkLinkFromInterfaceIndex(h, a.ifindex)
  <2>1. links # {}
    <3>1. ASSUME links = {} PROVE FALSE
      <4>1. found = <<>>
        BY <3>1 DEF NetlinkLinkFromInterfaceIndex
      <4>2. ToSet(found) = {}
        BY <4>1 DEF ToSet
      <4> QED  BY <4>2
    <3> QED  BY <3>1
  <2>2. l \in links /\ found = <<NetlinkLinkFromRtnlLink(l)>>
    BY <2>1 DEF NetlinkLinkFromInterfaceIndex
  <2>3. link = NetlinkLinkFromRtnlLink(l)
    <3> HIDE DEF l
    <3> QED  BY <2>2 DEF ToSet
  <2> QED  BY <2>2, <2>3
<1>10. p.InterfaceName = link.Name /\ p.Address = b.Address /\ link.Name = l.name
  BY <1>8, <1>9 DEF NetlinkToIpAddressInformation, NetlinkLinkFromRtnlLink
<1> QED  BY <1>7, <1>9, <1>10

-----------------------------------------------------------------------------
(* The steps                                                                 *)

\* The codes of the Wi-Fi calls are not those of the network calls.
LEMMA OtherCodes ==
    /\ \A status : ToDot11AccessPointOperationStatusCode(status)
                     # "NetworkOperationStatusCodeSuccess"
    /\ \A points, conf, answered : WifiAccessPointsEnumerate(points, conf, answered).code
                     # "NetworkOperationStatusCodeSuccess"
<1>1. ASSUME NEW status
      PROVE  ToDot11AccessPointOperationStatusCode(status) # "NetworkOperationStatusCodeSuccess"
  BY DEF ToDot11AccessPointOperationStatusCode, Switch
<1>2. \A points, conf, answered : \E status :
          WifiAccessPointsEnumerate(points, conf, answered).code
            = ToDot11AccessPointOperationStatusCode(status)
  BY DEF WifiAccessPointsEnumerate
<1> QED  BY <1>1, <1>2

\* A call that is answered at once is not about network interfaces, and the
\* enumeration under way, if there is one, is not its own.
AnsweredAtOnce ==
    /\ UNCHANGED <<host, published, call, disturbances, seen>>
    /\ last'.code # "NetworkOperationStatusCodeSuccess"

\* An enumeration begins.
Begins ==
    /\ call.step = "idle" /\ UNCHANGED <<host, published, disturbances>>
    /\ seen' = {host} /\ last' = NoCall
    /\ \/ call' = Idle
       \/ /\ call'.step = "listed" /\ EnumerateNetworkInterfaces(host) # <<>>
          /\ call'.ids = EnumerateNetworkInterfaces(host)[1] /\ call'.information = <<>>

\* NetRemoteService's handlers: a request for an enumeration begins one, every other
\* is answered at once.
LEMMA Serves ==
    ASSUME NEW client, NEW asked, NEW request, Serve(client, asked, request)
    PROVE  AnsweredAtOnce \/ Begins
<1>1. CASE request.api = "NetworkInterfacesEnumerate"
  <2>1. NetworkInterfacesBegin(client, asked) /\ call = Idle
    BY <1>1 DEF Serve
  <2> QED  BY <2>1 DEF NetworkInterfacesBegin, Begins, Idle
<1>2. CASE request.api = "WifiAccessPointsEnumerate"
  <2>1. Enumerates(client, asked, client = "cli" /\ asked.detailed)
    BY <1>2 DEF Serve
  <2> QED  BY <2>1, OtherCodes DEF Enumerates, Ends, AnsweredAtOnce
<1>3. CASE request.api \notin {"NetworkInterfacesEnumerate", "WifiAccessPointsEnumerate"}
  <2>1. Change(client, asked, request)
    BY <1>3 DEF Serve
  <2> QED  BY <2>1, OtherCodes DEF Change, Ends, AnsweredAtOnce
<1> QED  BY <1>1, <1>2, <1>3

\* Every call does one of the two.
LEMMA CallSteps ==
    ASSUME CommandLine \/ ApiRequest
    PROVE  AnsweredAtOnce \/ Begins
<1>1. CASE CommandLine
  <2>1. PICK line, channel :
            LET run == Parse(channel, line)
            IN  \/ run.request # <<>> /\ Serve("cli", line, run.request[1])
                \/ /\ run.request = <<>> /\ ~gone /\ call = Idle /\ calls' = calls + 1
                   /\ Ends("cli", line, "none", {})
                   /\ UNCHANGED <<host, hostapd, accessPoints, published, gone, call,
                                  disturbances, unanswered, told, phyAsked, seen>>
    BY <1>1 DEF CommandLine
  <2>2. CASE Serve("cli", line, Parse(channel, line).request[1])
    BY <2>2, Serves
  <2>3. CASE Ends("cli", line, "none", {})
             /\ UNCHANGED <<host, published, call, disturbances, seen>>
    BY <2>3 DEF Ends, AnsweredAtOnce
  <2> QED  BY <2>1, <2>2, <2>3
<1>2. CASE ApiRequest
  BY <1>2, Serves DEF ApiRequest
<1> QED  BY <1>1, <1>2

-----------------------------------------------------------------------------
(* The invariant                                                             *)

\* The start (InitializeDiscoveryService): one host, and what is published is of it.
LEMMA InitInv == Init => Inv
<1> SUFFICES ASSUME Init PROVE Inv
  OBVIOUS
<1>1. PICK start \in Starts :
          LET local == GetLocalIpAddressInformation(start.host, start.address)
          IN  /\ host = start.host /\ accessPoints = Probed(host)
              /\ published \in IF local = <<>> THEN {{}} ELSE local[1]
              /\ gone = (ProbeFails(host) \/ local = <<>>)
  BY DEF Init
<1>2. host \in Hosts /\ seen = {host} /\ disturbances = 0 /\ call.step = "idle"
      /\ last.client = "none"
  BY <1>1, HostAssumption DEF Init, Idle, NoCall
<1>3. \A p \in published : \E l \in host.links : \E a \in host.addresses :
          a.ifindex = l.ifindex /\ p.InterfaceName = l.name /\ p.Address.host = a.host
  BY <1>1, <1>2, Published
<1> QED  BY <1>2, <1>3 DEF Inv, HostInv, ListInv, IndexInv, AddressInv, InterfacesReported

\* The hosts seen so far stay hosts when the host becomes another.
LEMMA HostStep ==
    ASSUME Inv, [Next]_vars
    PROVE  HostInv'
<1>1. CASE UNCHANGED vars \/ LooksUpIndex \/ CollectsAddresses \/ NetworkInterfacesAnswered
  BY <1>1 DEF Inv, HostInv, vars, countVars, LooksUpIndex, CollectsAddresses,
              NetworkInterfacesAnswered
<1>2. CASE AnsweredAtOnce \/ Begins
  BY <1>2 DEF Inv, HostInv, AnsweredAtOnce, Begins
<1>3. CASE HostChanges
  <2>1. host' \in Hosts /\ seen' = seen \cup {host'} /\ disturbances' = disturbances + 1
    BY <1>3, HostAssumption DEF Inv, HostInv, HostChanges
  <2> QED  BY <2>1 DEF Inv, HostInv
<1>4. CASE HostapdRestarts
  <2>1. disturbances' = disturbances + 1 /\ UNCHANGED <<host, seen>>
    BY <1>4 DEF HostapdRestarts
  <2> QED  BY <2>1 DEF Inv, HostInv
<1> QED  BY <1>1, <1>2, <1>3, <1>4, CallSteps DEF Next

\* The interfaces of the enumeration.
LEMMA ListStep ==
    ASSUME Inv, [Next]_vars
    PROVE  ListInv' /\ IndexInv'
<1> USE DEF Inv, HostInv, ListInv, IndexInv
<1>1. CASE UNCHANGED vars \/ NetworkInterfacesAnswered \/ HostapdRestarts
  BY <1>1 DEF vars, NetworkInterfacesAnswered, HostapdRestarts, Idle
<1>2. CASE AnsweredAtOnce
  BY <1>2 DEF AnsweredAtOnce
<1>3. CASE Begins
  <2>1. CASE call' = Idle
    BY <2>1 DEF Idle
  <2>2. CASE call'.step = "listed"
    <3>1. /\ call'.ids = {Ident(l) : l \in host.links} /\ DOMAIN call'.information = {}
          /\ seen' = {host}
      BY <1>3, <2>2, Links DEF Begins, Idle
    <3> QED  BY <2>2, <3>1
  <2> QED  BY <1>3, <2>1, <2>2 DEF Begins
<1>4. CASE LooksUpIndex
  <2>1. /\ call.step = "listed" /\ call'.step = "indexed" /\ seen' = seen
        /\ call'.ids = call.ids /\ call'.information = call.information
        /\ call'.id \in call.ids /\ call'.index = InterfaceIndexOf(host, call'.id.Name)
    BY <1>4 DEF LooksUpIndex
  <2> QED  BY <2>1
<1>5. CASE CollectsAddresses
  <2>1. CASE call' = Idle
    BY <2>1 DEF Idle
  <2>2. CASE call' # Idle
    <3>1. /\ call.step = "indexed" /\ call'.step = "listed" /\ seen' = seen
          /\ call'.ids = call.ids \ {call.id}
          /\ DOMAIN call'.information = DOMAIN call.information \cup {call.id}
      BY <1>5, <2>2 DEF CollectsAddresses
    <3> QED  BY <3>1
  <2> QED  BY <2>1, <2>2
<1>6. CASE HostChanges
  <2>1. call' = call /\ seen \subseteq seen' /\ seen' = seen \cup {host'}
    BY <1>6 DEF HostChanges
  <2>2. IndexInv'
    BY <2>1
  <2>3. ASSUME call'.step # "idle"
        PROVE  \A g \in seen' : \A l \in g.links :
                   (\A h \in seen' : l \in h.links)
                   => Ident(l) \in call'.ids \cup DOMAIN call'.information
    BY <2>1, <2>3
  <2>4. ASSUME call'.step # "idle", NEW id \in call'.ids \cup DOMAIN call'.information
        PROVE  \E h \in seen' : \E l \in h.links : id = Ident(l)
    BY <2>1, <2>4
  <2> QED  BY <2>2, <2>3, <2>4
<1> QED  BY <1>1, <1>2, <1>3, <1>4, <1>5, <1>6, CallSteps DEF Next

\* What is collected of an interface.
LEMMA AddressStep ==
    ASSUME Inv, [Next]_vars
    PROVE  AddressInv'
<1>1. CASE UNCHANGED vars \/ NetworkInterfacesAnswered \/ HostapdRestarts
  BY <1>1 DEF vars, NetworkInterfacesAnswered, HostapdRestarts, Idle, Inv, AddressInv
<1>2. CASE AnsweredAtOnce
  BY <1>2 DEF AnsweredAtOnce, Inv, AddressInv
<1>3. CASE Begins
  <2>1. call'.step = "idle" \/ DOMAIN call'.information = {}
    BY <1>3 DEF Begins, Idle
  <2> QED  BY <2>1 DEF AddressInv
<1>4. CASE LooksUpIndex
  <2>1. call.step = "listed" /\ call'.information = call.information /\ seen' = seen
    BY <1>4 DEF LooksUpIndex
  <2> QED  BY <2>1 DEF Inv, AddressInv
<1>5. CASE CollectsAddresses /\ call' # Idle
  <2> DEFINE found == GetNetworkInterfaceAddresses(host, call.index)
  <2>1. /\ call.step = "indexed" /\ seen' = seen /\ found # <<>>
        /\ call'.information = [id \in DOMAIN call.information \cup {call.id} |->
                                   IF id = call.id THEN found[1] ELSE call.information[id]]
    BY <1>5 DEF CollectsAddresses
  <2>2. PICK h \in seen : call.index = InterfaceIndexOf(h, call.id.Name)
    BY <2>1 DEF Inv, IndexInv
  <2>3. h \in Hosts /\ host \in seen
    BY <2>2 DEF Inv, HostInv
  <2>4. ASSUME NEW x \in found[1]
        PROVE  \E f, g \in seen : \E l \in f.links : \E a \in g.addresses :
                  l.name = call.id.Name /\ a.ifindex = l.ifindex /\ x = Parsed(a)
    <3>1. call.index # 0 /\ \E a \in host.addresses : a.ifindex = call.index /\ x = Parsed(a)
      BY <2>1, <2>4, Addresses
    <3>2. \E l \in h.links : l.name = call.id.Name /\ l.ifindex = call.index
      BY <2>2, <2>3, <3>1, Index
    <3> QED  BY <2>2, <2>3, <3>1, <3>2
  <2>5. ASSUME NEW k \in seen, NEW l \in k.links, NEW a \in k.addresses,
               l.name = call.id.Name, a.ifindex = l.ifindex,
               \A f \in seen : l \in f.links /\ a \in f.addresses
        PROVE  Parsed(a) \in found[1]
    <3>1. l.ifindex = call.index
      BY <2>2, <2>3, <2>5, Index
    <3>2. l.ifindex # 0
      BY <2>2, <2>3, <2>5, HostAssumption DEF IsHost
    <3> QED  BY <2>1, <2>3, <2>5, <3>1, <3>2, Addresses
  <2> HIDE DEF found
  <2> QED  BY <2>1, <2>4, <2>5 DEF Inv, AddressInv
<1>6. CASE call' = Idle
  BY <1>6 DEF Idle, AddressInv
<1>7. CASE HostChanges
  <2>1. call' = call /\ seen' = seen \cup {host'} /\ host \in seen
    BY <1>7 DEF HostChanges, Inv, HostInv
  <2>2. ASSUME call.step # "idle", NEW id \in DOMAIN call.information,
               NEW x \in call.information[id]
        PROVE  \E h, g \in seen' : \E l \in h.links : \E a \in g.addresses :
                  l.name = id.Name /\ a.ifindex = l.ifindex /\ x = Parsed(a)
    BY <2>1, <2>2 DEF Inv, AddressInv
  <2>3. ASSUME call.step # "idle", NEW id \in DOMAIN call.information,
               NEW k \in seen', NEW l \in k.links, NEW a \in k.addresses,
               l.name = id.Name, a.ifindex = l.ifindex,
               \A h \in seen' : l \in h.links /\ a \in h.addresses
        PROVE  Parsed(a) \in call.information[id]
    <3>1. /\ l \in host.links /\ a \in host.addresses
          /\ \A h \in seen : l \in h.links /\ a \in h.addresses
      BY <2>1, <2>3
    <3> QED  BY <2>1, <2>3, <3>1 DEF Inv, AddressInv
  <2> QED  BY <2>1, <2>2, <2>3 DEF AddressInv
<1> QED  BY <1>1, <1>2, <1>3, <1>4, <1>5, <1>6, <1>7, CallSteps DEF Next

\* An answer shows, by interface, what was collected.
LEMMA Answer ==
    ASSUME NetworkInterfacesAnswered
    PROVE  /\ call.step = "listed" /\ call.ids = {}
           /\ UNCHANGED <<host, published, disturbances, seen>>
           /\ last'.shown = {Show(id, call.information[id]) : id \in DOMAIN call.information}
<1> DEFINE info == call.information
           messages == {ToServiceNetworkInterface(id, info[id]) : id \in DOMAIN info}
           Entry(i) == [id |-> i.id, kind |-> i.kind, addresses |->
                          {[address |-> a.address, length |-> a.prefixLength,
                            family |-> a.family] : a \in i.addresses}]
<1>1. last'.shown = {Entry(i) : i \in messages}
  BY DEF NetworkInterfacesAnswered, Ends, ShowsInterfaces, ToServiceNetworkInterfaces
<1>2. ASSUME NEW id \in DOMAIN info
      PROVE  Entry(ToServiceNetworkInterface(id, info[id])) = Show(id, info[id])
  <2> DEFINE item == ToServiceNetworkInterface(id, info[id])
  <2>1. /\ item.id = id.Name /\ item.kind = ToServiceNetworkInterfaceKind(id.Type)
        /\ item.addresses = {ToServiceNetworkAddress(a) : a \in info[id]}
    BY DEF ToServiceNetworkInterface
  <2>2. \A a : LET m == ToServiceNetworkAddress(a)
               IN  [address |-> m.address, length |-> m.prefixLength, family |-> m.family]
                     = ShowAddress(a)
    BY DEF ToServiceNetworkAddress, ShowAddress
  <2>3. {[address |-> m.address, length |-> m.prefixLength, family |-> m.family] :
            m \in item.addresses} = {ShowAddress(a) : a \in info[id]}
    <3> HIDE DEF item
    <3> QED  BY <2>1, <2>2
  <2>4. Entry(item) = [id |-> item.id, kind |-> item.kind, addresses |->
                        {[address |-> m.address, length |-> m.prefixLength,
                          family |-> m.family] : m \in item.addresses}]
    OBVIOUS
  <2>5. Show(id, info[id]) =
            [id |-> id.Name, kind |-> ToServiceNetworkInterfaceKind(id.Type),
             addresses |-> {ShowAddress(a) : a \in info[id]}]
    BY DEF Show
  <2> HIDE DEF item, Entry, info
  <2>6. Entry(item) = Show(id, info[id])
    BY <2>1, <2>3, <2>4, <2>5
  <2> QED  BY <2>6 DEF item
<1>3. last'.shown = {Show(id, info[id]) : id \in DOMAIN info}
  <2> HIDE DEF info, Entry
  <2> QED  BY <1>1, <1>2
<1> QED  BY <1>3 DEF NetworkInterfacesAnswered, countVars

\* The answer to a client.
LEMMA AnswerReported ==
    ASSUME Inv, NetworkInterfacesAnswered
    PROVE  InterfacesReported'
<1> DEFINE info == call.information
           shown == last'.shown
<1>1. /\ call.step = "listed" /\ call.ids = {} /\ seen' = seen /\ host' = host
      /\ published' = published /\ disturbances' = disturbances
      /\ shown = {Show(id, info[id]) : id \in DOMAIN info}
  BY Answer
<1>2. /\ \A id \in DOMAIN info : \E h \in seen : \E l \in h.links : id = Ident(l)
      /\ \A g \in seen : \A l \in g.links :
            (\A h \in seen : l \in h.links) => Ident(l) \in DOMAIN info
  BY <1>1 DEF Inv, ListInv
<1>3. \A id \in DOMAIN info :
          /\ \A x \in info[id] : \E h, g \in seen :
                \E l \in h.links : \E a \in g.addresses :
                    l.name = id.Name /\ a.ifindex = l.ifindex /\ x = Parsed(a)
          /\ \A k \in seen : \A l \in k.links : \A a \in k.addresses :
                l.name = id.Name /\ a.ifindex = l.ifindex
                /\ (\A h \in seen : l \in h.links /\ a \in h.addresses)
                => Parsed(a) \in info[id]
  BY <1>1 DEF Inv, AddressInv
<1>4. host \in seen /\ seen \subseteq Hosts
  BY DEF Inv, HostInv
<1>5. \A h \in seen : \A l \in h.links : Ident(l).Name = l.name
  BY <1>4, Shown
<1>6. \A h \in seen : \A a \in h.addresses : ShowAddress(Parsed(a)) = ShownAddress(a)
  BY <1>4, Shown
<1>7. \A id, addresses : /\ Show(id, addresses).id = id.Name
                         /\ Show(id, addresses).addresses = {ShowAddress(x) : x \in addresses}
  BY DEF Show
<1>8. \A h \in seen : \A l \in h.links : \A b :
          b \in ShownLink(h, l).addresses <=>
              \E a \in h.addresses : a.ifindex = l.ifindex /\ b = ShownAddress(a)
  BY DEF ShownLink
<1> HIDE DEF info, shown
\* On one host, what is shown is what there is.
<1>9. ASSUME NEW h \in seen, seen = {h}
      PROVE  shown = {ShownLink(h, l) : l \in h.links}
  <2>1. ASSUME NEW l \in h.links
        PROVE  Ident(l) \in DOMAIN info /\ Show(Ident(l), info[Ident(l)]) = ShownLink(h, l)
    <3>1. Ident(l) \in DOMAIN info
      BY <1>2, <1>9, <2>1
    <3>2. \A x : x \in info[Ident(l)] <=>
                     \E a \in h.addresses : a.ifindex = l.ifindex /\ x = Parsed(a)
      <4>1. \A m \in h.links : m.name = Ident(l).Name => m = l
        BY <1>4, <1>5, HostAssumption DEF IsHost
      <4> QED  BY <1>3, <1>5, <1>9, <3>1, <4>1
    <3>3. {ShowAddress(x) : x \in info[Ident(l)]}
            = {ShownAddress(a) : a \in {b \in h.addresses : b.ifindex = l.ifindex}}
      BY <1>6, <3>2
    <3>4. Ident(l).Name = l.name
          /\ ToServiceNetworkInterfaceKind(Ident(l).Type) = ShownLink(h, l).kind
      BY <1>4, Shown
    <3>5. ShownLink(h, l) =
              [id |-> l.name, kind |-> ShownLink(h, l).kind, addresses |->
                 {ShownAddress(a) : a \in {b \in h.addresses : b.ifindex = l.ifindex}}]
      BY DEF ShownLink
    <3> QED  BY <3>1, <3>3, <3>4, <3>5 DEF Show
  <2>2. \A id \in DOMAIN info : \E l \in h.links : id = Ident(l)
    BY <1>2, <1>9
  <2> QED  BY <1>1, <2>1, <2>2
<1>10. ASSUME NEW i \in shown
       PROVE  /\ \E h \in seen : \E l \in h.links : l.name = i.id
              /\ \A b \in i.addresses : \E h, g \in seen : \E l \in h.links :
                     l.name = i.id /\ b \in ShownLink(g, l).addresses
  <2>1. PICK id \in DOMAIN info : i = Show(id, info[id])
    BY <1>1
  <2>2. i.id = id.Name /\ i.addresses = {ShowAddress(x) : x \in info[id]}
    BY <1>7, <2>1
  <2>3. \E h \in seen : \E l \in h.links : l.name = i.id
    BY <1>2, <1>5, <2>2
  <2>4. ASSUME NEW b \in i.addresses
        PROVE  \E h, g \in seen : \E l \in h.links :
                   l.name = i.id /\ b \in ShownLink(g, l).addresses
    <3>1. PICK x \in info[id] : b = ShowAddress(x)
      BY <2>2
    <3>1a. PICK h \in seen, g \in seen : \E l \in h.links : \E a \in g.addresses :
              l.name = id.Name /\ a.ifindex = l.ifindex /\ x = Parsed(a)
      BY <1>3
    <3>2. PICK l \in h.links, a \in g.addresses :
              l.name = id.Name /\ a.ifindex = l.ifindex /\ x = Parsed(a)
      BY <3>1a
    <3>3. b \in {ShownAddress(c) : c \in {d \in g.addresses : d.ifindex = l.ifindex}}
      BY <1>6, <3>1, <3>2
    <3>4. b \in ShownLink(g, l).addresses
      BY <3>3 DEF ShownLink
    <3> QED  BY <2>2, <3>2, <3>4
  <2> QED  BY <2>3, <2>4
<1>11. ASSUME NEW k \in seen, NEW a \in k.addresses, NEW g \in seen, NEW l \in g.links,
              \A h \in seen : a \in h.addresses /\ l \in h.links /\ a.ifindex = l.ifindex
       PROVE  \E i \in shown : i.id = l.name /\ ShownAddress(a) \in i.addresses
  <2> DEFINE id == Ident(l)
             item == Show(id, info[id])
  <2>1. id \in DOMAIN info /\ id.Name = l.name
    BY <1>2, <1>5, <1>11
  <2>2. Parsed(a) \in info[id]
    BY <1>3, <1>11, <2>1
  <2>3. item \in shown /\ item.id = l.name /\ ShowAddress(Parsed(a)) \in item.addresses
    BY <1>1, <1>7, <2>1, <2>2
  <2> QED  BY <1>6, <2>3
<1>12. ASSUME disturbances = 0, NEW p \in published
       PROVE  \E i \in shown : /\ i.id = p.InterfaceName
                               /\ \E b \in i.addresses : b.address.host = p.Address.host
  <2>1. PICK l \in host.links, a \in host.addresses :
            a.ifindex = l.ifindex /\ p.InterfaceName = l.name /\ p.Address.host = a.host
    BY <1>12 DEF Inv, HostInv
  <2>2. seen = {host}
    BY <1>12 DEF Inv, HostInv
  <2>3. PICK i \in shown : i.id = l.name /\ ShownAddress(a) \in i.addresses
    BY <1>11, <2>1, <2>2
  <2>4. ShownAddress(a).address.host = a.host
    BY DEF ShownAddress
  <2> QED  BY <2>1, <2>3, <2>4
<1>13. \A a \in UNION {h.addresses : h \in seen} : \A l \in UNION {h.links : h \in seen} :
           (\A h \in seen : a \in h.addresses /\ l \in h.links /\ a.ifindex = l.ifindex)
           => \E i \in shown : i.id = l.name /\ ShownAddress(a) \in i.addresses
  BY <1>11
<1>14. /\ \A h \in seen' : seen' = {h} => shown = {ShownLink(h, l) : l \in h.links}
       /\ \A i \in shown : \E h \in seen' : \E l \in h.links : l.name = i.id
       /\ \A i \in shown : \A b \in i.addresses : \E h, g \in seen' : \E l \in h.links :
              l.name = i.id /\ b \in ShownLink(g, l).addresses
       /\ disturbances' = 0 => \A p \in published' :
              \E i \in shown : /\ i.id = p.InterfaceName
                               /\ \E b \in i.addresses : b.address.host = p.Address.host
  BY <1>1, <1>9, <1>10, <1>12
<1> QED  BY <1>1, <1>13, <1>14 DEF InterfacesReported, shown

\* An answer stays true of the hosts there were since, until the next call.
LEMMA ReportedStep ==
    ASSUME Inv, [Next]_vars
    PROVE  InterfacesReported'
<1>1. CASE UNCHANGED vars \/ LooksUpIndex \/ CollectsAddresses
  <2>1. UNCHANGED <<last, seen, published, disturbances>>
    BY <1>1 DEF vars, countVars, LooksUpIndex, CollectsAddresses
  <2> QED  BY <2>1 DEF Inv, InterfacesReported
<1>2. CASE AnsweredAtOnce
  BY <1>2 DEF AnsweredAtOnce, InterfacesReported
<1>3. CASE Begins \/ HostapdRestarts
  <2>1. last'.client = "none"
    BY <1>3 DEF Begins, HostapdRestarts, NoCall
  <2> QED  BY <2>1 DEF InterfacesReported
<1>4. CASE HostChanges
  <2>1. /\ last' = last /\ seen' = seen \cup {host'} /\ host \in seen
        /\ disturbances' # 0
    BY <1>4 DEF HostChanges, Inv, HostInv
  <2>2. CASE last.client # "none" /\ last.code = "NetworkOperationStatusCodeSuccess"
    <3>1. \A h \in seen' : seen' = {h} => seen = {h}
      BY <2>1
    <3>2. \A h \in seen' : seen' = {h} => last.shown = {ShownLink(h, l) : l \in h.links}
      BY <2>1, <2>2, <3>1 DEF Inv, InterfacesReported
    <3>3. /\ \A i \in last.shown : \E h \in seen' : \E l \in h.links : l.name = i.id
          /\ \A i \in last.shown : \A b \in i.addresses : \E h, g \in seen' :
                \E l \in h.links : l.name = i.id /\ b \in ShownLink(g, l).addresses
      BY <2>1, <2>2 DEF Inv, InterfacesReported
    <3>4. ASSUME NEW a \in UNION {h.addresses : h \in seen'},
                 NEW l \in UNION {h.links : h \in seen'},
                 \A h \in seen' : a \in h.addresses /\ l \in h.links /\ a.ifindex = l.ifindex
          PROVE  \E i \in last.shown : i.id = l.name /\ ShownAddress(a) \in i.addresses
      <4>1. a \in UNION {h.addresses : h \in seen} /\ l \in UNION {h.links : h \in seen}
        BY <2>1, <3>4
      <4> QED  BY <2>1, <2>2, <3>4, <4>1 DEF Inv, InterfacesReported
    <3> QED  BY <2>1, <2>2, <3>2, <3>3, <3>4 DEF InterfacesReported
  <2> QED  BY <2>1, <2>2 DEF InterfacesReported
<1>5. CASE NetworkInterfacesAnswered
  BY <1>5, AnswerReported
<1> QED  BY <1>1, <1>2, <1>3, <1>4, <1>5, CallSteps DEF Next

-----------------------------------------------------------------------------
\* NetworkInterfacesEnumerate: whatever the host is and becomes between the steps
\* of an enumeration, a client is shown no link or address there was not and
\* misses none that there was all the time, and exactly the host's on one that
\* does not change.
THEOREM ShownAsTheyAre == Spec => []InterfacesReported
<1>1. Inv /\ [Next]_vars => Inv'
  BY HostStep, ListStep, AddressStep, ReportedStep DEF Inv
<1>2. Inv => InterfacesReported
  BY DEF Inv
<1> QED  BY <1>1, <1>2, InitInv, PTL DEF Spec

-----------------------------------------------------------------------------
(* Lists of commands and what hostapd makes of them *)

\* Induction as a fact about sets of numbers.
LEMMA Induction ==
    ASSUME NEW n \in Nat, NEW S, 0 \in S, \A i \in 0 .. n - 1 : i \in S => i + 1 \in S
    PROVE  \A i \in 0 .. n : i \in S
<1> DEFINE T == {i \in 0 .. n : i \notin S}
           R == OpToRel(<, Nat)
<1>1. IsWellFoundedOn(R, Nat)
  BY NatLessThanWellFounded
<1>2. \A x, y \in Nat : x < y => <<x, y>> \in R
  BY DEF OpToRel
<1>3. SUFFICES ASSUME T # {} PROVE FALSE
  OBVIOUS
<1> HIDE DEF R
<1>4. PICK x \in T : \A y \in T : ~ (<<y, x>> \in R)
  <2> HIDE DEF T
  <2>1. T \subseteq Nat
    BY DEF T
  <2> QED BY <1>1, <1>3, <2>1, WFMin
<1>5. x \in Nat /\ x # 0 /\ x <= n
  OBVIOUS
<1>6. x - 1 \in 0 .. n - 1 /\ x - 1 < x /\ x - 1 + 1 = x
  BY <1>5
<1>7. <<x - 1, x>> \in R
  BY <1>2, <1>5, <1>6
<1>8. x - 1 \notin T
  BY <1>4, <1>7
<1>9. x - 1 \in S
  BY <1>6, <1>8
<1> QED BY <1>5, <1>6, <1>9

-----------------------------------------------------------------------------

\* A list is a sequence with a length of its own.
LEMMA Lists ==
    /\ \A s : IsList(s) <=> \E n \in Nat : s = [i \in 1 .. n |-> s[i]]
    /\ \A s : IsList(s) => Len(s) \in Nat /\ DOMAIN s = 1 .. Len(s)
    /\ \A s, n : n \in Nat /\ s = [i \in 1 .. n |-> s[i]] => Len(s) = n
<1>1. ASSUME NEW s, NEW n \in Nat, s = [i \in 1 .. n |-> s[i]]
      PROVE  IsList(s) /\ Len(s) = n
  <2>1. \A i \in 1 .. n : s[i] \in ToSet(s)
    BY <1>1 DEF ToSet
  <2>2. [i \in 1 .. n |-> s[i]] \in Seq(ToSet(s))
    BY <2>1
  <2>3. Len([i \in 1 .. n |-> s[i]]) = n
    OBVIOUS
  <2> QED  BY <1>1, <2>2, <2>3 DEF IsList
<1>2. ASSUME NEW s, IsList(s)
      PROVE  Len(s) \in Nat /\ DOMAIN s = 1 .. Len(s) /\ s = [i \in 1 .. Len(s) |-> s[i]]
  BY <1>2 DEF IsList
<1> QED BY <1>1, <1>2

\* Two lists, one after the other.
LEMMA Concatenation ==
    ASSUME NEW s, NEW t, IsList(s), IsList(t)
    PROVE  /\ IsList(s \o t)
           /\ Len(s \o t) = Len(s) + Len(t)
           /\ \A i \in 1 .. Len(s) : (s \o t)[i] = s[i]
           /\ \A i \in 1 .. Len(t) : (s \o t)[Len(s) + i] = t[i]
           /\ ToSet(s \o t) = ToSet(s) \cup ToSet(t)
<1> DEFINE U == ToSet(s) \cup ToSet(t)
<1>1. s \in Seq(U) /\ t \in Seq(U)
  <2>1. \A i \in 1 .. Len(s) : s[i] \in U
    BY Lists DEF ToSet
  <2>2. \A i \in 1 .. Len(t) : t[i] \in U
    BY Lists DEF ToSet
  <2>3. \E n \in Nat : s = [i \in 1 .. n |-> s[i]]
    BY Lists
  <2>4. \E n \in Nat : t = [i \in 1 .. n |-> t[i]]
    BY Lists
  <2> HIDE DEF U
  <2> QED BY <2>1, <2>2, <2>3, <2>4, Lists
<1>2. /\ s \o t \in Seq(U) /\ Len(s \o t) = Len(s) + Len(t)
      /\ \A i \in 1 .. Len(s) : (s \o t)[i] = s[i]
      /\ \A i \in 1 .. Len(t) : (s \o t)[Len(s) + i] = t[i]
  <2> HIDE DEF U
  <2> QED BY <1>1
<1>3. Len(s) \in Nat /\ DOMAIN s = 1 .. Len(s) /\ Len(t) \in Nat /\ DOMAIN t = 1 .. Len(t)
  BY Lists
<1>4. DOMAIN (s \o t) = 1 .. Len(s) + Len(t)
  <2> HIDE DEF U
  <2> QED BY <1>2
<1>5. \A i \in 1 .. Len(s) + Len(t) :
        \/ i \in 1 .. Len(s)
        \/ i - Len(s) \in 1 .. Len(t) /\ Len(s) + (i - Len(s)) = i
  BY <1>3
<1>6. ToSet(s \o t) \subseteq U
  BY <1>2, <1>3, <1>4, <1>5 DEF ToSet
<1>7. U \subseteq ToSet(s \o t)
  <2>1. \A i \in 1 .. Len(s) : s[i] \in ToSet(s \o t)
    BY <1>2, <1>3, <1>4 DEF ToSet
  <2>2. \A i \in 1 .. Len(t) : t[i] \in ToSet(s \o t)
    <3>1. \A i \in 1 .. Len(t) : Len(s) + i \in DOMAIN (s \o t)
      BY <1>3, <1>4
    <3> QED BY <1>2, <3>1 DEF ToSet
  <2> QED BY <1>3, <2>1, <2>2 DEF ToSet
<1>8. ToSet(s \o t) = U
  BY <1>6, <1>7
<1> QED BY <1>2, <1>8 DEF IsList

\* FlattenSeq from SequencesExt, step by step.
Flattened(f, ss, n) ==
    f = [i \in 1 .. n |-> IF i = 1 THEN ss[i] ELSE f[i - 1] \o ss[i]]

\* FlattenSeq (SequencesExt) is defined by recursion: the function it picks exists.
LEMMA FlattenSteps ==
    ASSUME NEW ss, IsList(ss), ss # <<>>
    PROVE  \E f : Flattened(f, ss, Len(ss)) /\ FlattenSeq(ss) = f[Len(ss)]
<1> DEFINE n == Len(ss)
           S == {m \in 0 .. n : \E f : Flattened(f, ss, m)}
           flatten == CHOOSE f : Flattened(f, ss, n)
<1>1. n \in Nat /\ n # 0
  BY Lists
<1>2. 0 \in S
  <2>1. Flattened([i \in 1 .. 0 |-> 0], ss, 0)
    BY DEF Flattened
  <2> QED  BY <1>1, <2>1
<1>3. ASSUME NEW m \in 0 .. n - 1, m \in S PROVE m + 1 \in S
  <2>1. PICK f : Flattened(f, ss, m)
    BY <1>3
  <2> DEFINE g == [i \in 1 .. m + 1 |->
                      IF i <= m THEN f[i] ELSE IF i = 1 THEN ss[i] ELSE f[i - 1] \o ss[i]]
  <2>2. ASSUME NEW i \in 1 .. m + 1
        PROVE  g[i] = IF i = 1 THEN ss[i] ELSE g[i - 1] \o ss[i]
    <3>1. CASE i <= m
      <4>1. i \in 1 .. m /\ (i # 1 => i - 1 \in 1 .. m)
        BY <1>1, <3>1
      <4>2. f[i] = IF i = 1 THEN ss[i] ELSE f[i - 1] \o ss[i]
        BY <2>1, <4>1 DEF Flattened
      <4> QED  BY <1>1, <3>1, <4>1, <4>2
    <3>2. CASE i = m + 1
      BY <1>1, <3>2
    <3> QED  BY <1>1, <3>1, <3>2
  <2>3. Flattened(g, ss, m + 1)
    BY <2>2 DEF Flattened
  <2>4. m + 1 \in 0 .. n
    BY <1>1
  <2> HIDE DEF g
  <2> QED  BY <2>3, <2>4
<1>4. n \in S
  <2>1. n \in 0 .. n
    BY <1>1
  <2> HIDE DEF S, n
  <2> QED  BY <1>1, <1>2, <1>3, <2>1, Induction
<1>5. Flattened(flatten, ss, n)
  BY <1>4
<1>6. FlattenSeq(ss) = flatten[Len(ss)]
  BY <1>1 DEF FlattenSeq, Flattened
<1> HIDE DEF flatten
<1> QED  BY <1>5, <1>6

\* The elements of a list of lists, one after another.
LEMMA Flatten ==
    ASSUME NEW ss, IsList(ss), \A i \in DOMAIN ss : IsList(ss[i])
    PROVE  /\ IsList(FlattenSeq(ss))
           /\ ToSet(FlattenSeq(ss)) = UNION {ToSet(ss[i]) : i \in DOMAIN ss}
<1>1. CASE ss = <<>>
  <2>1. FlattenSeq(ss) = <<>>
    BY <1>1 DEF FlattenSeq
  <2> QED  BY <1>1, <2>1, Lists DEF ToSet
<1>2. CASE ss # <<>>
  <2>1. PICK f : Flattened(f, ss, Len(ss)) /\ FlattenSeq(ss) = f[Len(ss)]
    BY <1>2, FlattenSteps
  <2>2. Len(ss) \in Nat /\ Len(ss) # 0 /\ DOMAIN ss = 1 .. Len(ss)
    BY <1>2, Lists
  <2>3. \A i \in 1 .. Len(ss) : f[i] = IF i = 1 THEN ss[i] ELSE f[i - 1] \o ss[i]
    BY <2>1 DEF Flattened
  <2> DEFINE S == {i \in 0 .. Len(ss) : i # 0 =>
                     /\ IsList(f[i])
                     /\ ToSet(f[i]) = UNION {ToSet(ss[j]) : j \in 1 .. i}}
  <2>4. 0 \in S
    BY <2>2
  <2>5. ASSUME NEW i \in 0 .. Len(ss) - 1, i \in S PROVE i + 1 \in S
    <3>1. i + 1 \in DOMAIN ss /\ IsList(ss[i + 1])
      BY <2>2
    <3>2. CASE i = 0
      <4>1. {ToSet(ss[j]) : j \in 1 .. 1} = {ToSet(ss[1])}
        OBVIOUS
      <4>2. UNION {ToSet(ss[j]) : j \in 1 .. 1} = ToSet(ss[1])
        BY <4>1
      <4>3. f[1] = ss[1] /\ i + 1 = 1
        BY <2>2, <2>3, <3>2
      <4> QED  BY <2>2, <3>1, <4>2, <4>3
    <3>3. CASE i # 0
      <4>1. i + 1 \in 1 .. Len(ss) /\ i + 1 # 1 /\ i + 1 - 1 = i
        BY <2>2, <3>3
      <4>2. f[i + 1] = f[i] \o ss[i + 1]
        <5>1. \A k \in 1 .. Len(ss) : k # 1 => f[k] = f[k - 1] \o ss[k]
          BY <2>3
        <5> DEFINE k == i + 1
        <5>2. k \in 1 .. Len(ss) /\ k # 1 /\ k - 1 = i
          BY <4>1
        <5> HIDE DEF k
        <5>3. f[k] = f[i] \o ss[k]
          BY <5>1, <5>2
        <5> QED  BY <5>3 DEF k
      <4>3. IsList(f[i]) /\ ToSet(f[i]) = UNION {ToSet(ss[j]) : j \in 1 .. i}
        BY <2>5, <3>3
      <4>4. IsList(f[i + 1]) /\ ToSet(f[i + 1]) = ToSet(f[i]) \cup ToSet(ss[i + 1])
        BY <3>1, <4>2, <4>3, Concatenation
      <4>5. \A j : j \in 1 .. i + 1 <=> j \in 1 .. i \/ j = i + 1
        BY <2>2, <3>3
      <4>6. UNION {ToSet(ss[j]) : j \in 1 .. i + 1}
              = (UNION {ToSet(ss[j]) : j \in 1 .. i}) \cup ToSet(ss[i + 1])
        BY <4>5
      <4> QED  BY <2>2, <4>1, <4>3, <4>4, <4>6
    <3> QED  BY <3>2, <3>3
  <2>6. Len(ss) \in S
    <3>1. Len(ss) \in 0 .. Len(ss)
      BY <2>2
    <3> HIDE DEF S
    <3> QED  BY <2>2, <2>4, <2>5, <3>1, Induction
  <2> QED  BY <2>1, <2>2, <2>6
<1> QED  BY <1>1, <1>2

\* The states along a sequence of commands.
Steps(f, h, s, k, n) ==
    f = [i \in 0 .. n |-> IF i = 0 THEN h ELSE Step(f[i - 1], s[i], i <= k)]

\* What hostapd has become after the commands s, of which it answers k.
Exec(h, s, k) == (CHOOSE f : Steps(f, h, s, k, Len(s)))[Len(s)]

\* The states along any commands exist.
LEMMA StepsExist ==
    ASSUME NEW h, NEW s, NEW k, NEW n \in Nat
    PROVE  \E f : Steps(f, h, s, k, n)
<1> DEFINE S == {m \in 0 .. n : \E f : Steps(f, h, s, k, m)}
<1>1. 0 \in S
  <2>1. Steps([i \in 0 .. 0 |-> h], h, s, k, 0)
    BY DEF Steps
  <2> QED  BY <2>1
<1>2. ASSUME NEW m \in 0 .. n - 1, m \in S PROVE m + 1 \in S
  <2>1. PICK f : Steps(f, h, s, k, m)
    BY <1>2
  <2> DEFINE g == [i \in 0 .. m + 1 |-> IF i <= m THEN f[i] ELSE Step(f[m], s[m + 1], m + 1 <= k)]
  <2>2. ASSUME NEW i \in 0 .. m + 1
        PROVE  g[i] = IF i = 0 THEN h ELSE Step(g[i - 1], s[i], i <= k)
    <3>1. CASE i <= m
      <4>1. i \in 0 .. m /\ (i # 0 => i - 1 \in 0 .. m)
        BY <3>1
      <4>2. f[i] = IF i = 0 THEN h ELSE Step(f[i - 1], s[i], i <= k)
        BY <2>1, <4>1 DEF Steps
      <4> QED  BY <3>1, <4>1, <4>2
    <3>2. CASE i = m + 1
      BY <3>2
    <3> QED  BY <3>1, <3>2
  <2>3. Steps(g, h, s, k, m + 1)
    BY <2>2 DEF Steps
  <2>4. m + 1 \in 0 .. n
    OBVIOUS
  <2> HIDE DEF g
  <2> QED  BY <2>3, <2>4
<1>3. n \in S
  <2>1. n \in 0 .. n
    OBVIOUS
  <2> HIDE DEF S
  <2> QED  BY <1>1, <1>2, <2>1, Induction
<1> QED  BY <1>3

\* There is one sequence of states only.
LEMMA StepsUnique ==
    ASSUME NEW h, NEW s, NEW k, NEW n \in Nat, NEW f, NEW g,
           Steps(f, h, s, k, n), Steps(g, h, s, k, n)
    PROVE  f[n] = g[n]
<1> DEFINE S == {m \in 0 .. n : f[m] = g[m]}
<1>1. 0 \in S
  BY DEF Steps
<1>2. ASSUME NEW m \in 0 .. n - 1, m \in S PROVE m + 1 \in S
  <2> DEFINE l == m + 1
  <2>1. l \in 0 .. n /\ l # 0 /\ l - 1 = m
    OBVIOUS
  <2> HIDE DEF l
  <2>2. f[l] = Step(f[m], s[l], l <= k) /\ g[l] = Step(g[m], s[l], l <= k)
    BY <2>1 DEF Steps
  <2>3. f[m] = g[m]
    BY <1>2
  <2>4. l \in S
    BY <2>1, <2>2, <2>3
  <2> QED  BY <2>4 DEF l
<1>3. n \in S
  <2>1. n \in 0 .. n
    OBVIOUS
  <2> HIDE DEF S
  <2> QED  BY <1>1, <1>2, <2>1, Induction
<1> QED  BY <1>3

\* Any such states give the result.
LEMMA Executes ==
    ASSUME NEW h, NEW s, NEW k, IsList(s)
    PROVE  /\ \E f : Steps(f, h, s, k, Len(s)) /\ Exec(h, s, k) = f[Len(s)]
           /\ \A f : Steps(f, h, s, k, Len(s)) => Exec(h, s, k) = f[Len(s)]
<1> DEFINE e == CHOOSE f : Steps(f, h, s, k, Len(s))
<1>1. Len(s) \in Nat
  BY Lists
<1>2. Steps(e, h, s, k, Len(s))
  BY <1>1, StepsExist
<1>3. Exec(h, s, k) = e[Len(s)]
  BY DEF Exec
<1> HIDE DEF e
<1> QED  BY <1>1, <1>2, <1>3, StepsUnique

\* The model's Run is that.
LEMMA RunExecutes ==
    ASSUME NEW h, NEW s, NEW k
    PROVE  Run(h, s, k) = Exec([h EXCEPT !.status = "Succeeded"], s, k)
BY DEF Run, Exec, Steps

\* One after another.
LEMMA ExecConcatenation ==
    ASSUME NEW h, NEW s, NEW t, NEW k \in Int, IsList(s), IsList(t)
    PROVE  Exec(h, s \o t, k) = Exec(Exec(h, s, k), t, k - Len(s))
<1> DEFINE m == Len(s)
           n == Len(t)
<1>1. m \in Nat /\ n \in Nat /\ Len(s \o t) = m + n /\ IsList(s \o t)
  BY Lists, Concatenation
<1>2. PICK f : Steps(f, h, s, k, m) /\ Exec(h, s, k) = f[m]
  BY Executes
<1>3. PICK g : Steps(g, f[m], t, k - m, n) /\ Exec(f[m], t, k - m) = g[n]
  BY Executes
<1> DEFINE e == [i \in 0 .. m + n |-> IF i <= m THEN f[i] ELSE g[i - m]]
<1>4. ASSUME NEW i \in 0 .. m + n
      PROVE  e[i] = IF i = 0 THEN h ELSE Step(e[i - 1], (s \o t)[i], i <= k)
  <2>1. g[0] = f[m] /\ f[0] = h
    BY <1>1, <1>2, <1>3 DEF Steps
  <2>2. CASE i <= m
    <3>1. i \in 0 .. m /\ (i # 0 => i - 1 \in 0 .. m /\ i - 1 <= m)
      BY <1>1, <2>2
    <3>2. i # 0 => (s \o t)[i] = s[i]
      BY <1>1, <3>1, Concatenation
    <3>3. f[i] = IF i = 0 THEN h ELSE Step(f[i - 1], s[i], i <= k)
      BY <1>2, <3>1 DEF Steps
    <3>4. e[i] = f[i] /\ (i # 0 => e[i - 1] = f[i - 1])
      BY <1>1, <2>2, <3>1
    <3> HIDE DEF e
    <3> QED  BY <3>2, <3>3, <3>4
  <2>3. CASE i > m
    <3> DEFINE j == i - m
    <3>1. /\ j \in 1 .. n /\ j \in 0 .. n /\ j # 0 /\ i # 0 /\ m + j = i /\ ~ i <= m
          /\ (j <= k - m) = (i <= k)
      BY <1>1, <2>3
    <3>2. (s \o t)[m + j] = t[j]
      <4> HIDE DEF j
      <4> QED  BY <3>1, Concatenation
    <3>3. g[j] = Step(g[j - 1], t[j], j <= k - m)
      <4> HIDE DEF j
      <4> QED  BY <1>3, <3>1 DEF Steps
    <3>4. e[i] = g[j]
      BY <3>1
    <3>5. e[i - 1] = g[j - 1]
      <4>1. CASE j = 1
        <5>1. i - 1 = m /\ j - 1 = 0 /\ i - 1 \in 0 .. m + n
          BY <1>1, <3>1, <4>1
        <5> HIDE DEF j
        <5>2. e[m] = f[m]
          BY <1>1
        <5> QED  BY <2>1, <5>1, <5>2
      <4>2. CASE j # 1
        <5>1. i - 1 \in 0 .. m + n /\ ~ i - 1 <= m /\ i - 1 - m = j - 1
          BY <1>1, <3>1, <4>2
        <5> HIDE DEF j
        <5> QED  BY <5>1
      <4> QED  BY <4>1, <4>2
    <3> HIDE DEF e, j
    <3> QED  BY <3>1, <3>2, <3>3, <3>4, <3>5
  <2> QED  BY <1>1, <2>2, <2>3
<1>5. Steps(e, h, s \o t, k, m + n)
  BY <1>4 DEF Steps
<1>6. e[m + n] = g[n]
  <2>1. CASE n = 0
    BY <1>1, <1>3, <2>1 DEF Steps
  <2>2. CASE n # 0
    BY <1>1, <2>2
  <2> QED  BY <2>1, <2>2
<1> HIDE DEF e
<1>7. Exec(h, s \o t, k) = e[m + n]
  <2>1. Steps(e, h, s \o t, k, Len(s \o t))
    BY <1>1, <1>5
  <2>2. Exec(h, s \o t, k) = e[Len(s \o t)]
    BY <1>1, <2>1, Executes
  <2> QED  BY <1>1, <2>2
<1> HIDE DEF m, n
<1>8. Exec(h, s \o t, k) = Exec(Exec(h, s, k), t, k - m)
  BY <1>2, <1>3, <1>6, <1>7
<1> QED  BY <1>8 DEF m

\* No command, and one.
LEMMA ExecOne ==
    ASSUME NEW h, NEW c, NEW k \in Int
    PROVE  /\ Exec(h, <<>>, k) = h
           /\ Exec(h, <<c>>, k) = Step(h, c, 1 <= k)
           /\ IsList(<<>>) /\ IsList(<<c>>) /\ Len(<<>>) = 0 /\ Len(<<c>>) = 1
           /\ ToSet(<<>>) = {} /\ ToSet(<<c>>) = {c}
<1>1. /\ IsList(<<>>) /\ IsList(<<c>>) /\ Len(<<>>) = 0 /\ Len(<<c>>) = 1
      /\ ToSet(<<>>) = {} /\ ToSet(<<c>>) = {c}
  BY DEF IsList, ToSet
<1>2. Steps([i \in 0 .. 0 |-> h], h, <<>>, k, 0)
  BY DEF Steps
<1>3. Steps([i \in 0 .. 1 |-> IF i = 0 THEN h ELSE Step(h, c, 1 <= k)], h, <<c>>, k, 1)
  BY DEF Steps
<1> QED  BY <1>1, <1>2, <1>3, Executes

\* The form of hostapd's record.
Typed(x) ==
    /\ x = [status |-> x.status, conf |-> x.conf, live |-> x.live, state |-> x.state]
    /\ x.conf = [name \in PropertyNames |-> x.conf[name]]
    /\ x.live = [name \in PropertyNames |-> x.live[name]]

\* The commands that end a request wherever it is.
Stops(c) == c.do = "throw" \/ (c.do = "refuse" /\ c.status # "Succeeded")
\* No command of s ends it.
Passes(s) == \A i \in DOMAIN s : ~Stops(s[i])

\* The statuses a sequence of commands may refuse with.
Refusals(s) ==
    {s[i].status : i \in {j \in DOMAIN s : /\ s[j].do = "refuse" /\ Stops(s[j])
                                          /\ \A l \in 1 .. j - 1 : ~Stops(s[l])}}

\* A SET keeps the form of a configuration.
LEMMA AssignTyped ==
    ASSUME NEW conf, conf = [name \in PropertyNames |-> conf[name]], NEW name, NEW value
    PROVE  LET new == Assign(conf, name, value)
           IN  new = [n \in PropertyNames |-> new[n]]
BY DEF Assign

\* Every command keeps the form of hostapd's record.
LEMMA StepTyped ==
    ASSUME NEW x, Typed(x), NEW c, NEW b \in BOOLEAN
    PROVE  Typed(Step(x, c, b))
<1> DEFINE y == Step(x, c, b)
           new == Assign(x.conf, c.name, c.value)
<1>1. \/ y = x
      \/ \E status : y = [x EXCEPT !.status = status]
      \/ y = [x EXCEPT !.live = x.conf]
      \/ y = [x EXCEPT !.live = x.conf, !.state = "ENABLED"]
      \/ y = [x EXCEPT !.state = "DISABLED"]
      \/ y = [x EXCEPT !.conf = new, !.live.setband = new.setband]
      \/ y = [x EXCEPT !.conf = new]
  BY DEF Step
<1>2. new = [n \in PropertyNames |-> new[n]]
  BY AssignTyped DEF Typed
<1>3. SUFFICES Typed(y)
  OBVIOUS
<1> HIDE DEF new, y
<1>4. CASE y = [x EXCEPT !.conf = new, !.live.setband = new.setband]
  <2> DEFINE live == [x.live EXCEPT !.setband = new.setband]
  <2>1. y = [status |-> x.status, conf |-> new, live |-> live, state |-> x.state]
    BY <1>4 DEF Typed
  <2>2. live = [n \in PropertyNames |-> live[n]]
    BY DEF Typed
  <2> HIDE DEF live
  <2> QED  BY <1>2, <2>1, <2>2 DEF Typed
<1>5. CASE \E status : y = [x EXCEPT !.status = status]
  BY <1>5 DEF Typed
<1>6. CASE y \in {x, [x EXCEPT !.live = x.conf], [x EXCEPT !.state = "DISABLED"],
                  [x EXCEPT !.live = x.conf, !.state = "ENABLED"]}
  BY <1>6 DEF Typed
<1>7. CASE y = [x EXCEPT !.conf = new]
  BY <1>2, <1>7 DEF Typed
<1> QED  BY <1>1, <1>4, <1>5, <1>6, <1>7

\* The status a command leaves.
LEMMA StepStatus ==
    ASSUME NEW x, Typed(x), NEW c, NEW b \in BOOLEAN
    PROVE  /\ x.status # "Succeeded" => Step(x, c, b) = x
           /\ x.status = "Succeeded" /\ Stops(c) =>
                  Step(x, c, b).status = IF c.do = "refuse" THEN c.status ELSE "InternalError"
           /\ x.status = "Succeeded" /\ ~Stops(c) =>
                  Step(x, c, b).status \in {"Succeeded", "InternalError", "terminated"}
BY DEF Typed, Step, Stops

\* So do all the commands of a request.
LEMMA ExecTyped ==
    ASSUME NEW h, Typed(h), NEW s, IsList(s), NEW k \in Int
    PROVE  Typed(Exec(h, s, k))
<1>1. PICK f : Steps(f, h, s, k, Len(s)) /\ Exec(h, s, k) = f[Len(s)]
  BY Executes
<1>2. Len(s) \in Nat
  BY Lists
<1> DEFINE S == {i \in 0 .. Len(s) : Typed(f[i])}
<1>3. 0 \in S
  BY <1>1, <1>2 DEF Steps
<1>4. ASSUME NEW i \in 0 .. Len(s) - 1, i \in S PROVE i + 1 \in S
  <2> DEFINE l == i + 1
  <2>1. l \in 0 .. Len(s) /\ l # 0 /\ l - 1 = i /\ (l <= k) \in BOOLEAN
    BY <1>2
  <2> HIDE DEF l
  <2>2. f[l] = Step(f[i], s[l], l <= k)
    BY <1>1, <2>1 DEF Steps
  <2>3. Typed(f[l])
    BY <1>4, <2>1, <2>2, StepTyped
  <2>4. l \in S
    BY <2>1, <2>3
  <2> QED  BY <2>4 DEF l
<1>5. Len(s) \in S
  <2>1. Len(s) \in 0 .. Len(s)
    BY <1>2
  <2> HIDE DEF S
  <2> QED  BY <1>2, <1>3, <1>4, <2>1, Induction
<1> QED  BY <1>1, <1>5

\* A list passes if its elements do, in whatever order they are looked at.
LEMMA PassesAll ==
    ASSUME NEW s
    PROVE  Passes(s) <=> \A c \in ToSet(s) : ~Stops(c)
BY DEF Passes, ToSet

\* The refusals of a sequence are among those of its parts.
LEMMA RefusalsConcatenation ==
    ASSUME NEW s, NEW t, IsList(s), IsList(t)
    PROVE  /\ Refusals(s \o t) \subseteq Refusals(s) \cup Refusals(t)
           /\ ~Passes(s) => Refusals(s \o t) \subseteq Refusals(s)
           /\ Passes(s \o t) <=> Passes(s) /\ Passes(t)
<1>1. /\ Len(s) \in Nat /\ DOMAIN s = 1 .. Len(s) /\ Len(t) \in Nat /\ DOMAIN t = 1 .. Len(t)
      /\ IsList(s \o t) /\ DOMAIN (s \o t) = 1 .. Len(s) + Len(t)
  BY Lists, Concatenation
<1>2. Passes(s \o t) <=> Passes(s) /\ Passes(t)
  BY PassesAll, Concatenation
<1>3. ASSUME NEW x \in Refusals(s \o t)
      PROVE  x \in Refusals(s) \/ (x \in Refusals(t) /\ Passes(s))
  <2>1. PICK i \in DOMAIN (s \o t) :
            /\ x = (s \o t)[i].status /\ (s \o t)[i].do = "refuse" /\ Stops((s \o t)[i])
            /\ \A l \in 1 .. i - 1 : ~Stops((s \o t)[l])
    BY <1>3 DEF Refusals
  <2>2. CASE i \in 1 .. Len(s)
    <3>1. (s \o t)[i] = s[i] /\ \A l \in 1 .. i - 1 : l \in 1 .. Len(s)
      BY <1>1, <2>2, Concatenation
    <3>2. \A l \in 1 .. i - 1 : ~Stops(s[l])
      BY <2>1, <2>2, <3>1, Concatenation
    <3> QED  BY <1>1, <2>1, <2>2, <3>1, <3>2 DEF Refusals
  <2>3. CASE i \notin 1 .. Len(s)
    <3> DEFINE j == i - Len(s)
    <3>1. j \in 1 .. Len(t) /\ Len(s) + j = i
      BY <1>1, <2>1, <2>3
    <3>2. \A l \in 1 .. Len(s) : l \in 1 .. i - 1
      BY <1>1, <2>1, <2>3
    <3>3. Passes(s)
      BY <1>1, <2>1, <3>2, Concatenation DEF Passes
    <3>4. \A l \in 1 .. j - 1 : l \in 1 .. Len(t) /\ Len(s) + l \in 1 .. i - 1
      BY <1>1, <3>1
    <3> HIDE DEF j
    <3>5. ASSUME NEW l \in 1 .. j - 1
          PROVE  ~Stops(t[l])
      <4>1. l \in 1 .. Len(t) /\ Len(s) + l \in 1 .. i - 1
        BY ONLY <3>4
      <4>2. (s \o t)[Len(s) + l] = t[l]
        BY <4>1, Concatenation
      <4>3. ~Stops((s \o t)[Len(s) + l])
        BY ONLY <2>1, <4>1
      <4> QED  BY ONLY <4>2, <4>3
    <3>6. (s \o t)[i] = t[j]
      BY <3>1, Concatenation
    <3> QED  BY <1>1, <2>1, <3>1, <3>3, <3>5, <3>6 DEF Refusals
  <2> QED  BY <2>2, <2>3
<1> QED  BY <1>2, <1>3

\* And so for many parts.
LEMMA RefusalsFlatten ==
    ASSUME NEW ss, IsList(ss), \A i \in DOMAIN ss : IsList(ss[i])
    PROVE  /\ Refusals(FlattenSeq(ss)) \subseteq UNION {Refusals(ss[i]) : i \in DOMAIN ss}
           /\ Passes(FlattenSeq(ss)) <=> \A i \in DOMAIN ss : Passes(ss[i])
<1>1. Passes(FlattenSeq(ss)) <=> \A i \in DOMAIN ss : Passes(ss[i])
  <2>1. ToSet(FlattenSeq(ss)) = UNION {ToSet(ss[i]) : i \in DOMAIN ss}
    BY Flatten
  <2> QED  BY <2>1, PassesAll
<1>2. CASE ss = <<>>
  <2>1. FlattenSeq(ss) = <<>>
    BY <1>2 DEF FlattenSeq
  <2> QED  BY <1>1, <2>1 DEF Refusals
<1>3. CASE ss # <<>>
  <2>1. PICK f : Flattened(f, ss, Len(ss)) /\ FlattenSeq(ss) = f[Len(ss)]
    BY <1>3, FlattenSteps
  <2>2. Len(ss) \in Nat /\ Len(ss) # 0 /\ DOMAIN ss = 1 .. Len(ss)
    BY <1>3, Lists
  <2>3. \A i \in 1 .. Len(ss) : f[i] = IF i = 1 THEN ss[i] ELSE f[i - 1] \o ss[i]
    BY <2>1 DEF Flattened
  <2> DEFINE U == UNION {Refusals(ss[i]) : i \in DOMAIN ss}
             S == {i \in 0 .. Len(ss) : i # 0 => IsList(f[i]) /\ Refusals(f[i]) \subseteq U}
  <2>4. 0 \in S
    BY <2>2
  <2>5. ASSUME NEW i \in 0 .. Len(ss) - 1, i \in S PROVE i + 1 \in S
    <3> DEFINE k == i + 1
    <3>1. k \in 1 .. Len(ss) /\ k \in 0 .. Len(ss) /\ (k = 1 <=> i = 0) /\ k - 1 = i /\ k # 0
      BY <2>2
    <3> HIDE DEF k
    <3>2. IsList(ss[k]) /\ Refusals(ss[k]) \subseteq U
      BY <2>2, <3>1
    <3>3. CASE i = 0
      <4>1. f[k] = ss[k]
        BY <2>3, <3>1, <3>3
      <4> QED  BY <3>1, <3>2, <4>1 DEF k
    <3>4. CASE i # 0
      <4>1. f[k] = f[i] \o ss[k]
        BY <2>3, <3>1, <3>4
      <4>2. IsList(f[i]) /\ Refusals(f[i]) \subseteq U
        BY <2>5, <3>4
      <4>3. IsList(f[k]) /\ Refusals(f[k]) \subseteq Refusals(f[i]) \cup Refusals(ss[k])
        BY <3>2, <4>1, <4>2, Concatenation, RefusalsConcatenation
      <4>4. Refusals(f[k]) \subseteq U
        <5> HIDE DEF U
        <5> QED  BY <3>2, <4>2, <4>3
      <4>5. k \in S
        <5> HIDE DEF U
        <5> QED  BY <3>1, <4>3, <4>4
      <4> QED  BY <4>5 DEF k
    <3> QED  BY <3>3, <3>4
  <2>6. Len(ss) \in S
    <3>1. Len(ss) \in 0 .. Len(ss)
      BY <2>2
    <3> HIDE DEF S
    <3> QED  BY <2>2, <2>4, <2>5, <3>1, Induction
  <2> QED  BY <1>1, <2>1, <2>2, <2>6
<1> QED  BY <1>2, <1>3

\* A request that succeeds has met none of its refusals, one that fails otherwise than
\* by an error has met the first.
LEMMA Outcome ==
    ASSUME NEW h, Typed(h), h.status = "Succeeded", NEW s, IsList(s), NEW k \in Int
    PROVE  LET status == Exec(h, s, k).status
           IN  /\ status = "Succeeded" => Passes(s)
               /\ status \notin {"Succeeded", "InternalError", "terminated"} =>
                      status \in Refusals(s)
<1>1. PICK f : Steps(f, h, s, k, Len(s)) /\ Exec(h, s, k) = f[Len(s)]
  BY Executes
<1>2. Len(s) \in Nat /\ DOMAIN s = 1 .. Len(s)
  BY Lists
<1> DEFINE Fine(i) == /\ f[i].status = "Succeeded" => \A j \in 1 .. i : ~Stops(s[j])
                      /\ f[i].status \notin {"Succeeded", "InternalError", "terminated"} =>
                             f[i].status \in Refusals(s)
           S == {i \in 0 .. Len(s) : Typed(f[i]) /\ Fine(i)}
<1>3. 0 \in S
  BY <1>1, <1>2 DEF Steps
<1>4. ASSUME NEW i \in 0 .. Len(s) - 1, i \in S PROVE i + 1 \in S
  <2> DEFINE l == i + 1
  <2>1. /\ l \in 0 .. Len(s) /\ l # 0 /\ l - 1 = i /\ (l <= k) \in BOOLEAN /\ l \in DOMAIN s
        /\ \A j \in 1 .. l : j \in 1 .. i \/ j = l
    BY <1>2
  <2> HIDE DEF l
  <2>2. f[l] = Step(f[i], s[l], l <= k)
    BY <1>1, <2>1 DEF Steps
  <2>3. Typed(f[i]) /\ Fine(i)
    BY <1>4
  <2>4. Typed(f[l])
    BY <2>1, <2>2, <2>3, StepTyped
  <2>7. /\ f[i].status # "Succeeded" => f[l] = f[i]
        /\ f[i].status = "Succeeded" /\ Stops(s[l]) =>
               f[l].status = IF s[l].do = "refuse" THEN s[l].status ELSE "InternalError"
        /\ f[i].status = "Succeeded" /\ ~Stops(s[l]) =>
               f[l].status \in {"Succeeded", "InternalError", "terminated"}
    <3> HIDE DEF Fine
    <3> DEFINE b == l <= k
    <3>1. b \in BOOLEAN /\ f[l] = Step(f[i], s[l], b)
      BY <2>1, <2>2
    <3> HIDE DEF b
    <3> QED  BY <2>3, <3>1, StepStatus
  <2>5. Fine(l)
    <3>1. CASE f[i].status # "Succeeded"
      <4>1. f[l] = f[i]
        BY <2>7, <3>1
      <4> QED  BY <2>3, <3>1, <4>1
    <3>2. CASE f[i].status = "Succeeded" /\ Stops(s[l])
      <4>1. f[l].status = IF s[l].do = "refuse" THEN s[l].status ELSE "InternalError"
        BY <2>7, <3>2
      <4>2. s[l].do = "refuse" => s[l].status \in Refusals(s) /\ s[l].status # "Succeeded"
        BY <2>1, <2>3, <3>2 DEF Refusals, Stops
      <4> QED  BY <4>1, <4>2
    <3>3. CASE f[i].status = "Succeeded" /\ ~Stops(s[l])
      <4>1. f[l].status \in {"Succeeded", "InternalError", "terminated"}
        BY <2>7, <3>3
      <4> QED  BY <2>1, <2>3, <3>3, <4>1
    <3> QED  BY <3>1, <3>2, <3>3
  <2>6. l \in S
    BY <2>1, <2>4, <2>5
  <2> QED  BY <2>6 DEF l
<1>5. Len(s) \in S
  <2>1. Len(s) \in 0 .. Len(s)
    BY <1>2
  <2> HIDE DEF S
  <2> QED  BY <1>2, <1>3, <1>4, <2>1, Induction
<1> QED  BY <1>1, <1>2, <1>5 DEF Passes

-----------------------------------------------------------------------------
(* What a request asks for decides whether it is refused as not supported *)

\* A refusal of what the radio cannot do, and commands without one.
Unsupported(c) == c.do = "refuse" /\ c.status = "OperationNotSupported"
\* Commands that are never refused as not supported.
Harmless(s) == IsList(s) /\ \A c \in ToSet(s) : ~Unsupported(c)

\* A list converted element by element, and an optional value.
LEMMA Mapped ==
    ASSUME NEW s, IsList(s), NEW t, t = [i \in DOMAIN s |-> t[i]]
    PROVE  IsList(t) /\ DOMAIN t = DOMAIN s /\ Len(t) = Len(s)
<1>1. Len(s) \in Nat /\ DOMAIN s = 1 .. Len(s)
  BY Lists
<1>2. t = [i \in 1 .. Len(s) |-> t[i]]
  BY <1>1
<1>3. IsList(t) /\ Len(t) = Len(s)
  BY <1>1, <1>2, Lists
<1> QED  BY <1>1, <1>3, Lists

\* No element, and one.
LEMMA Singles ==
    /\ IsList(<<>>) /\ ToSet(<<>>) = {}
    /\ \A c : IsList(<<c>>) /\ ToSet(<<c>>) = {c}
<1>1. IsList(<<>>) /\ ToSet(<<>>) = {}
  BY DEF IsList, ToSet
<1>2. ASSUME NEW c PROVE IsList(<<c>>) /\ ToSet(<<c>>) = {c}
  BY DEF IsList, ToSet
<1> QED  BY <1>1, <1>2

\* What may be absent is a list.
LEMMA Optionals ==
    ASSUME NEW value, IsOptional(value)
    PROVE  /\ IsList(value)
           /\ (value = <<>> /\ ToSet(value) = {})
              \/ (value = <<value[1]>> /\ ToSet(value) = {value[1]})
<1>1. CASE value = <<>>
  BY <1>1, Singles
<1>2. CASE value = <<value[1]>>
  BY <1>2, Singles
<1> QED  BY <1>1, <1>2 DEF IsOptional

\* The options of a command line.
LEMMA LineForms ==
    ASSUME NEW line, IsLine(line)
    PROVE  /\ IsOptional(line.id) /\ IsOptional(line.ssid) /\ IsOptional(line.phy)
           /\ IsOptional(line.psk) /\ IsOptional(line.passphrase)
           /\ IsOptional(line.auth) /\ IsOptional(line.acct)
           /\ IsList(line.auth) /\ IsList(line.acct) /\ IsList(line.fallback)
           /\ IsList(line.bands) /\ IsList(line.sae)
           /\ IsList(line.auths) /\ IsList(line.akms)
<1>1. \A option \in {"id", "ssid", "phy", "psk", "passphrase", "auth", "acct"} :
          IsOptional(line[option])
  BY DEF IsLine
<1>2. \A option \in {"bands", "auths", "akms", "sae", "fallback"} : IsList(line[option])
  BY DEF IsLine
<1>3. IsOptional(line.auth) /\ IsOptional(line.acct)
  BY <1>1
<1>4. IsList(line.auth) /\ IsList(line.acct)
  BY <1>3, Optionals
<1> QED  BY <1>1, <1>2, <1>4

\* Harmless commands one after another are harmless.
LEMMA HarmlessConcatenation ==
    ASSUME NEW s, NEW t, Harmless(s), Harmless(t)
    PROVE  Harmless(s \o t)
BY Concatenation DEF Harmless

\* However many.
LEMMA HarmlessFlatten ==
    ASSUME NEW ss, IsList(ss), \A i \in DOMAIN ss : Harmless(ss[i])
    PROVE  Harmless(FlattenSeq(ss))
<1>1. \A i \in DOMAIN ss : IsList(ss[i])
  BY DEF Harmless
<1> QED  BY <1>1, Flatten DEF Harmless

\* Harmless commands refuse nothing as not supported.
LEMMA HarmlessRefusals ==
    ASSUME NEW s, Harmless(s)
    PROVE  IsList(s) /\ "OperationNotSupported" \notin Refusals(s)
BY DEF Harmless, Refusals, Unsupported, ToSet

\* One command.
LEMMA HarmlessOne ==
    /\ Harmless(<<>>)
    /\ \A c : ~Unsupported(c) => Harmless(<<c>>)
BY Singles DEF Harmless

\* The commands the controller's methods are made of.
LEMMA HarmlessCommands ==
    /\ Harmless(<<>>) /\ Harmless(Reload) /\ Harmless(Throw) /\ Harmless(Read)
    /\ Harmless(GetOperationalState)
    /\ \A target : Harmless(SetOperationalState(target))
    /\ \A name, value : Harmless(<<Set(name, value)>>)
    /\ \A name, value, enforce : Harmless(SetProperty(name, value, enforce))
    /\ \A condition, status : status # "OperationNotSupported" =>
          Harmless(RefuseIf(condition, status))
<1>1. Harmless(<<>>) /\ Harmless(Reload) /\ Harmless(Throw) /\ Harmless(Read)
      /\ Harmless(GetOperationalState)
  BY HarmlessOne DEF Reload, Throw, Read, GetOperationalState, Unsupported
<1>2. ASSUME NEW name, NEW value PROVE Harmless(<<Set(name, value)>>)
  BY HarmlessOne DEF Set, Unsupported
<1>3. ASSUME NEW name, NEW value, NEW enforce
      PROVE  Harmless(SetProperty(name, value, enforce))
  <2>1. Harmless(IF enforce = "Now" THEN Reload ELSE <<>>)
    BY <1>1
  <2> QED  BY <1>2, <2>1, HarmlessConcatenation DEF SetProperty
<1>4. ASSUME NEW condition, NEW status, status # "OperationNotSupported"
      PROVE  Harmless(RefuseIf(condition, status))
  BY <1>1, <1>4, HarmlessOne DEF RefuseIf, Refuse, Unsupported
<1>5. ASSUME NEW target PROVE Harmless(SetOperationalState(target))
  <2> DEFINE c == [do |-> IF target = "Enabled" THEN "ENABLE" ELSE "DISABLE"]
             d == [do |-> "confirm"]
  <2>1. Harmless(<<c>>) /\ Harmless(<<d>>)
    BY HarmlessOne DEF Unsupported
  <2>2. SetOperationalState(target) = <<c>> \o <<d>>
    BY DEF SetOperationalState
  <2> QED  BY <2>1, <2>2, HarmlessConcatenation
<1> QED  BY <1>1, <1>2, <1>3, <1>4, <1>5

\* The controller's methods refuse nothing for want of a capability.
LEMMA HarmlessSetters ==
    /\ \A algorithms : Harmless(SetAuthenticationAlgorithms(algorithms))
    /\ \A akms : Harmless(SetAkmSuites(akms))
    /\ \A wpa, ciphers : Harmless(SetProtocolCipherSuites(wpa, ciphers))
    /\ \A ssid : Harmless(SetSsid(ssid))
    /\ \A bridge : Harmless(SetNetworkBridge(bridge))
    /\ \A phy : Harmless(SetPhyType(phy))
    /\ \A bands : Harmless(SetFrequencyBands(bands))
    /\ \A server : Harmless(AddRadiusEndpoint(server))
    /\ \A psk : Harmless(SetPreSharedKey(psk))
<1>1. ASSUME NEW algorithms PROVE Harmless(SetAuthenticationAlgorithms(algorithms))
  BY HarmlessCommands DEF SetAuthenticationAlgorithms
<1>2. ASSUME NEW akms PROVE Harmless(SetAkmSuites(akms))
  <2> DEFINE keys == Each(Ieee80211AkmSuiteToWpaKeyManagement, akms)
             texts == Each(WpaKeyManagementPropertyValue, keys)
             a == IF \E key \in ToSet(keys) : IsKeyManagementFastTransition(key)
                    THEN SetProperty("nas_identifier", "random", "Now") ELSE <<>>
             b == IF \E key \in ToSet(keys) : IsKeyManagementIeee8021x(key)
                    THEN SetProperty("ieee8021x", 1, "Defer") ELSE <<>>
             c == SetProperty("wpa_key_mgmt", texts, "Now")
  <2>1. SetAkmSuites(akms) = IF "UNKNOWN" \in ToSet(texts) THEN Throw ELSE a \o b \o c \o Read
    BY DEF SetAkmSuites
  <2>2. Harmless(a) /\ Harmless(b) /\ Harmless(c)
    BY HarmlessCommands
  <2> HIDE DEF a, b, c, texts
  <2>3. Harmless(a \o b \o c \o Read)
    BY <2>2, HarmlessCommands, HarmlessConcatenation
  <2> QED  BY <2>1, <2>3, HarmlessCommands
<1>3. ASSUME NEW wpa, NEW ciphers PROVE Harmless(SetProtocolCipherSuites(wpa, ciphers))
  BY HarmlessCommands DEF SetProtocolCipherSuites
<1>4. ASSUME NEW ssid PROVE Harmless(SetSsid(ssid))
  <2>1. Harmless(Refuse("InvalidParameter"))
    BY HarmlessOne DEF Refuse, Unsupported
  <2>2. Harmless(SetProperty("ssid", ssid, "Now") \o Read)
    BY HarmlessCommands, HarmlessConcatenation
  <2> QED  BY <2>1, <2>2 DEF SetSsid
<1>5. ASSUME NEW bridge PROVE Harmless(SetNetworkBridge(bridge))
  BY HarmlessCommands DEF SetNetworkBridge
<1>6. ASSUME NEW phy PROVE Harmless(SetPhyType(phy))
  <2> DEFINE hw == HostapdHwModePropertyValue(IeeePhyTypeToHostapdHwMode(phy))
             ax == IF phy = "AX" THEN <<Set("ieee80211ax", 1), Set("disable_11ax", 0)>> ELSE <<>>
             ac == IF phy \in {"AX", "AC"}
                     THEN <<Set("ieee80211ac", 1), Set("disable_11ac", 0)>> ELSE <<>>
             n == IF phy \in {"AX", "AC", "N"}
                    THEN <<Set("wmm_enabled", 1), Set("ieee80211n", 1), Set("disable_11n", 0)>>
                    ELSE <<>>
  <2>1. SetPhyType(phy) = <<Set("hw_mode", hw)>> \o ax \o ac \o n \o Reload \o Read
    BY DEF SetPhyType
  <2>2. \A v, w, x, y : Harmless(<<Set(v, w), Set(x, y)>>)
    <3>1. ASSUME NEW v, NEW w, NEW x, NEW y PROVE Harmless(<<Set(v, w), Set(x, y)>>)
      <4>1. <<Set(v, w), Set(x, y)>> = <<Set(v, w)>> \o <<Set(x, y)>>
        OBVIOUS
      <4> QED  BY <4>1, HarmlessCommands, HarmlessConcatenation
    <3> QED  BY <3>1
  <2>3. Harmless(<<Set("wmm_enabled", 1), Set("ieee80211n", 1), Set("disable_11n", 0)>>)
    <3>1. <<Set("wmm_enabled", 1), Set("ieee80211n", 1), Set("disable_11n", 0)>>
            = <<Set("wmm_enabled", 1), Set("ieee80211n", 1)>> \o <<Set("disable_11n", 0)>>
      OBVIOUS
    <3> QED  BY <2>2, <3>1, HarmlessCommands, HarmlessConcatenation
  <2>4. Harmless(ax) /\ Harmless(ac) /\ Harmless(n) /\ Harmless(<<Set("hw_mode", hw)>>)
    BY <2>2, <2>3, HarmlessCommands
  <2> HIDE DEF hw, ax, ac, n
  <2> QED  BY <2>1, <2>4, HarmlessCommands, HarmlessConcatenation
<1>7. ASSUME NEW bands PROVE Harmless(SetFrequencyBands(bands))
  <2> DEFINE texts == Each(IeeeFrequencyBandToHostapdBand, bands)
             w == IF "SixGHz" \in ToSet(bands)
                    THEN SetProperty("ieee80211w",
                                     ManagementFrameProtectionToPropertyValue("Required"), "Defer")
                    ELSE <<>>
  <2>1. SetFrequencyBands(bands) = SetProperty("setband", texts, "Defer") \o w
    BY DEF SetFrequencyBands
  <2>2. Harmless(w)
    BY HarmlessCommands
  <2> HIDE DEF w, texts
  <2> QED  BY <2>1, <2>2, HarmlessCommands, HarmlessConcatenation
<1>8. ASSUME NEW server PROVE Harmless(AddRadiusEndpoint(server))
  <2> DEFINE names == GetRadiusEndpointPropertyNames(server.Type)
             first == <<Set(names.address, server.Address), Set(names.secret, server.SharedSecret)>>
             port == IF server.Port = <<>> THEN <<>> ELSE <<Set(names.port, server.Port[1])>>
  <2>1. \/ AddRadiusEndpoint(server) = Throw
        \/ AddRadiusEndpoint(server) = first \o port
    BY DEF AddRadiusEndpoint
  <2>2. first = <<Set(names.address, server.Address)>> \o <<Set(names.secret, server.SharedSecret)>>
    OBVIOUS
  <2>3. Harmless(first)
    BY <2>2, HarmlessCommands, HarmlessConcatenation
  <2>4. Harmless(port)
    BY HarmlessCommands
  <2> HIDE DEF first, port
  <2> QED  BY <2>1, <2>3, <2>4, HarmlessCommands, HarmlessConcatenation
<1>9. ASSUME NEW psk PROVE Harmless(SetPreSharedKey(psk))
  BY HarmlessCommands DEF SetPreSharedKey
<1> QED  BY <1>1, <1>2, <1>3, <1>4, <1>5, <1>6, <1>7, <1>8, <1>9

\* Those that send a list, when it is one.
LEMMA HarmlessSaePasswords ==
    ASSUME NEW passwords, IsList(passwords)
    PROVE  Harmless(SetSaePasswords(passwords))
<1> DEFINE adapted == Each(Ieee80211RsnaPasswordToWpaSaePassword, passwords)
           Add(password) == Set("sae_password", <<password>>)
           sets == Each(Add, adapted)
<1>1. SetSaePasswords(passwords) = <<Set("sae_password", <<>>)>> \o sets \o Reload
  BY DEF SetSaePasswords
<1>2. IsList(sets)
  <2>1. IsList(adapted)
    BY Mapped DEF Each
  <2> HIDE DEF adapted
  <2> QED  BY <2>1, Mapped DEF Each
<1>3. \A c \in ToSet(sets) : ~Unsupported(c)
  <2> HIDE DEF adapted
  <2> QED  BY DEF ToSet, Each, Set, Unsupported
<1> HIDE DEF sets
<1>4. Harmless(sets)
  BY <1>2, <1>3 DEF Harmless
<1> QED  BY <1>1, <1>4, HarmlessCommands, HarmlessConcatenation

\* SetAuthenticationData: keys and passwords.
LEMMA HarmlessData ==
    ASSUME NEW data, IsOptional(data.psk), IsOptional(data.sae),
           \A passwords \in ToSet(data.sae) : IsList(passwords)
    PROVE  Harmless(SetAuthenticationData(FromDot11AuthenticationData(data)))
<1> DEFINE from == FromDot11AuthenticationData(data)
           a == IF from.Psk # <<>> THEN SetPreSharedKey(from.Psk[1].Psk) ELSE <<>>
           b == IF from.Sae # <<>> THEN SetSaePasswords(from.Sae[1].Passwords) ELSE <<>>
<1>1. SetAuthenticationData(from) = a \o b
  BY DEF SetAuthenticationData
<1>2. Harmless(a)
  BY HarmlessCommands, HarmlessSetters
<1>3. from.Sae # <<>> => IsList(from.Sae[1].Passwords)
  <2>1. from.Sae = Each(FromDot11AuthenticationDataSae, data.sae)
    BY DEF FromDot11AuthenticationData
  <2>2. CASE data.sae = <<>>
    BY <2>1, <2>2 DEF Each
  <2>3. CASE data.sae = <<data.sae[1]>>
    <3> DEFINE passwords == data.sae[1]
    <3>1. passwords \in ToSet(data.sae) /\ 1 \in DOMAIN data.sae
      BY <2>3, Optionals
    <3>2. IsList(passwords)
      BY <3>1
    <3>3. from.Sae[1] = FromDot11AuthenticationDataSae(passwords)
      BY <2>1, <3>1 DEF Each
    <3>4. from.Sae[1].Passwords = [i \in DOMAIN passwords |-> FromDot11RsnaPassword(passwords[i])]
      BY <3>3 DEF FromDot11AuthenticationDataSae, Each
    <3> HIDE DEF passwords, from
    <3> QED  BY <3>2, <3>4, Mapped
  <2> QED  BY <2>2, <2>3 DEF IsOptional
<1>4. Harmless(b)
  <2> HIDE DEF from
  <2> QED  BY <1>3, HarmlessCommands, HarmlessSaePasswords
<1> HIDE DEF a, b
<1> QED  BY <1>1, <1>2, <1>4, HarmlessConcatenation

\* SetRadiusConfiguration: however many servers.
LEMMA HarmlessRadius ==
    ASSUME NEW radius, IsRadius(radius)
    PROVE  Harmless(SetRadiusConfiguration(FromServiceDot1xRadiusConfiguration(radius)))
<1> DEFINE from == FromServiceDot1xRadiusConfiguration(radius)
           Convert(server) ==
              Ieee8021xRadiusServerEndpointConfigurationToWpaRadiusEndpointConfiguration(server)
           servers == <<from.AuthenticationServer>> \o from.AccountingServer
                      \o from.FallbackServers
           added == Each(AddRadiusEndpoint, Each(Convert, servers))
           a == FlattenSeq(added)
           b == SetProperty("eap_server", 0, "Defer")
           c == SetProperty("own_ip_addr", "own", "Defer")
<1>1. SetRadiusConfiguration(from) = a \o b \o c \o Reload
  BY DEF SetRadiusConfiguration
<1>2. IsList(from.AccountingServer) /\ IsList(from.FallbackServers)
  <2> DEFINE acct == radius.accountingServer
             fall == radius.fallbackServers
             From(server) == FromServiceDot1xRadiusServerEndpointConfiguration(server)
  <2>1. /\ from.AccountingServer = [i \in DOMAIN acct |-> From(acct[i])]
        /\ from.FallbackServers = [i \in DOMAIN fall |-> From(fall[i])]
    BY DEF FromServiceDot1xRadiusConfiguration, Each
  <2>2. IsList(acct) /\ IsList(fall)
    BY DEF IsRadius
  <2> HIDE DEF acct, fall, from, From
  <2>3. \A s : IsList(s) => IsList([i \in DOMAIN s |-> From(s[i])])
    BY Mapped
  <2> QED  BY <2>1, <2>2, <2>3
<1>3. IsList(servers)
  <2> HIDE DEF from
  <2> QED  BY <1>2, Singles, Concatenation
<1>4. IsList(added) /\ \A i \in DOMAIN added : Harmless(added[i])
  <2> HIDE DEF servers
  <2>1. IsList(Each(Convert, servers))
    BY <1>3, Mapped DEF Each
  <2> HIDE DEF Convert
  <2>2. IsList(added)
    BY <2>1, Mapped DEF Each
  <2>3. \A i \in DOMAIN added : added[i] = AddRadiusEndpoint(Each(Convert, servers)[i])
    BY DEF Each
  <2> HIDE DEF added
  <2> QED  BY <2>2, <2>3, HarmlessSetters
<1>5. Harmless(a)
  <2> HIDE DEF added
  <2> QED  BY <1>4, HarmlessFlatten
<1>6. Harmless(b) /\ Harmless(c)
  BY HarmlessCommands
<1> HIDE DEF a, b, c, from
<1>7. Harmless(SetRadiusConfiguration(from))
  BY <1>1, <1>5, <1>6, HarmlessCommands, HarmlessConcatenation
<1> QED  BY <1>7 DEF from

\* TryGetAccessPoint and TryGetAccessPointController refuse otherwise.
LEMMA HarmlessTries ==
    \A accessPoint : /\ Harmless(TryGetAccessPoint(accessPoint))
                     /\ Harmless(TryGetAccessPointController(accessPoint))
<1>1. ASSUME NEW accessPoint
      PROVE  /\ Harmless(TryGetAccessPoint(accessPoint))
             /\ Harmless(TryGetAccessPointController(accessPoint))
  <2>1. Harmless(TryGetAccessPoint(accessPoint))
    BY HarmlessCommands DEF TryGetAccessPoint
  <2>2. Harmless(RefuseIf(~accessPoint.controller, "InternalError"))
    BY HarmlessCommands
  <2> QED  BY <2>1, <2>2, HarmlessConcatenation DEF TryGetAccessPointController
<1> QED  BY <1>1

\* The service's methods without a check of a capability.
LEMMA HarmlessImpls ==
    ASSUME NEW accessPoint
    PROVE  /\ \A bridge : Harmless(WifiAccessPointSetNetworkBridgeImpl(accessPoint, bridge))
           /\ \A algorithms :
                 Harmless(WifiAccessPointSetAuthenticationAlgorithmsImpl(accessPoint, algorithms))
           /\ \A akms : Harmless(WifiAccessPointSetAkmSuitesImpl(accessPoint, akms))
           /\ \A ssid : Harmless(WifiAccessPointSetSsidImpl(accessPoint, ssid))
<1> DEFINE try == TryGetAccessPointController(accessPoint)
<1>1. Harmless(try)
  BY HarmlessTries
<1>2. ASSUME NEW bridge PROVE Harmless(WifiAccessPointSetNetworkBridgeImpl(accessPoint, bridge))
  BY <1>1, HarmlessSetters, HarmlessConcatenation DEF WifiAccessPointSetNetworkBridgeImpl
<1>3. ASSUME NEW list
      PROVE  Harmless(WifiAccessPointSetAuthenticationAlgorithmsImpl(accessPoint, list))
  <2> DEFINE algorithms == Each(FromDot11AuthenticationAlgorithm, list)
             a == RefuseIf(\/ list = <<>>
                           \/ "Dot11AuthenticationAlgorithmUnknown" \in ToSet(list),
                           "InvalidParameter")
             b == RefuseIf("Unknown" \in ToSet(algorithms), "InvalidParameter")
             c == SetAuthenticationAlgorithms(algorithms)
  <2>1. WifiAccessPointSetAuthenticationAlgorithmsImpl(accessPoint, list) = a \o try \o b \o c
    BY DEF WifiAccessPointSetAuthenticationAlgorithmsImpl
  <2>2. Harmless(a) /\ Harmless(b) /\ Harmless(c)
    BY HarmlessCommands, HarmlessSetters
  <2> HIDE DEF a, b, c, try
  <2> QED  BY <1>1, <2>1, <2>2, HarmlessConcatenation
<1>4. ASSUME NEW list PROVE Harmless(WifiAccessPointSetAkmSuitesImpl(accessPoint, list))
  <2> DEFINE akms == Each(FromDot11AkmSuite, list)
             a == RefuseIf(list = <<>> \/ "Dot11AkmSuiteUnknown" \in ToSet(list),
                           "InvalidParameter")
             b == RefuseIf("Unknown" \in ToSet(akms), "InvalidParameter")
             c == SetAkmSuites(akms)
  <2>1. WifiAccessPointSetAkmSuitesImpl(accessPoint, list) = a \o try \o b \o c
    BY DEF WifiAccessPointSetAkmSuitesImpl
  <2>2. Harmless(a) /\ Harmless(b) /\ Harmless(c)
    BY HarmlessCommands, HarmlessSetters
  <2> HIDE DEF a, b, c, try
  <2> QED  BY <1>1, <2>1, <2>2, HarmlessConcatenation
<1>5. ASSUME NEW ssid PROVE Harmless(WifiAccessPointSetSsidImpl(accessPoint, ssid))
  <2> DEFINE a == RefuseIf(ssid.case = "unset", "InvalidParameter")
             b == SetSsid(ssid.text)
  <2>1. WifiAccessPointSetSsidImpl(accessPoint, ssid) = a \o try \o b
    BY DEF WifiAccessPointSetSsidImpl
  <2>2. Harmless(a) /\ Harmless(b)
    BY HarmlessCommands, HarmlessSetters
  <2> HIDE DEF a, b, try
  <2> QED  BY <1>1, <2>1, <2>2, HarmlessConcatenation
<1> QED  BY <1>2, <1>3, <1>4, <1>5

\* WifiAccessPointSetAuthenticationDataImpl.
LEMMA HarmlessDataImpl ==
    ASSUME NEW accessPoint, NEW data, IsOptional(data.psk), IsOptional(data.sae),
           \A passwords \in ToSet(data.sae) : IsList(passwords)
    PROVE  Harmless(WifiAccessPointSetAuthenticationDataImpl(accessPoint, data))
<1> DEFINE Valid(psk) == psk.encoding \in DOMAIN PskSizes /\ psk.size \in PskSizes[psk.encoding]
           a == RefuseIf(\/ data.psk = <<>> /\ data.sae = <<>>
                         \/ \E keys \in ToSet(data.psk) :
                                keys = <<>> \/ \E psk \in ToSet(keys) : ~Valid(psk)
                         \/ <<>> \in ToSet(data.sae),
                         "InvalidParameter")
           try == TryGetAccessPointController(accessPoint)
           b == SetAuthenticationData(FromDot11AuthenticationData(data))
<1>1. WifiAccessPointSetAuthenticationDataImpl(accessPoint, data) = a \o try \o b
  BY DEF WifiAccessPointSetAuthenticationDataImpl
<1>2. Harmless(a) /\ Harmless(try) /\ Harmless(b)
  BY HarmlessCommands, HarmlessTries, HarmlessData
<1> HIDE DEF a, b, try
<1> QED  BY <1>1, <1>2, HarmlessConcatenation

\* WifiAccessPointSetAuthenticationDot1xImpl.
LEMMA HarmlessDot1xImpl ==
    ASSUME NEW accessPoint, NEW dot1x, IsDot1x(dot1x)
    PROVE  Harmless(WifiAccessPointSetAuthenticationDot1xImpl(accessPoint, dot1x))
<1> DEFINE Servers(radius) == ToSet(radius.authenticationServer \o radius.accountingServer
                                    \o radius.fallbackServers)
           Check(radius) == RefuseIf(\/ radius.authenticationServer = <<>>
                                     \/ \E server \in Servers(radius) :
                                          ~IsDot1xRadiusServerEndpointConfigurationValid(server),
                                     "InvalidParameter")
           Commands(radius) == Check(radius)
                   \o SetRadiusConfiguration(FromServiceDot1xRadiusConfiguration(radius))
           all == [i \in DOMAIN dot1x.radius |-> Commands(dot1x.radius[i])]
           a == RefuseIf(dot1x.radius = <<>>, "InvalidParameter")
           try == TryGetAccessPointController(accessPoint)
<1>1. WifiAccessPointSetAuthenticationDot1xImpl(accessPoint, dot1x) = a \o try \o FlattenSeq(all)
  BY DEF WifiAccessPointSetAuthenticationDot1xImpl
<1>2. Harmless(a) /\ Harmless(try)
  BY HarmlessCommands, HarmlessTries
<1>3. IsList(all)
  <2>1. IsList(dot1x.radius)
    BY Optionals DEF IsDot1x
  <2> HIDE DEF Commands
  <2> QED  BY <2>1, Mapped
<1>4. ASSUME NEW i \in DOMAIN all PROVE Harmless(all[i])
  <2>1. dot1x.radius[i] \in ToSet(dot1x.radius)
    BY DEF ToSet
  <2>2. IsRadius(dot1x.radius[i])
    BY <2>1 DEF IsDot1x
  <2>3. Harmless(Check(dot1x.radius[i]))
    BY HarmlessCommands
  <2>4. all[i] = Commands(dot1x.radius[i])
    <3> HIDE DEF Commands
    <3> QED  OBVIOUS
  <2> HIDE DEF Check, all
  <2> QED  BY <2>2, <2>3, <2>4, HarmlessRadius, HarmlessConcatenation
<1>5. Harmless(FlattenSeq(all))
  <2> HIDE DEF all
  <2> QED  BY <1>3, <1>4, HarmlessFlatten
<1> HIDE DEF a, all, try
<1> QED  BY <1>1, <1>2, <1>5, HarmlessConcatenation

\* The orders of hostapd's protocols are sequences: they are a few.
LEMMA HarmlessCiphers ==
    ASSUME NEW ciphers, NEW s \in SetPairwiseCipherSuites(ciphers)
    PROVE  Harmless(s)
<1>1a. PICK suites \in Ieee80211CipherSuitesToWpaCipherSuites(ciphers) :
          \E order \in SetToSeqs(DOMAIN suites) :
              s = FlattenSeq([i \in DOMAIN order |->
                     SetProtocolCipherSuites(order[i], suites[order[i]])]) \o Read
  BY DEF SetPairwiseCipherSuites
<1>1. PICK order \in SetToSeqs(DOMAIN suites) :
          s = FlattenSeq([i \in DOMAIN order |->
                 SetProtocolCipherSuites(order[i], suites[order[i]])]) \o Read
  BY <1>1a
<1>2. DOMAIN suites \subseteq {0, 2^0, 2^1}
  <2> DEFINE one == 2^0
             two == 2^1
             Wpa(protocol) == Ieee80211SecurityProtocolToWpaSecurityProtocol(protocol)
  <2>1. \A protocol : Wpa(protocol) \in {0, one, two}
    <3>1. WpaSecurityProtocol = [Unknown |-> 0, Wpa |-> one, Wpa2 |-> two, Wpa3 |-> two]
      BY DEF WpaSecurityProtocol
    <3> HIDE DEF one, two
    <3> QED  BY <3>1 DEF Ieee80211SecurityProtocolToWpaSecurityProtocol, Switch
  <2>2. \A wpa \in DOMAIN suites : \E protocol : wpa = Wpa(protocol)
    <3> HIDE DEF Wpa
    <3> QED  BY ZenonT(40) DEF Ieee80211CipherSuitesToWpaCipherSuites, Wpa
  <2> QED  BY <2>1, <2>2
<1>3. Cardinality(DOMAIN suites) \in Nat
  <2>1. IsFiniteSet({0, 2^0, 2^1})
    <3> DEFINE one == 2^0
               two == 2^1
    <3> HIDE DEF one, two
    <3>1. IsFiniteSet({} \cup {0}) /\ IsFiniteSet(({} \cup {0}) \cup {one})
          /\ IsFiniteSet((({} \cup {0}) \cup {one}) \cup {two})
      BY FS_EmptySet, FS_AddElement
    <3>2. (({} \cup {0}) \cup {one}) \cup {two} = {0, one, two}
      OBVIOUS
    <3> QED  BY <3>1, <3>2 DEF one, two
  <2> QED  BY <1>2, <2>1, FS_Subset, FS_CardinalityType
<1>4. IsList(order)
  <2>1. order = [i \in 1 .. Cardinality(DOMAIN suites) |-> order[i]]
    BY DEF SetToSeqs
  <2> QED  BY <1>3, <2>1, Lists
<1> DEFINE all == [i \in DOMAIN order |-> SetProtocolCipherSuites(order[i], suites[order[i]])]
<1>5. IsList(all) /\ \A i \in DOMAIN all : Harmless(all[i])
  BY <1>4, Mapped, HarmlessSetters
<1>6. Harmless(FlattenSeq(all))
  <2> HIDE DEF all
  <2> QED  BY <1>5, HarmlessFlatten
<1> HIDE DEF all
<1>7. s = FlattenSeq(all) \o Read
  BY <1>1 DEF all
<1> QED  BY <1>6, <1>7, HarmlessCommands, HarmlessConcatenation

\* WifiAccessPointSetPairwiseCipherSuitesImpl, whichever of its sequences.
LEMMA HarmlessCiphersImpl ==
    ASSUME NEW accessPoint, NEW map,
           NEW s \in WifiAccessPointSetPairwiseCipherSuitesImpl(accessPoint, map)
    PROVE  Harmless(s)
<1> DEFINE ciphers == FromDot11CipherSuiteConfigurations(map)
           a == RefuseIf(\/ DOMAIN map = {}
                         \/ "Dot11SecurityProtocolUnknown" \in DOMAIN map,
                         "InvalidParameter")
           try == TryGetAccessPointController(accessPoint)
           b == RefuseIf("Unknown" \in DOMAIN ciphers, "InvalidParameter")
<1>1. PICK commands \in SetPairwiseCipherSuites(ciphers) : s = a \o try \o b \o commands
  BY DEF WifiAccessPointSetPairwiseCipherSuitesImpl
<1>2. Harmless(a) /\ Harmless(try) /\ Harmless(b) /\ Harmless(commands)
  BY HarmlessCommands, HarmlessTries, HarmlessCiphers
<1> HIDE DEF a, b, try
<1> QED  BY <1>1, <1>2, HarmlessConcatenation

\* What an access point reports, if it can be asked.
Reports(accessPoint, reported) ==
    accessPoint.capabilities
      \in {[status |-> "Succeeded", capabilities |-> <<reported>>],
           [status |-> "AccessPointInvalid", capabilities |-> <<>>]}

\* A sequence of commands that is refused as not supported exactly if something is.
Decides(s, supported) ==
    /\ IsList(s)
    /\ Passes(s) => supported
    /\ "OperationNotSupported" \in Refusals(s) => ~supported

\* A PHY type that is asked for is one of those reported.
PhySupported(phyType, reported) ==
    phyType # "Dot11PhyTypeUnknown" => FromDot11PhyType(phyType) \in reported.PhyTypes

\* The frequency bands that are asked for are among those reported.
BandsSupported(bands, reported) ==
    \A b \in ToSet(bands) : b # "Dot11FrequencyBandUnknown"
                            => FromDot11FrequencyBand(b) \in reported.FrequencyBands

\* What decides on two things decides on both.
LEMMA DecidesConcatenation ==
    ASSUME NEW s, NEW t, NEW p \in BOOLEAN, NEW q \in BOOLEAN, Decides(s, p), Decides(t, q)
    PROVE  Decides(s \o t, p /\ q)
BY Concatenation, RefusalsConcatenation DEF Decides

\* Harmless commands decide nothing.
LEMMA DecidesHarmless ==
    ASSUME NEW s, Harmless(s)
    PROVE  Decides(s, TRUE)
BY HarmlessRefusals DEF Decides

\* RefuseIf refuses exactly on its condition, with its status.
LEMMA Refused ==
    ASSUME NEW condition \in BOOLEAN, NEW status, status # "Succeeded"
    PROVE  /\ IsList(RefuseIf(condition, status))
           /\ Passes(RefuseIf(condition, status)) <=> ~condition
           /\ \A x \in Refusals(RefuseIf(condition, status)) : condition /\ x = status
<1>1. CASE condition
  <2>1. RefuseIf(condition, status) = <<[do |-> "refuse", status |-> status]>>
    BY <1>1 DEF RefuseIf, Refuse
  <2> DEFINE c == [do |-> "refuse", status |-> status]
  <2>2. IsList(<<c>>) /\ DOMAIN <<c>> = {1} /\ <<c>>[1] = c /\ Stops(c) /\ c.status = status
    BY Singles DEF Stops
  <2>3. RefuseIf(condition, status) = <<c>>
    BY <2>1
  <2> HIDE DEF c
  <2>4. ~Passes(<<c>>)
    BY <2>2 DEF Passes
  <2>5. \A x \in Refusals(<<c>>) : x = status
    BY <2>2 DEF Refusals
  <2> QED  BY <1>1, <2>2, <2>3, <2>4, <2>5
<1>2. CASE ~condition
  <2>1. RefuseIf(condition, status) = <<>>
    BY <1>2 DEF RefuseIf
  <2> QED  BY <1>2, <2>1, Singles DEF Passes, Refusals, Stops
<1> QED  BY <1>1, <1>2

\* The check against the capabilities decides; a radio that cannot be read ends the
\* request otherwise.
LEMMA CapableDecides ==
    ASSUME NEW accessPoint, NEW reported, Reports(accessPoint, reported), NEW capability,
           NEW values
    PROVE  Decides(Capable(accessPoint, capability, values), values \subseteq reported[capability])
<1> DEFINE all == accessPoint.capabilities
           first == RefuseIf(all.status # "Succeeded", all.status)
           incapable == \E r \in ToSet(all.capabilities) : ~values \subseteq r[capability]
           second == RefuseIf(incapable, "OperationNotSupported")
           ok == values \subseteq reported[capability]
<1>1. Capable(accessPoint, capability, values) = first \o second
  BY DEF Capable
<1>2. incapable \in BOOLEAN /\ ok \in BOOLEAN
  OBVIOUS
<1>3. CASE all = [status |-> "Succeeded", capabilities |-> <<reported>>]
  <2>1. first = <<>>
    BY <1>3 DEF RefuseIf
  <2>2. Decides(first, TRUE)
    <3> HIDE DEF first
    <3> QED  BY <2>1, HarmlessCommands, DecidesHarmless
  <2>3. ToSet(all.capabilities) = {reported}
    BY <1>3, Singles
  <2>4. incapable = ~ok
    BY <2>3
  <2> HIDE DEF incapable, ok, first
  <2>5. Decides(second, ok)
    BY <1>2, <2>4, Refused DEF Decides
  <2> HIDE DEF second
  <2>6. Decides(first \o second, TRUE /\ ok)
    BY <1>2, <2>2, <2>5, DecidesConcatenation
  <2> QED  BY <1>1, <2>6 DEF ok
<1>4. CASE all = [status |-> "AccessPointInvalid", capabilities |-> <<>>]
  <2>1. first = RefuseIf(TRUE, "AccessPointInvalid")
    BY <1>4 DEF RefuseIf
  <2>2. ToSet(all.capabilities) = {}
    BY <1>4, Singles
  <2>3. second = <<>>
    BY <2>2 DEF RefuseIf
  <2> HIDE DEF incapable, ok, first, second
  <2>4. Decides(first, ok)
    <3>1. TRUE \in BOOLEAN /\ "AccessPointInvalid" # "Succeeded"
      OBVIOUS
    <3> QED  BY <2>1, <3>1, Refused DEF Decides
  <2>5. Decides(second, TRUE)
    BY <2>3, HarmlessCommands, DecidesHarmless
  <2>6. Decides(first \o second, ok /\ TRUE)
    BY <1>2, <2>4, <2>5, DecidesConcatenation
  <2> QED  BY <1>1, <1>2, <2>6 DEF ok
<1> QED  BY <1>3, <1>4 DEF Reports

\* WifiAccessPointSetPhyTypeImpl decides on its PHY type.
LEMMA PhyTypeDecides ==
    ASSUME NEW accessPoint, NEW reported, Reports(accessPoint, reported), NEW phyType
    PROVE  Decides(WifiAccessPointSetPhyTypeImpl(accessPoint, phyType),
                   PhySupported(phyType, reported))
<1> DEFINE phy == FromDot11PhyType(phyType)
           a == RefuseIf(phyType = "Dot11PhyTypeUnknown", "InvalidParameter")
           try == TryGetAccessPointController(accessPoint)
           c == Capable(accessPoint, "PhyTypes", {phy})
           rest == try \o c \o SetPhyType(phy)
           supported == phy \in reported.PhyTypes
<1>1. WifiAccessPointSetPhyTypeImpl(accessPoint, phyType) = a \o try \o c \o SetPhyType(phy)
  BY DEF WifiAccessPointSetPhyTypeImpl
<1>2. /\ Decides(a, TRUE) /\ Decides(try, TRUE) /\ Decides(SetPhyType(phy), TRUE)
  BY HarmlessCommands, HarmlessTries, HarmlessSetters, DecidesHarmless
<1>3. Decides(c, supported)
  <2>1. Decides(c, {phy} \subseteq reported["PhyTypes"])
    BY CapableDecides
  <2>2. ({phy} \subseteq reported["PhyTypes"]) = supported
    OBVIOUS
  <2> QED  BY <2>1, <2>2
<1>4. Decides(a \o try \o c \o SetPhyType(phy), supported)
  <2>1. supported \in BOOLEAN
    OBVIOUS
  <2> HIDE DEF a, try, c, supported, phy
  <2>2. Decides(a \o try, TRUE)
    BY <1>2, DecidesConcatenation
  <2>3. Decides((a \o try) \o c, TRUE /\ supported)
    BY <1>3, <2>1, <2>2, DecidesConcatenation
  <2>4. Decides(((a \o try) \o c) \o SetPhyType(phy), (TRUE /\ supported) /\ TRUE)
    BY <1>2, <2>1, <2>3, DecidesConcatenation
  <2> QED  BY <2>1, <2>4
<1>5. ASSUME phyType = "Dot11PhyTypeUnknown"
      PROVE  "OperationNotSupported" \notin Refusals(a \o try \o c \o SetPhyType(phy))
  <2>1. IsList(a) /\ ~Passes(a) /\ "OperationNotSupported" \notin Refusals(a)
    BY <1>5, Refused
  <2>2. IsList(try) /\ IsList(c) /\ IsList(SetPhyType(phy))
    BY <1>2, <1>3 DEF Decides
  <2> HIDE DEF a, try, c, phy
  <2>3. IsList(a \o try) /\ IsList((a \o try) \o c)
    BY <2>1, <2>2, Concatenation
  <2>4. ~Passes(a \o try) /\ Refusals(a \o try) \subseteq Refusals(a)
    BY <2>1, <2>2, RefusalsConcatenation
  <2>5. ~Passes((a \o try) \o c) /\ Refusals((a \o try) \o c) \subseteq Refusals(a)
    BY <2>2, <2>3, <2>4, RefusalsConcatenation
  <2>6. Refusals(((a \o try) \o c) \o SetPhyType(phy)) \subseteq Refusals(a)
    BY <2>2, <2>3, <2>5, RefusalsConcatenation
  <2> QED  BY <2>1, <2>6
<1> HIDE DEF a, try, c
<1> QED  BY <1>1, <1>4, <1>5 DEF Decides, PhySupported

\* WifiAccessPointSetFrequencyBandsImpl decides on its bands.
LEMMA BandsDecide ==
    ASSUME NEW accessPoint, NEW reported, Reports(accessPoint, reported), NEW list
    PROVE  Decides(WifiAccessPointSetFrequencyBandsImpl(accessPoint, list),
                   BandsSupported(list, reported))
<1> DEFINE bands == FromDot11SetFrequencyBandsRequest(list)
           unknown == bands = <<>> \/ "Dot11FrequencyBandUnknown" \in ToSet(list)
           a == RefuseIf(unknown, "InvalidParameter")
           try == TryGetAccessPointController(accessPoint)
           c == Capable(accessPoint, "FrequencyBands", ToSet(bands))
           supported == ToSet(bands) \subseteq reported.FrequencyBands
<1>1. WifiAccessPointSetFrequencyBandsImpl(accessPoint, list)
        = a \o try \o c \o SetFrequencyBands(bands)
  BY DEF WifiAccessPointSetFrequencyBandsImpl
<1>2. Decides(a, TRUE) /\ Decides(try, TRUE) /\ Decides(SetFrequencyBands(bands), TRUE)
  BY HarmlessCommands, HarmlessTries, HarmlessSetters, DecidesHarmless
<1>3. Decides(c, supported)
  <2>1. Decides(c, ToSet(bands) \subseteq reported["FrequencyBands"])
    BY CapableDecides
  <2> QED  BY <2>1
<1>4. Decides(a \o try \o c \o SetFrequencyBands(bands), supported)
  <2>1. supported \in BOOLEAN
    OBVIOUS
  <2> HIDE DEF a, try, c, supported, bands
  <2>2. Decides(a \o try, TRUE)
    BY <1>2, DecidesConcatenation
  <2>3. Decides((a \o try) \o c, TRUE /\ supported)
    BY <1>3, <2>1, <2>2, DecidesConcatenation
  <2>4. Decides(((a \o try) \o c) \o SetFrequencyBands(bands), (TRUE /\ supported) /\ TRUE)
    BY <1>2, <2>1, <2>3, DecidesConcatenation
  <2> QED  BY <2>1, <2>4
<1>5. ASSUME unknown
      PROVE  "OperationNotSupported" \notin Refusals(a \o try \o c \o SetFrequencyBands(bands))
  <2>1. IsList(a) /\ ~Passes(a) /\ "OperationNotSupported" \notin Refusals(a)
    <3> HIDE DEF unknown
    <3>1. unknown \in BOOLEAN
      BY DEF unknown
    <3> QED  BY <1>5, <3>1, Refused
  <2>2. IsList(try) /\ IsList(c) /\ IsList(SetFrequencyBands(bands))
    BY <1>2, <1>3 DEF Decides
  <2> HIDE DEF a, try, c, bands
  <2>3. IsList(a \o try) /\ IsList((a \o try) \o c)
    BY <2>1, <2>2, Concatenation
  <2>4. ~Passes(a \o try) /\ Refusals(a \o try) \subseteq Refusals(a)
    BY <2>1, <2>2, RefusalsConcatenation
  <2>5. ~Passes((a \o try) \o c) /\ Refusals((a \o try) \o c) \subseteq Refusals(a)
    BY <2>2, <2>3, <2>4, RefusalsConcatenation
  <2>6. Refusals(((a \o try) \o c) \o SetFrequencyBands(bands)) \subseteq Refusals(a)
    BY <2>2, <2>3, <2>5, RefusalsConcatenation
  <2> QED  BY <2>1, <2>6
<1>6. ToSet(bands) = {FromDot11FrequencyBand(b) : b \in ToSet(list)}
  BY DEF FromDot11SetFrequencyBandsRequest, Each, ToSet
<1>7. supported => BandsSupported(list, reported)
  BY <1>6 DEF BandsSupported
<1>8. ~unknown /\ ~supported => ~BandsSupported(list, reported)
  BY <1>6 DEF BandsSupported
<1> HIDE DEF a, try, c, bands, unknown, supported
<1> QED  BY <1>1, <1>4, <1>5, <1>7, <1>8 DEF Decides

\* All that a request asks for is reported.
Supported(request, reported) ==
    /\ "phyType" \in DOMAIN request => PhySupported(request.phyType, reported)
    /\ "bands" \in DOMAIN request => BandsSupported(request.bands, reported)

\* Many parts decide on all their things.
LEMMA DecidesFlatten ==
    ASSUME NEW ss, IsList(ss), NEW ok,
           \A i \in DOMAIN ss : ok[i] \in BOOLEAN /\ Decides(ss[i], ok[i])
    PROVE  Decides(FlattenSeq(ss), \A i \in DOMAIN ss : ok[i])
<1>1. \A i \in DOMAIN ss : IsList(ss[i])
  BY DEF Decides
<1>2. /\ IsList(FlattenSeq(ss))
      /\ Refusals(FlattenSeq(ss)) \subseteq UNION {Refusals(ss[i]) : i \in DOMAIN ss}
      /\ Passes(FlattenSeq(ss)) <=> \A i \in DOMAIN ss : Passes(ss[i])
  BY <1>1, Flatten, RefusalsFlatten
<1> QED  BY <1>2 DEF Decides

\* WifiAccessPointEnableImpl: of its parts the PHY type and the bands decide.
LEMMA EnableDecides ==
    ASSUME NEW accessPoint, NEW reported, Reports(accessPoint, reported), NEW request,
           IsRequest(request), request.api = "WifiAccessPointEnable",
           NEW commands \in WifiAccessPointEnableImpl(accessPoint, request)
    PROVE  Decides(commands, PhySupported(request.phyType, reported)
                             /\ BandsSupported(request.bands, reported))
<1> DEFINE choices == IF request.ciphers = <<>> THEN {<<>>}
                      ELSE WifiAccessPointSetPairwiseCipherSuitesImpl(
                               accessPoint, ToDot11CipherSuiteMap(request.ciphers))
           phyOk == PhySupported(request.phyType, reported)
           bandsOk == BandsSupported(request.bands, reported)
           try == TryGetAccessPointController(accessPoint)
           on == SetOperationalState("Enabled")
<1>1. PICK ciphers \in choices :
          commands = try \o FlattenSeq([i \in DOMAIN PartOrder |->
                        ConfigurationParts(accessPoint, request, ciphers)[PartOrder[i]]])
                     \o GetOperationalState \o on
  BY DEF WifiAccessPointEnableImpl
<1> DEFINE parts == ConfigurationParts(accessPoint, request, ciphers)
           Dot1x(dot1x) == WifiAccessPointSetAuthenticationDot1xImpl(accessPoint, dot1x)
           Ssid(ssid) == WifiAccessPointSetSsidImpl(accessPoint, ssid)
           dot1xs == Each(Dot1x, request.dot1x)
           ssids == Each(Ssid, request.ssid)
<1>2. /\ \A field \in {"phyType", "bands", "ssid", "data", "dot1x"} : IsField(request, field)
  BY DEF IsRequest, RequestFields
<1>3. Harmless(ciphers)
  BY HarmlessCommands, HarmlessCiphersImpl
<1>4. Decides(parts.phyType, phyOk)
  <2>1. parts.phyType = IF request.phyType # "Dot11PhyTypeUnknown"
                          THEN WifiAccessPointSetPhyTypeImpl(accessPoint, request.phyType)
                          ELSE <<>>
    BY DEF ConfigurationParts
  <2>2. request.phyType = "Dot11PhyTypeUnknown" => phyOk
    BY DEF PhySupported
  <2>3. Harmless(<<>>)
    BY HarmlessCommands
  <2> HIDE DEF parts, phyOk
  <2>4. CASE request.phyType = "Dot11PhyTypeUnknown"
    <3>1. parts.phyType = <<>> /\ Decides(<<>>, TRUE) /\ phyOk
      BY <2>1, <2>2, <2>3, <2>4, DecidesHarmless
    <3> QED  BY <3>1 DEF Decides
  <2>5. CASE request.phyType # "Dot11PhyTypeUnknown"
    BY <2>1, <2>5, PhyTypeDecides DEF phyOk
  <2> QED  BY <2>4, <2>5
<1>5. Decides(parts.bands, bandsOk)
  <2>1. parts.bands = IF request.bands # <<>>
                        THEN WifiAccessPointSetFrequencyBandsImpl(accessPoint, request.bands)
                        ELSE <<>>
    BY DEF ConfigurationParts
  <2>2. request.bands = <<>> => bandsOk
    BY Singles DEF BandsSupported
  <2>3. Harmless(<<>>)
    BY HarmlessCommands
  <2> HIDE DEF parts, bandsOk
  <2>4. CASE request.bands = <<>>
    <3>1. parts.bands = <<>> /\ Decides(<<>>, TRUE) /\ bandsOk
      BY <2>1, <2>2, <2>3, <2>4, DecidesHarmless
    <3> QED  BY <3>1 DEF Decides
  <2>5. CASE request.bands # <<>>
    BY <2>1, <2>5, BandsDecide DEF bandsOk
  <2> QED  BY <2>4, <2>5
<1>6. Harmless(parts.algorithms) /\ Harmless(parts.akmSuites) /\ Harmless(parts.ciphers)
  <2>1. /\ parts.algorithms = IF request.algorithms # <<>>
              THEN WifiAccessPointSetAuthenticationAlgorithmsImpl(accessPoint, request.algorithms)
              ELSE <<>>
        /\ parts.akmSuites = IF request.akmSuites # <<>>
              THEN WifiAccessPointSetAkmSuitesImpl(accessPoint, request.akmSuites) ELSE <<>>
        /\ parts.ciphers = ciphers
    BY DEF ConfigurationParts
  <2> HIDE DEF parts
  <2> QED  BY <1>3, <2>1, HarmlessCommands, HarmlessImpls
<1>7. Harmless(parts.data)
  <2>1. parts.data = IF request.data.psk # <<>> \/ request.data.sae # <<>>
                       THEN WifiAccessPointSetAuthenticationDataImpl(accessPoint, request.data)
                       ELSE <<>>
    BY DEF ConfigurationParts
  <2>2. /\ IsOptional(request.data.psk) /\ IsOptional(request.data.sae)
        /\ \A passwords \in ToSet(request.data.sae) : IsList(passwords)
    BY <1>2 DEF IsField
  <2> HIDE DEF parts
  <2> QED  BY <2>1, <2>2, HarmlessCommands, HarmlessDataImpl
<1>8. Harmless(parts.dot1x)
  <2>1. parts.dot1x = FlattenSeq(dot1xs)
    BY DEF ConfigurationParts
  <2>2. IsList(request.dot1x) /\ \A dot1x \in ToSet(request.dot1x) : IsDot1x(dot1x)
    BY <1>2, Optionals DEF IsField
  <2>3. \A i \in DOMAIN request.dot1x : IsDot1x(request.dot1x[i])
    BY <2>2 DEF ToSet
  <2>4. \A i \in DOMAIN request.dot1x : Harmless(Dot1x(request.dot1x[i]))
    BY <2>3, HarmlessDot1xImpl
  <2> HIDE DEF parts, Dot1x
  <2>5. IsList(dot1xs) /\ \A i \in DOMAIN dot1xs : Harmless(dot1xs[i])
    BY <2>2, <2>4, Mapped DEF Each
  <2> HIDE DEF dot1xs
  <2> QED  BY <2>1, <2>5, HarmlessFlatten
<1>9. Harmless(parts.ssid)
  <2>1. parts.ssid = FlattenSeq(ssids)
    BY DEF ConfigurationParts
  <2>2. IsList(request.ssid)
    BY <1>2, Optionals DEF IsField
  <2>3. \A ssid : Harmless(Ssid(ssid))
    BY HarmlessImpls
  <2> HIDE DEF parts, Ssid
  <2>4. IsList(ssids) /\ \A i \in DOMAIN ssids : Harmless(ssids[i])
    BY <2>2, <2>3, Mapped DEF Each
  <2> HIDE DEF ssids
  <2> QED  BY <2>1, <2>4, HarmlessFlatten
<1> DEFINE all == [i \in DOMAIN PartOrder |-> parts[PartOrder[i]]]
           ok == [i \in 1 .. 8 |-> CASE i = 1 -> phyOk [] i = 8 -> bandsOk [] OTHER -> TRUE]
<1>10. phyOk \in BOOLEAN /\ bandsOk \in BOOLEAN
  BY DEF PhySupported, BandsSupported
<1> HIDE DEF parts, phyOk, bandsOk, choices
<1>11. IsList(all) /\ DOMAIN all = 1 .. 8
  <2>1. all = [i \in 1 .. 8 |-> all[i]]
    BY DEF PartOrder
  <2> HIDE DEF all
  <2> QED  BY <2>1, Lists
<1>12. ASSUME NEW i \in 1 .. 8 PROVE ok[i] \in BOOLEAN /\ Decides(all[i], ok[i])
  <2>1. /\ Decides(parts.dot1x, TRUE) /\ Decides(parts.algorithms, TRUE)
        /\ Decides(parts.data, TRUE) /\ Decides(parts.akmSuites, TRUE)
        /\ Decides(parts.ciphers, TRUE) /\ Decides(parts.ssid, TRUE)
    BY <1>6, <1>7, <1>8, <1>9, DecidesHarmless
  <2>2. /\ all[1] = parts.phyType /\ all[2] = parts.dot1x /\ all[3] = parts.algorithms
        /\ all[4] = parts.data /\ all[5] = parts.akmSuites /\ all[6] = parts.ciphers
        /\ all[7] = parts.ssid /\ all[8] = parts.bands
    BY DEF PartOrder
  <2>3. i \in {1, 2, 3, 4, 5, 6, 7, 8}
    OBVIOUS
  <2> HIDE DEF all
  <2> QED  BY <1>4, <1>5, <1>10, <2>1, <2>2, <2>3
<1>13. Decides(FlattenSeq(all), phyOk /\ bandsOk)
  <2>1. Decides(FlattenSeq(all), \A i \in DOMAIN all : ok[i])
    <3> HIDE DEF all, ok
    <3> QED  BY <1>11, <1>12, DecidesFlatten
  <2>2. (\A i \in DOMAIN all : ok[i]) = (phyOk /\ bandsOk)
    <3> HIDE DEF all
    <3>1. 1 \in 1 .. 8 /\ 8 \in 1 .. 8 /\ ok[1] = phyOk /\ ok[8] = bandsOk
      OBVIOUS
    <3>2. \A i \in 1 .. 8 : phyOk /\ bandsOk => ok[i]
      OBVIOUS
    <3> HIDE DEF ok
    <3> QED  BY <1>10, <1>11, <3>1, <3>2
  <2> QED  BY <2>1, <2>2
<1> HIDE DEF all, try, on
<1>14. Decides(try, TRUE) /\ Decides(GetOperationalState, TRUE) /\ Decides(on, TRUE)
  BY HarmlessTries, HarmlessCommands, DecidesHarmless DEF try, on
<1>15. commands = try \o FlattenSeq(all) \o GetOperationalState \o on
  BY <1>1 DEF all, parts
<1>16. Decides(try \o FlattenSeq(all), TRUE /\ (phyOk /\ bandsOk))
  BY <1>10, <1>13, <1>14, DecidesConcatenation
<1>17. Decides(try \o FlattenSeq(all) \o GetOperationalState, (TRUE /\ (phyOk /\ bandsOk)) /\ TRUE)
  BY <1>10, <1>14, <1>16, DecidesConcatenation
<1>18. Decides(commands, ((TRUE /\ (phyOk /\ bandsOk)) /\ TRUE) /\ TRUE)
  BY <1>10, <1>14, <1>15, <1>17, DecidesConcatenation
<1> QED  BY <1>18 DEF phyOk, bandsOk

\* Any change.
LEMMA ChangesDecide ==
    ASSUME NEW accessPoint, NEW reported, Reports(accessPoint, reported), NEW request,
           IsRequest(request),
           request.api \notin {"WifiAccessPointsEnumerate", "NetworkInterfacesEnumerate"},
           NEW commands \in Changes(accessPoint, request)
    PROVE  Decides(commands, Supported(request, reported))
<1>1. request.api \in {"WifiAccessPointEnable", "WifiAccessPointDisable",
                       "WifiAccessPointSetPhyType", "WifiAccessPointSetFrequencyBands",
                       "WifiAccessPointSetSsid", "WifiAccessPointSetNetworkBridge",
                       "WifiAccessPointSetAuthenticationDot1x", "WifiAccessPointGetAttributes"}
  BY DEF IsRequest, RequestFields
<1>2. DOMAIN request = {"api"} \cup RequestFields[request.api]
  BY DEF IsRequest
<1>3. CASE request.api = "WifiAccessPointEnable"
  <2>1. commands \in WifiAccessPointEnableImpl(accessPoint, request)
    BY <1>3 DEF Changes
  <2>2. "phyType" \in DOMAIN request /\ "bands" \in DOMAIN request
    BY <1>2, <1>3 DEF RequestFields
  <2> QED  BY <1>3, <2>1, <2>2, EnableDecides DEF Supported
<1>4. CASE request.api = "WifiAccessPointSetPhyType"
  <2>1. commands = WifiAccessPointSetPhyTypeImpl(accessPoint, request.phyType)
    BY <1>4 DEF Changes
  <2>2. "phyType" \in DOMAIN request /\ "bands" \notin DOMAIN request
    BY <1>2, <1>4 DEF RequestFields
  <2>3. Supported(request, reported) <=> PhySupported(request.phyType, reported)
    BY <2>2 DEF Supported
  <2>4. Decides(commands, PhySupported(request.phyType, reported))
    BY <2>1, PhyTypeDecides
  <2> QED  BY <2>3, <2>4 DEF Decides
<1>5. CASE request.api = "WifiAccessPointSetFrequencyBands"
  <2>1. commands = WifiAccessPointSetFrequencyBandsImpl(accessPoint, request.bands)
    BY <1>5 DEF Changes
  <2>2. "phyType" \notin DOMAIN request /\ "bands" \in DOMAIN request
    BY <1>2, <1>5 DEF RequestFields
  <2>3. Supported(request, reported) <=> BandsSupported(request.bands, reported)
    BY <2>2 DEF Supported
  <2>4. Decides(commands, BandsSupported(request.bands, reported))
    BY <2>1, BandsDecide
  <2> QED  BY <2>3, <2>4 DEF Decides
<1>6. CASE request.api \in {"WifiAccessPointDisable", "WifiAccessPointSetSsid",
                            "WifiAccessPointSetNetworkBridge", "WifiAccessPointGetAttributes",
                            "WifiAccessPointSetAuthenticationDot1x"}
  <2>1. Supported(request, reported)
    BY <1>2, <1>6 DEF RequestFields, Supported
  <2>2. Harmless(commands)
    <3>1. CASE request.api = "WifiAccessPointDisable"
      <4>1. commands = TryGetAccessPointController(accessPoint) \o GetOperationalState
                       \o SetOperationalState("Disabled")
        BY <3>1 DEF Changes, WifiAccessPointDisableImpl
      <4> QED  BY <4>1, HarmlessTries, HarmlessCommands, HarmlessConcatenation
    <3>2. CASE request.api = "WifiAccessPointSetSsid"
      <4>1. commands = IF request.ssid = <<>> THEN Refuse("InvalidParameter")
                       ELSE WifiAccessPointSetSsidImpl(accessPoint, request.ssid[1])
        BY <3>2 DEF Changes
      <4>2. Harmless(Refuse("InvalidParameter"))
        BY HarmlessOne DEF Refuse, Unsupported
      <4> QED  BY <4>1, <4>2, HarmlessImpls
    <3>3. CASE request.api = "WifiAccessPointSetNetworkBridge"
      BY <3>3, HarmlessImpls DEF Changes
    <3>4. CASE request.api = "WifiAccessPointGetAttributes"
      BY <3>4, HarmlessTries DEF Changes, WifiAccessPointGetAttributesImpl
    <3>5. CASE request.api = "WifiAccessPointSetAuthenticationDot1x"
      <4>1. commands = WifiAccessPointSetAuthenticationDot1xImpl(accessPoint, request.dot1x)
        BY <3>5 DEF Changes
      <4>2. IsField(request, "dot1x")
        BY <3>5 DEF IsRequest, RequestFields
      <4>3. IsDot1x(request.dot1x)
        BY <3>5, <4>2 DEF IsField
      <4> QED  BY <4>1, <4>3, HarmlessDot1xImpl
    <3> QED  BY <1>6, <3>1, <3>2, <3>3, <3>4, <3>5
  <2>3. Decides(commands, TRUE)
    BY <2>2, DecidesHarmless
  <2> QED  BY <2>1, <2>3 DEF Decides
<1> QED  BY <1>1, <1>3, <1>4, <1>5, <1>6

-----------------------------------------------------------------------------
(* The words for a PHY type and a band *)

\* The things a set of names is for.
ThingsOf(names, set) == {Meaning(names, n) : n \in {m \in set : Means(names, m)}}

\* No name is for two PHY types or bands.
LEMMA PhyNamed ==
    \A thing \in DOMAIN PhyNames : \A name \in PhyNames[thing] :
        Means(PhyNames, name) /\ Meaning(PhyNames, name) = thing
<1>1. ASSUME NEW name, NEW t \in DOMAIN PhyNames, NEW u \in DOMAIN PhyNames,
             name \in PhyNames[t], name \in PhyNames[u]
      PROVE  t = u
  BY <1>1 DEF PhyNames
<1> QED  BY <1>1 DEF Means, Meaning

\* Nor for two bands.
LEMMA BandNamed ==
    \A thing \in DOMAIN BandNames : \A name \in BandNames[thing] :
        Means(BandNames, name) /\ Meaning(BandNames, name) = thing
<1>1. ASSUME NEW name, NEW t \in DOMAIN BandNames, NEW u \in DOMAIN BandNames,
             name \in BandNames[t], name \in BandNames[u]
      PROVE  t = u
  BY <1>1 DEF BandNames
<1> QED  BY <1>1 DEF Means, Meaning

\* The service's enumerators, by what they stand for.
PhyThing ==
    [B |-> "b", G |-> "g", N |-> "n", A |-> "a", AC |-> "ac", AD |-> "ad", AX |-> "ax", BE |-> "be"]
\* And those of the bands.
BandThing == [TwoPointFourGHz |-> "2G", FiveGHz |-> "5G", SixGHz |-> "6G"]

\* The API's, the client's and the service's words for one PHY type.
LEMMA PhyWords ==
    /\ \A p \in Ieee80211PhyType :
          IF p = "Unknown" THEN ~Means(PhyNames, ToDot11PhyType(p))
                                /\ ToDot11PhyType(p) = "Dot11PhyTypeUnknown"
          ELSE /\ Means(PhyNames, ToDot11PhyType(p))
               /\ Meaning(PhyNames, ToDot11PhyType(p)) = PhyThing[p]
               /\ FromDot11PhyType(ToDot11PhyType(p)) = p
               /\ ToDot11PhyType(p) # "Dot11PhyTypeUnknown"
    /\ \A p, q \in Ieee80211PhyType \ {"Unknown"} : PhyThing[p] = PhyThing[q] => p = q
    /\ \A name \in DOMAIN Ieee80211PhyTypeNames :
          /\ Ieee80211PhyTypeNames[name] \in Ieee80211PhyType \ {"Unknown"}
          /\ Means(PhyNames, name)
          /\ Meaning(PhyNames, name) = PhyThing[Ieee80211PhyTypeNames[name]]
<1>1. \A p \in Ieee80211PhyType \ {"Unknown"} :
          /\ PhyThing[p] \in DOMAIN PhyNames /\ ToDot11PhyType(p) \in PhyNames[PhyThing[p]]
          /\ FromDot11PhyType(ToDot11PhyType(p)) = p /\ ToDot11PhyType(p) # "Dot11PhyTypeUnknown"
  BY DEF Ieee80211PhyType, PhyThing, PhyNames, ToDot11PhyType, FromDot11PhyType, Switch
<1>2. ToDot11PhyType("Unknown") = "Dot11PhyTypeUnknown"
  BY DEF ToDot11PhyType, Switch
<1>3. ~Means(PhyNames, "Dot11PhyTypeUnknown")
  BY DEF Means, PhyNames
<1>4. \A p, q \in Ieee80211PhyType \ {"Unknown"} : PhyThing[p] = PhyThing[q] => p = q
  BY DEF Ieee80211PhyType, PhyThing
<1>5. \A name \in DOMAIN Ieee80211PhyTypeNames :
          /\ Ieee80211PhyTypeNames[name] \in Ieee80211PhyType \ {"Unknown"}
          /\ PhyThing[Ieee80211PhyTypeNames[name]] \in DOMAIN PhyNames
          /\ name \in PhyNames[PhyThing[Ieee80211PhyTypeNames[name]]]
  BY DEF Ieee80211PhyTypeNames, Ieee80211PhyType, PhyThing, PhyNames
<1> QED  BY <1>1, <1>2, <1>3, <1>4, <1>5, PhyNamed

\* The API's, the client's, the shown and the service's words for one band.
LEMMA BandWords ==
    /\ \A b \in Ieee80211FrequencyBand :
          IF b = "Unknown"
          THEN /\ ~Means(BandNames, ToDot11FrequencyBand(b))
               /\ ~Means(BandNames, Dot11FrequencyBandToString(ToDot11FrequencyBand(b)))
               /\ ToDot11FrequencyBand(b) = "Dot11FrequencyBandUnknown"
          ELSE /\ Means(BandNames, ToDot11FrequencyBand(b))
               /\ Meaning(BandNames, ToDot11FrequencyBand(b)) = BandThing[b]
               /\ Means(BandNames, Dot11FrequencyBandToString(ToDot11FrequencyBand(b)))
               /\ Meaning(BandNames, Dot11FrequencyBandToString(ToDot11FrequencyBand(b)))
                    = BandThing[b]
               /\ FromDot11FrequencyBand(ToDot11FrequencyBand(b)) = b
               /\ ToDot11FrequencyBand(b) # "Dot11FrequencyBandUnknown"
    /\ \A b, c \in Ieee80211FrequencyBand \ {"Unknown"} : BandThing[b] = BandThing[c] => b = c
    /\ \A name \in DOMAIN Ieee80211FrequencyBandNames :
          /\ Ieee80211FrequencyBandNames[name] \in Ieee80211FrequencyBand \ {"Unknown"}
          /\ Means(BandNames, name)
          /\ Meaning(BandNames, name) = BandThing[Ieee80211FrequencyBandNames[name]]
<1>1. \A b \in Ieee80211FrequencyBand \ {"Unknown"} :
          /\ BandThing[b] \in DOMAIN BandNames
          /\ ToDot11FrequencyBand(b) \in BandNames[BandThing[b]]
          /\ Dot11FrequencyBandToString(ToDot11FrequencyBand(b)) \in BandNames[BandThing[b]]
          /\ FromDot11FrequencyBand(ToDot11FrequencyBand(b)) = b
          /\ ToDot11FrequencyBand(b) # "Dot11FrequencyBandUnknown"
  BY DEF Ieee80211FrequencyBand, BandThing, BandNames, ToDot11FrequencyBand,
         FromDot11FrequencyBand, Dot11FrequencyBandToString, Switch
<1>2. /\ ToDot11FrequencyBand("Unknown") = "Dot11FrequencyBandUnknown"
      /\ Dot11FrequencyBandToString("Dot11FrequencyBandUnknown") = "??"
  BY DEF ToDot11FrequencyBand, Dot11FrequencyBandToString, Switch
<1>3. ~Means(BandNames, "Dot11FrequencyBandUnknown") /\ ~Means(BandNames, "??")
  BY DEF Means, BandNames
<1>4. \A b, c \in Ieee80211FrequencyBand \ {"Unknown"} : BandThing[b] = BandThing[c] => b = c
  BY DEF Ieee80211FrequencyBand, BandThing
<1>5. \A name \in DOMAIN Ieee80211FrequencyBandNames :
          /\ Ieee80211FrequencyBandNames[name] \in Ieee80211FrequencyBand \ {"Unknown"}
          /\ BandThing[Ieee80211FrequencyBandNames[name]] \in DOMAIN BandNames
          /\ name \in BandNames[BandThing[Ieee80211FrequencyBandNames[name]]]
  BY DEF Ieee80211FrequencyBandNames, Ieee80211FrequencyBand, BandThing, BandNames
<1> QED  BY <1>1, <1>2, <1>3, <1>4, <1>5, BandNamed

\* A PHY type is shown exactly if it is supported.
LEMMA PhyAgrees ==
    ASSUME NEW phyType \in {ToDot11PhyType(p) : p \in Ieee80211PhyType},
           NEW reported, reported.PhyTypes \subseteq Ieee80211PhyType
    PROVE  ThingsOf(PhyNames, {phyType})
             \subseteq ThingsOf(PhyNames, {ToDot11PhyType(p) : p \in reported.PhyTypes})
           <=> PhySupported(phyType, reported)
<1> DEFINE P == reported.PhyTypes
           shown == {ToDot11PhyType(p) : p \in P}
<1>1. PICK p \in Ieee80211PhyType : phyType = ToDot11PhyType(p)
  OBVIOUS
<1>2. \A x : x \in ThingsOf(PhyNames, shown) <=>
                 \E q \in P : q # "Unknown" /\ x = PhyThing[q]
  BY PhyWords DEF ThingsOf
<1>3. CASE p = "Unknown"
  BY <1>1, <1>3, PhyWords DEF ThingsOf, PhySupported
<1>4. CASE p # "Unknown"
  <2>1. ThingsOf(PhyNames, {phyType}) = {PhyThing[p]}
    BY <1>1, <1>4, PhyWords DEF ThingsOf
  <2>2. PhySupported(phyType, reported) <=> p \in P
    BY <1>1, <1>4, PhyWords DEF PhySupported
  <2>3. PhyThing[p] \in ThingsOf(PhyNames, shown) <=> p \in P
    BY <1>2, <1>4, PhyWords
  <2> QED  BY <2>1, <2>2, <2>3
<1> QED  BY <1>3, <1>4

\* Bands are shown exactly if they are supported.
LEMMA BandsAgree ==
    ASSUME NEW bands,
           ToSet(bands) \subseteq {ToDot11FrequencyBand(b) : b \in Ieee80211FrequencyBand},
           NEW reported, reported.FrequencyBands \subseteq Ieee80211FrequencyBand
    PROVE  ThingsOf(BandNames, ToSet(bands))
             \subseteq ThingsOf(BandNames, {Dot11FrequencyBandToString(ToDot11FrequencyBand(b)) :
                                              b \in reported.FrequencyBands})
           <=> BandsSupported(bands, reported)
<1> DEFINE F == reported.FrequencyBands
           shown == {Dot11FrequencyBandToString(ToDot11FrequencyBand(b)) : b \in F}
           asked == {b \in Ieee80211FrequencyBand \ {"Unknown"} :
                        ToDot11FrequencyBand(b) \in ToSet(bands)}
<1>1. \A x : x \in ThingsOf(BandNames, shown) <=>
                 \E b \in F : b # "Unknown" /\ x = BandThing[b]
  BY BandWords DEF ThingsOf
<1>2. \A x : x \in ThingsOf(BandNames, ToSet(bands)) <=> \E b \in asked : x = BandThing[b]
  BY BandWords DEF ThingsOf
<1>3. BandsSupported(bands, reported) <=> asked \subseteq F
  BY BandWords DEF BandsSupported
<1> HIDE DEF shown
<1>4. ThingsOf(BandNames, ToSet(bands)) \subseteq ThingsOf(BandNames, shown) <=> asked \subseteq F
  BY <1>1, <1>2, BandWords
<1> QED  BY <1>3, <1>4 DEF shown

-----------------------------------------------------------------------------
(* What a command line asks for is what its request asks for *)

\* What a request asks for of the things that must be supported.
PhyAsked(request) ==
    ThingsOf(PhyNames, IF "phyType" \in DOMAIN request THEN {request.phyType} ELSE {})
\* And its bands.
BandsAsked(request) ==
    ThingsOf(BandNames, IF "bands" \in DOMAIN request THEN ToSet(request.bands) ELSE {})

\* The request a command line asks for is one of the API, for the same access point
\* and the same things.
Faithful(line, request) ==
    /\ IsRequest(request) /\ request.id = line.id[1]
    /\ PhyAsked(request) = ThingsOf(PhyNames, ToSet(HeardOfLine(line).phyType))
    /\ BandsAsked(request) = ThingsOf(BandNames, ToSet(HeardOfLine(line).bands))

\* A request is made with a connection only.
LEMMA Handled ==
    \A connection, request :
        \/ HandleCommand(connection, request).request = <<>>
        \/ /\ HandleCommand(connection, request).request # <<>>
           /\ HandleCommand(connection, request).request[1] = request
BY DEF HandleCommand, Nothing

\* A request and a line that both ask for nothing of the kind.
LEMMA NothingFaithful ==
    ASSUME NEW line, NEW request, IsRequest(request), request.id = line.id[1],
           HeardOfLine(line).phyType = <<>>, HeardOfLine(line).bands = <<>>,
           "phyType" \notin DOMAIN request, "bands" \notin DOMAIN request
    PROVE  Faithful(line, request)
<1>1. ToSet(<<>>) = {}
  BY DEF ToSet
<1>2. /\ PhyAsked(request) = ThingsOf(PhyNames, {})
      /\ BandsAsked(request) = ThingsOf(BandNames, {})
  BY DEF PhyAsked, BandsAsked
<1> QED  BY <1>1, <1>2 DEF Faithful

\* The disabling of an access point.
LEMMA DisableFaithful ==
    ASSUME NEW line, IsLine(line),
           line.command \in {"access-point-disable", "ap-disable", "disable", "apd"}
    PROVE  Faithful(line, CliWifiAccessPointDisable(line.id[1]))
<1> DEFINE request == CliWifiAccessPointDisable(line.id[1])
<1>1. request = [api |-> "WifiAccessPointDisable", id |-> line.id[1]]
  BY DEF CliWifiAccessPointDisable
<1>2. HeardOfLine(line).phyType = <<>> /\ HeardOfLine(line).bands = <<>>
  BY DEF HeardOfLine, NothingAsked
<1>3. "phyType" \notin DOMAIN request /\ "bands" \notin DOMAIN request
  BY <1>1
<1>4. IsRequest(request)
  BY <1>1 DEF IsRequest, RequestFields, IsField
<1> QED  BY <1>1, <1>2, <1>3, <1>4, NothingFaithful

\* The setting of its SSID.
LEMMA SsidFaithful ==
    ASSUME NEW line, IsLine(line),
           line.command \in {"access-point-set-ssid", "ap-set-ssid", "set-ssid", "setssid", "ssid"}
    PROVE  Faithful(line, CliWifiAccessPointSetSsid(line.id[1], line.ssid[1]))
<1> DEFINE request == CliWifiAccessPointSetSsid(line.id[1], line.ssid[1])
<1>1. request = [api |-> "WifiAccessPointSetSsid", id |-> line.id[1],
                 ssid |-> <<CliSsid(line.ssid[1])>>]
  BY DEF CliWifiAccessPointSetSsid
<1>2. HeardOfLine(line).phyType = <<>> /\ HeardOfLine(line).bands = <<>>
  BY DEF HeardOfLine, NothingAsked
<1>3. "phyType" \notin DOMAIN request /\ "bands" \notin DOMAIN request
  BY <1>1
<1>4. IsRequest(request)
  <2>1. IsOptional(request.ssid)
    BY <1>1 DEF IsOptional
  <2>2. request.api = "WifiAccessPointSetSsid" /\ DOMAIN request = {"api", "id", "ssid"}
    BY <1>1
  <2> HIDE DEF request
  <2> QED  BY <2>1, <2>2 DEF IsRequest, RequestFields, IsField
<1> QED  BY <1>1, <1>2, <1>3, <1>4, NothingFaithful

\* A text that is given, and not empty.
Filled(text) == text # <<>> /\ text[1].size > 0

\* The name and the keys of a command line.
Keyed(line, ssid, data) ==
    /\ ssid = IF line.ssid = <<"">> THEN <<>> ELSE line.ssid
    /\ line.psk = <<>> \/ line.passphrase = <<>>
    /\ CASE Filled(line.psk) -> data.Psk # <<>> /\ data.Psk[1].Psk.encoding = "Value"
         [] ~Filled(line.psk) /\ Filled(line.passphrase) ->
                data.Psk = <<[Psk |-> [encoding |-> "Passphrase",
                                       size |-> line.passphrase[1].size,
                                       is |-> line.passphrase[1].is]]>>
         [] OTHER -> data.Psk = <<>>
    /\ data.Sae = IF line.sae = <<>> THEN <<>>
                  ELSE <<[Passwords |-> Each(ParseSaePasswordCliArgument, line.sae)]>>

\* A configuration of the command line.
Configured(line, configuration) ==
    LET data == configuration.AuthenticationData
    IN  /\ configuration.PhyType =
              [i \in DOMAIN line.phy |-> Ieee80211PhyTypeNames[line.phy[i]]]
        /\ configuration.Ssid \in {<<>>, line.ssid}
        /\ configuration.FrequencyBands =
              [i \in DOMAIN line.bands |-> Ieee80211FrequencyBandNames[line.bands[i]]]
        /\ configuration.AuthenticationAlgorithms = <<>>
        /\ configuration.AkmSuites = <<>> /\ configuration.PairwiseCipherSuites = <<>>
        /\ IsOptional(data.Psk)
        /\ \/ data.Sae = <<>>
           \/ data.Sae = <<[Passwords |-> Each(ParseSaePasswordCliArgument, line.sae)]>>
        /\ Keyed(line, configuration.Ssid, data)

\* WifiAccessPointEnableCallback makes a configuration of the options it was given.
LEMMA EnableConfigures ==
    ASSUME NEW connection, NEW line, IsLine(line),
           AddSubcommandWifiAccessPointEnable(connection, line).request # <<>>
    PROVE  /\ ToSet(line.phy) \subseteq DOMAIN Ieee80211PhyTypeNames
           /\ ToSet(line.bands) \subseteq DOMAIN Ieee80211FrequencyBandNames
           /\ \E configuration :
                 /\ Configured(line, configuration)
                 /\ AddSubcommandWifiAccessPointEnable(connection, line).request[1]
                      = CliWifiAccessPointEnable(line.id[1], configuration)
<1>1. /\ ToSet(line.phy) \subseteq DOMAIN Ieee80211PhyTypeNames
      /\ ToSet(line.bands) \subseteq DOMAIN Ieee80211FrequencyBandNames
      /\ AddSubcommandWifiAccessPointEnable(connection, line)
           = WifiAccessPointEnableCallback(connection, line)
  BY DEF AddSubcommandWifiAccessPointEnable, ParseError
<1> DEFINE Given2(text) == IF text # <<>> /\ text[1].size > 0 THEN text ELSE <<>>
           Psk(encoding, text) == [Psk |-> [encoding |-> encoding, size |-> text.size,
                                            is |-> text.is]]
           psk == Given2(line.psk)
           key == IF psk # <<>> THEN <<Psk("Value", [psk[1] EXCEPT !.size = PskValueSize])>>
                  ELSE Each(LAMBDA text : Psk("Passphrase", text), Given2(line.passphrase))
           passwords == IF line.sae = <<>> THEN <<>>
                        ELSE <<[Passwords |-> Each(ParseSaePasswordCliArgument, line.sae)]>>
           configuration ==
                [PhyType |-> [i \in DOMAIN line.phy |-> Ieee80211PhyTypeNames[line.phy[i]]],
                 Ssid |-> IF line.ssid = <<"">> THEN <<>> ELSE line.ssid,
                 FrequencyBands |-> [i \in DOMAIN line.bands |->
                                        Ieee80211FrequencyBandNames[line.bands[i]]],
                 AuthenticationAlgorithms |-> <<>>, AkmSuites |-> <<>>,
                 PairwiseCipherSuites |-> <<>>,
                 AuthenticationData |-> [Psk |-> key, Sae |-> passwords]]
           request == CliWifiAccessPointEnable(line.id[1], configuration)
<1>2. WifiAccessPointEnableCallback(connection, line)
        \in {Nothing, HandleCommand(connection, request)}
  BY DEF WifiAccessPointEnableCallback
<1>3. WifiAccessPointEnableCallback(connection, line).request[1] = request
  <2> HIDE DEF request
  <2>1. Nothing.request = <<>>
    BY DEF Nothing
  <2> QED  BY <1>1, <1>2, <2>1, Handled
<1>4. IsOptional(key)
  <2>1. Given2(line.passphrase) = <<>> \/ Given2(line.passphrase) = <<line.passphrase[1]>>
    BY DEF IsLine, IsOptional
  <2> HIDE DEF Given2
  <2> QED  BY <2>1 DEF IsOptional, Each
<1>5. Keyed(line, configuration.Ssid, configuration.AuthenticationData)
  <2> DEFINE ssid == IF line.ssid = <<"">> THEN <<>> ELSE line.ssid
             data == [Psk |-> key, Sae |-> passwords]
  <2>1. /\ configuration.Ssid = ssid /\ configuration.AuthenticationData = data
        /\ data.Psk = key /\ data.Sae = passwords
    OBVIOUS
  <2>2. line.psk = <<>> \/ line.passphrase = <<>>
    BY DEF AddSubcommandWifiAccessPointEnable, ParseError
  <2>3. ASSUME Filled(line.psk) PROVE key # <<>> /\ key[1].Psk.encoding = "Value"
    <3> DEFINE value == [psk[1] EXCEPT !.size = PskValueSize]
    <3>1. psk # <<>>
      BY <2>3 DEF Filled
    <3>2. key = <<Psk("Value", value)>>
      BY <3>1
    <3> HIDE DEF value, psk, key
    <3>3. key[1] = Psk("Value", value)
      BY <3>2
    <3>4. Psk("Value", value).Psk.encoding = "Value"
      OBVIOUS
    <3> QED  BY <3>2, <3>3, <3>4
  <2>4. ASSUME ~Filled(line.psk), Filled(line.passphrase)
        PROVE  key = <<Psk("Passphrase", line.passphrase[1])>>
    <3>1. psk = <<>> /\ Given2(line.passphrase) = line.passphrase
      BY <2>4 DEF Filled
    <3>2. line.passphrase = <<line.passphrase[1]>>
      BY <2>4, LineForms DEF IsOptional, Filled
    <3> HIDE DEF psk, Given2
    <3>3. key = Each(LAMBDA text : Psk("Passphrase", text), line.passphrase)
      BY <3>1
    <3> QED  BY <3>2, <3>3 DEF Each
  <2>5. ASSUME ~Filled(line.psk), ~Filled(line.passphrase) PROVE key = <<>>
    <3>1. psk = <<>> /\ Given2(line.passphrase) = <<>>
      BY <2>5 DEF Filled
    <3> HIDE DEF psk, Given2
    <3>2. key = Each(LAMBDA text : Psk("Passphrase", text), <<>>)
      BY <3>1
    <3> QED  BY <3>2 DEF Each
  <2> HIDE DEF key, passwords, configuration, ssid, data
  <2>6. Keyed(line, ssid, data)
    BY <2>1, <2>2, <2>3, <2>4, <2>5 DEF Keyed, passwords, ssid
  <2> QED  BY <2>1, <2>6
<1>6. Configured(line, configuration)
  <2> HIDE DEF key
  <2> QED  BY <1>4, <1>5 DEF Configured
<1> QED  BY <1>1, <1>3, <1>6

\* What is optional stays it, whatever is made of its elements.
LEMMA OptionalMapped ==
    ASSUME NEW s, IsOptional(s), NEW t, t = [i \in DOMAIN s |-> t[i]]
    PROVE  IsOptional(t)
<1>1. CASE s = <<>>
  BY <1>1 DEF IsOptional
<1>2. CASE s = <<s[1]>>
  <2>1. DOMAIN s = {1}
    BY <1>2
  <2>2. t = [i \in {1} |-> t[i]]
    BY <2>1
  <2>3. t = <<t[1]>>
    BY <2>2
  <2> QED  BY <2>3 DEF IsOptional
<1> QED  BY <1>1, <1>2 DEF IsOptional

\* No ciphers make no configuration of them.
LEMMA NoCiphers == ToDot11CipherSuiteConfigurations(<<>>) = <<>>
<1> DEFINE all == {[securityProtocol |-> ToDot11SecurityProtocol(protocol),
                    cipherSuites |-> Each(ToDot11CipherSuite, <<>>[protocol])] :
                      protocol \in DOMAIN <<>>}
<1>1. all = {} /\ Cardinality(all) = 0
  BY FS_EmptySet
<1>2. [1 .. Cardinality({}) -> {}] = {<<>>}
  <2>1. 1 .. Cardinality({}) = {}
    BY FS_EmptySet
  <2>2. <<>> \in [{} -> {}]
    OBVIOUS
  <2>3. \A f \in [{} -> {}] : f = <<>>
    OBVIOUS
  <2> QED  BY <2>1, <2>2, <2>3
<1>3. SetToSeq({}) = <<>>
  BY <1>2 DEF SetToSeq, IsInjective
<1> QED  BY <1>1, <1>3 DEF ToDot11CipherSuiteConfigurations

\* The enabling of an access point.
LEMMA EnableRequest ==
    ASSUME NEW line, IsLine(line), NEW configuration, Configured(line, configuration),
           ToSet(line.phy) \subseteq DOMAIN Ieee80211PhyTypeNames,
           ToSet(line.bands) \subseteq DOMAIN Ieee80211FrequencyBandNames
    PROVE  IsRequest(CliWifiAccessPointEnable(line.id[1], configuration))
<1> DEFINE request == CliWifiAccessPointEnable(line.id[1], configuration)
           data == configuration.AuthenticationData
<1>0. /\ request.api = "WifiAccessPointEnable"
      /\ DOMAIN request = {"api"} \cup RequestFields[request.api]
      /\ request.dot1x = <<>>
      /\ request.phyType = IF configuration.PhyType = <<>> THEN "Dot11PhyTypeUnknown"
                           ELSE ToDot11PhyType(configuration.PhyType[1])
      /\ request.ssid = Each(CliSsid, configuration.Ssid)
      /\ request.akmSuites = Each(ToDot11AkmSuite, configuration.AkmSuites)
      /\ request.ciphers = ToDot11CipherSuiteConfigurations(configuration.PairwiseCipherSuites)
      /\ request.algorithms
           = Each(ToDot11AuthenticationAlgorithm, configuration.AuthenticationAlgorithms)
      /\ request.bands = Each(ToDot11FrequencyBand, configuration.FrequencyBands)
      /\ request.data = ToDot11AuthenticationData(data)
  BY DEF CliWifiAccessPointEnable, RequestFields, ToDot11AkmSuites,
         ToDot11AuthenticationAlgorithms
<1> HIDE DEF request
<1>1. IsField(request, "phyType")
  <2>1. request.phyType \in {ToDot11PhyType(p) : p \in Ieee80211PhyType}
    <3>1. CASE line.phy = <<>>
      <4>1. configuration.PhyType = <<>>
        BY <3>1 DEF Configured
      <4>2. "Unknown" \in Ieee80211PhyType
        BY DEF Ieee80211PhyType
      <4> QED  BY <1>0, <4>1, <4>2, PhyWords
    <3>2. CASE line.phy # <<>>
      <4>1. line.phy = <<line.phy[1]>> /\ line.phy[1] \in DOMAIN Ieee80211PhyTypeNames
        BY <3>2, Singles DEF IsLine, IsOptional
      <4>2. configuration.PhyType = <<Ieee80211PhyTypeNames[line.phy[1]]>>
        <5>1. configuration.PhyType = [i \in {1} |-> Ieee80211PhyTypeNames[line.phy[i]]]
          <6>1. DOMAIN line.phy = {1}
            BY <4>1
          <6> QED  BY <6>1 DEF Configured
        <5> QED  BY <5>1
      <4>3. request.phyType = ToDot11PhyType(Ieee80211PhyTypeNames[line.phy[1]])
        BY <1>0, <4>2
      <4> QED  BY <4>1, <4>3, PhyWords
    <3> QED  BY <3>1, <3>2
  <2> QED  BY <2>1 DEF IsField
<1>2. IsField(request, "bands")
  <2> DEFINE names == {ToDot11FrequencyBand(b) : b \in Ieee80211FrequencyBand}
  <2>1. Len(line.bands) \in Nat /\ DOMAIN line.bands = 1 .. Len(line.bands)
    BY Lists DEF IsLine
  <2>2. \A i \in 1 .. Len(line.bands) :
            Ieee80211FrequencyBandNames[line.bands[i]] \in Ieee80211FrequencyBand
    BY <2>1, BandWords DEF ToSet
  <2>3. configuration.FrequencyBands
          = [i \in 1 .. Len(line.bands) |-> Ieee80211FrequencyBandNames[line.bands[i]]]
    BY <2>1 DEF Configured
  <2>4. request.bands = [i \in 1 .. Len(line.bands) |->
                            ToDot11FrequencyBand(Ieee80211FrequencyBandNames[line.bands[i]])]
    BY <1>0, <2>3 DEF Each
  <2>5. \A i \in 1 .. Len(line.bands) :
            ToDot11FrequencyBand(Ieee80211FrequencyBandNames[line.bands[i]]) \in names
    BY <2>2
  <2>6. request.bands \in Seq(names)
    <3> HIDE DEF names
    <3> QED  BY <2>1, <2>4, <2>5
  <2> QED  BY <2>6 DEF IsField
<1>3. IsField(request, "ssid")
  <2>1. IsOptional(configuration.Ssid)
    BY DEF Configured, IsLine, IsOptional
  <2>2. IsOptional(request.ssid)
    BY <1>0, <2>1, OptionalMapped DEF Each
  <2> QED  BY <2>2 DEF IsField
<1>4. IsField(request, "data")
  <2>1. /\ request.data.psk = Each(ToDot11AuthenticationDataPsk, data.Psk)
        /\ request.data.sae = Each(ToDot11AuthenticationDataSae, data.Sae)
    BY <1>0 DEF ToDot11AuthenticationData
  <2>2. IsOptional(data.Psk)
    BY DEF Configured
  <2>3. IsOptional(request.data.psk)
    BY <2>1, <2>2, OptionalMapped DEF Each
  <2>4. \A psk \in ToSet(request.data.psk) : IsOptional(psk)
    <3>1. \A i \in DOMAIN request.data.psk :
              IsOptional(request.data.psk[i])
      BY <2>1 DEF Each, ToDot11AuthenticationDataPsk, IsOptional
    <3> QED  BY <3>1 DEF ToSet
  <2>5. IsOptional(request.data.sae) /\ \A passwords \in ToSet(request.data.sae) : IsList(passwords)
    <3>1. CASE data.Sae = <<>>
      <4>1. request.data.sae = <<>>
        BY <2>1, <3>1 DEF Each
      <4> QED  BY <4>1, Singles DEF IsOptional
    <3>2. CASE data.Sae # <<>>
      <4> DEFINE passwords == Each(ParseSaePasswordCliArgument, line.sae)
                 messages == Each(ToDot11RsnaPassword, passwords)
      <4>1. data.Sae = <<[Passwords |-> passwords]>>
        BY <3>2 DEF Configured
      <4>2. request.data.sae = <<messages>>
        <5> HIDE DEF passwords
        <5>1. request.data.sae = Each(ToDot11AuthenticationDataSae, <<[Passwords |-> passwords]>>)
          BY <2>1, <4>1
        <5> QED  BY <5>1 DEF Each, ToDot11AuthenticationDataSae
      <4>3. IsList(passwords)
        BY LineForms, Mapped DEF Each
      <4>4. IsList(messages)
        <5> HIDE DEF passwords
        <5> QED  BY <4>3, Mapped DEF Each
      <4> HIDE DEF messages
      <4> QED  BY <4>2, <4>4, Singles DEF IsOptional
    <3> QED  BY <3>1, <3>2
  <2> QED  BY <2>3, <2>4, <2>5 DEF IsField
<1>5. IsField(request, "algorithms") /\ IsField(request, "akmSuites") /\ IsField(request, "ciphers")
  <2>1. request.algorithms = <<>> /\ request.akmSuites = <<>> /\ request.ciphers = <<>>
    BY <1>0, NoCiphers DEF Configured, Each
  <2> QED  BY <2>1, Singles DEF IsField
<1>6. IsField(request, "dot1x")
  BY <1>0, Singles DEF IsField, IsOptional
<1>7. IsField(request, "id")
  BY DEF IsField
<1>8. \A field \in RequestFields[request.api] : IsField(request, field)
  <2>1. RequestFields[request.api] = {"id", "dot1x", "phyType", "ssid", "akmSuites", "ciphers",
                                      "algorithms", "bands", "data"}
    BY <1>0 DEF RequestFields
  <2> QED  BY <2>1, <1>1, <1>2, <1>3, <1>4, <1>5, <1>6, <1>7
<1>9. request.api \in DOMAIN RequestFields
  BY <1>0 DEF RequestFields
<1>10. IsRequest(request)
  BY <1>0, <1>8, <1>9 DEF IsRequest
<1> QED  BY <1>10 DEF request

\* It asks for the PHY type and the bands of the command line.
LEMMA EnableFaithful ==
    ASSUME NEW line, IsLine(line), NEW configuration, Configured(line, configuration),
           ToSet(line.phy) \subseteq DOMAIN Ieee80211PhyTypeNames,
           ToSet(line.bands) \subseteq DOMAIN Ieee80211FrequencyBandNames,
           line.command \in {"access-point-enable", "ap-enable", "enable", "ape"}
    PROVE  Faithful(line, CliWifiAccessPointEnable(line.id[1], configuration))
<1> DEFINE request == CliWifiAccessPointEnable(line.id[1], configuration)
<1>1. IsRequest(request)
  BY EnableRequest
<1>2. HeardOfLine(line).phyType = line.phy /\ HeardOfLine(line).bands = line.bands
  <2>1. HeardOfLine(line) =
          [NothingAsked EXCEPT !.phyType = line.phy, !.bands = line.bands,
            !.ssid = HeardOfLine(line).ssid, !.state = <<"ENABLED">>,
            !.data = HeardOfLine(line).data]
    BY DEF HeardOfLine, NothingAsked
  <2> QED  BY <2>1 DEF NothingAsked
<1>3. /\ "phyType" \in DOMAIN request /\ "bands" \in DOMAIN request /\ request.id = line.id[1]
      /\ request.phyType = IF configuration.PhyType = <<>> THEN "Dot11PhyTypeUnknown"
                           ELSE ToDot11PhyType(configuration.PhyType[1])
      /\ request.bands = Each(ToDot11FrequencyBand, configuration.FrequencyBands)
  BY DEF CliWifiAccessPointEnable
<1> HIDE DEF request
<1>4. PhyAsked(request) = ThingsOf(PhyNames, ToSet(line.phy))
  <2>0. PhyAsked(request) = ThingsOf(PhyNames, {request.phyType})
    BY <1>3 DEF PhyAsked
  <2>1. CASE line.phy = <<>>
    <3>1. configuration.PhyType = <<>>
      BY <2>1 DEF Configured
    <3>2. ~Means(PhyNames, "Dot11PhyTypeUnknown")
      BY PhyWords DEF Ieee80211PhyType
    <3>3. ThingsOf(PhyNames, {"Dot11PhyTypeUnknown"}) = {} /\ ThingsOf(PhyNames, {}) = {}
      BY <3>2 DEF ThingsOf
    <3>4. ToSet(line.phy) = {} /\ request.phyType = "Dot11PhyTypeUnknown"
      BY <1>3, <2>1, <3>1, Singles
    <3> QED  BY <2>0, <3>3, <3>4
  <2>2. CASE line.phy # <<>>
    <3>1. line.phy = <<line.phy[1]>> /\ line.phy[1] \in DOMAIN Ieee80211PhyTypeNames
      BY <2>2, Singles DEF IsLine, IsOptional
    <3>2. configuration.PhyType = <<Ieee80211PhyTypeNames[line.phy[1]]>>
      <4>1. configuration.PhyType = [i \in {1} |-> Ieee80211PhyTypeNames[line.phy[i]]]
        <5>1. DOMAIN line.phy = {1}
          BY <3>1
        <5> QED  BY <5>1 DEF Configured
      <4> QED  BY <4>1
    <3> DEFINE name == line.phy[1]
               p == Ieee80211PhyTypeNames[name]
    <3>3. request.phyType = ToDot11PhyType(p)
      BY <1>3, <3>2
    <3>4. ThingsOf(PhyNames, {ToDot11PhyType(p)}) = {PhyThing[p]}
      BY <3>1, PhyWords DEF ThingsOf
    <3>5. ThingsOf(PhyNames, {name}) = {PhyThing[p]}
      BY <3>1, PhyWords DEF ThingsOf
    <3>6. ToSet(line.phy) = {name}
      BY <3>1, Singles
    <3> QED  BY <2>0, <3>3, <3>4, <3>5, <3>6
  <2> QED  BY <2>1, <2>2
<1>5. BandsAsked(request) = ThingsOf(BandNames, ToSet(line.bands))
  <2> DEFINE Band(i) == Ieee80211FrequencyBandNames[line.bands[i]]
             N == DOMAIN line.bands
  <2>0. BandsAsked(request) = ThingsOf(BandNames, ToSet(request.bands))
    BY <1>3 DEF BandsAsked
  <2>1. \A i \in N : line.bands[i] \in DOMAIN Ieee80211FrequencyBandNames
    BY DEF ToSet
  <2>2. request.bands = [i \in N |-> ToDot11FrequencyBand(Band(i))]
    BY <1>3 DEF Configured, Each
  <2>3. ToSet(request.bands) = {ToDot11FrequencyBand(Band(i)) : i \in N}
    BY <2>2 DEF ToSet
  <2>4. ToSet(line.bands) = {line.bands[i] : i \in N}
    BY DEF ToSet
  <2>5. \A i \in N : /\ Means(BandNames, ToDot11FrequencyBand(Band(i)))
                     /\ Means(BandNames, line.bands[i])
                     /\ Meaning(BandNames, ToDot11FrequencyBand(Band(i)))
                          = Meaning(BandNames, line.bands[i])
    BY <2>1, BandWords
  <2> HIDE DEF Band, N
  <2>6. ThingsOf(BandNames, {ToDot11FrequencyBand(Band(i)) : i \in N})
          = ThingsOf(BandNames, {line.bands[i] : i \in N})
    BY <2>5 DEF ThingsOf
  <2> QED  BY <2>0, <2>3, <2>4, <2>6
<1>6. Faithful(line, request)
  BY <1>1, <1>2, <1>3, <1>4, <1>5 DEF Faithful
<1> QED  BY <1>6 DEF request

\* The servers a command line gives.
LEMMA ServersRead ==
    ASSUME NEW servers, IsList(servers)
    PROVE  IsList(ExtractRadiusServers(servers))
<1> DEFINE each == Each(ParseIeee8021xRadiusServerEndpointConfiguration, servers)
<1>1. \A tokens :
          IsOptional(ParseIeee8021xRadiusServerEndpointConfiguration(tokens))
  BY ZenonT(40) DEF ParseIeee8021xRadiusServerEndpointConfiguration, IsOptional
<1>2. \A i \in DOMAIN servers : IsList(each[i])
  BY <1>1, Optionals DEF Each
<1>3. IsList(each) /\ DOMAIN each = DOMAIN servers
  BY Mapped DEF Each
<1>4. IsList(FlattenSeq(each))
  <2> HIDE DEF each
  <2> QED  BY <1>2, <1>3, Flatten
<1> QED  BY <1>4 DEF ExtractRadiusServers

\* CliWifiAccessPointSet8021xRadius makes a request that is one of the API's.
LEMMA RadiusRequest ==
    ASSUME NEW id, NEW radius, IsList(radius.AccountingServer), IsList(radius.FallbackServers)
    PROVE  LET request == CliWifiAccessPointSet8021xRadius(id, radius)
           IN  /\ IsRequest(request) /\ request.id = id
               /\ "phyType" \notin DOMAIN request /\ "bands" \notin DOMAIN request
<1> DEFINE request == CliWifiAccessPointSet8021xRadius(id, radius)
           message == ToServiceDot1xRadiusConfiguration(radius)
<1>1. /\ request.api = "WifiAccessPointSetAuthenticationDot1x" /\ request.id = id
      /\ request.dot1x.radius = Each(ToServiceDot1xRadiusConfiguration, <<radius>>)
      /\ DOMAIN request = {"api", "id", "dot1x"}
  BY DEF CliWifiAccessPointSet8021xRadius, ToDot11AuthenticationDot1x
<1>2. request.dot1x.radius = <<message>>
  BY <1>1 DEF Each
<1>3. IsRadius(message)
  <2>1. IsOptional(message.authenticationServer)
    BY DEF ToServiceDot1xRadiusConfiguration, IsOptional
  <2>2. IsList(message.accountingServer)
    BY Mapped DEF ToServiceDot1xRadiusConfiguration, Each
  <2>3. IsList(message.fallbackServers)
    BY Mapped DEF ToServiceDot1xRadiusConfiguration, Each
  <2> QED  BY <2>1, <2>2, <2>3 DEF IsRadius
<1> HIDE DEF request, message
<1>4. IsDot1x(request.dot1x)
  BY <1>2, <1>3, Singles DEF IsDot1x, IsOptional
<1>5. IsRequest(request)
  BY <1>1, <1>4 DEF IsRequest, RequestFields, IsField
<1>6. /\ IsRequest(request) /\ request.id = id
      /\ "phyType" \notin DOMAIN request /\ "bands" \notin DOMAIN request
  BY <1>1, <1>5
<1> QED  BY <1>6 DEF request

\* The RADIUS servers of an access point.
LEMMA RadiusFaithful ==
    ASSUME NEW connection, NEW line, IsLine(line),
           line.command \in {"access-point-set-radius", "ap-set-radius", "ap-radius", "radius"},
           AddSubcommandWifiAccessPointSet8021xRadius(connection, line).request # <<>>
    PROVE  Faithful(line, AddSubcommandWifiAccessPointSet8021xRadius(connection, line).request[1])
<1> DEFINE run == AddSubcommandWifiAccessPointSet8021xRadius(connection, line)
           Extract(option) == ExtractRadiusServers(line[option])
           radius == [AuthenticationServer |->
                          [Extract("auth")[1] EXCEPT !.Type = "Authentication"],
                      AccountingServer |-> [i \in DOMAIN line.acct |->
                                              [Extract("acct")[i] EXCEPT !.Type = "Accounting"]],
                      FallbackServers |-> Extract("fallback")]
           request == CliWifiAccessPointSet8021xRadius(line.id[1], radius)
<1>1. run \in {ParseError, HandleCommand(connection, request)}
  BY DEF AddSubcommandWifiAccessPointSet8021xRadius
<1>2. IsList(radius.AccountingServer) /\ IsList(radius.FallbackServers)
  BY LineForms, Mapped, ServersRead
<1>3. /\ IsRequest(request) /\ request.id = line.id[1]
      /\ "phyType" \notin DOMAIN request /\ "bands" \notin DOMAIN request
  <2> HIDE DEF radius
  <2> QED  BY <1>2, RadiusRequest
<1>4. HeardOfLine(line).phyType = <<>> /\ HeardOfLine(line).bands = <<>>
  BY DEF HeardOfLine, NothingAsked
<1>5. Faithful(line, request)
  <2> HIDE DEF request
  <2> QED  BY <1>3, <1>4, NothingFaithful
<1>6. run.request[1] = request
  <2> HIDE DEF request, run
  <2>1. ParseError.request = <<>>
    BY DEF ParseError
  <2>2. run.request # <<>>
    BY DEF run
  <2> QED  BY <1>1, <2>1, <2>2, Handled
<1> QED  BY <1>5, <1>6

\* What a command line asks for is what its request asks for.
LEMMA ParsedFaithful ==
    ASSUME NEW channel \in BOOLEAN, NEW line, IsLine(line), Parse(channel, line).request # <<>>
    PROVE  LET request == Parse(channel, line).request[1]
           IN  \/ /\ request.api \in {"WifiAccessPointsEnumerate", "NetworkInterfacesEnumerate"}
                  /\ HeardOfLine(line).phyType = <<>> /\ HeardOfLine(line).bands = <<>>
               \/ Faithful(line, request)
<1> DEFINE run == Parse(channel, line)
           request == run.request[1]
           listing == {"WifiAccessPointsEnumerate", "NetworkInterfacesEnumerate"}
           connection == OnServerAddressChanged(Optional(line.server, ServerDefault), channel)
           wifi == AddSubcommandWifi(connection, line)
           network == AddSubcommandNetwork(connection, line)
           enumerating == {"enumerate-access-points", "enumaps", "enum", "aps"}
           enabling == {"access-point-enable", "ap-enable", "enable", "ape"}
           disabling == {"access-point-disable", "ap-disable", "disable", "apd"}
           setting == {"access-point-set-ssid", "ap-set-ssid", "set-ssid", "setssid", "ssid"}
           radius == {"access-point-set-radius", "ap-set-radius", "ap-radius", "radius"}
<1>1. ParseError.request = <<>>
  BY DEF ParseError
<1>2. run \in {wifi, network, ParseError}
  BY DEF Parse, CreateParser
<1>3. CASE run = network
  <2>1. network \in {ParseError, HandleCommand(connection, [api |-> "NetworkInterfacesEnumerate"])}
    BY DEF AddSubcommandNetwork
  <2>2. network # ParseError => line.command \in {"enumerate-interfaces", "enumifs", "enum",
                                                  "interfaces", "ifaces", "ifs"}
    BY DEF AddSubcommandNetwork
  <2> HIDE DEF run, network
  <2>3. run.request # <<>>
    BY DEF run
  <2>4. request = [api |-> "NetworkInterfacesEnumerate"]
    BY <1>1, <1>3, <2>1, <2>3, Handled
  <2>5. HeardOfLine(line).phyType = <<>> /\ HeardOfLine(line).bands = <<>>
    BY <1>1, <1>3, <2>2, <2>3 DEF HeardOfLine, NothingAsked
  <2> QED  BY <2>4, <2>5 DEF run
<1>4. CASE run = wifi
  <2>0. run.request # <<>>
    OBVIOUS
  <2>1. CASE line.command \in enumerating
    <3>1. wifi = HandleCommand(connection, [api |-> "WifiAccessPointsEnumerate"])
      BY <2>1 DEF AddSubcommandWifi
    <3>2. HeardOfLine(line).phyType = <<>> /\ HeardOfLine(line).bands = <<>>
      BY <2>1 DEF HeardOfLine, NothingAsked
    <3> HIDE DEF run, wifi
    <3>3. request = [api |-> "WifiAccessPointsEnumerate"]
      BY <1>4, <2>0, <3>1, Handled
    <3> QED  BY <3>2, <3>3 DEF run
  <2>2. CASE line.command \in enabling
    <3>1. wifi = AddSubcommandWifiAccessPointEnable(connection, line)
      BY <2>2 DEF AddSubcommandWifi
    <3> HIDE DEF run, wifi, connection
    <3>2. /\ ToSet(line.phy) \subseteq DOMAIN Ieee80211PhyTypeNames
          /\ ToSet(line.bands) \subseteq DOMAIN Ieee80211FrequencyBandNames
          /\ \E configuration : /\ Configured(line, configuration)
                                /\ request = CliWifiAccessPointEnable(line.id[1], configuration)
      BY <1>4, <2>0, <3>1, EnableConfigures
    <3>3. Faithful(line, request)
      BY <2>2, <3>2, EnableFaithful
    <3> QED  BY <3>3 DEF run
  <2>3. CASE line.command \in disabling
    <3>1. wifi = AddSubcommandWifiAccessPointDisable(connection, line)
      BY <2>3 DEF AddSubcommandWifi
    <3>2. wifi \in {ParseError,
                    HandleCommand(connection, CliWifiAccessPointDisable(line.id[1]))}
      BY <3>1 DEF AddSubcommandWifiAccessPointDisable
    <3> HIDE DEF run, wifi, connection
    <3>3. request = CliWifiAccessPointDisable(line.id[1])
      BY <1>1, <1>4, <2>0, <3>2, Handled
    <3>4. Faithful(line, request)
      BY <2>3, <3>3, DisableFaithful
    <3> QED  BY <3>4 DEF run
  <2>4. CASE line.command \in setting
    <3>1. wifi = AddSubcommandWifiAccessPointSetSsid(connection, line)
      BY <2>4 DEF AddSubcommandWifi
    <3>2. wifi \in {ParseError,
              HandleCommand(connection, CliWifiAccessPointSetSsid(line.id[1], line.ssid[1]))}
      BY <3>1 DEF AddSubcommandWifiAccessPointSetSsid
    <3> HIDE DEF run, wifi, connection
    <3>3. request = CliWifiAccessPointSetSsid(line.id[1], line.ssid[1])
      BY <1>1, <1>4, <2>0, <3>2, Handled
    <3>4. Faithful(line, request)
      BY <2>4, <3>3, SsidFaithful
    <3> QED  BY <3>4 DEF run
  <2>5. CASE line.command \in radius
    <3>1. wifi = AddSubcommandWifiAccessPointSet8021xRadius(connection, line)
      BY <2>5 DEF AddSubcommandWifi
    <3> HIDE DEF run, wifi, connection
    <3>2. Faithful(line, request)
      BY <1>4, <2>0, <2>5, <3>1, RadiusFaithful
    <3> QED  BY <3>2 DEF run
  <2>6. CASE line.command \notin enumerating \cup enabling \cup disabling \cup setting \cup radius
    <3>1. wifi = ParseError
      BY <2>6 DEF AddSubcommandWifi
    <3> QED  BY <1>1, <1>4, <2>0, <3>1
  <2> QED  BY <2>1, <2>2, <2>3, <2>4, <2>5, <2>6
<1> QED  BY <1>1, <1>2, <1>3, <1>4

-----------------------------------------------------------------------------
(* What is shown is accepted *)

\* The access point of a call.
IdOf(c) == IF c.client = "cli" THEN c.asked.id[1] ELSE c.asked.id

\* What is asked for is among what was reported.
Agreed(asked, reported) ==
    /\ ThingsOf(PhyNames, ToSet(asked.phyType))
         \subseteq ThingsOf(PhyNames, {ToDot11PhyType(p) : p \in reported.PhyTypes})
    /\ ThingsOf(BandNames, ToSet(asked.bands))
         \subseteq ThingsOf(BandNames, {Dot11FrequencyBandToString(ToDot11FrequencyBand(b)) :
                                         b \in reported.FrequencyBands})

\* What a client was told of an access point is what its radio reported then.
ToldInv ==
    told # NoAnswer => \A p \in told.answer.accessPoints :
        LET c == GetCapabilities(Wiphy(told.host, p.accessPointId))
        IN  /\ c.status = "Succeeded"
            /\ p.capabilities = ToDot11AccessPointCapabilities(c.capabilities[1])

\* Whether the last call was granted is decided by what the radio reported then.
Decided(c) ==
    c.client # "none" /\ c.code \in {Succeeded, NotSupported} =>
        LET asked == Heard(c)
            capabilities == GetCapabilities(Wiphy(c.host, IdOf(c)))
        IN  \/ /\ c.code = Succeeded /\ ThingsOf(PhyNames, ToSet(asked.phyType)) = {}
               /\ ThingsOf(BandNames, ToSet(asked.bands)) = {}
            \/ capabilities.status = "Succeeded" =>
                  (c.code = Succeeded) = Agreed(asked, capabilities.capabilities[1])

\* The inductive invariant: the form of hostapd's record, what was told, what was decided.
AcceptInv == calls \in Nat /\ Typed(hostapd) /\ ToldInv /\ Decided(last)

\* The codes of an answer, by its status.
LEMMA Codes ==
    /\ \A status : ToDot11AccessPointOperationStatusCode(status) = Succeeded
                     <=> status = "Succeeded"
    /\ \A status : ToDot11AccessPointOperationStatusCode(status) = NotSupported
                     <=> status = "OperationNotSupported"
    /\ Succeeded # NotSupported
BY DEF ToDot11AccessPointOperationStatusCode, Switch, Succeeded, NotSupported

\* What GetCapabilities answers, and that it is of the neutral vocabulary.
LEMMA Capabilities ==
    ASSUME NEW wiphy
    PROVE  LET c == GetCapabilities(wiphy)
               r == c.capabilities[1]
           IN  \/ c = [status |-> "AccessPointInvalid", capabilities |-> <<>>]
               \/ /\ c = [status |-> "Succeeded", capabilities |-> <<r>>]
                  /\ r.PhyTypes \subseteq Ieee80211PhyType
                  /\ r.FrequencyBands \subseteq Ieee80211FrequencyBand
<1>1. CASE wiphy = <<>>
  BY <1>1 DEF GetCapabilities
<1>2. CASE wiphy # <<>>
  <2> DEFINE phys == Nl80211WiphyToIeee80211PhyTypes(wiphy[1])
             bands == {Nl80211BandToIeee80211FrequencyBand(b) : b \in DOMAIN wiphy[1].Bands}
             r == [PhyTypes |-> phys, FrequencyBands |-> bands,
                   AkmSuites |-> {Nl80211AkmSuiteToIeee80211AkmSuite(s) : s \in wiphy[1].AkmSuites},
                   CipherSuites |-> {Nl80211CipherSuiteToIeee80211CipherSuite(s) :
                                        s \in wiphy[1].CipherSuites},
                   SecurityProtocols |-> {Nl80211WpaVersionToIeee80211SecurityProtocol(v) :
                                            v \in wiphy[1].WpaVersions}]
  <2>1. GetCapabilities(wiphy) = [status |-> "Succeeded", capabilities |-> <<r>>]
    BY <1>2 DEF GetCapabilities
  <2>2. phys \subseteq Ieee80211PhyType
    BY DEF Nl80211WiphyToIeee80211PhyTypes, Ieee80211PhyType
  <2>3. bands \subseteq Ieee80211FrequencyBand
    BY DEF Nl80211BandToIeee80211FrequencyBand, Ieee80211FrequencyBand
  <2>4. r.PhyTypes = phys /\ r.FrequencyBands = bands
    OBVIOUS
  <2> HIDE DEF r, phys, bands
  <2> QED  BY <2>1, <2>2, <2>3, <2>4
<1> QED  BY <1>1, <1>2

\* What a request of the API asks for, in the client's words and in the service's.
LEMMA RequestAsks ==
    ASSUME NEW request, IsRequest(request)
    PROVE  /\ PhyAsked(request) = ThingsOf(PhyNames, ToSet(HeardOfRequest(request).phyType))
           /\ BandsAsked(request) = ThingsOf(BandNames, ToSet(HeardOfRequest(request).bands))
<1> DEFINE asked == HeardOfRequest(request)
           phy == IF "phyType" \in DOMAIN request THEN request.phyType ELSE ""
<1>1. /\ asked.phyType = IF Means(PhyNames, phy) THEN <<request.phyType>> ELSE <<>>
      /\ asked.bands = IF "bands" \in DOMAIN request THEN request.bands ELSE <<>>
  BY DEF HeardOfRequest, NothingAsked
<1> HIDE DEF asked
<1>2. PhyAsked(request) = ThingsOf(PhyNames, ToSet(asked.phyType))
  <2>1. ~Means(PhyNames, "")
    <3> DEFINE words == {"a", "b", "g", "n", "ac", "ax", "Dot11PhyTypeA", "Dot11PhyTypeB",
                         "Dot11PhyTypeG", "Dot11PhyTypeN", "Dot11PhyTypeAC", "Dot11PhyTypeAX",
                         "Dot11PhyTypeAD", "Dot11PhyTypeBE"}
    <3>1. \A thing \in DOMAIN PhyNames : PhyNames[thing] \subseteq words
      BY DEF PhyNames
    <3>2. "" \notin words
      BY Zenon
    <3> HIDE DEF words
    <3> QED  BY <3>1, <3>2 DEF Means
  <2>2. ToSet(asked.phyType) = IF Means(PhyNames, phy) THEN {request.phyType} ELSE {}
    BY <1>1, Singles
  <2> QED  BY <2>1, <2>2 DEF PhyAsked, ThingsOf
<1>3. BandsAsked(request) = ThingsOf(BandNames, ToSet(asked.bands))
  <2>1. ToSet(asked.bands) = IF "bands" \in DOMAIN request THEN ToSet(request.bands) ELSE {}
    BY <1>1, Singles
  <2> QED  BY <2>1 DEF BandsAsked
<1> QED  BY <1>2, <1>3 DEF asked

\* What is asked for is supported exactly if it was reported.
LEMMA SupportedAgrees ==
    ASSUME NEW request, IsRequest(request), NEW asked,
           PhyAsked(request) = ThingsOf(PhyNames, ToSet(asked.phyType)),
           BandsAsked(request) = ThingsOf(BandNames, ToSet(asked.bands)),
           NEW reported, reported.PhyTypes \subseteq Ieee80211PhyType,
           reported.FrequencyBands \subseteq Ieee80211FrequencyBand
    PROVE  Supported(request, reported) <=> Agreed(asked, reported)
<1> DEFINE phys == ThingsOf(PhyNames, {ToDot11PhyType(p) : p \in reported.PhyTypes})
           bands == ThingsOf(BandNames, {Dot11FrequencyBandToString(ToDot11FrequencyBand(b)) :
                                           b \in reported.FrequencyBands})
<1>1. DOMAIN request = {"api"} \cup RequestFields[request.api]
      /\ \A field \in RequestFields[request.api] : IsField(request, field)
      /\ request.api \in DOMAIN RequestFields
  BY DEF IsRequest
<1>2. PhyAsked(request) \subseteq phys
        <=> ("phyType" \in DOMAIN request => PhySupported(request.phyType, reported))
  <2>1. CASE "phyType" \in DOMAIN request
    <3>1. request.phyType \in {ToDot11PhyType(p) : p \in Ieee80211PhyType}
      BY <1>1, <2>1 DEF IsField
    <3>2. PhyAsked(request) = ThingsOf(PhyNames, {request.phyType})
      BY <2>1 DEF PhyAsked
    <3> QED  BY <2>1, <3>1, <3>2, PhyAgrees
  <2>2. CASE "phyType" \notin DOMAIN request
    BY <2>2 DEF PhyAsked, ThingsOf
  <2> QED  BY <2>1, <2>2
<1>3. BandsAsked(request) \subseteq bands
        <=> ("bands" \in DOMAIN request => BandsSupported(request.bands, reported))
  <2>1. CASE "bands" \in DOMAIN request
    <3> DEFINE names == {ToDot11FrequencyBand(b) : b \in Ieee80211FrequencyBand}
    <3>1. request.bands \in Seq(names)
      BY <1>1, <2>1 DEF IsField
    <3>2. ToSet(request.bands) \subseteq names
      <4> HIDE DEF names
      <4> QED  BY <3>1 DEF ToSet
    <3>3. BandsAsked(request) = ThingsOf(BandNames, ToSet(request.bands))
      BY <2>1 DEF BandsAsked
    <3> QED  BY <2>1, <3>2, <3>3, BandsAgree
  <2>2. CASE "bands" \notin DOMAIN request
    BY <2>2 DEF BandsAsked, ThingsOf
  <2> QED  BY <2>1, <2>2
<1> HIDE DEF phys, bands
<1>4. Supported(request, reported)
        <=> PhyAsked(request) \subseteq phys /\ BandsAsked(request) \subseteq bands
  BY <1>2, <1>3 DEF Supported
<1> QED  BY <1>4 DEF Agreed, phys, bands

\* A change is granted exactly if it asks for nothing that its radio has not reported.
LEMMA ChangeDecided ==
    ASSUME Typed(hostapd), NEW client, NEW c, NEW request, IsRequest(request),
           request.api \notin {"WifiAccessPointsEnumerate", "NetworkInterfacesEnumerate"},
           Change(client, c, request),
           client \in {"cli", "api"},
           LET asked == IF client = "cli" THEN HeardOfLine(c) ELSE HeardOfRequest(c)
           IN  /\ PhyAsked(request) = ThingsOf(PhyNames, ToSet(asked.phyType))
               /\ BandsAsked(request) = ThingsOf(BandNames, ToSet(asked.bands)),
           request.id = IF client = "cli" THEN c.id[1] ELSE c.id
    PROVE  Typed(hostapd') /\ Decided(last')
<1> DEFINE accessPoint == AccessPoint(request.id)
           capabilities == GetCapabilities(Wiphy(host, request.id))
           reported == capabilities.capabilities[1]
           h == [hostapd EXCEPT !.status = "Succeeded"]
<1>1. PICK commands \in Changes(accessPoint, request) :
      \E answered \in 0 .. Len(commands) :
          /\ hostapd' = Run(hostapd, commands, answered)
          /\ Ends(client, c, ToDot11AccessPointOperationStatusCode(hostapd'.status), {})
  BY DEF Change
<1>2. PICK answered \in 0 .. Len(commands) :
          /\ hostapd' = Run(hostapd, commands, answered)
          /\ Ends(client, c, ToDot11AccessPointOperationStatusCode(hostapd'.status), {})
  BY <1>1
<1>3. accessPoint.capabilities = capabilities
  BY DEF AccessPoint
<1>4. Reports(accessPoint, reported)
  BY <1>3, Capabilities DEF Reports
<1>5. Decides(commands, Supported(request, reported))
  <2> HIDE DEF accessPoint, reported
  <2> QED  BY <1>1, <1>4, ChangesDecide
<1>6. IsList(commands) /\ answered \in Int
  BY <1>2, <1>5 DEF Decides
<1>7. Typed(h) /\ h.status = "Succeeded"
  BY DEF Typed
<1>8. hostapd' = Exec(h, commands, answered)
  BY <1>2, RunExecutes
<1>9. Typed(hostapd')
  <2> HIDE DEF h
  <2> QED  BY <1>6, <1>7, <1>8, ExecTyped
<1>10. /\ hostapd'.status = "Succeeded" => Passes(commands)
       /\ hostapd'.status = "OperationNotSupported" =>
              "OperationNotSupported" \in Refusals(commands)
  <2> HIDE DEF h
  <2> QED  BY <1>6, <1>7, <1>8, Outcome
<1> DEFINE code == ToDot11AccessPointOperationStatusCode(hostapd'.status)
<1>11. code \in {Succeeded, NotSupported} => ((code = Succeeded) = Supported(request, reported))
  BY <1>5, <1>10, Codes DEF Decides, Supported
<1>12. last' = [client |-> client, asked |-> c, code |-> code, shown |-> {}, host |-> host]
  BY <1>2 DEF Ends
<1> DEFINE asked == IF client = "cli" THEN HeardOfLine(c) ELSE HeardOfRequest(c)
<1>13. capabilities.status = "Succeeded" =>
           (Supported(request, reported) <=> Agreed(asked, reported))
  <2>1. capabilities.status = "Succeeded" =>
            /\ reported.PhyTypes \subseteq Ieee80211PhyType
            /\ reported.FrequencyBands \subseteq Ieee80211FrequencyBand
    BY Capabilities
  <2> HIDE DEF reported, asked, capabilities
  <2> QED  BY <2>1, SupportedAgrees DEF asked
<1>14. /\ Heard(last') = asked /\ IdOf(last') = request.id /\ last'.host = host
       /\ last'.code = code
  BY <1>12 DEF Heard, IdOf
<1>15. Decided(last')
  <2> HIDE DEF code, asked
  <2>1. last'.code \in {Succeeded, NotSupported} /\ capabilities.status = "Succeeded" =>
            (last'.code = Succeeded) = Agreed(asked, reported)
    BY <1>11, <1>13, <1>14 DEF Supported, Agreed
  <2> QED  BY <1>14, <2>1 DEF Decided
<1> QED  BY <1>9, <1>15

\* A call that is served is decided on what its radio reports.
LEMMA ServeDecided ==
    ASSUME AcceptInv, NEW client \in {"cli", "api"}, NEW c, NEW request,
           Serve(client, c, request),
           LET asked == IF client = "cli" THEN HeardOfLine(c) ELSE HeardOfRequest(c)
           IN  \/ /\ request.api \in {"WifiAccessPointsEnumerate", "NetworkInterfacesEnumerate"}
                  /\ ThingsOf(PhyNames, ToSet(asked.phyType)) = {}
                  /\ ThingsOf(BandNames, ToSet(asked.bands)) = {}
               \/ /\ IsRequest(request)
                  /\ PhyAsked(request) = ThingsOf(PhyNames, ToSet(asked.phyType))
                  /\ BandsAsked(request) = ThingsOf(BandNames, ToSet(asked.bands))
                  /\ request.api \notin {"WifiAccessPointsEnumerate", "NetworkInterfacesEnumerate"}
                         => request.id = IF client = "cli" THEN c.id[1] ELSE c.id
    PROVE  AcceptInv'
<1> DEFINE asked == IF client = "cli" THEN HeardOfLine(c) ELSE HeardOfRequest(c)
           listing == {"WifiAccessPointsEnumerate", "NetworkInterfacesEnumerate"}
           nothing == /\ ThingsOf(PhyNames, ToSet(asked.phyType)) = {}
                      /\ ThingsOf(BandNames, ToSet(asked.bands)) = {}
<1>1. calls' \in Nat
  BY DEF Serve, AcceptInv
<1>2. CASE request.api = "NetworkInterfacesEnumerate"
  <2>1. NetworkInterfacesBegin(client, c)
    BY <1>2 DEF Serve
  <2>2. last' = NoCall /\ hostapd' = hostapd /\ told' = told
    BY <2>1 DEF NetworkInterfacesBegin
  <2>3. Decided(last')
    BY <2>2 DEF Decided, NoCall
  <2>4. ToldInv'
    BY <2>2 DEF ToldInv, AcceptInv
  <2> QED  BY <1>1, <2>2, <2>3, <2>4 DEF AcceptInv
<1>3. CASE request.api = "WifiAccessPointsEnumerate"
  <2>1. PICK detailed : Enumerates(client, c, detailed)
    BY <1>3 DEF Serve
  <2> DEFINE all == [name \in DOMAIN accessPoints |-> AccessPoint(name)]
  <2>2. PICK answered \in BOOLEAN :
            LET answer == WifiAccessPointsEnumerate(all, hostapd, answered)
            IN  /\ told' = [answer |-> answer, host |-> host]
                /\ last' = [client |-> client, asked |-> c, code |-> answer.code,
                            shown |-> ShowsAccessPoints(answer, detailed), host |-> host]
                /\ hostapd' = hostapd
    BY <2>1 DEF Enumerates, Ends
  <2> DEFINE answer == WifiAccessPointsEnumerate(all, hostapd, answered)
  <2>3. answer.code = Succeeded
    BY Codes DEF WifiAccessPointsEnumerate
  <2>4. nothing
    <3>1. ASSUME IsRequest(request)
          PROVE  "phyType" \notin DOMAIN request /\ "bands" \notin DOMAIN request
      BY <1>3, <3>1 DEF IsRequest, RequestFields
    <3>2. IsRequest(request) => PhyAsked(request) = {} /\ BandsAsked(request) = {}
      BY <3>1 DEF PhyAsked, BandsAsked, ThingsOf
    <3> QED  BY <3>2
  <2>5. Decided(last')
    <3>1. Heard(last') = asked /\ last'.code = Succeeded
      BY <2>2, <2>3 DEF Heard
    <3> HIDE DEF asked
    <3> QED  BY <2>4, <3>1 DEF Decided
  <2>6. ToldInv'
    <3>1. told'.answer = answer /\ told'.host = host
      BY <2>2
    <3>2. ASSUME NEW p \in answer.accessPoints
          PROVE  LET cap == GetCapabilities(Wiphy(host, p.accessPointId))
                 IN  /\ cap.status = "Succeeded"
                     /\ p.capabilities = ToDot11AccessPointCapabilities(cap.capabilities[1])
      <4>1. PICK id \in DOMAIN accessPoints :
                /\ p = IAccessPointWeakToNetRemoteAccessPointResultItem(
                          id, AccessPoint(id), hostapd, answered)
                /\ p.accessPointId # AccessPointIdInvalid
        BY DEF WifiAccessPointsEnumerate, NetRemoteAccessPointResultItemIsInvalid
      <4> DEFINE ap == AccessPoint(id)
                 cap == GetCapabilities(Wiphy(host, id))
      <4>2. p # MakeInvalidAccessPointResultItem
        BY <4>1 DEF MakeInvalidAccessPointResultItem
      <4>3. ap.capabilities = cap
        BY DEF AccessPoint
      <4>4. /\ ap.capabilities.status = "Succeeded" /\ p.accessPointId = id
            /\ p.capabilities = ToDot11AccessPointCapabilities(ap.capabilities.capabilities[1])
        <5> HIDE DEF ap
        <5>1. p = IAccessPointWeakToNetRemoteAccessPointResultItem(id, ap, hostapd, answered)
          BY <4>1 DEF ap
        <5> QED  BY <4>2, <5>1 DEF IAccessPointWeakToNetRemoteAccessPointResultItem,
                                   IAccessPointToNetRemoteAccessPointResultItem
      <4> QED  BY <4>3, <4>4
    <3> HIDE DEF answer
    <3>3. ToldInv' <=> (told' # NoAnswer => \A p \in told'.answer.accessPoints :
              LET cap == GetCapabilities(Wiphy(told'.host, p.accessPointId))
              IN  /\ cap.status = "Succeeded"
                  /\ p.capabilities = ToDot11AccessPointCapabilities(cap.capabilities[1]))
      BY DEF ToldInv
    <3> QED  BY <3>1, <3>2, <3>3
  <2> QED  BY <1>1, <2>2, <2>5, <2>6 DEF AcceptInv
<1>4. CASE request.api \notin listing
  <2>1. Change(client, c, request)
    BY <1>4 DEF Serve
  <2>2. Typed(hostapd') /\ Decided(last')
    BY <1>4, <2>1, ChangeDecided DEF AcceptInv
  <2>3. told' = told
    BY <2>1 DEF Change
  <2>4. ToldInv'
    BY <2>3 DEF ToldInv, AcceptInv
  <2> QED  BY <1>1, <2>2, <2>4 DEF AcceptInv
<1> QED  BY <1>2, <1>3, <1>4

\* It holds at the start.
LEMMA AcceptInit == Init => AcceptInv
<1> SUFFICES ASSUME Init PROVE AcceptInv
  OBVIOUS
<1>1. hostapd = [status |-> "Succeeded", conf |-> Unset, live |-> Unset, state |-> "DISABLED"]
      /\ calls = 0 /\ last = NoCall /\ told = NoAnswer
  BY DEF Init
<1>2. Typed(hostapd)
  BY <1>1 DEF Typed, Unset
<1> QED  BY <1>1, <1>2 DEF AcceptInv, ToldInv, Decided, NoCall

\* It is kept by every step.
LEMMA AcceptStep == AcceptInv /\ [Next]_vars => AcceptInv'
<1> SUFFICES ASSUME AcceptInv, [Next]_vars PROVE AcceptInv'
  OBVIOUS
<1> USE DEF AcceptInv
<1>1. CASE CommandLine
  <2>1. PICK line \in CommandLines[calls + 1] : \E channel \in BOOLEAN :
            \/ /\ Parse(channel, line).request # <<>>
               /\ Serve("cli", line, Parse(channel, line).request[1])
            \/ /\ calls' = calls + 1 /\ Ends("cli", line, "none", {})
               /\ UNCHANGED <<hostapd, told>>
    BY <1>1 DEF CommandLine
  <2>2. PICK channel \in BOOLEAN :
            \/ /\ Parse(channel, line).request # <<>>
               /\ Serve("cli", line, Parse(channel, line).request[1])
            \/ /\ calls' = calls + 1 /\ Ends("cli", line, "none", {})
               /\ UNCHANGED <<hostapd, told>>
    BY <2>1
  <2>3. IsLine(line)
    <3>1. calls + 1 \in DOMAIN CommandLines
      BY <1>1, RequestAssumption, Lists DEF CommandLine
    <3> QED  BY <2>1, <3>1, RequestAssumption
  <2> DEFINE request == Parse(channel, line).request[1]
  <2>4. CASE Parse(channel, line).request # <<>> /\ Serve("cli", line, request)
    <3> DEFINE asked == HeardOfLine(line)
    <3>1. \/ /\ request.api \in {"WifiAccessPointsEnumerate", "NetworkInterfacesEnumerate"}
             /\ asked.phyType = <<>> /\ asked.bands = <<>>
          \/ Faithful(line, request)
      BY <2>3, <2>4, ParsedFaithful
    <3> HIDE DEF request
    <3>2. \A names : ThingsOf(names, ToSet(<<>>)) = {}
      BY Singles DEF ThingsOf
    <3>3. \/ /\ request.api \in {"WifiAccessPointsEnumerate", "NetworkInterfacesEnumerate"}
             /\ ThingsOf(PhyNames, ToSet(asked.phyType)) = {}
             /\ ThingsOf(BandNames, ToSet(asked.bands)) = {}
          \/ /\ IsRequest(request) /\ request.id = line.id[1]
             /\ PhyAsked(request) = ThingsOf(PhyNames, ToSet(asked.phyType))
             /\ BandsAsked(request) = ThingsOf(BandNames, ToSet(asked.bands))
      <4> HIDE DEF asked
      <4> QED  BY <3>1, <3>2 DEF Faithful, asked
    <3> QED  BY <2>4, <3>3, ServeDecided
  <2>5. CASE /\ calls' = calls + 1 /\ Ends("cli", line, "none", {})
             /\ UNCHANGED <<hostapd, told>>
    <3>1. Decided(last')
      BY <2>5 DEF Ends, Decided, Succeeded, NotSupported
    <3> QED  BY <2>5, <3>1 DEF ToldInv
  <2> QED  BY <2>2, <2>4, <2>5
<1>2. CASE ApiRequest
  <2>1. PICK request \in ApiRequests[calls + 1] : Serve("api", request, request)
    BY <1>2 DEF ApiRequest
  <2>2. IsRequest(request)
    <3>1. calls + 1 \in DOMAIN ApiRequests
      BY <1>2, RequestAssumption, Lists DEF ApiRequest
    <3> QED  BY <2>1, <3>1, RequestAssumption
  <2>3. /\ PhyAsked(request) = ThingsOf(PhyNames, ToSet(HeardOfRequest(request).phyType))
        /\ BandsAsked(request) = ThingsOf(BandNames, ToSet(HeardOfRequest(request).bands))
    BY <2>2, RequestAsks
  <2> QED  BY <2>1, <2>2, <2>3, ServeDecided
<1>3. CASE NetworkInterfacesAnswered
  <2>1. UNCHANGED <<hostapd, told, calls>> /\ last'.code = "NetworkOperationStatusCodeSuccess"
    BY <1>3 DEF NetworkInterfacesAnswered, Ends, countVars
  <2>2. Decided(last')
    BY <2>1 DEF Decided, Succeeded, NotSupported
  <2> QED  BY <2>1, <2>2 DEF ToldInv
<1>4. CASE LooksUpIndex \/ CollectsAddresses \/ HostChanges \/ UNCHANGED vars
  <2>1. UNCHANGED <<hostapd, told, last, calls>>
    BY <1>4 DEF LooksUpIndex, CollectsAddresses, HostChanges, vars, countVars
  <2> QED  BY <2>1 DEF ToldInv, Decided
<1>5. CASE HostapdRestarts
  <2>1. /\ UNCHANGED <<told, calls>> /\ last' = NoCall
        /\ hostapd' = [status |-> "Succeeded", conf |-> Unset, live |-> Unset, state |-> "DISABLED"]
    BY <1>5 DEF HostapdRestarts
  <2>2. Typed(hostapd')
    BY <2>1 DEF Typed, Unset
  <2> QED  BY <2>1, <2>2 DEF ToldInv, Decided, NoCall
<1> QED  BY <1>1, <1>2, <1>3, <1>4, <1>5 DEF Next

\* What a client asks of the PHY type and the bands is all heard.
LEMMA PhyAndBandsHeard ==
    ASSUME NEW c
    PROVE  /\ Asked(c).phyType = Heard(c).phyType /\ Asked(c).bands = Heard(c).bands
           /\ Asked(c).state = Heard(c).state
<1>1. ASSUME NEW line
      PROVE  /\ AskedOfLine(line).phyType = HeardOfLine(line).phyType
             /\ AskedOfLine(line).bands = HeardOfLine(line).bands
             /\ AskedOfLine(line).state = HeardOfLine(line).state
  <2>1. AskedOfLine(line).phyType = HeardOfLine(line).phyType
    BY DEF AskedOfLine, HeardOfLine, NothingAsked
  <2>2. AskedOfLine(line).bands = HeardOfLine(line).bands
    BY DEF AskedOfLine, HeardOfLine, NothingAsked
  <2>3. AskedOfLine(line).state = HeardOfLine(line).state
    BY DEF AskedOfLine, HeardOfLine, NothingAsked
  <2> QED  BY <2>1, <2>2, <2>3
<1>2. ASSUME NEW request
      PROVE  /\ AskedOfRequest(request).phyType = HeardOfRequest(request).phyType
             /\ AskedOfRequest(request).bands = HeardOfRequest(request).bands
             /\ AskedOfRequest(request).state = HeardOfRequest(request).state
  <2> DEFINE Or(field, none) == IF field \in DOMAIN request THEN request[field] ELSE none
             Said(a) ==
                 /\ a.phyType = IF Means(PhyNames, Or("phyType", "")) THEN <<request.phyType>>
                                ELSE <<>>
                 /\ a.bands = Or("bands", <<>>)
                 /\ a.state = CASE request.api = "WifiAccessPointEnable" -> <<"ENABLED">>
                                [] request.api = "WifiAccessPointDisable" -> <<"DISABLED">>
                                [] OTHER -> <<>>
  <2>1. Said(AskedOfRequest(request))
    BY DEF AskedOfRequest, NothingAsked
  <2>2. Said(HeardOfRequest(request))
    BY DEF HeardOfRequest, NothingAsked
  <2> QED  BY <2>1, <2>2
<1> QED  BY <1>1, <1>2 DEF Asked, Heard

\* It is what the property is about.
LEMMA AcceptImplies == AcceptInv => AdvertisedIsAccepted
<1> SUFFICES ASSUME AcceptInv, last.client # "none", told # NoAnswer,
                    last.code \in {Succeeded, NotSupported}, last.host = told.host,
                    NEW item \in ShowsAccessPoints(told.answer, FALSE), item.id = IdOf(last)
             PROVE  (last.code = Succeeded) =
                      /\ ThingsOf(PhyNames, ToSet(Asked(last).phyType))
                           \subseteq ThingsOf(PhyNames, item.text.phyTypes)
                      /\ ThingsOf(BandNames, ToSet(Asked(last).bands))
                           \subseteq ThingsOf(BandNames, item.text.bands)
  BY DEF AdvertisedIsAccepted, IdOf, ThingsOf
<1> DEFINE asked == Heard(last)
           cap == GetCapabilities(Wiphy(last.host, IdOf(last)))
           reported == cap.capabilities[1]
<1>1. PICK p \in told.answer.accessPoints :
          /\ item.id = p.accessPointId
          /\ item.text = NetRemoteAccessPointCapabilitiesToStringBrief(p.capabilities)
  BY DEF ShowsAccessPoints, NetRemoteAccessPointCapabilitiesToString
<1>2. cap.status = "Succeeded" /\ p.capabilities = ToDot11AccessPointCapabilities(reported)
  BY <1>1 DEF AcceptInv, ToldInv
<1>3. /\ item.text.phyTypes = p.capabilities.phyTypes
      /\ item.text.bands = {Dot11FrequencyBandToString(b) : b \in p.capabilities.frequencyBands}
  BY <1>1 DEF NetRemoteAccessPointCapabilitiesToStringBrief
<1>4. /\ item.text.phyTypes = {ToDot11PhyType(q) : q \in reported.PhyTypes}
      /\ item.text.bands = {Dot11FrequencyBandToString(ToDot11FrequencyBand(b)) :
                              b \in reported.FrequencyBands}
  <2> HIDE DEF reported
  <2>1. /\ p.capabilities.phyTypes = {ToDot11PhyType(q) : q \in reported.PhyTypes}
        /\ p.capabilities.frequencyBands = {ToDot11FrequencyBand(b) : b \in reported.FrequencyBands}
    BY <1>2 DEF ToDot11AccessPointCapabilities
  <2> QED  BY <1>3, <2>1
<1>5. \/ /\ last.code = Succeeded /\ ThingsOf(PhyNames, ToSet(asked.phyType)) = {}
         /\ ThingsOf(BandNames, ToSet(asked.bands)) = {}
      \/ (last.code = Succeeded) = Agreed(asked, reported)
  BY <1>2 DEF AcceptInv, Decided
<1> HIDE DEF asked, reported
<1>6. (last.code = Succeeded) =
                      /\ ThingsOf(PhyNames, ToSet(asked.phyType))
                           \subseteq ThingsOf(PhyNames, item.text.phyTypes)
                      /\ ThingsOf(BandNames, ToSet(asked.bands))
                           \subseteq ThingsOf(BandNames, item.text.bands)
  BY <1>4, <1>5 DEF Agreed
<1>7. asked.phyType = Asked(last).phyType /\ asked.bands = Asked(last).bands
  BY PhyAndBandsHeard DEF asked
<1> QED  BY <1>6, <1>7

\* WifiAccessPointSetPhyTypeImpl, WifiAccessPointSetFrequencyBandsImpl and the client's
\* parser: whatever the radios report and whatever is asked for, in the words of the
\* command line or of the API, a change is refused as not supported exactly if it asks
\* for a PHY type or a band that the client was not shown on the same host.
THEOREM ShownIsAccepted == Spec => []AdvertisedIsAccepted
<1>1. Init => AcceptInv
  BY AcceptInit
<1>2. AcceptInv /\ [Next]_vars => AcceptInv'
  BY AcceptStep
<1> QED  BY <1>1, <1>2, AcceptImplies, PTL DEF Spec

-----------------------------------------------------------------------------
(* What lists of commands make of a configuration *)

\* The property of the configuration that a SET of the name writes.
Property(name) ==
    CASE name \in {"wpa_psk", "wpa_passphrase"} -> "psk"
      [] name \in {"auth_server_addr", "auth_server_shared_secret", "auth_server_port"} ->
            "auth_servers"
      [] name \in {"acct_server_addr", "acct_server_shared_secret", "acct_server_port"} ->
            "acct_servers"
      [] OTHER -> name

\* The commands that write no property.
Orders == {"refuse", "throw", "confirm", "read", "ENABLE", "DISABLE", "QUERY", "RELOAD"}

\* The command writes the property p.
Sets(c, p) == c.do \notin Orders /\ Property(c.name) = p

\* Those that switch the interface.
Switches == {"ENABLE", "DISABLE"}

\* The commands switch nothing and write no property outside P.
Within(s, P) ==
    /\ IsList(s)
    /\ \A c \in ToSet(s) :
          c.do \notin Switches /\ (c.do \notin Orders => Property(c.name) \in P)

\* The properties a SET adds to instead of replacing.
Adding == {"sae_password", "auth_servers", "acct_servers"}

\* What a SET of the name stores for the value.
Value(name, value) ==
    IF name \in {"wpa_psk", "wpa_passphrase"} THEN <<name, value>> ELSE <<value>>

\* And what the command c does.
Stored(c) == Value(c.name, c.value)

\* hostapd becomes x from h by the commands s, of which it answers some.
Ran(h, s, x) == Typed(h) /\ IsList(s) /\ \E k \in Int : x = Exec(h, s, k)

\* And none of them failed.
Done(h, s, x) == Ran(h, s, x) /\ x.status = "Succeeded"

\* A SET replaces one property and leaves the others.
LEMMA AssignKeeps ==
    ASSUME NEW conf, conf = [name \in PropertyNames |-> conf[name]], NEW name, NEW value,
           NEW p \in PropertyNames, NEW new, new = Assign(conf, name, value)
    PROVE  /\ p # Property(name) => new[p] = conf[p]
           /\ p = Property(name) /\ p \notin Adding =>
                  new[p] = Value(name, value)
<1>1. CASE name \in {"wpa_psk", "wpa_passphrase"}
  BY <1>1 DEF Assign, Property, PropertyNames, Adding, Value
<1>2. CASE name \in {"auth_server_addr", "auth_server_shared_secret", "auth_server_port"}
  <2>1. Property(name) = "auth_servers"
    BY <1>2 DEF Property
  <2>2. \E v : Assign(conf, name, value) = [conf EXCEPT !["auth_servers"] = v]
    <3>1. CASE name = "auth_server_addr"
      BY <3>1 DEF Assign
    <3>2. CASE name = "auth_server_shared_secret"
      BY <3>2 DEF Assign
    <3>3. CASE name = "auth_server_port"
      BY <3>3 DEF Assign
    <3> QED  BY <1>2, <3>1, <3>2, <3>3
  <2>3. \A q : q # "auth_servers" /\ q \in PropertyNames => Assign(conf, name, value)[q] = conf[q]
    BY <2>2
  <2> QED  BY <2>1, <2>3 DEF Adding
<1>3. CASE name \in {"acct_server_addr", "acct_server_shared_secret", "acct_server_port"}
  <2>1. Property(name) = "acct_servers"
    BY <1>3 DEF Property
  <2>2. \E v : Assign(conf, name, value) = [conf EXCEPT !["acct_servers"] = v]
    <3>1. CASE name = "acct_server_addr"
      BY <3>1 DEF Assign
    <3>2. CASE name = "acct_server_shared_secret"
      BY <3>2 DEF Assign
    <3>3. CASE name = "acct_server_port"
      BY <3>3 DEF Assign
    <3> QED  BY <1>3, <3>1, <3>2, <3>3
  <2>3. \A q : q # "acct_servers" /\ q \in PropertyNames => Assign(conf, name, value)[q] = conf[q]
    BY <2>2
  <2> QED  BY <2>1, <2>3 DEF Adding
<1>4. CASE name = "sae_password"
  BY <1>4 DEF Assign, Property, PropertyNames, Adding
<1>5. CASE name \notin {"wpa_psk", "wpa_passphrase", "sae_password",
                        "auth_server_addr", "auth_server_shared_secret", "auth_server_port",
                        "acct_server_addr", "acct_server_shared_secret", "acct_server_port"}
  <2>1. Assign(conf, name, value) = [conf EXCEPT ![name] = <<value>>] /\ Property(name) = name
    BY <1>5 DEF Assign, Property
  <2> QED  BY <1>5, <2>1 DEF PropertyNames, Value
<1>6. \/ name \in {"wpa_psk", "wpa_passphrase"}
      \/ name \in {"auth_server_addr", "auth_server_shared_secret", "auth_server_port"}
      \/ name \in {"acct_server_addr", "acct_server_shared_secret", "acct_server_port"}
      \/ name = "sae_password"
      \/ name \notin {"wpa_psk", "wpa_passphrase", "sae_password",
                       "auth_server_addr", "auth_server_shared_secret", "auth_server_port",
                       "acct_server_addr", "acct_server_shared_secret", "acct_server_port"}
  OBVIOUS
<1> DEFINE Goal == /\ p # Property(name) => new[p] = conf[p]
                   /\ p = Property(name) /\ p \notin Adding =>
                          new[p] = Value(name, value)
<1>7. Goal
  <2>1. name \in {"wpa_psk", "wpa_passphrase"} => Goal
    BY <1>1
  <2>2. name \in {"auth_server_addr", "auth_server_shared_secret", "auth_server_port"} => Goal
    BY <1>2
  <2>3. name \in {"acct_server_addr", "acct_server_shared_secret", "acct_server_port"} => Goal
    BY <1>3
  <2>4. name = "sae_password" => Goal
    BY <1>4
  <2>5. name \notin {"wpa_psk", "wpa_passphrase", "sae_password",
                     "auth_server_addr", "auth_server_shared_secret", "auth_server_port",
                     "acct_server_addr", "acct_server_shared_secret", "acct_server_port"} => Goal
    BY <1>5
  <2> HIDE DEF Goal
  <2> QED  BY <1>6, <2>1, <2>2, <2>3, <2>4, <2>5, Zenon
<1> QED  BY <1>7


\* A command that writes no property leaves the written configuration.
LEMMA StepOrders ==
    ASSUME NEW x, Typed(x), NEW c, NEW b \in BOOLEAN, NEW y, y = Step(x, c, b)
    PROVE  /\ x.status # "Succeeded" => y = x
           /\ c.do \in Orders => y.conf = x.conf /\ y.live \in {x.live, x.conf}
           /\ c.do = "RELOAD" /\ y.status = "Succeeded" => y.live = x.conf
           /\ y.status = "Succeeded" => x.status = "Succeeded" /\ ~Stops(c)
<1>1. x.status # "Succeeded" => y = x
  BY DEF Step
<1>3. c.do \in Orders => y.conf = x.conf /\ y.live \in {x.live, x.conf}
  BY DEF Step, Typed, Orders
<1>4. c.do = "RELOAD" /\ y.status = "Succeeded" => y.live = x.conf
  BY DEF Step, Typed
<1>5. y.status = "Succeeded" => x.status = "Succeeded" /\ ~Stops(c)
  BY StepStatus DEF Stops
<1> QED  BY <1>1, <1>3, <1>4, <1>5

\* A SET is refused and changes nothing, or is stored.
LEMMA StepForms ==
    ASSUME NEW x, Typed(x), x.status = "Succeeded", NEW c, c.do \notin Orders,
           NEW b \in BOOLEAN, NEW y, y = Step(x, c, b),
           NEW new, new = Assign(x.conf, c.name, c.value)
    PROVE  \/ y.status = "InternalError" /\ y.conf = x.conf /\ y.live = x.live
              /\ y.state = x.state
           \/ /\ Accepts(c.name, c.value) /\ y.conf = new /\ y.status = "Succeeded"
              /\ y.state = x.state
              /\ y.live = IF c.name = "setband"
                          THEN [x.live EXCEPT !.setband = new.setband] ELSE x.live
<1> DEFINE live == IF c.name = "setband" THEN [x.live EXCEPT !.setband = new.setband] ELSE x.live
           Failed == /\ y.status = "InternalError" /\ y.conf = x.conf /\ y.live = x.live
                     /\ y.state = x.state
           Written1 == /\ Accepts(c.name, c.value) /\ y.conf = new /\ y.status = "Succeeded"
                       /\ y.state = x.state /\ y.live = live
<1>2. Failed \/ Written1
  <2>1. CASE y = [x EXCEPT !.status = "InternalError"]
    <3>1. y = [status |-> "InternalError", conf |-> x.conf, live |-> x.live, state |-> x.state]
      BY <2>1 DEF Typed
    <3> QED  BY <3>1
  <2>2. CASE Accepts(c.name, c.value) /\ c.name # "setband" /\ y = [x EXCEPT !.conf = new]
    <3>1. y = [status |-> "Succeeded", conf |-> new, live |-> x.live, state |-> x.state]
      BY <2>2 DEF Typed
    <3> QED  BY <2>2, <3>1
  <2>3. CASE /\ Accepts(c.name, c.value) /\ c.name = "setband"
             /\ y = [x EXCEPT !.conf = new, !.live.setband = new.setband]
    <3>1. y = [status |-> "Succeeded", conf |-> new,
               live |-> [x.live EXCEPT !.setband = new.setband], state |-> x.state]
      BY <2>3 DEF Typed
    <3> QED  BY <2>3, <3>1
  <2>4. \/ y = [x EXCEPT !.status = "InternalError"]
        \/ Accepts(c.name, c.value) /\ c.name # "setband" /\ y = [x EXCEPT !.conf = new]
        \/ /\ Accepts(c.name, c.value) /\ c.name = "setband"
           /\ y = [x EXCEPT !.conf = new, !.live.setband = new.setband]
    BY DEF Step, Orders
  <2> HIDE DEF Failed, Written1
  <2> QED  BY <2>1, <2>2, <2>3, <2>4
<1> QED  BY <1>2

\* The states of hostapd on the way from h to x.
LEMMA Trace ==
    ASSUME NEW h, NEW s, NEW x, Ran(h, s, x)
    PROVE  /\ Len(s) \in Nat /\ DOMAIN s = 1 .. Len(s)
           /\ \E f :
                  /\ f[0] = h /\ f[Len(s)] = x
                  /\ \A i \in 0 .. Len(s) : Typed(f[i])
                  /\ \A i \in 1 .. Len(s) :
                        s[i] \in ToSet(s) /\ \E b \in BOOLEAN : f[i] = Step(f[i - 1], s[i], b)
                  /\ x.status = "Succeeded" =>
                         \A i \in 0 .. Len(s) : f[i].status = "Succeeded"
<1>1. Typed(h) /\ IsList(s)
  BY DEF Ran
<1>2. PICK k \in Int : x = Exec(h, s, k)
  BY DEF Ran
<1>3. Len(s) \in Nat /\ DOMAIN s = 1 .. Len(s)
  BY <1>1, Lists
<1>4. PICK f : Steps(f, h, s, k, Len(s)) /\ x = f[Len(s)]
  BY <1>1, <1>2, Executes
<1>5. f[0] = h /\ \A i \in 1 .. Len(s) : f[i] = Step(f[i - 1], s[i], i <= k)
  BY <1>3, <1>4 DEF Steps
<1>6. \A i \in 1 .. Len(s) :
          s[i] \in ToSet(s) /\ \E b \in BOOLEAN : f[i] = Step(f[i - 1], s[i], b)
  <2>1. \A i \in 1 .. Len(s) : (i <= k) \in BOOLEAN /\ s[i] \in ToSet(s)
    BY <1>3 DEF ToSet
  <2> QED  BY <1>5, <2>1
<1> DEFINE S == {i \in 0 .. Len(s) : Typed(f[i])}
<1>7. \A i \in 0 .. Len(s) : i \in S
  <2>1. 0 \in S
    BY <1>1, <1>3, <1>5
  <2>2. ASSUME NEW i \in 0 .. Len(s) - 1, i \in S PROVE i + 1 \in S
    <3> DEFINE l == i + 1
    <3>1. l \in 1 .. Len(s) /\ l \in 0 .. Len(s) /\ l - 1 = i
      BY <1>3
    <3> HIDE DEF l
    <3>2. PICK b \in BOOLEAN : f[l] = Step(f[i], s[l], b)
      BY <1>6, <3>1
    <3>3. Typed(f[l])
      BY <2>2, <3>2, StepTyped
    <3>4. l \in S
      BY <3>1, <3>3
    <3> QED  BY <3>4 DEF l
  <2> HIDE DEF S
  <2> QED  BY <1>3, <2>1, <2>2, Induction
<1>8. ASSUME x.status = "Succeeded", NEW j \in 0 .. Len(s), f[j].status # "Succeeded"
      PROVE  FALSE
  <2> DEFINE T == {i \in 0 .. Len(s) : i < j \/ f[i].status # "Succeeded"}
  <2>1. 0 \in T
    BY <1>3, <1>8
  <2>2. ASSUME NEW i \in 0 .. Len(s) - 1, i \in T PROVE i + 1 \in T
    <3> DEFINE l == i + 1
    <3>1. l \in 1 .. Len(s) /\ l \in 0 .. Len(s) /\ l - 1 = i
      BY <1>3
    <3>2. i < j => l < j \/ l = j
      BY <1>3, <1>8
    <3> HIDE DEF l
    <3>3. f[i].status # "Succeeded" => f[l] = f[i]
      <4>1. Typed(f[i])
        BY <1>7
      <4>2. PICK b \in BOOLEAN : f[l] = Step(f[i], s[l], b)
        BY <1>6, <3>1
      <4> QED  BY <4>1, <4>2, StepOrders
    <3>4. l \in T
      BY <1>8, <2>2, <3>1, <3>2, <3>3
    <3> QED  BY <3>4 DEF l
  <2>3. \A i \in 0 .. Len(s) : i \in T
    <3> HIDE DEF T
    <3> QED  BY <1>3, <2>1, <2>2, Induction
  <2>4. Len(s) \in 0 .. Len(s) /\ ~ Len(s) < j
    BY <1>3, <1>8
  <2> QED  BY <1>4, <1>8, <2>3, <2>4
<1>9. \A i \in 0 .. Len(s) : Typed(f[i])
  BY <1>7
<1> HIDE DEF S
<1> QED  BY <1>3, <1>4, <1>5, <1>6, <1>8, <1>9

\* The form of hostapd's record is kept, and a request that has failed does nothing more.
LEMMA RanTyped ==
    ASSUME NEW h, NEW s, NEW x, Ran(h, s, x)
    PROVE  Typed(h) /\ Typed(x) /\ IsList(s) /\ (h.status # "Succeeded" => x = h)
<1>1. Typed(h) /\ IsList(s) /\ \E k \in Int : x = Exec(h, s, k)
  BY DEF Ran
<1>2. Typed(x)
  BY <1>1, ExecTyped
<1>3. PICK f :
          /\ f[0] = h /\ f[Len(s)] = x
          /\ \A i \in 0 .. Len(s) : Typed(f[i])
          /\ \A i \in 1 .. Len(s) :
                s[i] \in ToSet(s) /\ \E b \in BOOLEAN : f[i] = Step(f[i - 1], s[i], b)
  BY Trace
<1>4. Len(s) \in Nat
  BY Trace
<1>5. ASSUME h.status # "Succeeded" PROVE x = h
  <2> DEFINE S == {i \in 0 .. Len(s) : f[i] = h}
  <2>1. 0 \in S
    BY <1>3, <1>4
  <2>2. ASSUME NEW i \in 0 .. Len(s) - 1, i \in S PROVE i + 1 \in S
    <3> DEFINE l == i + 1
    <3>1. l \in 1 .. Len(s) /\ l \in 0 .. Len(s) /\ l - 1 = i
      BY <1>4
    <3> HIDE DEF l
    <3>2. PICK b \in BOOLEAN : f[l] = Step(f[i], s[l], b)
      BY <1>3, <3>1
    <3>3. f[l] = f[i]
      BY <1>1, <1>5, <2>2, <3>2, StepStatus
    <3>4. l \in S
      BY <2>2, <3>1, <3>3
    <3> QED  BY <3>4 DEF l
  <2>3. Len(s) \in S
    <3>1. Len(s) \in 0 .. Len(s)
      BY <1>4
    <3> HIDE DEF S
    <3> QED  BY <1>4, <2>1, <2>2, <3>1, Induction
  <2> QED  BY <1>3, <2>3
<1> QED  BY <1>1, <1>2, <1>5

\* What ran a sequence ran its parts, one after the other.
LEMMA RanConcatenation ==
    ASSUME NEW h, NEW s, NEW t, IsList(s), IsList(t), NEW x
    PROVE  /\ Ran(h, s \o t, x) => \E y : Ran(h, s, y) /\ Ran(y, t, x)
           /\ Done(h, s \o t, x) => \E y : Done(h, s, y) /\ Done(y, t, x)
<1>1. ASSUME Ran(h, s \o t, x) PROVE \E y : Ran(h, s, y) /\ Ran(y, t, x)
  <2>1. Typed(h)
    BY <1>1 DEF Ran
  <2>2. PICK k \in Int : x = Exec(h, s \o t, k)
    BY <1>1 DEF Ran
  <2> DEFINE y == Exec(h, s, k)
  <2>3. x = Exec(y, t, k - Len(s)) /\ k - Len(s) \in Int
    BY <2>2, ExecConcatenation, Lists
  <2>4. Typed(y)
    BY <2>1, ExecTyped
  <2>5. Ran(h, s, y)
    BY <2>1 DEF Ran
  <2> HIDE DEF y
  <2>6. Ran(y, t, x)
    BY <2>3, <2>4 DEF Ran
  <2> QED  BY <2>5, <2>6
<1>2. ASSUME Done(h, s \o t, x) PROVE \E y : Done(h, s, y) /\ Done(y, t, x)
  <2>1. PICK y : Ran(h, s, y) /\ Ran(y, t, x)
    BY <1>1, <1>2 DEF Done
  <2>2. y.status = "Succeeded"
    BY <1>2, <2>1, RanTyped DEF Done
  <2> QED  BY <1>2, <2>1, <2>2 DEF Done
<1> QED  BY <1>1, <1>2

\* No command, and one.
LEMMA DoneSmall ==
    ASSUME NEW h, NEW c, NEW x
    PROVE  /\ Ran(h, <<>>, x) => x = h
           /\ Ran(h, <<c>>, x) => \E b \in BOOLEAN : x = Step(h, c, b)
           /\ Done(h, <<c>>, x) => h.status = "Succeeded" /\ ~Stops(c)
<1>1. Ran(h, <<>>, x) => x = h
  BY ExecOne DEF Ran
<1>2. ASSUME Ran(h, <<c>>, x) PROVE Typed(h) /\ \E b \in BOOLEAN : x = Step(h, c, b)
  <2>1. PICK k \in Int : x = Exec(h, <<c>>, k)
    BY <1>2 DEF Ran
  <2>2. x = Step(h, c, 1 <= k) /\ (1 <= k) \in BOOLEAN
    BY <2>1, ExecOne
  <2> QED  BY <1>2, <2>2 DEF Ran
<1>3. Done(h, <<c>>, x) => h.status = "Succeeded" /\ ~Stops(c)
  <2> SUFFICES ASSUME Done(h, <<c>>, x) PROVE h.status = "Succeeded" /\ ~Stops(c)
    OBVIOUS
  <2>1. PICK b \in BOOLEAN : x = Step(h, c, b)
    BY <1>2 DEF Done
  <2>2. Typed(h) /\ x.status = "Succeeded"
    BY <1>2 DEF Done
  <2> QED  BY <2>1, <2>2, StepOrders
<1> QED  BY <1>1, <1>2, <1>3

\* What was done held nothing that ends a request.
LEMMA DonePasses ==
    ASSUME NEW h, NEW s, NEW x, Done(h, s, x)
    PROVE  Passes(s) /\ h.status = "Succeeded"
<1>1. Typed(h) /\ IsList(s) /\ x.status = "Succeeded" /\ h.status = "Succeeded"
  BY RanTyped DEF Done
<1>2. PICK k \in Int : x = Exec(h, s, k)
  BY DEF Done, Ran
<1>3. Exec(h, s, k).status = "Succeeded" => Passes(s)
  BY <1>1, Outcome
<1> QED  BY <1>1, <1>2, <1>3

\* A property that no command sets stays; what is in force of it is as before, or as
\* written.
LEMMA RanKeeps ==
    ASSUME NEW h, NEW s, NEW x, Ran(h, s, x), NEW p \in PropertyNames,
           \A c \in ToSet(s) : ~Sets(c, p)
    PROVE  x.conf[p] = h.conf[p] /\ x.live[p] \in {h.live[p], h.conf[p]}
<1>1. PICK f :
          /\ f[0] = h /\ f[Len(s)] = x
          /\ \A i \in 0 .. Len(s) : Typed(f[i])
          /\ \A i \in 1 .. Len(s) :
                s[i] \in ToSet(s) /\ \E b \in BOOLEAN : f[i] = Step(f[i - 1], s[i], b)
  BY Trace
<1>2. Len(s) \in Nat
  BY Trace
<1> DEFINE S == {i \in 0 .. Len(s) : /\ f[i].conf[p] = h.conf[p]
                                     /\ f[i].live[p] \in {h.live[p], h.conf[p]}}
<1>3. 0 \in S
  BY <1>1, <1>2
<1>4. ASSUME NEW i \in 0 .. Len(s) - 1, i \in S PROVE i + 1 \in S
  <2> DEFINE l == i + 1
             new == Assign(f[i].conf, s[l].name, s[l].value)
  <2>1. l \in 1 .. Len(s) /\ l \in 0 .. Len(s) /\ l - 1 = i
    BY <1>2
  <2> HIDE DEF l
  <2>2. Typed(f[i]) /\ ~Sets(s[l], p)
    BY <1>1, <2>1
  <2>2a. PICK b \in BOOLEAN : f[l] = Step(f[i], s[l], b)
    BY <1>1, <2>1
  <2>3. f[i].conf = [name \in PropertyNames |-> f[i].conf[name]]
        /\ f[i].live = [name \in PropertyNames |-> f[i].live[name]]
    BY <2>2 DEF Typed
  <2>4. /\ f[l].conf[p] = f[i].conf[p]
        /\ f[l].live[p] \in {f[i].live[p], f[i].conf[p]}
    <3>0. new = Assign(f[i].conf, s[l].name, s[l].value)
      OBVIOUS
    <3> HIDE DEF new
    <3>1. CASE f[i].status # "Succeeded"
      <4>1. f[l] = f[i]
        BY <2>2, <2>2a, <3>1, StepOrders
      <4> QED  BY <4>1
    <3>2. CASE s[l].do \in Orders
      <4>1. f[l].conf = f[i].conf /\ f[l].live \in {f[i].live, f[i].conf}
        BY <2>2, <2>2a, <3>2, StepOrders
      <4> QED  BY <4>1
    <3>3. CASE f[i].status = "Succeeded" /\ s[l].do \notin Orders
      <4>1. Property(s[l].name) # p
        BY <2>2, <3>3 DEF Sets
      <4>2. new[p] = f[i].conf[p]
        BY <2>3, <3>0, <4>1, AssignKeeps
      <4>3. \/ f[l].conf = f[i].conf /\ f[l].live = f[i].live
            \/ f[l].conf = new /\ f[l].live =
                  IF s[l].name = "setband" THEN [f[i].live EXCEPT !.setband = new.setband]
                  ELSE f[i].live
        <5>1. \/ /\ f[l].status = "InternalError" /\ f[l].conf = f[i].conf
                 /\ f[l].live = f[i].live /\ f[l].state = f[i].state
              \/ /\ Accepts(s[l].name, s[l].value) /\ f[l].conf = new
                 /\ f[l].status = "Succeeded" /\ f[l].state = f[i].state
                 /\ f[l].live = IF s[l].name = "setband"
                                THEN [f[i].live EXCEPT !.setband = new.setband] ELSE f[i].live
          BY <2>2, <2>2a, <3>0, <3>3, StepForms
        <5> QED  BY <5>1
      <4>4. s[l].name = "setband" => p # "setband"
        BY <4>1 DEF Property
      <4> QED  BY <2>3, <4>2, <4>3, <4>4
    <3> QED  BY <3>1, <3>2, <3>3
  <2>5. l \in S
    <3> HIDE DEF new
    <3> QED  BY <1>4, <2>1, <2>4
  <2> QED  BY <2>5 DEF l
<1>5. Len(s) \in S
  <2>1. Len(s) \in 0 .. Len(s)
    BY <1>2
  <2> HIDE DEF S
  <2> QED  BY <1>2, <1>3, <1>4, <2>1, Induction
<1> QED  BY <1>1, <1>5

\* Of the commands that set a property the last counts.
LEMMA DoneSets ==
    ASSUME NEW h, NEW s, NEW x, Done(h, s, x), NEW p \in PropertyNames, p \notin Adding,
           NEW c0 \in ToSet(s), Sets(c0, p)
    PROVE  \E c \in ToSet(s) :
               /\ Sets(c, p) /\ Accepts(c.name, c.value) /\ x.conf[p] = Stored(c)
               /\ p = "setband" => x.live[p] = x.conf[p]
<1>0. Ran(h, s, x) /\ x.status = "Succeeded"
  BY DEF Done
<1>1. PICK f :
          /\ f[0] = h /\ f[Len(s)] = x
          /\ \A i \in 0 .. Len(s) : Typed(f[i])
          /\ \A i \in 1 .. Len(s) :
                s[i] \in ToSet(s) /\ \E b \in BOOLEAN : f[i] = Step(f[i - 1], s[i], b)
          /\ x.status = "Succeeded" => \A i \in 0 .. Len(s) : f[i].status = "Succeeded"
  BY <1>0, Trace
<1>2. Len(s) \in Nat /\ DOMAIN s = 1 .. Len(s)
  BY <1>0, Trace
<1> DEFINE SetLast(i) == \E c \in ToSet(s) :
                          /\ Sets(c, p) /\ Accepts(c.name, c.value) /\ f[i].conf[p] = Stored(c)
                          /\ p = "setband" => f[i].live[p] = f[i].conf[p]
           S == {i \in 0 .. Len(s) : (\E j \in 1 .. i : Sets(s[j], p)) => SetLast(i)}
<1>3. 0 \in S
  BY <1>2
<1>4. ASSUME NEW i \in 0 .. Len(s) - 1, i \in S PROVE i + 1 \in S
  <2> DEFINE l == i + 1
             c == s[l]
             new == Assign(f[i].conf, c.name, c.value)
  <2>1. l \in 1 .. Len(s) /\ l \in 0 .. Len(s) /\ l - 1 = i
        /\ \A j \in 1 .. l : j \in 1 .. i \/ j = l
    BY <1>2
  <2> HIDE DEF l
  <2>2. Typed(f[i]) /\ f[i].status = "Succeeded" /\ f[l].status = "Succeeded" /\ c \in ToSet(s)
    BY <1>0, <1>1, <1>2, <2>1
  <2>3. PICK b \in BOOLEAN : f[l] = Step(f[i], c, b)
    BY <1>1, <2>1
  <2>4. f[i].conf = [name \in PropertyNames |-> f[i].conf[name]]
        /\ f[i].live = [name \in PropertyNames |-> f[i].live[name]]
    BY <2>2 DEF Typed
  <2>5. \A j \in 1 .. l : Sets(s[j], p) => (\E m \in 1 .. i : Sets(s[m], p)) \/ Sets(c, p)
    BY <2>1
  <2> HIDE DEF c
  <2>6. new = Assign(f[i].conf, c.name, c.value)
    OBVIOUS
  <2> HIDE DEF new
  <2>7. c.do \notin Orders =>
            /\ Accepts(c.name, c.value) /\ f[l].conf = new
            /\ f[l].live = IF c.name = "setband"
                           THEN [f[i].live EXCEPT !.setband = new.setband] ELSE f[i].live
    BY <2>2, <2>3, <2>6, StepForms
  <2>8. c.do \in Orders => f[l].conf = f[i].conf /\ f[l].live \in {f[i].live, f[i].conf}
    BY <2>2, <2>3, StepOrders
  <2>9. CASE Sets(c, p)
    <3>1. c.do \notin Orders /\ Property(c.name) = p
      BY <2>9 DEF Sets
    <3>2. new[p] = Value(c.name, c.value)
      BY <2>4, <2>6, <3>1, AssignKeeps
    <3>3. f[l].conf[p] = Stored(c)
      BY <2>7, <3>1, <3>2 DEF Stored
    <3>4. p = "setband" => f[l].live[p] = f[l].conf[p]
      <4>1. p = "setband" => c.name = "setband"
        BY <3>1 DEF Property
      <4>2. "setband" \in PropertyNames
        BY DEF PropertyNames
      <4> QED  BY <2>4, <2>7, <3>1, <4>1, <4>2
    <3>5. SetLast(l)
      BY <2>2, <2>7, <2>9, <3>1, <3>3, <3>4
    <3>6. l \in S
      <4> HIDE DEF SetLast
      <4> QED  BY <2>1, <3>5
    <3> QED  BY <3>6 DEF l
  <2>10. CASE ~Sets(c, p)
    <3>1. c.do \notin Orders => Property(c.name) # p
      BY <2>10 DEF Sets
    <3>2. c.do \notin Orders => new[p] = f[i].conf[p] /\ (c.name = "setband" => p # "setband")
      <4>1. c.do \notin Orders => new[p] = f[i].conf[p]
        BY <2>4, <2>6, <3>1, AssignKeeps
      <4> QED  BY <3>1, <4>1 DEF Property
    <3>3. f[l].conf[p] = f[i].conf[p]
      BY <2>7, <2>8, <3>2
    <3>4. f[l].live[p] \in {f[i].live[p], f[i].conf[p]}
      BY <2>4, <2>7, <2>8, <3>2
    <3>5. SetLast(i) => SetLast(l)
      BY <3>3, <3>4
    <3>6. (\E j \in 1 .. l : Sets(s[j], p)) => SetLast(l)
      <4> HIDE DEF SetLast
      <4> QED  BY <1>4, <2>5, <2>10, <3>5
    <3>7. l \in S
      <4> HIDE DEF SetLast
      <4> QED  BY <2>1, <3>6
    <3> QED  BY <3>7 DEF l
  <2> QED  BY <2>9, <2>10
<1>5. Len(s) \in S
  <2>1. Len(s) \in 0 .. Len(s)
    BY <1>2
  <2> HIDE DEF S
  <2> QED  BY <1>2, <1>3, <1>4, <2>1, Induction
<1>6. PICK j \in 1 .. Len(s) : c0 = s[j]
  BY <1>2 DEF ToSet
<1>7. SetLast(Len(s))
  <2> HIDE DEF SetLast
  <2> QED  BY <1>5, <1>6
<1> QED  BY <1>1, <1>7

\* What a reload puts in force.
LEMMA DoneReload ==
    ASSUME NEW h, NEW x, Done(h, Reload, x)
    PROVE  x.live = x.conf /\ x.conf = h.conf
<1> DEFINE c == [do |-> "RELOAD"]
<1>1. Typed(h) /\ Typed(x) /\ x.status = "Succeeded"
  BY RanTyped DEF Done
<1>2. c.do = "RELOAD" /\ Done(h, <<c>>, x)
  BY DEF Reload
<1> HIDE DEF c
<1>3. PICK b \in BOOLEAN : x = Step(h, c, b)
  BY <1>2, DoneSmall DEF Done
<1>4. c.do \in Orders
  BY <1>2 DEF Orders
<1>5. x.live = h.conf
  BY <1>1, <1>2, <1>3, StepOrders
<1>6. x.conf = h.conf
  BY <1>1, <1>3, <1>4, StepOrders
<1> QED  BY <1>5, <1>6

\* Commands that write nothing.
LEMMA RanWithin ==
    ASSUME NEW h, NEW s, NEW x, Ran(h, s, x), Within(s, {})
    PROVE  x.conf = h.conf /\ (h.live = h.conf => x.live = x.conf)
<1>1. \A p : \A c \in ToSet(s) : ~Sets(c, p)
  BY DEF Sets, Within
<1>2. \A p \in PropertyNames : x.conf[p] = h.conf[p] /\ x.live[p] \in {h.live[p], h.conf[p]}
  BY <1>1, RanKeeps
<1>3. /\ h.conf = [p \in PropertyNames |-> h.conf[p]]
      /\ h.live = [p \in PropertyNames |-> h.live[p]]
      /\ x.conf = [p \in PropertyNames |-> x.conf[p]]
      /\ x.live = [p \in PropertyNames |-> x.live[p]]
  <2>1. Typed(h) /\ Typed(x)
    BY RanTyped
  <2> QED  BY <2>1 DEF Typed
<1>4. x.conf = h.conf
  BY <1>2, <1>3
<1>5. h.live = h.conf => \A p \in PropertyNames : x.live[p] = x.conf[p]
  BY <1>2
<1>6. h.live = h.conf => x.live = x.conf
  BY <1>3, <1>5
<1> QED  BY <1>4, <1>6

\* After a reload that nothing but orders follows, the live configuration is the written one.
LEMMA DoneReloaded ==
    ASSUME NEW h, NEW t, IsList(t), NEW x, Done(h, t \o Reload, x)
    PROVE  x.live = x.conf
<1>1. IsList(Reload)
  BY ExecOne DEF Reload
<1> QED  BY <1>1, DoneReload, RanConcatenation

\* The checks come first.
LEMMA DoneChecked ==
    ASSUME NEW h, NEW s, Within(s, {}), NEW t, IsList(t), NEW x, Done(h, s \o t, x)
    PROVE  Passes(s) /\ \E y : Done(y, t, x) /\ y.conf = h.conf
<1>1. IsList(s)
  BY DEF Within
<1>2. PICK y : Done(h, s, y) /\ Done(y, t, x)
  BY <1>1, RanConcatenation
<1>3. Passes(s) /\ y.conf = h.conf
  BY <1>2, DonePasses, RanWithin DEF Done
<1> QED  BY <1>2, <1>3

\* A property that is set to one value only.
LEMMA DoneValue ==
    ASSUME NEW h, NEW s, NEW x, Done(h, s, x), NEW p \in PropertyNames, p \notin Adding,
           NEW c \in ToSet(s), Sets(c, p), NEW value,
           \A d \in ToSet(s) : Sets(d, p) => Stored(d) = value
    PROVE  x.conf[p] = value
BY DoneSets

\* The states between the parts of a request.
Chained(st, ss) == \A i \in 1 .. Len(ss) : Ran(st[i - 1], ss[i], st[i])

\* A list of states from one to another, with the parts between them.
Through(st, ss, h, x) ==
    /\ st[0] = h /\ st[Len(ss)] = x /\ Chained(st, ss)
    /\ x.status = "Succeeded" => \A i \in 0 .. Len(ss) : st[i].status = "Succeeded"

\* What ran many parts is a chain of states between them.
LEMMA Chain ==
    ASSUME NEW ss, IsList(ss), \A i \in DOMAIN ss : IsList(ss[i]),
           NEW h, NEW x, Ran(h, FlattenSeq(ss), x)
    PROVE  \E st : Through(st, ss, h, x)
<1>1. Len(ss) \in Nat /\ DOMAIN ss = 1 .. Len(ss)
  BY Lists
<1>2. CASE ss = <<>>
  <2>1. Len(ss) = 0 /\ FlattenSeq(ss) = <<>>
    BY <1>2 DEF FlattenSeq
  <2>2. x = h
    BY <2>1, DoneSmall
  <2> DEFINE st == [i \in 0 .. 0 |-> h]
  <2>3. st[0] = h
    OBVIOUS
  <2> HIDE DEF st
  <2>4. Chained(st, ss) /\ \A i \in 0 .. Len(ss) : i = 0
    BY <2>1 DEF Chained
  <2>5. Through(st, ss, h, x)
    BY <2>1, <2>2, <2>3, <2>4 DEF Through
  <2> QED  BY <2>5
<1>3. CASE ss # <<>>
  <2>1. PICK f : Flattened(f, ss, Len(ss)) /\ FlattenSeq(ss) = f[Len(ss)]
    BY <1>3, FlattenSteps
  <2>2. PICK k \in Int : x = Exec(h, FlattenSeq(ss), k)
    BY DEF Ran
  <2>3. Typed(h)
    BY DEF Ran
  <2>4. Len(ss) # 0
    BY <1>1, <1>3, Lists
  <2>5. \A i \in 1 .. Len(ss) : IsList(f[i])
    <3> DEFINE S == {i \in 0 .. Len(ss) : i # 0 => IsList(f[i])}
    <3>1. 0 \in S
      BY <1>1
    <3>2. ASSUME NEW i \in 0 .. Len(ss) - 1, i \in S PROVE i + 1 \in S
      <4> DEFINE l == i + 1
      <4>1. l \in 1 .. Len(ss) /\ l \in 0 .. Len(ss) /\ l - 1 = i /\ (l = 1 <=> i = 0)
        BY <1>1
      <4> HIDE DEF l
      <4>2. f[l] = IF l = 1 THEN ss[l] ELSE f[i] \o ss[l]
        BY <2>1, <4>1 DEF Flattened
      <4>3. IsList(ss[l])
        BY <1>1, <4>1
      <4>4. IsList(f[l])
        BY <3>2, <4>1, <4>2, <4>3, Concatenation
      <4>5. l \in S
        BY <4>1, <4>4
      <4> QED  BY <4>5 DEF l
    <3>3. \A i \in 0 .. Len(ss) : i \in S
      <4> HIDE DEF S
      <4> QED  BY <1>1, <3>1, <3>2, Induction
    <3> QED  BY <1>1, <3>3
  <2> DEFINE st == [i \in 0 .. Len(ss) |-> IF i = 0 THEN h ELSE Exec(h, f[i], k)]
  <2>6. st[0] = h /\ st[Len(ss)] = x
    BY <1>1, <2>1, <2>2, <2>4
  <2>7. ASSUME NEW i \in 1 .. Len(ss) PROVE Ran(st[i - 1], ss[i], st[i])
    <3>1. IsList(ss[i]) /\ i \in 0 .. Len(ss) /\ i - 1 \in 0 .. Len(ss) /\ i # 0
          /\ (i = 1 <=> i - 1 = 0)
      BY <1>1
    <3>2. f[i] = IF i = 1 THEN ss[i] ELSE f[i - 1] \o ss[i]
      BY <2>1 DEF Flattened
    <3>3. st[i] = Exec(h, f[i], k)
      BY <3>1
    <3>4. CASE i = 1
      <4>1. st[i - 1] = h /\ st[i] = Exec(h, ss[i], k)
        BY <3>1, <3>2, <3>3, <3>4
      <4> HIDE DEF st
      <4> QED  BY <2>3, <3>1, <4>1 DEF Ran
    <3>5. CASE i # 1
      <4>1. st[i - 1] = Exec(h, f[i - 1], k) /\ i - 1 \in 1 .. Len(ss)
        BY <1>1, <3>1, <3>5
      <4>2. IsList(f[i - 1])
        BY <2>5, <4>1
      <4>3. k - Len(f[i - 1]) \in Int
        BY <4>2, Lists
      <4> HIDE DEF st
      <4>4. st[i] = Exec(st[i - 1], ss[i], k - Len(f[i - 1]))
        BY <3>1, <3>2, <3>3, <3>5, <4>1, <4>2, ExecConcatenation
      <4>5. Typed(st[i - 1])
        BY <2>3, <4>1, <4>2, ExecTyped
      <4> QED  BY <3>1, <4>3, <4>4, <4>5 DEF Ran
    <3> QED  BY <3>4, <3>5
  <2> HIDE DEF st
  <2>8. Chained(st, ss)
    BY <2>7 DEF Chained
  <2>9. ASSUME x.status = "Succeeded", NEW j \in 0 .. Len(ss), st[j].status # "Succeeded"
        PROVE  FALSE
    <3> DEFINE T == {i \in 0 .. Len(ss) : i < j \/ st[i].status # "Succeeded"}
    <3>1. 0 \in T
      BY <1>1, <2>9
    <3>2. ASSUME NEW i \in 0 .. Len(ss) - 1, i \in T PROVE i + 1 \in T
      <4> DEFINE l == i + 1
      <4>1. l \in 1 .. Len(ss) /\ l \in 0 .. Len(ss) /\ l - 1 = i
        BY <1>1
      <4>2. i < j => l < j \/ l = j
        BY <1>1, <2>9
      <4> HIDE DEF l
      <4>3. Ran(st[i], ss[l], st[l])
        BY <2>7, <4>1
      <4>4. st[i].status # "Succeeded" => st[l] = st[i]
        BY <4>3, RanTyped
      <4>5. l \in T
        BY <2>9, <3>2, <4>1, <4>2, <4>4
      <4> QED  BY <4>5 DEF l
    <3>3. \A i \in 0 .. Len(ss) : i \in T
      <4> HIDE DEF T
      <4> QED  BY <1>1, <3>1, <3>2, Induction
    <3>4. Len(ss) \in 0 .. Len(ss) /\ ~ Len(ss) < j
      BY <1>1, <2>9
    <3> QED  BY <2>6, <2>9, <3>3, <3>4
  <2>10. Through(st, ss, h, x)
    BY <2>6, <2>8, <2>9 DEF Through
  <2> QED  BY <2>10
<1> QED  BY <1>2, <1>3

\* A property that the parts between do not set.
LEMMA ChainKeeps ==
    ASSUME NEW ss, IsList(ss), NEW st, Chained(st, ss), NEW p \in PropertyNames,
           NEW i \in 0 .. Len(ss), NEW j \in i .. Len(ss),
           \A m \in i + 1 .. j : \A c \in ToSet(ss[m]) : ~Sets(c, p)
    PROVE  st[j].conf[p] = st[i].conf[p] /\ st[j].live[p] \in {st[i].live[p], st[i].conf[p]}
<1>1. Len(ss) \in Nat
  BY Lists
<1> DEFINE n == j - i
           S == {m \in 0 .. n : /\ st[i + m].conf[p] = st[i].conf[p]
                                /\ st[i + m].live[p] \in {st[i].live[p], st[i].conf[p]}}
<1>2. n \in Nat /\ i + n = j
  BY <1>1
<1>3. 0 \in S
  BY <1>1
<1>4. ASSUME NEW m \in 0 .. n - 1, m \in S PROVE m + 1 \in S
  <2> DEFINE l == i + m + 1
  <2>1. l \in 1 .. Len(ss) /\ l - 1 = i + m /\ l \in i + 1 .. j /\ m + 1 \in 0 .. n
        /\ i + (m + 1) = l
    BY <1>1
  <2> HIDE DEF l
  <2>2. Ran(st[i + m], ss[l], st[l])
    BY <2>1 DEF Chained
  <2>3. \A c \in ToSet(ss[l]) : ~Sets(c, p)
    BY <2>1
  <2>4. /\ st[l].conf[p] = st[i + m].conf[p]
        /\ st[l].live[p] \in {st[i + m].live[p], st[i + m].conf[p]}
    BY <2>2, <2>3, RanKeeps
  <2> QED  BY <1>4, <2>1, <2>4
<1>5. n \in S
  <2>1. n \in 0 .. n
    BY <1>2
  <2> HIDE DEF S, n
  <2> QED  BY <1>2, <1>3, <1>4, <2>1, Induction
<1> QED  BY <1>2, <1>5

\* What the commands of the model write.
LEMMA Commands ==
    /\ \A name, value : LET c == Set(name, value)
                        IN  /\ c.do \notin Orders /\ c.name = name /\ c.value = value
                            /\ ~Stops(c)
                            /\ \A p : Sets(c, p) <=> Property(name) = p
                            /\ Stored(c) = Value(name, value)
    /\ \A name \in PropertyNames \ {"psk"} : Property(name) = name
    /\ \A name \in PropertyNames : \A value : Value(name, value) = <<value>>
    /\ "RELOAD" \in Orders /\ "read" \in Orders /\ "throw" \in Orders /\ "refuse" \in Orders
    /\ "QUERY" \in Orders /\ "ENABLE" \in Orders /\ "DISABLE" \in Orders /\ "confirm" \in Orders
<1>1. ASSUME NEW name, NEW value
      PROVE  LET c == Set(name, value)
             IN  /\ c.do \notin Orders /\ c.name = name /\ c.value = value
                 /\ ~Stops(c)
                 /\ \A p : Sets(c, p) <=> Property(name) = p
                 /\ Stored(c) = Value(name, value)
  BY DEF Set, Orders, Stops, Sets, Stored
<1>2. \A name \in PropertyNames \ {"psk"} : Property(name) = name
  BY DEF PropertyNames, Property
<1>3. \A name \in PropertyNames : \A value : Value(name, value) = <<value>>
  BY DEF PropertyNames, Value
<1> QED  BY <1>1, <1>2, <1>3 DEF Orders

\* The same of lists.
LEMMA WithinSmall ==
    ASSUME NEW P
    PROVE  /\ Within(<<>>, P)
           /\ \A c : Within(<<c>>, P) <=> c.do \notin Switches
                                         /\ (c.do \notin Orders => Property(c.name) \in P)
           /\ \A name, value : Within(<<Set(name, value)>>, P) <=> Property(name) \in P
           /\ Within(Reload, P) /\ Within(Read, P) /\ Within(Throw, P)
           /\ \A status : Within(Refuse(status), P)
<1>1. Within(<<>>, P)
  BY Singles DEF Within
<1>2. ASSUME NEW c PROVE Within(<<c>>, P) <=> c.do \notin Switches
                                         /\ (c.do \notin Orders => Property(c.name) \in P)
  BY Singles DEF Within
<1>3. \A name, value : Within(<<Set(name, value)>>, P) <=> Property(name) \in P
  BY <1>2, Commands DEF Orders, Switches
<1>4. Within(Reload, P) /\ Within(Read, P) /\ Within(Throw, P)
  BY <1>2 DEF Reload, Read, Throw, Orders, Switches
<1>5. ASSUME NEW status PROVE Within(Refuse(status), P)
  BY <1>2 DEF Refuse, Orders, Switches
<1> QED  BY <1>1, <1>2, <1>3, <1>4, <1>5

\* Sequences within P, one after the other.
LEMMA WithinConcatenation ==
    ASSUME NEW s, NEW t, NEW P, Within(s, P), Within(t, P)
    PROVE  Within(s \o t, P)
BY Concatenation DEF Within

\* However many.
LEMMA WithinFlatten ==
    ASSUME NEW ss, IsList(ss), NEW P, \A i \in DOMAIN ss : Within(ss[i], P)
    PROVE  Within(FlattenSeq(ss), P)
<1>1. \A i \in DOMAIN ss : IsList(ss[i])
  BY DEF Within
<1>2. IsList(FlattenSeq(ss)) /\ ToSet(FlattenSeq(ss)) = UNION {ToSet(ss[i]) : i \in DOMAIN ss}
  BY <1>1, Flatten
<1> QED  BY <1>2 DEF Within

\* And within what is more than P.
LEMMA WithinMore ==
    ASSUME NEW s, NEW P, NEW Q, Within(s, P), P \subseteq Q
    PROVE  Within(s, Q)
BY DEF Within

\* The checks write nothing.
LEMMA WithinChecks ==
    /\ \A b, status : Within(RefuseIf(b, status), {})
    /\ \A accessPoint : Within(TryGetAccessPoint(accessPoint), {})
    /\ \A accessPoint : Within(TryGetAccessPointController(accessPoint), {})
    /\ \A accessPoint, capability, values : Within(Capable(accessPoint, capability, values), {})
<1>1. ASSUME NEW b, NEW status PROVE Within(RefuseIf(b, status), {})
  <2>1. Within(<<>>, {}) /\ Within(Refuse(status), {})
    BY WithinSmall
  <2> QED  BY <2>1 DEF RefuseIf
<1>2. \A accessPoint : Within(TryGetAccessPoint(accessPoint), {})
  BY <1>1 DEF TryGetAccessPoint
<1>3. ASSUME NEW accessPoint PROVE Within(TryGetAccessPointController(accessPoint), {})
  <2> DEFINE a == TryGetAccessPoint(accessPoint)
             b == RefuseIf(~accessPoint.controller, "InternalError")
  <2>1. Within(a, {}) /\ Within(b, {}) /\ TryGetAccessPointController(accessPoint) = a \o b
    BY <1>1, <1>2 DEF TryGetAccessPointController
  <2> HIDE DEF a, b
  <2> QED  BY <2>1, WithinConcatenation
<1>4. ASSUME NEW accessPoint, NEW capability, NEW values
      PROVE  Within(Capable(accessPoint, capability, values), {})
  <2> DEFINE reported == accessPoint.capabilities
             a == RefuseIf(reported.status # "Succeeded", reported.status)
             b == RefuseIf(\E capabilities \in ToSet(reported.capabilities) :
                               ~values \subseteq capabilities[capability],
                           "OperationNotSupported")
  <2>1. Within(a, {}) /\ Within(b, {}) /\ Capable(accessPoint, capability, values) = a \o b
    BY <1>1 DEF Capable
  <2> HIDE DEF a, b
  <2> QED  BY <2>1, WithinConcatenation
<1> QED  BY <1>1, <1>2, <1>3, <1>4

\* A check that has been passed.
LEMMA RefuseIfPasses ==
    \A b \in BOOLEAN : \A status : status # "Succeeded" /\ Passes(RefuseIf(b, status)) => ~b
<1> SUFFICES ASSUME NEW b \in BOOLEAN, NEW status, status # "Succeeded", b
             PROVE  ~Passes(RefuseIf(b, status))
  OBVIOUS
<1> DEFINE c == [do |-> "refuse", status |-> status]
<1>1. RefuseIf(b, status) = <<c>> /\ Stops(c)
  BY DEF RefuseIf, Refuse, Stops
<1> HIDE DEF c
<1>2. 1 \in DOMAIN <<c>> /\ <<c>>[1] = c
  OBVIOUS
<1>3. \E i \in DOMAIN RefuseIf(b, status) : Stops(RefuseIf(b, status)[i])
  BY <1>1, <1>2
<1> QED  BY <1>3 DEF Passes

\* A property that is set, and the reload that puts it in force.
LEMMA PropertySet ==
    ASSUME NEW name \in PropertyNames, name \notin Adding, name # "psk", NEW value
    PROVE  /\ SetProperty(name, value, "Now") = <<Set(name, value)>> \o Reload
           /\ SetProperty(name, value, "Defer") = <<Set(name, value)>>
           /\ IsList(SetProperty(name, value, "Now")) /\ IsList(SetProperty(name, value, "Defer"))
           /\ \A h, x : Done(h, SetProperty(name, value, "Now"), x) =>
                  /\ x.conf[name] = <<value>> /\ x.live = x.conf /\ Accepts(name, value)
           /\ \A h, x : Done(h, SetProperty(name, value, "Defer"), x) =>
                  x.conf[name] = <<value>> /\ Accepts(name, value)
           /\ Within(SetProperty(name, value, "Now"), {name})
           /\ Within(SetProperty(name, value, "Defer"), {name})
<1> DEFINE c == Set(name, value)
<1>1. SetProperty(name, value, "Now") = <<c>> \o Reload
  BY DEF SetProperty
<1>2. SetProperty(name, value, "Defer") = <<c>>
  <2>1. SetProperty(name, value, "Defer") = <<c>> \o <<>>
    BY DEF SetProperty
  <2> QED  BY <2>1
<1>3. /\ IsList(<<c>>) /\ ToSet(<<c>>) = {c} /\ IsList(Reload) /\ Sets(c, name)
      /\ Stored(c) = <<value>> /\ c.name = name /\ c.value = value
  <2> HIDE DEF c
  <2>1. IsList(<<c>>) /\ ToSet(<<c>>) = {c} /\ IsList(Reload)
    BY Singles DEF Reload
  <2>2. Property(name) = name /\ Value(name, value) = <<value>>
    BY Commands
  <2>3. Sets(c, name) /\ Stored(c) = <<value>> /\ c.name = name /\ c.value = value
    BY <2>2, Commands DEF c
  <2> QED  BY <2>1, <2>3
<1>4. Within(<<c>>, {name})
  BY <1>3, WithinSmall, Commands
<1> HIDE DEF c
<1>5. Within(<<c>> \o Reload, {name})
  BY <1>4, WithinSmall, WithinConcatenation
<1>6. ASSUME NEW h, NEW x, Done(h, <<c>>, x)
      PROVE  x.conf[name] = <<value>> /\ Accepts(name, value)
  BY <1>3, <1>6, DoneSets
<1>7. ASSUME NEW h, NEW x, Done(h, <<c>> \o Reload, x)
      PROVE  x.conf[name] = <<value>> /\ x.live = x.conf /\ Accepts(name, value)
  <2>1. PICK y : Done(h, <<c>>, y) /\ Done(y, Reload, x)
    BY <1>3, <1>7, RanConcatenation
  <2> QED  BY <1>6, <2>1, DoneReload
<1>8. IsList(<<c>> \o Reload)
  BY <1>5 DEF Within
<1> QED  BY <1>1, <1>2, <1>3, <1>4, <1>5, <1>6, <1>7, <1>8 DEF c

\* The same of one run.
LEMMA NowSet ==
    ASSUME NEW name \in PropertyNames, name \notin Adding, name # "psk", NEW value,
           NEW h, NEW x, Done(h, SetProperty(name, value, "Now"), x)
    PROVE  x.conf[name] = <<value>> /\ x.live = x.conf /\ Accepts(name, value)
BY PropertySet

\* A SET of a property that replaces: it is stored once it was done.
LEMMA DeferSet ==
    ASSUME NEW name \in PropertyNames, name \notin Adding, name # "psk", NEW value,
           NEW h, NEW x, Done(h, SetProperty(name, value, "Defer"), x)
    PROVE  x.conf[name] = <<value>> /\ Accepts(name, value)
BY PropertySet

-----------------------------------------------------------------------------
(* What the setters give: the bridge, the SSID, the bands and the algorithms *)

\* WifiAccessPointSetNetworkBridgeImpl gives the bridge it is called with.
LEMMA BridgeGivenBy ==
    ASSUME NEW accessPoint, NEW bridge
    PROVE  LET impl == WifiAccessPointSetNetworkBridgeImpl(accessPoint, bridge)
           IN  /\ Within(impl, {"bridge"})
               /\ \A h, x : Done(h, impl, x) => x.conf.bridge = <<bridge>> /\ x.live = x.conf
<1> DEFINE try == TryGetAccessPointController(accessPoint)
           set == SetProperty("bridge", bridge, "Now")
<1>1. WifiAccessPointSetNetworkBridgeImpl(accessPoint, bridge) = try \o set
  BY DEF WifiAccessPointSetNetworkBridgeImpl, SetNetworkBridge
<1>2. Within(try, {})
  BY WithinChecks
<1>3. "bridge" \in PropertyNames /\ "bridge" \notin Adding /\ "bridge" # "psk"
  BY DEF PropertyNames, Adding
<1>4. Within(set, {"bridge"}) /\ IsList(set)
  BY <1>3, PropertySet
<1>5. ASSUME NEW h, NEW x, Done(h, set, x)
      PROVE  x.conf.bridge = <<bridge>> /\ x.live = x.conf
  <2>0. Done(h, SetProperty("bridge", bridge, "Now"), x)
    BY <1>5
  <2>1. x.conf["bridge"] = <<bridge>> /\ x.live = x.conf
    BY ONLY <1>3, <2>0, NowSet
  <2> QED  BY <2>1
<1> HIDE DEF try, set
<1>6. Within(try \o set, {"bridge"})
  BY <1>2, <1>4, WithinMore, WithinConcatenation
<1>7. ASSUME NEW h, NEW x, Done(h, try \o set, x)
      PROVE  x.conf.bridge = <<bridge>> /\ x.live = x.conf
  <2>1. PICK y : Done(y, set, x)
    BY <1>2, <1>4, <1>7, DoneChecked
  <2> QED  BY <1>5, <2>1
<1> QED  BY <1>1, <1>6, <1>7

\* WifiAccessPointSetSsidImpl gives the SSID it is called with.
LEMMA SsidGivenBy ==
    ASSUME NEW accessPoint, NEW ssid
    PROVE  LET impl == WifiAccessPointSetSsidImpl(accessPoint, ssid)
           IN  /\ Within(impl, {"ssid"})
               /\ \A h, x : Done(h, impl, x) => x.conf.ssid = <<ssid.text>> /\ x.live = x.conf
<1> DEFINE unset == RefuseIf(ssid.case = "unset", "InvalidParameter")
           try == TryGetAccessPointController(accessPoint)
           set == SetProperty("ssid", ssid.text, "Now")
           refused == Refuse("InvalidParameter")
           body == SetSsid(ssid.text)
<1>1. WifiAccessPointSetSsidImpl(accessPoint, ssid) = unset \o try \o body
  BY DEF WifiAccessPointSetSsidImpl
<1>2. Within(try, {}) /\ Within(unset, {})
  BY WithinChecks
<1>3. "ssid" \in PropertyNames /\ "ssid" \notin Adding /\ "ssid" # "psk"
  BY DEF PropertyNames, Adding
<1>4. Within(set, {"ssid"}) /\ IsList(set) /\ Within(Read, {}) /\ Within(refused, {"ssid"})
  BY <1>3, PropertySet, WithinSmall
<1>5. ASSUME NEW h, NEW x, Done(h, set, x)
      PROVE  x.conf.ssid = <<ssid.text>> /\ x.live = x.conf
  <2> DEFINE text == ssid.text
  <2> HIDE DEF text
  <2>1. Done(h, SetProperty("ssid", text, "Now"), x)
    BY <1>5 DEF text
  <2>2. x.conf["ssid"] = <<text>> /\ x.live = x.conf
    BY ONLY <1>3, <2>1, NowSet
  <2> QED  BY <2>2 DEF text
<1>6. body = IF ssid.text = "" THEN refused ELSE set \o Read
  BY DEF SetSsid
<1>7. ~Passes(refused)
  <2> DEFINE c == [do |-> "refuse", status |-> "InvalidParameter"]
  <2>1. refused = <<c>> /\ Stops(c)
    BY DEF Refuse, Stops
  <2> HIDE DEF c, refused
  <2>2. \E i \in DOMAIN refused : Stops(refused[i])
    BY <2>1
  <2> QED  BY <2>2 DEF Passes
<1> HIDE DEF try, set, unset, refused
<1>8. Within(body, {"ssid"})
  <2>1. Within(set \o Read, {"ssid"})
    BY <1>4, WithinMore, WithinConcatenation
  <2> HIDE DEF body
  <2> QED  BY <1>4, <1>6, <2>1
<1>9. ASSUME NEW h, NEW x, Done(h, body, x)
      PROVE  x.conf.ssid = <<ssid.text>> /\ x.live = x.conf
  <2>1. CASE body = refused
    BY <1>7, <1>9, <2>1, DonePasses
  <2>2. CASE body = set \o Read
    <3>1. IsList(Read)
      BY <1>4 DEF Within
    <3>2. PICK y : Done(h, set, y) /\ Done(y, Read, x)
      BY <1>4, <1>9, <2>2, <3>1, RanConcatenation
    <3>3. x.conf = y.conf /\ (y.live = y.conf => x.live = x.conf)
      BY <1>4, <3>2, RanWithin DEF Done
    <3> QED  BY <1>5, <3>2, <3>3
  <2> HIDE DEF body
  <2> QED  BY <1>6, <2>1, <2>2
<1> HIDE DEF body
<1>10. Within(unset \o try, {})
  BY <1>2, WithinConcatenation
<1> DEFINE checks == unset \o try
<1> HIDE DEF checks
<1>11. ASSUME NEW h, NEW x, Done(h, checks \o body, x)
       PROVE  x.conf.ssid = <<ssid.text>> /\ x.live = x.conf
  <2>1. IsList(body) /\ Within(checks, {})
    BY <1>8, <1>10 DEF Within, checks
  <2>2. PICK y : Done(y, body, x)
    BY <1>11, <2>1, DoneChecked
  <2> QED  BY <1>9, <2>2
<1>12. Within(checks \o body, {"ssid"})
  BY <1>8, <1>10, WithinMore, WithinConcatenation DEF checks
<1> QED  BY <1>1, <1>11, <1>12 DEF checks

\* WifiAccessPointSetFrequencyBandsImpl gives the bands, and for 6 GHz the protection.
LEMMA BandsGivenBy ==
    ASSUME NEW accessPoint,
           NEW bands \in Seq({ToDot11FrequencyBand(b) : b \in Ieee80211FrequencyBand})
    PROVE  LET impl == WifiAccessPointSetFrequencyBandsImpl(accessPoint, bands)
           IN  /\ Within(impl, {"setband", "ieee80211w"})
               /\ \A h, x : Done(h, impl, x) =>
                      /\ BandsGiven(bands, x.conf) /\ ProtectionGiven(bands, x.conf)
                      /\ x.live.setband = x.conf.setband
                      /\ \A p \in PropertyNames \ {"setband", "ieee80211w"} :
                            h.live[p] = h.conf[p] => x.live[p] = x.conf[p]
<1> DEFINE words == FromDot11SetFrequencyBandsRequest(bands)
           empty == RefuseIf(\/ words = <<>>
                             \/ "Dot11FrequencyBandUnknown" \in ToSet(bands), "InvalidParameter")
           try == TryGetAccessPointController(accessPoint)
           capable == Capable(accessPoint, "FrequencyBands", ToSet(words))
           texts == Each(IeeeFrequencyBandToHostapdBand, words)
           set == SetProperty("setband", texts, "Defer")
           required == ManagementFrameProtectionToPropertyValue("Required")
           protect == SetProperty("ieee80211w", required, "Defer")
           also == IF "SixGHz" \in ToSet(words) THEN protect ELSE <<>>
           body == set \o also
           impl == WifiAccessPointSetFrequencyBandsImpl(accessPoint, bands)
<1>1. impl = ((empty \o try) \o capable) \o body
  BY DEF WifiAccessPointSetFrequencyBandsImpl, SetFrequencyBands
<1>2. Within(empty, {}) /\ Within(try, {}) /\ Within(capable, {})
  BY WithinChecks
<1>3. /\ "setband" \in PropertyNames /\ "setband" \notin Adding /\ "setband" # "psk"
      /\ "ieee80211w" \in PropertyNames /\ "ieee80211w" \notin Adding /\ "ieee80211w" # "psk"
  BY DEF PropertyNames, Adding
<1>4. Within(set, {"setband"}) /\ Within(protect, {"ieee80211w"})
  BY <1>3, PropertySet
<1>5. ASSUME NEW h, NEW x, Done(h, set, x) PROVE x.conf.setband = <<texts>>
  <2> HIDE DEF texts
  <2>1. x.conf["setband"] = <<texts>>
    BY <1>3, <1>5, DeferSet, Zenon
  <2> QED  BY <2>1
<1>6. ASSUME NEW h, NEW x, Done(h, protect, x) PROVE x.conf.ieee80211w = <<"2">>
  <2>1. required = "2"
    BY DEF ManagementFrameProtectionToPropertyValue, Switch
  <2> HIDE DEF required
  <2>2. x.conf["ieee80211w"] = <<required>>
    BY <1>3, <1>6, DeferSet, Zenon
  <2> QED  BY <2>1, <2>2
<1>7. \A h, x : Done(h, set, x) => x.live.setband = x.conf.setband
  <2> SUFFICES ASSUME NEW h, NEW x, Done(h, set, x) PROVE x.live.setband = x.conf.setband
    OBVIOUS
  <2>1. set = <<Set("setband", texts)>>
    BY <1>3, PropertySet
  <2> DEFINE c == Set("setband", texts)
  <2>2. c \in ToSet(set) /\ Sets(c, "setband")
    <3> HIDE DEF texts, set
    <3>1. c \in ToSet(<<c>>)
      <4> HIDE DEF c
      <4> QED  BY Singles
    <3> QED  BY <1>3, <2>1, <3>1, Commands
  <2> HIDE DEF c, set
  <2> QED  BY <1>3, <2>2, DoneSets
<1>8. ASSUME ~("Dot11FrequencyBandUnknown" \in ToSet(bands))
      PROVE  /\ texts = [i \in DOMAIN bands |-> Meaning(BandNames, bands[i])]
             /\ \A i \in DOMAIN bands : Meaning(BandNames, bands[i]) = "6G" =>
                   "SixGHz" \in ToSet(words)
  <2>1. ASSUME NEW i \in DOMAIN bands
        PROVE  /\ words[i] \in Ieee80211FrequencyBand \ {"Unknown"}
               /\ Meaning(BandNames, bands[i]) = BandThing[words[i]]
    <3>1. PICK b \in Ieee80211FrequencyBand : bands[i] = ToDot11FrequencyBand(b)
      OBVIOUS
    <3>2. bands[i] \in ToSet(bands)
      BY DEF ToSet
    <3>3. b # "Unknown"
      BY <1>8, <3>1, <3>2, BandWords
    <3>4. words[i] = FromDot11FrequencyBand(bands[i])
      BY DEF FromDot11SetFrequencyBandsRequest, Each
    <3> HIDE DEF words
    <3> QED  BY <3>1, <3>3, <3>4, BandWords
  <2>2. words = [i \in DOMAIN bands |-> words[i]]
    BY DEF FromDot11SetFrequencyBandsRequest, Each
  <2> HIDE DEF words
  <2>3. \A b \in Ieee80211FrequencyBand \ {"Unknown"} :
            IeeeFrequencyBandToHostapdBand(b) = BandThing[b]
    BY DEF Ieee80211FrequencyBand, IeeeFrequencyBandToHostapdBand, Switch, BandThing
  <2>4. texts = [i \in DOMAIN bands |-> IeeeFrequencyBandToHostapdBand(words[i])]
    BY <2>2 DEF Each
  <2>5. texts = [i \in DOMAIN bands |-> Meaning(BandNames, bands[i])]
    BY <2>1, <2>3, <2>4
  <2>6. ASSUME NEW i \in DOMAIN bands, Meaning(BandNames, bands[i]) = "6G"
        PROVE  "SixGHz" \in ToSet(words)
    <3>1. words[i] = "SixGHz"
      BY <2>1, <2>6 DEF BandThing, Ieee80211FrequencyBand
    <3>2. i \in DOMAIN words
      BY <2>2
    <3> QED  BY <3>1, <3>2 DEF ToSet
  <2> QED  BY <2>5, <2>6
<1>9. Passes(empty) => ~("Dot11FrequencyBandUnknown" \in ToSet(bands))
  <2> DEFINE bad == \/ words = <<>>
                    \/ "Dot11FrequencyBandUnknown" \in ToSet(bands)
  <2>1. bad \in BOOLEAN
    OBVIOUS
  <2>2. empty = RefuseIf(bad, "InvalidParameter") /\ "InvalidParameter" # "Succeeded"
    OBVIOUS
  <2>3. "Dot11FrequencyBandUnknown" \in ToSet(bands) => bad
    OBVIOUS
  <2> HIDE DEF bad, empty
  <2> QED  BY <2>1, <2>2, <2>3, RefuseIfPasses
<1>10. "SixGHz" \in ToSet(words) => also = protect
  OBVIOUS
<1> HIDE DEF words, empty, try, capable, texts, set, protect, required
<1>11. Within(also, {"ieee80211w"})
  BY <1>4, WithinSmall
<1> DEFINE checks == (empty \o try) \o capable
<1>12. Within(checks, {})
  BY <1>2, WithinConcatenation
<1>13. Passes(checks) => Passes(empty)
  <2>1. IsList(empty) /\ IsList(try) /\ IsList(capable) /\ IsList(empty \o try)
    BY <1>2, Concatenation DEF Within
  <2> QED  BY <2>1, RefusalsConcatenation
<1> HIDE DEF also
<1>14. Within(body, {"setband", "ieee80211w"})
  BY <1>4, <1>11, WithinMore, WithinConcatenation
<1>15. IsList(body) /\ IsList(set) /\ IsList(also)
  BY <1>4, <1>11, <1>14 DEF Within
<1> HIDE DEF checks
<1>16. ASSUME NEW h, NEW x, Done(h, checks \o body, x)
       PROVE  /\ BandsGiven(bands, x.conf) /\ ProtectionGiven(bands, x.conf)
              /\ x.live.setband = x.conf.setband
              /\ \A p \in PropertyNames \ {"setband", "ieee80211w"} :
                    h.live[p] = h.conf[p] => x.live[p] = x.conf[p]
  <2>1. Passes(checks) /\ \E y : Done(y, body, x)
    BY <1>12, <1>15, <1>16, DoneChecked
  <2>2. PICK y : Done(y, body, x)
    BY <2>1
  <2>3. PICK z : Done(y, set, z) /\ Done(z, also, x)
    BY <1>15, <2>2, RanConcatenation
  <2>4. \A c \in ToSet(also) : ~Sets(c, "setband")
    BY <1>11 DEF Within, Sets
  <2>5. x.conf.setband = z.conf.setband /\ x.live.setband \in {z.live.setband, z.conf.setband}
    BY <1>3, <2>3, <2>4, RanKeeps DEF Done
  <2>6. ~("Dot11FrequencyBandUnknown" \in ToSet(bands))
    BY <1>9, <1>13, <2>1
  <2>7. BandsGiven(bands, x.conf)
    BY <1>5, <1>8, <2>3, <2>5, <2>6 DEF BandsGiven
  <2>8. ProtectionGiven(bands, x.conf)
    BY <1>6, <1>8, <1>10, <2>3, <2>6 DEF ProtectionGiven
  <2>9. ASSUME NEW p \in PropertyNames \ {"setband", "ieee80211w"}, h.live[p] = h.conf[p]
        PROVE  x.live[p] = x.conf[p]
    <3>1. Within(checks \o body, {"setband", "ieee80211w"})
      BY <1>12, <1>14, WithinMore, WithinConcatenation
    <3>2. \A c \in ToSet(checks \o body) : ~Sets(c, p)
      BY <2>9, <3>1 DEF Within, Sets
    <3> QED  BY <1>16, <2>9, <3>2, RanKeeps DEF Done
  <2> QED  BY <1>7, <2>3, <2>5, <2>7, <2>8, <2>9
<1>17. Within(checks \o body, {"setband", "ieee80211w"})
  BY <1>12, <1>14, WithinMore, WithinConcatenation
<1> HIDE DEF impl, body
<1> QED  BY <1>1, <1>16, <1>17 DEF checks, impl

\* What ends a request by itself is not passed.
LEMMA Impassable ==
    /\ ~Passes(Throw)
    /\ \A status : status # "Succeeded" => ~Passes(Refuse(status))
<1>1. ASSUME NEW c, Stops(c) PROVE ~Passes(<<c>>)
  <2>1. 1 \in DOMAIN <<c>> /\ <<c>>[1] = c
    OBVIOUS
  <2>2. \E i \in DOMAIN <<c>> : Stops(<<c>>[i])
    BY <1>1, <2>1
  <2> QED  BY <2>2 DEF Passes
<1>2. ~Passes(Throw)
  <2> DEFINE c == [do |-> "throw"]
  <2>1. Throw = <<c>> /\ Stops(c)
    BY DEF Throw, Stops
  <2> HIDE DEF c
  <2> QED  BY <1>1, <2>1
<1>3. ASSUME NEW status, status # "Succeeded" PROVE ~Passes(Refuse(status))
  <2> DEFINE c == [do |-> "refuse", status |-> status]
  <2>1. Refuse(status) = <<c>> /\ Stops(c)
    BY <1>3 DEF Refuse, Stops
  <2> HIDE DEF c
  <2> QED  BY <1>1, <2>1
<1> QED  BY <1>2, <1>3

\* The bits of hostapd's algorithms.
LEMMA AlgorithmBits ==
    /\ WpaAuthenticationAlgorithmPropertyValue("OpenSystem") = 1
    /\ WpaAuthenticationAlgorithmPropertyValue("SharedKey") = 2
<1>1. 2^0 = 1 /\ 2^1 = 2
  OBVIOUS
<1> QED  BY <1>1 DEF WpaAuthenticationAlgorithmPropertyValue, WpaAuthenticationAlgorithm

\* An algorithm of a client is one of hostapd's exactly if it has its name.
LEMMA AlgorithmMeans ==
    \A a : LET wpa == Ieee80211AuthenticationAlgorithmToWpaAuthenticationAlgorithm(
                          FromDot11AuthenticationAlgorithm(a))
           IN  /\ wpa = "OpenSystem" <=> Means(AlgorithmNames, a)
                                         /\ Meaning(AlgorithmNames, a) = "open"
               /\ wpa = "SharedKey" <=> Means(AlgorithmNames, a)
                                        /\ Meaning(AlgorithmNames, a) = "shared"
<1> SUFFICES ASSUME NEW a
             PROVE  LET wpa == Ieee80211AuthenticationAlgorithmToWpaAuthenticationAlgorithm(
                          FromDot11AuthenticationAlgorithm(a))
                    IN  /\ wpa = "OpenSystem" <=> Means(AlgorithmNames, a)
                                         /\ Meaning(AlgorithmNames, a) = "open"
                        /\ wpa = "SharedKey" <=> Means(AlgorithmNames, a)
                                         /\ Meaning(AlgorithmNames, a) = "shared"
  OBVIOUS
<1>1. /\ DOMAIN AlgorithmNames = {"open", "shared"}
      /\ AlgorithmNames["open"] = {"Dot11AuthenticationAlgorithmOpenSystem"}
      /\ AlgorithmNames["shared"] = {"Dot11AuthenticationAlgorithmSharedKey"}
  BY DEF AlgorithmNames
<1>2. /\ Means(AlgorithmNames, a) <=> a \in {"Dot11AuthenticationAlgorithmOpenSystem",
                                             "Dot11AuthenticationAlgorithmSharedKey"}
      /\ a = "Dot11AuthenticationAlgorithmOpenSystem" => Meaning(AlgorithmNames, a) = "open"
      /\ a = "Dot11AuthenticationAlgorithmSharedKey" => Meaning(AlgorithmNames, a) = "shared"
  BY <1>1 DEF Means, Meaning
<1>3. a = "Dot11AuthenticationAlgorithmOpenSystem" =>
          Ieee80211AuthenticationAlgorithmToWpaAuthenticationAlgorithm(
              FromDot11AuthenticationAlgorithm(a)) = "OpenSystem"
  BY DEF Ieee80211AuthenticationAlgorithmToWpaAuthenticationAlgorithm,
         FromDot11AuthenticationAlgorithm, Switch
<1>4. a = "Dot11AuthenticationAlgorithmSharedKey" =>
          Ieee80211AuthenticationAlgorithmToWpaAuthenticationAlgorithm(
              FromDot11AuthenticationAlgorithm(a)) = "SharedKey"
  BY DEF Ieee80211AuthenticationAlgorithmToWpaAuthenticationAlgorithm,
         FromDot11AuthenticationAlgorithm, Switch
<1>5. a \notin {"Dot11AuthenticationAlgorithmOpenSystem",
                "Dot11AuthenticationAlgorithmSharedKey"} =>
          Ieee80211AuthenticationAlgorithmToWpaAuthenticationAlgorithm(
              FromDot11AuthenticationAlgorithm(a)) \notin {"OpenSystem", "SharedKey"}
  BY DEF Ieee80211AuthenticationAlgorithmToWpaAuthenticationAlgorithm,
         FromDot11AuthenticationAlgorithm, Switch
<1> QED  BY <1>2, <1>3, <1>4, <1>5

\* WifiAccessPointSetAuthenticationAlgorithmsImpl gives the algorithms.
LEMMA AlgorithmsGivenBy ==
    ASSUME NEW accessPoint, NEW asked
    PROVE  LET impl == WifiAccessPointSetAuthenticationAlgorithmsImpl(accessPoint, asked)
           IN  /\ Within(impl, {"auth_algs"})
               /\ \A h, x : Done(h, impl, x) =>
                      AlgorithmsGiven(asked, x.conf) /\ x.live = x.conf
<1> DEFINE algorithms == Each(FromDot11AuthenticationAlgorithm, asked)
           wpa == Each(Ieee80211AuthenticationAlgorithmToWpaAuthenticationAlgorithm, algorithms)
           open == IF "OpenSystem" \in ToSet(wpa) THEN 1 ELSE 0
           shared == IF "SharedKey" \in ToSet(wpa) THEN 2 ELSE 0
           bits == open + shared
           empty == RefuseIf(\/ asked = <<>>
                             \/ "Dot11AuthenticationAlgorithmUnknown" \in ToSet(asked),
                             "InvalidParameter")
           try == TryGetAccessPointController(accessPoint)
           unknown == RefuseIf("Unknown" \in ToSet(algorithms), "InvalidParameter")
           set == SetProperty("auth_algs", bits, "Now")
           body == SetAuthenticationAlgorithms(algorithms)
           impl == WifiAccessPointSetAuthenticationAlgorithmsImpl(accessPoint, asked)
           checks == (empty \o try) \o unknown
<1>1. impl = ((empty \o try) \o unknown) \o body
  BY DEF WifiAccessPointSetAuthenticationAlgorithmsImpl
<1>2. Within(checks, {})
  <2>1. Within(empty, {}) /\ Within(try, {}) /\ Within(unknown, {})
    BY WithinChecks
  <2> HIDE DEF empty, try, unknown
  <2> QED  BY <2>1, WithinConcatenation
<1>3. body = set \/ body = Throw
  BY AlgorithmBits DEF SetAuthenticationAlgorithms
<1>4. "auth_algs" \in PropertyNames /\ "auth_algs" \notin Adding /\ "auth_algs" # "psk"
  BY DEF PropertyNames, Adding
<1>5. AlgorithmsGiven(asked, [auth_algs |-> <<bits>>])
  <2> DEFINE named == {a \in ToSet(asked) : Means(AlgorithmNames, a)}
             things == {Meaning(AlgorithmNames, a) : a \in named}
  <2>1. ("OpenSystem" \in ToSet(wpa)) <=> ("open" \in things)
    BY AlgorithmMeans DEF ToSet, Each
  <2>2. ("SharedKey" \in ToSet(wpa)) <=> ("shared" \in things)
    BY AlgorithmMeans DEF ToSet, Each
  <2> QED  BY <2>1, <2>2 DEF AlgorithmsGiven
<1> HIDE DEF bits, set
<1>6. Within(body, {"auth_algs"})
  <2>1. Within(Throw, {"auth_algs"})
    BY WithinSmall
  <2>2. Within(set, {"auth_algs"})
    BY <1>4, PropertySet DEF set
  <2> HIDE DEF body
  <2> QED  BY <1>3, <2>1, <2>2
<1>7. ASSUME NEW h, NEW x, Done(h, set, x)
      PROVE  x.conf.auth_algs = <<bits>> /\ x.live = x.conf
  <2>1. Done(h, SetProperty("auth_algs", bits, "Now"), x)
    BY <1>7 DEF set
  <2> HIDE DEF bits
  <2>2. x.conf["auth_algs"] = <<bits>> /\ x.live = x.conf
    BY ONLY <1>4, <2>1, NowSet
  <2> QED  BY <2>2
<1> HIDE DEF body, checks, impl
<1>8. ASSUME NEW h, NEW x, Done(h, checks \o body, x)
      PROVE  AlgorithmsGiven(asked, x.conf) /\ x.live = x.conf
  <2>1. PICK y : Done(y, body, x)
    BY <1>2, <1>6, <1>8, DoneChecked DEF Within
  <2>2. body # Throw
    BY <2>1, DonePasses, Impassable
  <2>3. x.conf.auth_algs = <<bits>> /\ x.live = x.conf
    BY <1>3, <1>7, <2>1, <2>2
  <2>4. [auth_algs |-> <<bits>>].auth_algs = x.conf.auth_algs
    BY <2>3
  <2> QED  BY <1>5, <2>3, <2>4 DEF AlgorithmsGiven
<1>9. Within(checks \o body, {"auth_algs"})
  BY <1>2, <1>6, WithinMore, WithinConcatenation
<1> QED  BY <1>1, <1>8, <1>9 DEF checks, impl

-----------------------------------------------------------------------------
(* The suites of keys and their management *)

\* The API's AKM suites that hostapd has a key management for, with the service's name
\* of it and hostapd's text.
AkmKey ==
    [Dot11AkmSuite8021x |-> "Ieee8021x", Dot11AkmSuitePsk |-> "Psk",
     Dot11AkmSuiteFt8021x |-> "FtIeee8021x", Dot11AkmSuiteFtPsk |-> "FtPsk",
     Dot11AkmSuite8021xSha256 |-> "Ieee8021xSha256", Dot11AkmSuitePskSha256 |-> "PskSha256",
     Dot11AkmSuiteSae |-> "Sae", Dot11AkmSuiteFtSae |-> "FtSae",
     Dot11AkmSuite8021xSuiteB |-> "Ieee8021xSuiteB",
     Dot11AkmSuite8021xSuiteB192 |-> "Ieee8021xSuiteB192",
     Dot11AkmSuiteFt8021xSha384 |-> "FtIeee8021xSha384",
     Dot11AkmSuiteFilsSha256 |-> "FilsSha256", Dot11AkmSuiteFilsSha384 |-> "FilsSha384",
     Dot11AkmSuiteFtFilsSha256 |-> "FtFilsSha256", Dot11AkmSuiteFtFilsSha384 |-> "FilsSha384",
     Dot11AkmSuiteOwe |-> "Owe"]

\* What it is called there, if that is its own name.
AkmText ==
    [Dot11AkmSuite8021x |-> "WPA-EAP", Dot11AkmSuitePsk |-> "WPA-PSK",
     Dot11AkmSuiteFt8021x |-> "FT-EAP", Dot11AkmSuiteFtPsk |-> "FT-PSK",
     Dot11AkmSuite8021xSha256 |-> "WPA-EAP-SHA256",
     Dot11AkmSuitePskSha256 |-> "WPA-PSK-SHA256",
     Dot11AkmSuiteSae |-> "SAE", Dot11AkmSuiteFtSae |-> "FT-SAE",
     Dot11AkmSuite8021xSuiteB |-> "WPA-EAP-SUITE-B",
     Dot11AkmSuite8021xSuiteB192 |-> "WPA-EAP-SUITE-B-192",
     Dot11AkmSuiteFt8021xSha384 |-> "FT-EAP-SHA384",
     Dot11AkmSuiteFilsSha256 |-> "FILS-SHA256", Dot11AkmSuiteFilsSha384 |-> "FILS-SHA384",
     Dot11AkmSuiteFtFilsSha256 |-> "FT-FILS-SHA256", Dot11AkmSuiteOwe |-> "OWE"]

\* The key managements of IEEE 802.1X.
Enterprise ==
    {"WPA-EAP", "FT-EAP", "WPA-EAP-SHA256", "WPA-EAP-SUITE-B", "WPA-EAP-SUITE-B-192",
     "FT-EAP-SHA384", "FILS-SHA256", "FILS-SHA384", "FT-FILS-SHA256", "FT-FILS-SHA384"}

\* And those with a fast transition.
FastTransition == {"FT-EAP", "FT-PSK", "FT-SAE", "FT-EAP-SHA384", "FT-FILS-SHA256"}

\* The key management hostapd is given for a suite.
KeyOf(a) == Ieee80211AkmSuiteToWpaKeyManagement(FromDot11AkmSuite(a))

\* hostapd's key management for each of them.
LEMMA AkmKeys ==
    \A a : IF a \in DOMAIN AkmKey THEN KeyOf(a) = AkmKey[a] ELSE KeyOf(a) = "Unknown"
<1>1. \A a \in DOMAIN AkmKey : KeyOf(a) = AkmKey[a]
  BY DEF AkmKey, KeyOf, Ieee80211AkmSuiteToWpaKeyManagement, FromDot11AkmSuite, Switch
<1>2. ASSUME NEW a, a \notin DOMAIN AkmKey PROVE KeyOf(a) = "Unknown"
  <2>1. FromDot11AkmSuite(a) \in {"Reserved0", "Tdls", "ApPeerKey", "FtPskSha384", "PskSha384",
                                  "Pasn", "Unknown"}
    BY <1>2 DEF AkmKey, FromDot11AkmSuite, Switch
  <2> QED  BY <2>1 DEF KeyOf, Ieee80211AkmSuiteToWpaKeyManagement, Switch
<1> QED  BY <1>1, <1>2

\* No name is for two of hostapd's texts.
LEMMA AkmNamed ==
    \A thing \in DOMAIN AkmNames : \A name \in AkmNames[thing] :
        Meaning(AkmNames, name) = thing
<1>1. ASSUME NEW name, NEW t \in DOMAIN AkmNames, NEW u \in DOMAIN AkmNames,
             name \in AkmNames[t], name \in AkmNames[u]
      PROVE  t = u
  BY <1>1 DEF AkmNames
<1> QED  BY <1>1 DEF Meaning

\* A suite that hostapd has a text for gets the one its name means, but for the one that
\* gets another's.
LEMMA AkmMeans ==
    \A a : LET text == WpaKeyManagementPropertyValue(KeyOf(a))
               meant == Meaning(AkmNames, a)
           IN  text # "UNKNOWN" =>
                   /\ a \notin Misnamed => meant = text
                   /\ meant \in Enterprise => IsKeyManagementIeee8021x(KeyOf(a))
                   /\ meant \in FastTransition => IsKeyManagementFastTransition(KeyOf(a))
<1>1. ASSUME NEW a \in DOMAIN AkmKey, a \notin Misnamed
      PROVE  /\ WpaKeyManagementPropertyValue(AkmKey[a]) \in DOMAIN AkmNames
             /\ a \in AkmNames[WpaKeyManagementPropertyValue(AkmKey[a])]
  <2>1. a \in DOMAIN AkmText /\ WpaKeyManagementPropertyValue(AkmKey[a]) = AkmText[a]
    BY <1>1, SMTT(30)
    DEF AkmKey, AkmText, WpaKeyManagementPropertyValue, WpaKeyManagementTexts, Switch, Misnamed
  <2>2. AkmText[a] \in DOMAIN AkmNames /\ a \in AkmNames[AkmText[a]]
    BY <2>1, SMTT(30) DEF AkmText, AkmNames
  <2> QED  BY <2>1, <2>2
<1>2. ASSUME NEW a \in DOMAIN AkmKey
      PROVE  WpaKeyManagementPropertyValue(AkmKey[a]) \in Enterprise =>
                 IsKeyManagementIeee8021x(AkmKey[a])
  BY DEF AkmKey, WpaKeyManagementPropertyValue, WpaKeyManagementTexts, Switch, Enterprise,
         IsKeyManagementIeee8021x, WpaKeyManagementIeee8021x
<1>3. ASSUME NEW a \in DOMAIN AkmKey
      PROVE  WpaKeyManagementPropertyValue(AkmKey[a]) \in FastTransition =>
                 IsKeyManagementFastTransition(AkmKey[a])
  BY DEF AkmKey, WpaKeyManagementPropertyValue, WpaKeyManagementTexts, Switch, FastTransition,
         IsKeyManagementFastTransition, WpaKeyManagementFt
<1>4. WpaKeyManagementPropertyValue("Unknown") = "UNKNOWN"
  BY DEF WpaKeyManagementPropertyValue, WpaKeyManagementTexts, Switch
<1>5. ASSUME NEW a \in Misnamed
      PROVE  /\ Meaning(AkmNames, a) = "FT-FILS-SHA384"
             /\ "FT-FILS-SHA384" \notin FastTransition
             /\ a \in DOMAIN AkmKey /\ IsKeyManagementIeee8021x(AkmKey[a])
  <2>1. "FT-FILS-SHA384" \in DOMAIN AkmNames /\ a \in AkmNames["FT-FILS-SHA384"]
    BY DEF AkmNames, Misnamed
  <2>2. "FT-FILS-SHA384" \notin FastTransition
    BY DEF FastTransition
  <2>3. a \in DOMAIN AkmKey /\ IsKeyManagementIeee8021x(AkmKey[a])
    BY DEF AkmKey, Misnamed, IsKeyManagementIeee8021x, WpaKeyManagementIeee8021x
  <2> QED  BY <2>1, <2>2, <2>3, AkmNamed
<1> QED  BY <1>1, <1>2, <1>3, <1>4, <1>5, AkmKeys, AkmNamed

\* What no command of a list writes.
LEMMA Outside ==
    ASSUME NEW h, NEW s, NEW x, Ran(h, s, x), NEW P, Within(s, P),
           NEW p \in PropertyNames, p \notin P
    PROVE  x.conf[p] = h.conf[p] /\ x.live[p] \in {h.live[p], h.conf[p]}
<1>1. \A c \in ToSet(s) : ~Sets(c, p)
  BY DEF Within, Sets
<1> QED  BY <1>1, RanKeeps

\* What is read back at the end changes nothing.
LEMMA ReadBack ==
    ASSUME NEW h, NEW s, IsList(s), NEW x, Done(h, s \o Read, x)
    PROVE  \E y : Done(h, s, y) /\ x.conf = y.conf /\ (y.live = y.conf => x.live = x.conf)
<1>0. Within(Read, {})
  BY WithinSmall
<1>1. Within(Read, {}) /\ IsList(Read)
  BY <1>0 DEF Within
<1>2. PICK y : Done(h, s, y) /\ Done(y, Read, x)
  BY <1>1, RanConcatenation
<1>3. x.conf = y.conf /\ (y.live = y.conf => x.live = x.conf)
  BY <1>1, <1>2, RanWithin DEF Done
<1> QED  BY <1>2, <1>3

\* WifiAccessPointSetAkmSuitesImpl gives the suites, and what they need besides.
LEMMA AkmGivenBy ==
    ASSUME NEW accessPoint, NEW asked
    PROVE  LET impl == WifiAccessPointSetAkmSuitesImpl(accessPoint, asked)
           IN  /\ Within(impl, {"wpa_key_mgmt", "ieee8021x", "nas_identifier"})
               /\ \A h, x : Done(h, impl, x) => AkmGiven(asked, x.conf) /\ x.live = x.conf
<1> DEFINE P == {"wpa_key_mgmt", "ieee8021x", "nas_identifier"}
           akms == Each(FromDot11AkmSuite, asked)
           keys == Each(Ieee80211AkmSuiteToWpaKeyManagement, akms)
           texts == Each(WpaKeyManagementPropertyValue, keys)
           empty == RefuseIf(asked = <<>> \/ "Dot11AkmSuiteUnknown" \in ToSet(asked),
                             "InvalidParameter")
           try == TryGetAccessPointController(accessPoint)
           unknown == RefuseIf("Unknown" \in ToSet(akms), "InvalidParameter")
           nas == SetProperty("nas_identifier", "random", "Now")
           ieee == SetProperty("ieee8021x", 1, "Defer")
           key == SetProperty("wpa_key_mgmt", texts, "Now")
           ft == \E k \in ToSet(keys) : IsKeyManagementFastTransition(k)
           eap == \E k \in ToSet(keys) : IsKeyManagementIeee8021x(k)
           a == IF ft THEN nas ELSE <<>>
           b == IF eap THEN ieee ELSE <<>>
           set == ((a \o b) \o key) \o Read
           body == SetAkmSuites(akms)
           impl == WifiAccessPointSetAkmSuitesImpl(accessPoint, asked)
           checks == (empty \o try) \o unknown
<1>1. impl = ((empty \o try) \o unknown) \o body
  BY DEF WifiAccessPointSetAkmSuitesImpl
<1>2. Within(checks, {})
  <2>1. Within(empty, {}) /\ Within(try, {}) /\ Within(unknown, {})
    BY WithinChecks
  <2> HIDE DEF empty, try, unknown
  <2> QED  BY <2>1, WithinConcatenation
<1>3. body = IF "UNKNOWN" \in ToSet(texts) THEN Throw ELSE set
  BY DEF SetAkmSuites
<1>4. /\ "nas_identifier" \in PropertyNames /\ "nas_identifier" \notin Adding
      /\ "nas_identifier" # "psk"
      /\ "ieee8021x" \in PropertyNames /\ "ieee8021x" \notin Adding /\ "ieee8021x" # "psk"
      /\ "wpa_key_mgmt" \in PropertyNames /\ "wpa_key_mgmt" \notin Adding
      /\ "wpa_key_mgmt" # "psk"
  BY DEF PropertyNames, Adding
<1>5. ASSUME "UNKNOWN" \notin ToSet(texts), NEW conf, conf.wpa_key_mgmt = <<texts>>,
             ft => conf.nas_identifier = <<"random">>, eap => conf.ieee8021x = << 1 >>
      PROVE  AkmGiven(asked, conf)
  <2>1. \A i \in DOMAIN asked :
            /\ i \in DOMAIN keys /\ keys[i] = KeyOf(asked[i])
            /\ i \in DOMAIN texts /\ texts[i] = WpaKeyManagementPropertyValue(KeyOf(asked[i]))
    BY DEF Each, KeyOf
  <2>2. \A i \in DOMAIN asked : texts[i] # "UNKNOWN" /\ keys[i] \in ToSet(keys)
    <3> HIDE DEF texts, keys
    <3> QED  BY <1>5, <2>1 DEF ToSet
  <2>3. texts = [i \in DOMAIN asked |-> texts[i]]
    BY DEF Each
  <2> DEFINE meant(i) == Meaning(AkmNames, asked[i])
             things == {meant(i) : i \in DOMAIN asked}
  <2> HIDE DEF texts, keys
  <2>4. \A i \in DOMAIN asked : asked[i] \notin Misnamed => texts[i] = meant(i)
    BY <2>1, <2>2, AkmMeans
  <2>5. ASSUME things \cap Enterprise # {} PROVE eap
    <3>1. PICK i \in DOMAIN asked : meant(i) \in Enterprise
      BY <2>5
    <3> QED  BY <2>1, <2>2, <3>1, AkmMeans
  <2>6. ASSUME things \cap FastTransition # {} PROVE ft
    <3>1. PICK i \in DOMAIN asked : meant(i) \in FastTransition
      BY <2>6
    <3> QED  BY <2>1, <2>2, <3>1, AkmMeans
  <2> HIDE DEF ft, eap
  <2>7. /\ things \cap Enterprise # {} => conf.ieee8021x = << 1 >>
        /\ things \cap FastTransition # {} => conf.nas_identifier = <<"random">>
    BY <1>5, <2>5, <2>6
  <2>8. Len(conf.wpa_key_mgmt) = 1 /\ conf.wpa_key_mgmt[1] = texts
    BY <1>5
  <2>9. DOMAIN texts = DOMAIN asked
    BY <2>3
  <2> QED  BY <2>4, <2>7, <2>8, <2>9 DEF AkmGiven, Enterprise, FastTransition
<1> HIDE DEF texts, ft, eap, nas, ieee, key
<1>6. Within(nas, {"nas_identifier"}) /\ Within(ieee, {"ieee8021x"})
      /\ Within(key, {"wpa_key_mgmt"})
  BY <1>4, PropertySet DEF nas, ieee, key
<1>7. Within(a, {"nas_identifier"}) /\ Within(b, {"ieee8021x"})
  BY <1>6, WithinSmall
<1>8. Within((a \o b) \o key, P) /\ Within(Throw, P)
  <2> HIDE DEF a, b
  <2>1. Within(a, P) /\ Within(b, P) /\ Within(key, P)
    BY <1>6, <1>7, WithinMore
  <2> HIDE DEF P
  <2> QED  BY <2>1, WithinConcatenation, WithinSmall
<1>9. Within(body, P)
  <2>1. Within(Read, P)
    BY WithinSmall
  <2>2. Within(set, P)
    <3> HIDE DEF a, b, P
    <3> QED  BY <1>8, <2>1, WithinConcatenation
  <2> HIDE DEF set, body, P
  <2> QED  BY <1>3, <1>8, <2>2
<1>10. ASSUME NEW h, NEW x, Done(h, nas, x) PROVE x.conf.nas_identifier = <<"random">>
  <2>1. Done(h, SetProperty("nas_identifier", "random", "Now"), x)
    BY <1>10 DEF nas
  <2>2. x.conf["nas_identifier"] = <<"random">> /\ x.live = x.conf
    BY <1>4, <2>1, NowSet
  <2> QED  BY <2>2
<1>11. ASSUME NEW h, NEW x, Done(h, ieee, x) PROVE x.conf.ieee8021x = <<1>>
  <2>1. x.conf["ieee8021x"] = <<1>>
    BY <1>4, <1>11, DeferSet, Zenon DEF ieee
  <2> QED  BY <2>1
<1>12. ASSUME NEW h, NEW x, Done(h, key, x)
       PROVE  x.conf.wpa_key_mgmt = <<texts>> /\ x.live = x.conf
  <2>1. Done(h, SetProperty("wpa_key_mgmt", texts, "Now"), x)
    BY <1>12 DEF key
  <2>2. x.conf["wpa_key_mgmt"] = <<texts>> /\ x.live = x.conf
    BY <1>4, <2>1, NowSet
  <2> QED  BY <2>2
<1> HIDE DEF body, checks, impl
<1>13. ASSUME NEW h, NEW x, Done(h, checks \o body, x)
       PROVE  AkmGiven(asked, x.conf) /\ x.live = x.conf
  <2>1. PICK y : Done(y, body, x)
    BY <1>2, <1>9, <1>13, DoneChecked DEF Within
  <2>2. body # Throw
    BY <2>1, DonePasses, Impassable
  <2>3. "UNKNOWN" \notin ToSet(texts) /\ body = set
    BY <1>3, <2>2
  <2> HIDE DEF a, b
  <2>4. IsList(a) /\ IsList(b) /\ IsList(key) /\ IsList(a \o b) /\ IsList((a \o b) \o key)
    BY <1>6, <1>7, <1>8, Concatenation DEF Within
  <2>5. PICK z : /\ Done(y, (a \o b) \o key, z) /\ x.conf = z.conf
                 /\ (z.live = z.conf => x.live = x.conf)
    BY <2>1, <2>3, <2>4, ReadBack
  <2>6. PICK v : Done(y, a \o b, v) /\ Done(v, key, z)
    BY <2>4, <2>5, RanConcatenation
  <2>7. PICK u : Done(y, a, u) /\ Done(u, b, v)
    BY <2>4, <2>6, RanConcatenation
  <2>8. z.conf.wpa_key_mgmt = <<texts>> /\ z.live = z.conf
    BY <1>12, <2>6
  <2>9. ft => z.conf.nas_identifier = <<"random">>
    <3>1. ft => u.conf.nas_identifier = <<"random">>
      BY <1>10, <2>7 DEF a
    <3>2. v.conf["nas_identifier"] = u.conf["nas_identifier"]
      BY <1>4, <1>7, <2>7, Outside DEF Done
    <3>3. z.conf["nas_identifier"] = v.conf["nas_identifier"]
      BY <1>4, <1>6, <2>6, Outside DEF Done
    <3> QED  BY <3>1, <3>2, <3>3
  <2>10. eap => z.conf.ieee8021x = <<1>>
    <3>1. eap => v.conf.ieee8021x = <<1>>
      BY <1>11, <2>7 DEF b
    <3>3. z.conf["ieee8021x"] = v.conf["ieee8021x"]
      BY <1>4, <1>6, <2>6, Outside DEF Done
    <3> QED  BY <3>1, <3>3
  <2>11. x.conf.wpa_key_mgmt = <<texts>> /\ (ft => x.conf.nas_identifier = <<"random">>)
         /\ (eap => x.conf.ieee8021x = <<1>>)
    BY <2>5, <2>8, <2>9, <2>10
  <2> QED  BY <1>5, <2>3, <2>5, <2>8, <2>11
<1>14. Within(checks \o body, P)
  BY <1>2, <1>9, WithinMore, WithinConcatenation
<1> QED  BY <1>1, <1>13, <1>14 DEF checks, impl

\* The configurations a list of commands which only write goes through.
Writing(g, s) ==
    /\ \A i \in 0 .. Len(s) : g[i] = [name \in PropertyNames |-> g[i][name]]
    /\ \A i \in 1 .. Len(s) : g[i] = Assign(g[i - 1], s[i].name, s[i].value)

\* There are such.
LEMMA Writes ==
    ASSUME NEW h, NEW s, NEW x, Done(h, s, x), \A i \in 1 .. Len(s) : s[i].do \notin Orders
    PROVE  /\ Len(s) \in Nat
           /\ \E g : g[0] = h.conf /\ g[Len(s)] = x.conf /\ Writing(g, s)
<1>1. Len(s) \in Nat
  BY Trace DEF Done
<1>2. PICK f :
          /\ f[0] = h /\ f[Len(s)] = x
          /\ \A i \in 0 .. Len(s) : Typed(f[i])
          /\ \A i \in 1 .. Len(s) :
                s[i] \in ToSet(s) /\ \E b \in BOOLEAN : f[i] = Step(f[i - 1], s[i], b)
          /\ \A i \in 0 .. Len(s) : f[i].status = "Succeeded"
  BY Trace DEF Done
<1> DEFINE g == [i \in 0 .. Len(s) |-> f[i].conf]
<1>3. ASSUME NEW i \in 1 .. Len(s)
      PROVE  f[i].conf = Assign(f[i - 1].conf, s[i].name, s[i].value)
  <2> DEFINE k == i - 1
             new == Assign(f[k].conf, s[i].name, s[i].value)
  <2>1. k \in 0 .. Len(s) /\ i \in 0 .. Len(s)
    BY <1>1
  <2>2. PICK b \in BOOLEAN : f[i] = Step(f[k], s[i], b)
    BY <1>2
  <2> HIDE DEF k
  <2>3. new = Assign(f[k].conf, s[i].name, s[i].value)
    OBVIOUS
  <2> HIDE DEF new
  <2>4. Typed(f[k]) /\ f[k].status = "Succeeded" /\ f[i].status = "Succeeded"
        /\ s[i].do \notin Orders
    BY <1>2, <2>1
  <2>5. \/ /\ f[i].status = "InternalError" /\ f[i].conf = f[k].conf
           /\ f[i].live = f[k].live /\ f[i].state = f[k].state
        \/ /\ Accepts(s[i].name, s[i].value) /\ f[i].conf = new
           /\ f[i].status = "Succeeded" /\ f[i].state = f[k].state
           /\ f[i].live = IF s[i].name = "setband"
                          THEN [f[k].live EXCEPT !.setband = new.setband] ELSE f[k].live
    BY <2>2, <2>3, <2>4, StepForms
  <2>6. f[i].conf = new
    BY <2>4, <2>5
  <2> QED  BY <2>3, <2>6 DEF k
<1>4. \A i \in 0 .. Len(s) : f[i].conf = [name \in PropertyNames |-> f[i].conf[name]]
  BY <1>2 DEF Typed
<1>5. \A i \in 0 .. Len(s) : g[i] = f[i].conf
  OBVIOUS
<1>6. g[0] = h.conf /\ g[Len(s)] = x.conf
  BY <1>1, <1>2
<1>7. \A i \in 1 .. Len(s) : g[i] = Assign(g[i - 1], s[i].name, s[i].value)
  BY <1>1, <1>3
<1>8. \A i \in 0 .. Len(s) : g[i] = [name \in PropertyNames |-> g[i][name]]
  BY <1>4, <1>5
<1> HIDE DEF g
<1>9. Writing(g, s)
  BY <1>7, <1>8 DEF Writing
<1> QED  BY <1>1, <1>6, <1>9

\* One more.
LEMMA Longer ==
    ASSUME NEW n \in Nat, NEW s, NEW t, t = [i \in 1 .. n |-> s[i]]
    PROVE  t \o <<s[n + 1]>> = [i \in 1 .. n + 1 |-> s[i]]
<1>1. IsList(t) /\ Len(t) = n
  BY Lists
<1> DEFINE e == s[n + 1]
           u == t \o <<e>>
<1> HIDE DEF e
<1>2. IsList(<<e>>) /\ Len(<<e>>) = 1 /\ <<e>>[1] = e
  BY Singles
<1>3. /\ IsList(u) /\ Len(u) = n + 1 /\ \A i \in 1 .. n : u[i] = s[i]
      /\ u[n + 1] = e
  <2>1. \A i \in 1 .. 1 : u[n + i] = <<e>>[i]
    BY <1>1, <1>2, Concatenation
  <2>2. /\ IsList(u) /\ Len(u) = n + 1 /\ \A i \in 1 .. n : u[i] = t[i]
    BY <1>1, <1>2, Concatenation
  <2> QED  BY <1>2, <2>1, <2>2
<1>4. u = [i \in 1 .. n + 1 |-> u[i]]
  BY <1>3 DEF IsList
<1>5. \A i \in 1 .. n + 1 : u[i] = s[i]
  BY <1>3 DEF e
<1> QED  BY <1>4, <1>5 DEF e

\* SAE passwords that are added to none.
LEMMA SaeAdds ==
    ASSUME NEW passwords, IsList(passwords),
           NEW sets, sets = [i \in DOMAIN passwords |-> Set("sae_password", <<passwords[i]>>)],
           NEW h, NEW x, Done(h, sets, x), h.conf.sae_password = <<>>
    PROVE  x.conf.sae_password = passwords
<1> DEFINE n == Len(passwords)
<1>1. n \in Nat /\ DOMAIN passwords = 1 .. n /\ passwords = [i \in 1 .. n |-> passwords[i]]
  BY Lists DEF IsList
<1>2. sets = [i \in 1 .. n |-> sets[i]] /\ Len(sets) = n
  BY <1>1, Lists
<1> HIDE DEF n
<1>3. \A i \in 1 .. n : /\ sets[i].do \notin Orders /\ sets[i].name = "sae_password"
                        /\ sets[i].value = <<passwords[i]>>
  BY <1>1 DEF Set, Orders
<1>4. PICK g : /\ g[0] = h.conf /\ g[n] = x.conf
               /\ \A i \in 0 .. n : g[i] = [name \in PropertyNames |-> g[i][name]]
               /\ \A i \in 1 .. n : g[i] = Assign(g[i - 1], sets[i].name, sets[i].value)
  <2>1. \A i \in 1 .. Len(sets) : sets[i].do \notin Orders
    BY <1>2, <1>3
  <2>2. PICK g : g[0] = h.conf /\ g[Len(sets)] = x.conf /\ Writing(g, sets)
    BY <2>1, Writes
  <2>3. Len(sets) = n
    BY <1>2
  <2> QED  BY <2>2, <2>3 DEF Writing
<1> DEFINE S == {i \in 0 .. n : g[i].sae_password = [j \in 1 .. i |-> passwords[j]]}
<1>5. 0 \in S
  <2>1. [j \in 1 .. 0 |-> passwords[j]] = <<>>
    OBVIOUS
  <2> QED  BY <1>1, <1>4, <2>1
<1>6. ASSUME NEW i \in 0 .. n - 1, i \in S PROVE i + 1 \in S
  <2> DEFINE l == i + 1
             t == g[i].sae_password
             p == passwords[l]
  <2>1. l \in 1 .. n /\ l \in 0 .. n /\ l - 1 = i /\ i \in 0 .. n /\ i \in Nat
    BY <1>1, SMTT(30)
  <2>2. t = [j \in 1 .. i |-> passwords[j]]
    BY <1>6
  <2>3. t \o <<passwords[i + 1]>> = [j \in 1 .. i + 1 |-> passwords[j]]
    <3> HIDE DEF t
    <3> QED  BY <2>1, <2>2, Longer
  <2> HIDE DEF l
  <2>4. g[l] = Assign(g[i], "sae_password", <<p>>)
    BY <1>3, <1>4, <2>1
  <2>5. g[i] = [name \in PropertyNames |-> g[i][name]] /\ "sae_password" \in PropertyNames
    BY <1>4, <2>1 DEF PropertyNames
  <2>6. g[l].sae_password = t \o <<p>>
    <3> HIDE DEF p
    <3>1. g[l] = [g[i] EXCEPT !.sae_password = IF <<p>> = <<>> THEN <<>> ELSE @ \o <<p>>]
      BY <2>4 DEF Assign
    <3>2. <<p>> # <<>>
      OBVIOUS
    <3> QED  BY <2>5, <3>1, <3>2
  <2>7. l \in S
    BY <2>1, <2>3, <2>6 DEF l
  <2> QED  BY <2>7 DEF l
<1>7. n \in S
  <2>1. n \in 0 .. n
    BY <1>1
  <2> HIDE DEF S
  <2> QED  BY <1>1, <1>5, <1>6, <2>1, Induction
<1> QED  BY <1>1, <1>4, <1>7

\* The key, as a passphrase or as digits.
LEMMA PskSet ==
    ASSUME NEW psk, NEW key, key = Ieee80211RsnaPskToWpaSharedKey(psk),
           NEW property, property = WpaPreSharedKeyPropertyKeyAndValue(key)
    PROVE  /\ Within(SetPreSharedKey(psk), {"psk"})
           /\ \A h, x : Done(h, SetPreSharedKey(psk), x) =>
                  /\ x.conf["psk"] = <<property.name, property.value>>
                  /\ Accepts(property.name, property.value) /\ x.live = x.conf
<1> DEFINE name == property.name
           value == property.value
           c == Set(name, value)
<1>1. SetPreSharedKey(psk) = <<c>> \o Reload
  BY DEF SetPreSharedKey, SetProperty
<1>2. name \in {"wpa_psk", "wpa_passphrase"}
  BY DEF WpaPreSharedKeyPropertyKeyAndValue
<1> HIDE DEF name, value
<1>3. Property(name) = "psk" /\ Value(name, value) = <<name, value>>
  BY <1>2 DEF Property, Value
<1>4. IsList(<<c>>) /\ ToSet(<<c>>) = {c} /\ IsList(Reload)
  <2> HIDE DEF c
  <2> QED  BY Singles DEF Reload
<1>5. Within(<<c>>, {"psk"}) /\ Sets(c, "psk") /\ Stored(c) = <<name, value>>
      /\ c.name = name /\ c.value = value
  BY <1>3, WithinSmall, Commands
<1> HIDE DEF c
<1>6. Within(<<c>> \o Reload, {"psk"})
  BY <1>5, WithinSmall, WithinConcatenation
<1>7. ASSUME NEW h, NEW x, Done(h, <<c>>, x)
      PROVE  x.conf["psk"] = <<name, value>> /\ Accepts(name, value)
  <2>1. "psk" \in PropertyNames /\ "psk" \notin Adding
    BY DEF PropertyNames, Adding
  <2> QED  BY <1>4, <1>5, <1>7, <2>1, DoneSets
<1>8. ASSUME NEW h, NEW x, Done(h, <<c>> \o Reload, x)
      PROVE  x.conf["psk"] = <<name, value>> /\ Accepts(name, value) /\ x.live = x.conf
  <2>1. PICK y : Done(h, <<c>>, y) /\ Done(y, Reload, x)
    BY <1>4, <1>8, RanConcatenation
  <2> QED  BY <1>7, <2>1, DoneReload
<1> QED  BY <1>1, <1>6, <1>8 DEF name, value

\* Of the keys a request may have hostapd only takes passphrases: digits arrive as zeros.
LEMMA KeyTaken ==
    ASSUME NEW psk, psk.encoding \in {"passphrase", "hex", "raw"},
           NEW h, NEW x, Done(h, SetPreSharedKey(FromDot11RsnaPsk(psk)), x)
    PROVE  /\ psk.encoding = "passphrase"
           /\ x.conf.psk = <<"wpa_passphrase", [size |-> psk.size, is |-> psk.is]>>
           /\ x.live = x.conf
<1> DEFINE from == FromDot11RsnaPsk(psk)
           key == Ieee80211RsnaPskToWpaSharedKey(from)
           property == WpaPreSharedKeyPropertyKeyAndValue(key)
<1>1. /\ x.conf["psk"] = <<property.name, property.value>>
      /\ Accepts(property.name, property.value) /\ x.live = x.conf
  <2> HIDE DEF property, key, from
  <2>1. key = Ieee80211RsnaPskToWpaSharedKey(from)
        /\ property = WpaPreSharedKeyPropertyKeyAndValue(key)
    BY DEF property, key
  <2>2. Done(h, SetPreSharedKey(from), x)
    BY DEF from
  <2> QED  BY <2>1, <2>2, PskSet
<1>2. CASE psk.encoding = "passphrase"
  <2>1. from = [encoding |-> "Passphrase", size |-> psk.size, is |-> psk.is]
    BY <1>2 DEF FromDot11RsnaPsk
  <2>2. property = [name |-> "wpa_passphrase", value |-> [size |-> psk.size, is |-> psk.is]]
    BY <2>1 DEF Ieee80211RsnaPskToWpaSharedKey, WpaPreSharedKeyPropertyKeyAndValue
  <2> HIDE DEF property
  <2> QED  BY <1>1, <1>2, <2>2
<1>3. CASE psk.encoding # "passphrase"
  <2>1. \/ from = [encoding |-> "Value", size |-> PskValueSize, is |-> psk.is]
        \/ from = EmptyPassphrase
    BY <1>3 DEF FromDot11RsnaPsk
  <2>2. CASE from = EmptyPassphrase
    <3>1. property.name = "wpa_passphrase" /\ property.value.size = 0
      BY <2>2 DEF EmptyPassphrase, Ieee80211RsnaPskToWpaSharedKey,
                  WpaPreSharedKeyPropertyKeyAndValue
    <3> HIDE DEF property
    <3>2. ~Accepts(property.name, property.value)
      BY <3>1 DEF Accepts, WpaPskPassphraseLengthMin, WpaPskPassphraseLengthMax
    <3> QED  BY <1>1, <3>2
  <2>3. CASE from = [encoding |-> "Value", size |-> PskValueSize, is |-> psk.is]
    <3>1. property.name = "wpa_psk" /\ property.value.is = "zeros"
      BY <2>3 DEF Ieee80211RsnaPskToWpaSharedKey, WpaPreSharedKeyPropertyKeyAndValue
    <3> HIDE DEF property
    <3>2. ~Accepts(property.name, property.value)
      BY <3>1 DEF Accepts
    <3> QED  BY <1>1, <3>2
  <2> QED  BY <2>1, <2>2, <2>3
<1> QED  BY <1>2, <1>3

\* A password as hostapd is given it.
PasswordGiven(p) == Ieee80211RsnaPasswordToWpaSaePassword(FromDot11RsnaPassword(p))

\* All passwords.
LEMMA SaeSet ==
    ASSUME NEW passwords, IsList(passwords)
    PROVE  LET set == SetSaePasswords(Each(FromDot11RsnaPassword, passwords))
           IN  /\ Within(set, {"sae_password"})
               /\ \A h, x : Done(h, set, x) =>
                      /\ x.conf["sae_password"]
                            = [i \in DOMAIN passwords |-> PasswordGiven(passwords[i])]
                      /\ x.live = x.conf
<1> DEFINE from == Each(FromDot11RsnaPassword, passwords)
           given == [i \in DOMAIN passwords |-> PasswordGiven(passwords[i])]
           adapted == Each(Ieee80211RsnaPasswordToWpaSaePassword, from)
           Add(password) == Set("sae_password", <<password>>)
           sets == Each(Add, adapted)
           c == Set("sae_password", <<>>)
           set == SetSaePasswords(from)
<1>1. set = (<<c>> \o sets) \o Reload
  BY DEF SetSaePasswords
<1>2. given = [i \in DOMAIN passwords |-> given[i]] /\ IsList(given)
  <2>1. given = [i \in DOMAIN passwords |-> given[i]]
    OBVIOUS
  <2> HIDE DEF given
  <2> QED  BY <2>1, Mapped
<1>3. sets = [i \in DOMAIN given |-> Set("sae_password", <<given[i]>>)]
  BY DEF Each, PasswordGiven
<1>4. IsList(sets)
  <2>1. sets = [i \in DOMAIN given |-> sets[i]]
    BY <1>3
  <2> HIDE DEF sets, given
  <2> QED  BY <1>2, <2>1, Mapped
<1> HIDE DEF sets, given, set
<1>5. Within(sets, {"sae_password"})
  <2>1. \A d \in ToSet(sets) : d.name = "sae_password" /\ d.do = "SET"
    BY <1>3 DEF ToSet, Set
  <2> QED  BY <1>4, <2>1 DEF Within, Property, Switches
<1>6. Within(<<c>>, {"sae_password"})
  BY WithinSmall DEF Property
<1>7. c.do \notin Orders /\ c.name = "sae_password" /\ c.value = <<>>
  BY DEF Set, Orders
<1> HIDE DEF c
<1>8. Within((<<c>> \o sets) \o Reload, {"sae_password"})
  <2>1. Within(<<c>> \o sets, {"sae_password"})
    BY <1>5, <1>6, WithinConcatenation
  <2> QED  BY <2>1, WithinSmall, WithinConcatenation
<1>9. IsList(<<c>>) /\ IsList(<<c>> \o sets) /\ IsList(Reload)
  <2>1. IsList(<<c>>) /\ IsList(Reload)
    BY Singles DEF Reload
  <2> QED  BY <1>4, <2>1, Concatenation
<1>10. ASSUME NEW h, NEW x, Done(h, (<<c>> \o sets) \o Reload, x)
       PROVE  x.conf["sae_password"] = given /\ x.live = x.conf
  <2>1. PICK z : Done(h, <<c>> \o sets, z) /\ Done(z, Reload, x)
    BY <1>9, <1>10, RanConcatenation
  <2>2. PICK y : Done(h, <<c>>, y) /\ Done(y, sets, z)
    BY <1>4, <1>9, <2>1, RanConcatenation
  <2>3. y.conf.sae_password = <<>>
    <3>1. Len(<<c>>) = 1 /\ \A i \in 1 .. 1 : <<c>>[i] = c
      OBVIOUS
    <3>2. \A i \in 1 .. Len(<<c>>) : <<c>>[i].do \notin Orders
      BY <1>7, <3>1
    <3>3. PICK g : g[0] = h.conf /\ g[Len(<<c>>)] = y.conf /\ Writing(g, <<c>>)
      BY <2>2, <3>2, Writes
    <3>4. g[1] = Assign(g[0], c.name, c.value)
          /\ g[0] = [name \in PropertyNames |-> g[0][name]]
      BY <3>1, <3>3 DEF Writing
    <3>5. y.conf = [g[0] EXCEPT !.sae_password = <<>>]
      BY <1>7, <3>1, <3>3, <3>4 DEF Assign
    <3>6. "sae_password" \in PropertyNames
      BY DEF PropertyNames
    <3> QED  BY <3>4, <3>5, <3>6
  <2>4. z.conf.sae_password = given
    BY <1>2, <1>3, <2>2, <2>3, SaeAdds
  <2> QED  BY <2>1, <2>4, DoneReload
<1> QED  BY <1>1, <1>8, <1>10 DEF set, given

-----------------------------------------------------------------------------
(* The keys and the passwords *)

\* The form of the keys and passwords of a request.
IsData(data) ==
    /\ IsOptional(data.psk) /\ IsOptional(data.sae)
    /\ \A psk \in ToSet(data.psk) : IsOptional(psk)
    /\ \A passwords \in ToSet(data.sae) : IsList(passwords)

\* WifiAccessPointSetAuthenticationDataImpl gives the key and the passwords.
LEMMA DataGivenBy ==
    ASSUME NEW accessPoint, NEW data, IsData(data)
    PROVE  LET impl == WifiAccessPointSetAuthenticationDataImpl(accessPoint, data)
           IN  /\ Within(impl, {"psk", "sae_password"})
               /\ \A h, x : Done(h, impl, x) =>
                      /\ data.psk # <<>> =>
                            /\ data.psk[1] # <<>>
                            /\ data.psk[1][1].encoding = "passphrase"
                            /\ x.conf.psk = <<"wpa_passphrase",
                                  [size |-> data.psk[1][1].size, is |-> data.psk[1][1].is]>>
                      /\ data.sae # <<>> => x.conf.sae_password =
                            [i \in DOMAIN data.sae[1] |-> PasswordGiven(data.sae[1][i])]
                      /\ x.live = x.conf
<1> DEFINE P == {"psk", "sae_password"}
           from == FromDot11AuthenticationData(data)
           key == FromDot11RsnaPsk(data.psk[1][1])
           passwords == data.sae[1]
           given == [i \in DOMAIN passwords |-> PasswordGiven(passwords[i])]
           taken == <<"wpa_passphrase",
                      [size |-> data.psk[1][1].size, is |-> data.psk[1][1].is]>>
           pre == SetPreSharedKey(from.Psk[1].Psk)
           sae == SetSaePasswords(from.Sae[1].Passwords)
           a == IF from.Psk # <<>> THEN pre ELSE <<>>
           b == IF from.Sae # <<>> THEN sae ELSE <<>>
           Valid(psk) == psk.encoding \in DOMAIN PskSizes /\ psk.size \in PskSizes[psk.encoding]
           bad == \/ data.psk = <<>> /\ data.sae = <<>>
                  \/ \E keys \in ToSet(data.psk) :
                         keys = <<>> \/ \E psk \in ToSet(keys) : ~Valid(psk)
                  \/ <<>> \in ToSet(data.sae)
           refused == RefuseIf(bad, "InvalidParameter")
           try == TryGetAccessPointController(accessPoint)
           checks == refused \o try
           impl == WifiAccessPointSetAuthenticationDataImpl(accessPoint, data)
<1>1. impl = (refused \o try) \o (a \o b)
  BY DEF WifiAccessPointSetAuthenticationDataImpl, SetAuthenticationData
<1>2. Within(refused, {}) /\ Within(try, {})
  BY WithinChecks
<1>3. Passes(refused) => ~bad
  <2>1. bad \in BOOLEAN
    OBVIOUS
  <2> HIDE DEF bad
  <2> QED  BY <2>1, RefuseIfPasses
<1> HIDE DEF refused, try
<1>4. Within(checks, {}) /\ (Passes(checks) => Passes(refused))
  <2>1. IsList(refused) /\ IsList(try)
    BY <1>2 DEF Within
  <2> QED  BY <1>2, <2>1, WithinConcatenation, RefusalsConcatenation
<1>5. /\ data.psk = <<>> \/ data.psk = <<data.psk[1]>>
      /\ data.sae = <<>> \/ data.sae = <<passwords>>
      /\ data.psk # <<>> => IsOptional(data.psk[1]) /\ data.psk[1] \in ToSet(data.psk)
      /\ data.sae # <<>> => IsList(passwords)
  <2>1. data.psk = <<>> \/ data.psk = <<data.psk[1]>>
    BY DEF IsData, IsOptional
  <2>2. data.sae = <<>> \/ data.sae = <<passwords>>
    BY DEF IsData, IsOptional
  <2>3. data.psk # <<>> => data.psk[1] \in ToSet(data.psk)
    BY <2>1, Singles
  <2>4. data.sae # <<>> => passwords \in ToSet(data.sae)
    BY <2>2, Singles
  <2> QED  BY <2>1, <2>2, <2>3, <2>4 DEF IsData
<1>6. /\ from.Psk # <<>> <=> data.psk # <<>>
      /\ from.Sae # <<>> <=> data.sae # <<>>
      /\ data.psk # <<>> => from.Psk[1] = FromDot11AuthenticationDataPsk(data.psk[1])
      /\ data.sae # <<>> => from.Sae[1] = FromDot11AuthenticationDataSae(passwords)
  BY <1>5 DEF FromDot11AuthenticationData, Each
<1>7. data.sae # <<>> => sae = SetSaePasswords(Each(FromDot11RsnaPassword, passwords))
  BY <1>6 DEF FromDot11AuthenticationDataSae
<1>8. data.psk # <<>> => \E psk : pre = SetPreSharedKey(psk)
  OBVIOUS
<1>9. ASSUME ~bad, data.psk # <<>>
      PROVE  /\ data.psk[1] # <<>> /\ pre = SetPreSharedKey(key)
             /\ data.psk[1][1].encoding \in {"passphrase", "hex", "raw"}
  <2> DEFINE keys == data.psk[1]
  <2>1. keys # <<>> /\ \A psk \in ToSet(keys) : Valid(psk)
    BY <1>5, <1>9
  <2>2. keys = <<keys[1]>> /\ ToSet(keys) = {keys[1]}
    BY <1>5, <1>9, <2>1, Optionals
  <2>3. Valid(keys[1])
    BY <2>1, <2>2
  <2>4. keys[1].encoding \in {"passphrase", "hex", "raw"}
    BY <2>3 DEF PskSizes
  <2>5. from.Psk[1].Psk = FromDot11RsnaPsk(keys[1])
    BY <1>6, <1>9, <2>1 DEF FromDot11AuthenticationDataPsk
  <2> QED  BY <2>1, <2>4, <2>5
<1> HIDE DEF bad
<1>10. Within(a, {"psk"}) /\ Within(b, {"sae_password"})
  <2>1. data.psk # <<>> => Within(pre, {"psk"})
    BY PskSet
  <2>2. data.sae # <<>> => Within(sae, {"sae_password"})
    <3> HIDE DEF sae, passwords
    <3> QED  BY <1>5, <1>7, SaeSet
  <2> HIDE DEF pre, sae, from
  <2> QED  BY <1>6, <2>1, <2>2, WithinSmall
<1>11. ASSUME NEW h, NEW x, Done(h, sae, x), data.sae # <<>>
       PROVE  x.conf["sae_password"] = given /\ x.live = x.conf
  <2>1. Done(h, SetSaePasswords(Each(FromDot11RsnaPassword, passwords)), x)
    BY <1>7, <1>11
  <2> QED  BY <1>5, <1>11, <2>1, SaeSet
<1>12. ASSUME NEW h, NEW x, Done(h, pre, x), ~bad, data.psk # <<>>
       PROVE  x.conf.psk = taken /\ x.live = x.conf /\ data.psk[1][1].encoding = "passphrase"
  <2>1. Done(h, SetPreSharedKey(key), x)
    BY <1>9, <1>12
  <2> DEFINE k == data.psk[1][1]
  <2>2. key = FromDot11RsnaPsk(k) /\ k.encoding \in {"passphrase", "hex", "raw"}
        /\ taken = <<"wpa_passphrase", [size |-> k.size, is |-> k.is]>>
    BY <1>9, <1>12
  <2>3. k.encoding = "passphrase" => data.psk[1][1].encoding = "passphrase"
    OBVIOUS
  <2> HIDE DEF key, k, taken
  <2>4. Done(h, SetPreSharedKey(FromDot11RsnaPsk(k)), x)
    BY <2>1, <2>2
  <2>5. /\ k.encoding = "passphrase"
        /\ x.conf.psk = <<"wpa_passphrase", [size |-> k.size, is |-> k.is]>>
        /\ x.live = x.conf
    BY <2>2, <2>4, KeyTaken
  <2> QED  BY <2>2, <2>3, <2>5
<1> HIDE DEF pre, sae, checks, taken, given, from
<1>13. ASSUME NEW h, NEW x, Done(h, checks \o (a \o b), x)
       PROVE  /\ data.psk # <<>> => data.psk[1] # <<>> /\ x.conf.psk = taken
                                      /\ data.psk[1][1].encoding = "passphrase"
              /\ data.sae # <<>> => x.conf.sae_password = given
              /\ x.live = x.conf
  <2>1. IsList(a) /\ IsList(b) /\ IsList(a \o b)
    BY <1>10, Concatenation DEF Within
  <2> HIDE DEF a, b
  <2>2. Passes(checks) /\ \E y : Done(y, a \o b, x)
    BY <1>4, <1>13, <2>1, DoneChecked
  <2>3. PICK y : Done(y, a \o b, x)
    BY <2>2
  <2>4. PICK z : Done(y, a, z) /\ Done(z, b, x)
    BY <2>1, <2>3, RanConcatenation
  <2>5. ~bad
    BY <1>3, <1>4, <2>2
  <2>6. data.psk # <<>> => /\ z.conf.psk = taken /\ z.live = z.conf
                           /\ data.psk[1][1].encoding = "passphrase"
    BY <1>6, <1>12, <2>4, <2>5 DEF a
  <2>7. x.conf["psk"] = z.conf["psk"]
    <3>1. "psk" \in PropertyNames /\ "psk" \notin {"sae_password"}
      BY DEF PropertyNames
    <3> QED  BY <1>10, <2>4, <3>1, Outside DEF Done
  <2>8. data.sae # <<>> => x.conf["sae_password"] = given /\ x.live = x.conf
    BY <1>6, <1>11, <2>4 DEF b
  <2>9. data.sae = <<>> => x = z /\ data.psk # <<>>
    <3>1. data.sae = <<>> => b = <<>>
      BY <1>6 DEF b
    <3>2. data.sae = <<>> => data.psk # <<>>
      BY <2>5 DEF bad
    <3> QED  BY <2>4, <3>1, <3>2, DoneSmall DEF Done
  <2>10. data.psk # <<>> => data.psk[1] # <<>>
    BY <1>9, <2>5
  <2> QED  BY <2>6, <2>7, <2>8, <2>9, <2>10
<1>14. Within(checks \o (a \o b), P)
  <2> HIDE DEF a, b
  <2>1. Within(a, P) /\ Within(b, P) /\ Within(checks, P)
    BY <1>4, <1>10, WithinMore
  <2> HIDE DEF P
  <2> QED  BY <2>1, WithinConcatenation
<1> QED  BY <1>1, <1>13, <1>14 DEF checks, taken, given

-----------------------------------------------------------------------------
(* The ciphers *)

\* hostapd's text for a cipher of the API.
CipherText(c) == WpaCipherPropertyValue(Ieee80211CipherSuiteToWpaCipher(FromDot11CipherSuite(c)))

\* Each of the API's ciphers that hostapd supports.
CipherThing ==
    [Dot11CipherSuiteBipCmac128 |-> "AES-128-CMAC", Dot11CipherSuiteBipCmac256 |-> "BIP-CMAC-256",
     Dot11CipherSuiteBipGmac128 |-> "BIP-GMAC-128", Dot11CipherSuiteBipGmac256 |-> "BIP-GMAC-256",
     Dot11CipherSuiteCcmp128 |-> "CCMP", Dot11CipherSuiteCcmp256 |-> "CCMP-256",
     Dot11CipherSuiteGcmp128 |-> "GCMP", Dot11CipherSuiteGcmp256 |-> "GCMP-256",
     Dot11CipherSuiteGroupAddressesTrafficNotAllowed |-> "GTK_NOT_USED",
     Dot11CipherSuiteTkip |-> "TKIP"]

\* No name stands for two ciphers.
LEMMA CipherNamed ==
    \A thing \in DOMAIN CipherNames : \A name \in CipherNames[thing] :
        Meaning(CipherNames, name) = thing
<1>1. ASSUME NEW name, NEW t \in DOMAIN CipherNames, NEW u \in DOMAIN CipherNames,
             name \in CipherNames[t], name \in CipherNames[u]
      PROVE  t = u
  BY <1>1 DEF CipherNames
<1> QED  BY <1>1 DEF Meaning

\* What hostapd is told for a cipher is what its name stands for.
LEMMA CipherTexts ==
    /\ \A c \in DOMAIN CipherThing : /\ CipherText(c) = CipherThing[c]
                                     /\ Meaning(CipherNames, c) = CipherThing[c]
    /\ \A c : c \notin DOMAIN CipherThing =>
                 CipherText(c) \in {"NONE", "WEP40", "WEP104", "UNKNOWN"}
<1>1. ASSUME NEW c \in DOMAIN CipherThing PROVE CipherText(c) = CipherThing[c]
  BY DEF CipherThing, CipherText, WpaCipherPropertyValue, WpaCipherTexts,
         Ieee80211CipherSuiteToWpaCipher, FromDot11CipherSuite, Switch
<1>2. ASSUME NEW c \in DOMAIN CipherThing
      PROVE  CipherThing[c] \in DOMAIN CipherNames /\ c \in CipherNames[CipherThing[c]]
  BY DEF CipherThing, CipherNames
<1>3. ASSUME NEW c, c \notin DOMAIN CipherThing
      PROVE  CipherText(c) \in {"NONE", "WEP40", "WEP104", "UNKNOWN"}
  <2>1. FromDot11CipherSuite(c) \in {"UseGroup", "Wep40", "Wep104", "Unknown"}
    BY <1>3 DEF CipherThing, FromDot11CipherSuite, Switch
  <2>2. Ieee80211CipherSuiteToWpaCipher(FromDot11CipherSuite(c))
          \in {"None", "Wep40", "Wep104", "Unknown"}
    BY <2>1 DEF Ieee80211CipherSuiteToWpaCipher, Switch
  <2> QED  BY <2>2 DEF CipherText, WpaCipherPropertyValue, WpaCipherTexts, Switch
<1> QED  BY <1>1, <1>2, <1>3, CipherNamed

\* A text that hostapd takes means what the client named.
LEMMA CipherMeans ==
    \A c : /\ CipherText(c) # "UNKNOWN"
           /\ IsWpaCipherSupported(WpaCipherFromPropertyValue(CipherText(c)))
           => Meaning(CipherNames, c) = CipherText(c)
<1>1. ASSUME NEW text \in {"NONE", "WEP40", "WEP104"}
      PROVE  ~IsWpaCipherSupported(WpaCipherFromPropertyValue(text))
  <2>1. ASSUME NEW e \in DOMAIN WpaCipherTexts, WpaCipherTexts[e] = text
        PROVE  e \in {"None", "Wep40", "Wep104"}
    BY <2>1 DEF WpaCipherTexts
  <2>2. \E e \in DOMAIN WpaCipherTexts : WpaCipherTexts[e] = text
    BY DEF WpaCipherTexts
  <2>3. Named(WpaCipherTexts, text) \in {"None", "Wep40", "Wep104"}
    BY <2>1, <2>2 DEF Named
  <2> QED  BY <2>3 DEF IsWpaCipherSupported, WpaCipherFromPropertyValue, WpaCiphersUnsupported
<1> QED  BY <1>1, CipherTexts

\* The protocol of hostapd for one of the neutral vocabulary.
Wpa(protocol) == Ieee80211SecurityProtocolToWpaSecurityProtocol(protocol)

\* hostapd's numbers for the protocols, and the properties they have.
LEMMA Protocols ==
    /\ Wpa("Wpa") = 1 /\ Wpa("Wpa2") = 2 /\ Wpa("Wpa3") = 2
    /\ \A p : p \notin {"Wpa", "Wpa2", "Wpa3"} => Wpa(p) = 0
    /\ \A wpa : /\ WpaCipherPropertyName(wpa) \in {"wpa_pairwise", "rsn_pairwise", "invalid"}
                /\ WpaCipherPropertyName(wpa) = "wpa_pairwise" <=> wpa = 1
                /\ WpaCipherPropertyName(wpa) = "rsn_pairwise" <=> wpa = 2
<1>1. WpaSecurityProtocol = [Unknown |-> 0, Wpa |-> 1, Wpa2 |-> 2, Wpa3 |-> 2]
  <2>1. 2^0 = 1 /\ 2^1 = 2
    OBVIOUS
  <2> QED  BY <2>1 DEF WpaSecurityProtocol
<1>2. /\ Wpa("Wpa") = 1 /\ Wpa("Wpa2") = 2 /\ Wpa("Wpa3") = 2
      /\ \A p : p \notin {"Wpa", "Wpa2", "Wpa3"} => Wpa(p) = 0
  BY <1>1 DEF Wpa, Ieee80211SecurityProtocolToWpaSecurityProtocol, Switch
<1>3. WpaSecurityProtocol.Wpa = 1 /\ WpaSecurityProtocol.Wpa2 = 2
  BY <1>1
<1> QED  BY <1>2, <1>3 DEF WpaCipherPropertyName

\* The properties of the pairwise ciphers.
Pairwise == {"wpa_pairwise", "rsn_pairwise"}

\* One protocol's ciphers are set under its property, or not at all.
LEMMA ProtocolSet ==
    ASSUME NEW wpa, NEW ciphers, NEW set, set = SetProtocolCipherSuites(wpa, ciphers),
           NEW texts, texts = Each(WpaCipherPropertyValue, ciphers),
           NEW name, name = WpaCipherPropertyName(wpa)
    PROVE  /\ Within(set, Pairwise)
           /\ set # Throw => /\ "UNKNOWN" \notin ToSet(texts) /\ name \in Pairwise
                             /\ set = SetProperty(name, texts, "Now")
<1> DEFINE throws == texts = <<>> \/ "UNKNOWN" \in ToSet(texts) \/ name = "invalid"
<1>1. set = IF throws THEN Throw ELSE SetProperty(name, texts, "Now")
  BY DEF SetProtocolCipherSuites
<1>2. name \in Pairwise \/ name = "invalid"
  BY Protocols DEF Pairwise
<1>3. name \in Pairwise => Within(SetProperty(name, texts, "Now"), Pairwise)
  <2>1. ASSUME name \in Pairwise PROVE Within(SetProperty(name, texts, "Now"), {name})
    <3>1. name \in PropertyNames /\ name \notin Adding /\ name # "psk"
      BY <2>1 DEF Pairwise, PropertyNames, Adding
    <3> QED  BY <3>1, PropertySet
  <2> QED  BY <2>1, WithinMore
<1>4. Within(Throw, Pairwise)
  BY WithinSmall
<1>5. Within(set, Pairwise)
  <2>1. CASE throws
    BY <1>1, <1>4, <2>1
  <2>2. CASE ~throws
    <3>1. set = SetProperty(name, texts, "Now") /\ name \in Pairwise
      BY <1>1, <1>2, <2>2
    <3> QED  BY <1>3, <3>1
  <2> QED  BY <2>1, <2>2
<1>6. set # Throw => ~throws
  BY <1>1
<1> QED  BY <1>1, <1>2, <1>5, <1>6

\* An ordering of a finite set has all of its elements.
LEMMA Orderings ==
    ASSUME NEW S, IsFiniteSet(S), NEW order \in SetToSeqs(S)
    PROVE  /\ IsList(order) /\ \A i \in DOMAIN order : order[i] \in S
           /\ \A e \in S : \E i \in DOMAIN order : order[i] = e
<1> DEFINE n == Cardinality(S)
           D == 1 .. n
<1>1. n \in Nat /\ IsFiniteSet(D) /\ Cardinality(D) = n
  <2>1. n \in Nat
    BY FS_CardinalityType
  <2> HIDE DEF n
  <2> QED  BY <2>1, FS_Interval
<1>2. order \in [D -> S] /\ \A i, j \in D : i # j => order[i] # order[j]
  BY DEF SetToSeqs
<1>3. order \in Injection(D, S)
  BY <1>2 DEF Injection, IsInjective
<1>4. order \in Surjection(D, S)
  BY <1>1, <1>3, FS_Injection
<1>5. \A e \in S : \E i \in D : order[i] = e
  BY <1>4 DEF Surjection
<1>6. IsList(order)
  <2>1. order = [i \in 1 .. n |-> order[i]]
    BY <1>2
  <2> HIDE DEF n
  <2> QED  BY <1>1, <2>1, Lists
<1> QED  BY <1>2, <1>5, <1>6

\* The ciphers of all protocols: each property has those of its protocol.
LEMMA OrderedCiphers ==
    ASSUME NEW suites, IsFiniteSet(DOMAIN suites), NEW order \in SetToSeqs(DOMAIN suites),
           NEW ss, ss = [i \in DOMAIN order |->
                             SetProtocolCipherSuites(order[i], suites[order[i]])]
    PROVE  /\ Within(FlattenSeq(ss) \o Read, Pairwise)
           /\ \A h, x : Done(h, FlattenSeq(ss) \o Read, x) =>
                 /\ \A wpa \in DOMAIN suites :
                       LET name == WpaCipherPropertyName(wpa)
                           texts == Each(WpaCipherPropertyValue, suites[wpa])
                       IN  name \in Pairwise => /\ x.conf[name] = <<texts>>
                                                /\ Accepts(name, texts)
                                                /\ "UNKNOWN" \notin ToSet(texts)
                 /\ DOMAIN suites # {} => x.live = x.conf
<1> DEFINE Texts(wpa) == Each(WpaCipherPropertyValue, suites[wpa])
           Name(wpa) == WpaCipherPropertyName(wpa)
<1>1. /\ IsList(order) /\ \A i \in DOMAIN order : order[i] \in DOMAIN suites
      /\ \A wpa \in DOMAIN suites : \E i \in DOMAIN order : order[i] = wpa
  BY Orderings
<1>2. IsList(ss) /\ DOMAIN ss = DOMAIN order
  <2>1. ss = [i \in DOMAIN order |-> ss[i]]
    OBVIOUS
  <2> QED  BY <1>1, <2>1, Mapped
<1>3. ASSUME NEW i \in DOMAIN ss
      PROVE  /\ Within(ss[i], Pairwise)
             /\ ss[i] # Throw => /\ "UNKNOWN" \notin ToSet(Texts(order[i]))
                                 /\ Name(order[i]) \in Pairwise
                                 /\ ss[i] = SetProperty(Name(order[i]), Texts(order[i]), "Now")
  <2> DEFINE wpa == order[i]
             texts == Texts(wpa)
             name == Name(wpa)
  <2>1. ss[i] = SetProtocolCipherSuites(wpa, suites[wpa])
    BY <1>2
  <2>2. texts = Each(WpaCipherPropertyValue, suites[wpa]) /\ name = WpaCipherPropertyName(wpa)
    OBVIOUS
  <2> HIDE DEF texts, name, wpa
  <2>3. /\ Within(ss[i], Pairwise)
        /\ ss[i] # Throw => /\ "UNKNOWN" \notin ToSet(texts) /\ name \in Pairwise
                            /\ ss[i] = SetProperty(name, texts, "Now")
    BY <2>1, <2>2, ProtocolSet
  <2> QED  BY <2>3 DEF wpa, texts, name
<1> HIDE DEF Texts, Name
<1>4. \A i \in DOMAIN ss : IsList(ss[i])
  BY <1>3 DEF Within
<1>5. Within(FlattenSeq(ss), Pairwise) /\ IsList(FlattenSeq(ss))
  <2>1. Within(FlattenSeq(ss), Pairwise)
    BY <1>2, <1>3, WithinFlatten
  <2> QED  BY <2>1 DEF Within
<1>6. Within(FlattenSeq(ss) \o Read, Pairwise)
  BY <1>5, WithinSmall, WithinConcatenation
<1>7. ToSet(FlattenSeq(ss)) = UNION {ToSet(ss[i]) : i \in DOMAIN ss}
  BY <1>2, <1>4, Flatten
<1>8. ASSUME NEW h, NEW x, Done(h, FlattenSeq(ss), x)
      PROVE  /\ \A wpa \in DOMAIN suites : Name(wpa) \in Pairwise =>
                   /\ x.conf[Name(wpa)] = <<Texts(wpa)>>
                   /\ Accepts(Name(wpa), Texts(wpa)) /\ "UNKNOWN" \notin ToSet(Texts(wpa))
             /\ DOMAIN suites # {} => x.live = x.conf
  <2>1. \A i \in DOMAIN ss : ss[i] # Throw
    <3> SUFFICES ASSUME NEW i \in DOMAIN ss, ss[i] = Throw PROVE FALSE
      OBVIOUS
    <3>1. Passes(FlattenSeq(ss))
      BY <1>8, DonePasses
    <3> DEFINE c == [do |-> "throw"]
    <3>2. Throw = <<c>> /\ Stops(c)
      BY DEF Throw, Stops
    <3> HIDE DEF c
    <3>3. c \in ToSet(ss[i])
      BY <3>2, Singles
    <3>4. c \in ToSet(FlattenSeq(ss))
      BY <1>7, <3>3
    <3>5. PICK j \in DOMAIN FlattenSeq(ss) : FlattenSeq(ss)[j] = c
      BY <3>4 DEF ToSet
    <3> QED  BY <3>1, <3>2, <3>5 DEF Passes
  <2>2. ASSUME NEW wpa \in DOMAIN suites, Name(wpa) \in Pairwise
        PROVE  /\ x.conf[Name(wpa)] = <<Texts(wpa)>>
               /\ Accepts(Name(wpa), Texts(wpa)) /\ "UNKNOWN" \notin ToSet(Texts(wpa))
    <3> DEFINE name == Name(wpa)
               c == Set(name, Texts(wpa))
    <3>1. PICK i \in DOMAIN ss : order[i] = wpa
      BY <1>1, <1>2
    <3>2. ss[i] = SetProperty(name, Texts(wpa), "Now") /\ "UNKNOWN" \notin ToSet(Texts(wpa))
      BY <1>3, <2>1, <3>1
    <3>3. name \in PropertyNames /\ name \notin Adding /\ name # "psk"
      BY <2>2 DEF Pairwise, PropertyNames, Adding
    <3> HIDE DEF name
    <3>4. ASSUME NEW n \in PropertyNames, n # "psk", NEW t, NEW d,
                 d \in ToSet(SetProperty(n, t, "Now")), d.do \notin Orders
          PROVE  d = Set(n, t)
      <4> DEFINE e == Set(n, t)
                 r == [do |-> "RELOAD"]
      <4>1. SetProperty(n, t, "Now") = <<e>> \o <<r>>
        BY DEF SetProperty, Reload
      <4>2. r.do \in Orders
        BY DEF Orders
      <4> HIDE DEF e, r
      <4>3. ToSet(<<e>> \o <<r>>) = {e} \cup {r}
        BY Singles, Concatenation
      <4> QED  BY <3>4, <4>1, <4>2, <4>3 DEF e
    <3>5. c \in ToSet(FlattenSeq(ss)) /\ Sets(c, name)
      <4>1. c \in ToSet(SetProperty(name, Texts(wpa), "Now"))
        <5>1. SetProperty(name, Texts(wpa), "Now") = <<c>> \o Reload
          BY DEF SetProperty
        <5>2. IsList(Reload)
          BY Singles DEF Reload
        <5> HIDE DEF c
        <5>3. IsList(<<c>>) /\ ToSet(<<c>>) = {c}
          BY Singles
        <5>4. ToSet(<<c>> \o Reload) = ToSet(<<c>>) \cup ToSet(Reload)
          BY <5>2, <5>3, Concatenation
        <5> QED  BY <5>1, <5>3, <5>4
      <4>2. Sets(c, name)
        BY <3>3, Commands
      <4> HIDE DEF c
      <4> QED  BY <1>7, <3>2, <4>1, <4>2
    <3> HIDE DEF c
    <3>6. PICK d \in ToSet(FlattenSeq(ss)) :
              Sets(d, name) /\ Accepts(d.name, d.value) /\ x.conf[name] = Stored(d)
      BY <1>8, <3>3, <3>5, DoneSets
    <3>7. PICK j \in DOMAIN ss : d \in ToSet(ss[j])
      BY <1>7, <3>6
    <3> DEFINE m == Name(order[j])
               t == Texts(order[j])
    <3>8. m \in Pairwise /\ ss[j] = SetProperty(m, t, "Now")
      BY <1>3, <2>1
    <3>9. d = Set(m, t) /\ m \in PropertyNames /\ m # "psk"
      <4>1. m \in PropertyNames /\ m # "psk"
        BY <3>8 DEF Pairwise, PropertyNames
      <4>2. d.do \notin Orders
        BY <3>6 DEF Sets
      <4> HIDE DEF m, t
      <4> QED  BY <3>4, <3>7, <3>8, <4>1, <4>2
    <3>10. d.name = m /\ d.value = t /\ Stored(d) = <<t>> /\ (Sets(d, name) => m = name)
      <4> HIDE DEF m, t
      <4>1. /\ d.name = m /\ d.value = t /\ Stored(d) = Value(m, t)
            /\ Sets(d, name) => Property(m) = name
        BY <3>9, Commands
      <4> QED  BY <3>9, <4>1, Commands
    <3>11. order[j] = wpa
      BY <2>2, <3>6, <3>8, <3>10, Protocols DEF Name, Pairwise, name
    <3> QED  BY <3>2, <3>6, <3>10, <3>11 DEF name
  <2>3. ASSUME DOMAIN suites # {} PROVE x.live = x.conf
    <3>1. Ran(h, FlattenSeq(ss), x) /\ x.status = "Succeeded"
      BY <1>8 DEF Done
    <3>2. PICK st : Through(st, ss, h, x)
      BY <1>2, <1>4, <3>1, Chain
    <3> DEFINE n == Len(ss)
    <3>3. n \in Nat /\ DOMAIN ss = 1 .. n
      BY <1>2, Lists
    <3>4. n \in 1 .. n /\ n \in 0 .. n
      BY <1>1, <1>2, <2>3, <3>3
    <3> HIDE DEF n
    <3>5. Done(st[n - 1], ss[n], st[n])
      <4>1. Ran(st[n - 1], ss[n], st[n])
        BY <3>2, <3>4 DEF Chained, Through, n
      <4>2. st[n].status = "Succeeded"
        BY <3>1, <3>2 DEF Through, n
      <4> QED  BY <4>1, <4>2 DEF Done
    <3> DEFINE m == Name(order[n])
               t == Texts(order[n])
    <3>6. m \in Pairwise /\ ss[n] = SetProperty(m, t, "Now")
      BY <1>3, <2>1, <3>3, <3>4
    <3>7. m \in PropertyNames /\ m \notin Adding /\ m # "psk"
      BY <3>6 DEF Pairwise, PropertyNames, Adding
    <3> HIDE DEF m, t
    <3>8. Done(st[n - 1], SetProperty(m, t, "Now"), st[n])
      BY <3>5, <3>6
    <3>9. st[n].live = st[n].conf
      BY <3>7, <3>8, NowSet
    <3> QED  BY <3>2, <3>9 DEF Through, n
  <2> QED  BY <2>2, <2>3
<1>9. ASSUME NEW h, NEW x, Done(h, FlattenSeq(ss) \o Read, x)
      PROVE  /\ \A wpa \in DOMAIN suites : Name(wpa) \in Pairwise =>
                   /\ x.conf[Name(wpa)] = <<Texts(wpa)>>
                   /\ Accepts(Name(wpa), Texts(wpa)) /\ "UNKNOWN" \notin ToSet(Texts(wpa))
             /\ DOMAIN suites # {} => x.live = x.conf
  <2>1. PICK y : /\ Done(h, FlattenSeq(ss), y) /\ x.conf = y.conf
                 /\ (y.live = y.conf => x.live = x.conf)
    BY <1>5, <1>9, ReadBack
  <2> QED  BY <1>8, <2>1
<1> QED  BY <1>6, <1>9 DEF Name, Texts

\* A set of naturals has a least element.
LEMMA Least ==
    ASSUME NEW T \in SUBSET Nat, T # {}
    PROVE  \E x \in T : \A y \in T : x <= y
<1> DEFINE R == OpToRel(<, Nat)
<1>1. IsWellFoundedOn(R, Nat)
  BY NatLessThanWellFounded
<1>2. \A x, y \in Nat : x < y => <<x, y>> \in R
  BY DEF OpToRel
<1> HIDE DEF R
<1>3. PICK x \in T : \A y \in T : ~ (<<y, x>> \in R)
  BY <1>1, WFMin
<1>4. ASSUME NEW y \in T PROVE x <= y
  <2>1. x \in Nat /\ y \in Nat
    OBVIOUS
  <2>2. ~ (y < x)
    BY <1>2, <1>3, <2>1
  <2> QED  BY <2>1, <2>2
<1> QED  BY <1>4

\* Where a list first names a protocol.
FirstOf(list, protocol) ==
    {i \in DOMAIN list : /\ list[i].securityProtocol = protocol
                         /\ \A j \in 1 .. i - 1 : list[j].securityProtocol # protocol}

\* The map has the first list of each protocol.
IsFirst(list, protocol, ciphers) ==
    \E i \in FirstOf(list, protocol) : ciphers = list[i].cipherSuites

\* A map keeps the first entry of the list for each protocol.
LEMMA MapOfFirst ==
    ASSUME NEW list, IsList(list), NEW map, map = ToDot11CipherSuiteMap(list)
    PROVE  /\ DOMAIN map = {list[i].securityProtocol : i \in DOMAIN list}
           /\ \A protocol \in DOMAIN map : IsFirst(list, protocol, map[protocol])
<1>1. DOMAIN map = {list[i].securityProtocol : i \in DOMAIN list}
  BY DEF ToDot11CipherSuiteMap
<1>2. ASSUME NEW protocol \in DOMAIN map
      PROVE  IsFirst(list, protocol, map[protocol])
  <2> DEFINE T == {i \in DOMAIN list : list[i].securityProtocol = protocol}
             first == CHOOSE i \in DOMAIN list :
                        /\ list[i].securityProtocol = protocol
                        /\ \A j \in 1 .. i - 1 : list[j].securityProtocol # protocol
  <2>1. Len(list) \in Nat /\ DOMAIN list = 1 .. Len(list)
    BY Lists
  <2>2. T \in SUBSET Nat /\ T # {}
    BY <1>1, <2>1
  <2>3. PICK m \in T : \A y \in T : m <= y
    <3> HIDE DEF T
    <3> QED  BY <2>2, Least
  <2>4. \A j \in 1 .. m - 1 : list[j].securityProtocol # protocol
    BY <2>1, <2>3
  <2>5. first \in FirstOf(list, protocol)
    BY <2>3, <2>4 DEF FirstOf
  <2>6. map[protocol] = list[first].cipherSuites
    BY DEF ToDot11CipherSuiteMap
  <2> HIDE DEF first
  <2> QED  BY <2>5, <2>6 DEF IsFirst
<1> QED  BY <1>1, <1>2

\* The service's map by its own names of the protocols.
LEMMA FromMap ==
    ASSUME NEW map, NEW from, from = FromDot11CipherSuiteConfigurations(map)
    PROVE  /\ \A q \in DOMAIN map : FromDot11SecurityProtocol(q) \in DOMAIN from
           /\ \A p \in DOMAIN from : \E q \in DOMAIN map :
                 /\ FromDot11SecurityProtocol(q) = p
                 /\ from[p] = Each(FromDot11CipherSuite, map[q])
<1>1. \A q \in DOMAIN map : FromDot11SecurityProtocol(q) \in DOMAIN from
  BY DEF FromDot11CipherSuiteConfigurations
<1>2. ASSUME NEW p \in DOMAIN from
      PROVE  \E q \in DOMAIN map : /\ FromDot11SecurityProtocol(q) = p
                                   /\ from[p] = Each(FromDot11CipherSuite, map[q])
  <2> DEFINE q == CHOOSE q \in DOMAIN map : FromDot11SecurityProtocol(q) = p
  <2>1. \E r \in DOMAIN map : FromDot11SecurityProtocol(r) = p
    BY DEF FromDot11CipherSuiteConfigurations
  <2>2. q \in DOMAIN map /\ FromDot11SecurityProtocol(q) = p
    BY <2>1
  <2>3. from[p] = Each(FromDot11CipherSuite, map[q])
    BY DEF FromDot11CipherSuiteConfigurations
  <2> QED  BY <2>2, <2>3
<1> QED  BY <1>1, <1>2

\* hostapd's map by its numbers.
LEMMA FromSuites ==
    ASSUME NEW from, NEW suites \in Ieee80211CipherSuitesToWpaCipherSuites(from)
    PROVE  /\ IsFiniteSet(DOMAIN suites)
           /\ \A p \in DOMAIN from : Wpa(p) \in DOMAIN suites
           /\ \A wpa \in DOMAIN suites : \E p \in DOMAIN from :
                 /\ Wpa(p) = wpa
                 /\ suites[wpa] = Each(Ieee80211CipherSuiteToWpaCipher, from[p])
<1>1. PICK kept \in SUBSET DOMAIN from :
          /\ {Wpa(p) : p \in kept} = {Wpa(p) : p \in DOMAIN from}
          /\ suites = [wpa \in {Wpa(p) : p \in kept} |->
                          Each(Ieee80211CipherSuiteToWpaCipher,
                               from[CHOOSE p \in kept : Wpa(p) = wpa])]
  BY DEF Ieee80211CipherSuitesToWpaCipherSuites, Wpa
<1>2. \A p \in DOMAIN from : Wpa(p) \in DOMAIN suites
  BY <1>1
<1>3. ASSUME NEW wpa \in DOMAIN suites
      PROVE  \E p \in DOMAIN from : /\ Wpa(p) = wpa
                 /\ suites[wpa] = Each(Ieee80211CipherSuiteToWpaCipher, from[p])
  <2> DEFINE q == CHOOSE p \in kept : Wpa(p) = wpa
  <2>1. q \in kept /\ Wpa(q) = wpa
    BY <1>1
  <2>2. suites[wpa] = Each(Ieee80211CipherSuiteToWpaCipher, from[q])
    BY <1>1
  <2> QED  BY <2>1, <2>2
<1>4. DOMAIN suites \subseteq {0, 1, 2}
  <2>1. \A p : Wpa(p) \in {0, 1, 2}
    BY Protocols
  <2> QED  BY <1>1, <2>1
<1>5. IsFiniteSet({0, 1, 2})
  <2>1. \A x : IsFiniteSet({x})
    BY FS_Singleton
  <2>2. IsFiniteSet({0} \cup {1})
    BY <2>1, FS_AddElement
  <2>3. IsFiniteSet(({0} \cup {1}) \cup {2})
    BY <2>2, FS_AddElement
  <2>4. ({0} \cup {1}) \cup {2} = {0, 1, 2}
    OBVIOUS
  <2> QED  BY <2>3, <2>4
<1> QED  BY <1>2, <1>3, <1>4, <1>5, FS_Subset

\* The conversions between a list of the request and hostapd's texts.
LEMMA CiphersConverted ==
    ASSUME NEW list, IsList(list), NEW map, map = ToDot11CipherSuiteMap(list),
           NEW from, from = FromDot11CipherSuiteConfigurations(map),
           NEW suites \in Ieee80211CipherSuitesToWpaCipherSuites(from)
    PROVE  /\ \A protocol : FirstOf(list, protocol) # {} =>
                 Wpa(FromDot11SecurityProtocol(protocol)) \in DOMAIN suites
           /\ \A wpa \in DOMAIN suites : \E protocol : \E i \in FirstOf(list, protocol) :
                 /\ Wpa(FromDot11SecurityProtocol(protocol)) = wpa
                 /\ Each(WpaCipherPropertyValue, suites[wpa])
                      = [k \in DOMAIN list[i].cipherSuites |-> CipherText(list[i].cipherSuites[k])]
<1>1. ASSUME NEW protocol, NEW i \in FirstOf(list, protocol)
      PROVE  Wpa(FromDot11SecurityProtocol(protocol)) \in DOMAIN suites
  <2>1. i \in DOMAIN list /\ list[i].securityProtocol = protocol
    BY DEF FirstOf
  <2>2. protocol \in DOMAIN map
    BY <2>1, MapOfFirst
  <2>3. FromDot11SecurityProtocol(protocol) \in DOMAIN from
    BY <2>2, FromMap
  <2> QED  BY <2>3, FromSuites
<1>2. ASSUME NEW wpa \in DOMAIN suites
      PROVE  \E protocol : \E i \in FirstOf(list, protocol) :
                 /\ Wpa(FromDot11SecurityProtocol(protocol)) = wpa
                 /\ Each(WpaCipherPropertyValue, suites[wpa])
                      = [k \in DOMAIN list[i].cipherSuites |-> CipherText(list[i].cipherSuites[k])]
  <2>1. PICK p \in DOMAIN from :
          Wpa(p) = wpa /\ suites[wpa] = Each(Ieee80211CipherSuiteToWpaCipher, from[p])
    BY FromSuites
  <2>2. PICK q \in DOMAIN map :
          FromDot11SecurityProtocol(q) = p /\ from[p] = Each(FromDot11CipherSuite, map[q])
    BY FromMap
  <2>3. PICK i \in FirstOf(list, q) : map[q] = list[i].cipherSuites
    <3>1. IsFirst(list, q, map[q])
      BY MapOfFirst
    <3> QED  BY <3>1 DEF IsFirst
  <2> DEFINE cs == list[i].cipherSuites
  <2>4. from[p] = [k \in DOMAIN cs |-> FromDot11CipherSuite(cs[k])]
    BY <2>2, <2>3 DEF Each
  <2>5. suites[wpa] = [k \in DOMAIN cs |->
                          Ieee80211CipherSuiteToWpaCipher(FromDot11CipherSuite(cs[k]))]
    <3> HIDE DEF cs
    <3> QED  BY <2>1, <2>4 DEF Each
  <2>6. Each(WpaCipherPropertyValue, suites[wpa]) = [k \in DOMAIN cs |-> CipherText(cs[k])]
    <3> HIDE DEF cs
    <3> QED  BY <2>5 DEF Each, CipherText
  <2> QED  BY <2>1, <2>2, <2>6
<1> QED  BY <1>1, <1>2

\* The numbers of the API's protocols.
LEMMA ProtocolNumbers ==
    /\ Wpa(FromDot11SecurityProtocol("Dot11SecurityProtocolWpa1")) = 1
    /\ Wpa(FromDot11SecurityProtocol("Dot11SecurityProtocolWpa2")) = 2
    /\ Wpa(FromDot11SecurityProtocol("Dot11SecurityProtocolWpa3")) = 2
    /\ \A p : Wpa(FromDot11SecurityProtocol(p)) = 1 => p = "Dot11SecurityProtocolWpa1"
    /\ \A p : Wpa(FromDot11SecurityProtocol(p)) = 2 =>
                 p \in {"Dot11SecurityProtocolWpa2", "Dot11SecurityProtocolWpa3"}
<1>1. /\ FromDot11SecurityProtocol("Dot11SecurityProtocolWpa1") = "Wpa"
      /\ FromDot11SecurityProtocol("Dot11SecurityProtocolWpa2") = "Wpa2"
      /\ FromDot11SecurityProtocol("Dot11SecurityProtocolWpa3") = "Wpa3"
      /\ \A p : p \notin {"Dot11SecurityProtocolWpa1", "Dot11SecurityProtocolWpa2",
                          "Dot11SecurityProtocolWpa3"}
                => FromDot11SecurityProtocol(p) = "Unknown"
  BY DEF FromDot11SecurityProtocol, Switch
<1> QED  BY <1>1, Protocols

\* Texts that hostapd has taken are those the client named.
LEMMA CiphersMeant ==
    ASSUME NEW cs, NEW texts, texts = [k \in DOMAIN cs |-> CipherText(cs[k])],
           NEW name \in Pairwise, Accepts(name, texts), "UNKNOWN" \notin ToSet(texts)
    PROVE  texts = [k \in DOMAIN cs |-> Meaning(CipherNames, cs[k])]
<1>1. ASSUME NEW k \in DOMAIN cs PROVE CipherText(cs[k]) = Meaning(CipherNames, cs[k])
  <2>1. CipherText(cs[k]) \in ToSet(texts)
    BY DEF ToSet
  <2>2. \A t \in ToSet(texts) : IsWpaCipherSupported(WpaCipherFromPropertyValue(t))
    BY DEF Accepts, Pairwise
  <2> QED  BY <2>1, <2>2, CipherMeans
<1> QED  BY <1>1

\* What the ciphers' handler does.
LEMMA CiphersGivenBy ==
    ASSUME NEW accessPoint, NEW list, IsList(list), NEW map, map = ToDot11CipherSuiteMap(list),
           NEW impl \in WifiAccessPointSetPairwiseCipherSuitesImpl(accessPoint, map)
    PROVE  /\ Within(impl, Pairwise)
           /\ \A h, x : Done(h, impl, x) => CiphersGiven(list, x.conf) /\ x.live = x.conf
<1> DEFINE from == FromDot11CipherSuiteConfigurations(map)
           a == RefuseIf(\/ DOMAIN map = {}
                         \/ "Dot11SecurityProtocolUnknown" \in DOMAIN map,
                         "InvalidParameter")
           try == TryGetAccessPointController(accessPoint)
           b == RefuseIf("Unknown" \in DOMAIN from, "InvalidParameter")
<1>1. PICK commands \in SetPairwiseCipherSuites(from) : impl = ((a \o try) \o b) \o commands
  BY DEF WifiAccessPointSetPairwiseCipherSuitesImpl
<1>2. PICK suites \in Ieee80211CipherSuitesToWpaCipherSuites(from) :
         \E order \in SetToSeqs(DOMAIN suites) :
            commands = FlattenSeq([i \in DOMAIN order |->
                           SetProtocolCipherSuites(order[i], suites[order[i]])]) \o Read
  BY DEF SetPairwiseCipherSuites
<1>3. IsFiniteSet(DOMAIN suites)
  BY FromSuites
<1>4. /\ Within(commands, Pairwise)
      /\ \A h, x : Done(h, commands, x) =>
            /\ \A wpa \in DOMAIN suites :
                  LET name == WpaCipherPropertyName(wpa)
                      texts == Each(WpaCipherPropertyValue, suites[wpa])
                  IN  name \in Pairwise => /\ x.conf[name] = <<texts>>
                                           /\ Accepts(name, texts)
                                           /\ "UNKNOWN" \notin ToSet(texts)
            /\ DOMAIN suites # {} => x.live = x.conf
  <2>1. PICK order \in SetToSeqs(DOMAIN suites) :
            commands = FlattenSeq([i \in DOMAIN order |->
                           SetProtocolCipherSuites(order[i], suites[order[i]])]) \o Read
    BY <1>2
  <2> HIDE DEF from
  <2> QED  BY <1>3, <2>1, OrderedCiphers
<1>5. Within((a \o try) \o b, {}) /\ IsList(commands) /\ Within(a, {}) /\ Within(try, {})
      /\ Within(b, {}) /\ IsList(a) /\ IsList(try) /\ IsList(b)
  <2>1. Within(a, {}) /\ Within(try, {}) /\ Within(b, {})
    BY WithinChecks
  <2> HIDE DEF a, try, b
  <2>2. Within(a \o try, {})
    BY <2>1, WithinConcatenation
  <2>3. Within((a \o try) \o b, {})
    BY <2>1, <2>2, WithinConcatenation
  <2>4. IsList(commands) /\ IsList(a) /\ IsList(try) /\ IsList(b)
    BY <1>4, <2>1 DEF Within
  <2> QED  BY <2>1, <2>3, <2>4
<1>6. Within(impl, Pairwise)
  <2> HIDE DEF a, try, b
  <2>1. Within((a \o try) \o b, Pairwise)
    BY <1>5, WithinMore
  <2> QED  BY <1>1, <1>4, <2>1, WithinConcatenation
<1>7. ASSUME NEW h, NEW x, Done(h, impl, x)
      PROVE  CiphersGiven(list, x.conf) /\ x.live = x.conf
  <2>1. Passes((a \o try) \o b) /\ \E y : Done(y, commands, x)
    <3> HIDE DEF a, try, b
    <3>1. Done(h, ((a \o try) \o b) \o commands, x)
      BY <1>1, <1>7
    <3> QED  BY <1>5, <3>1, DoneChecked
  <2>2. Passes(a)
    <3> HIDE DEF a, try, b
    <3>1. IsList(a \o try) /\ (Passes((a \o try) \o b) <=> Passes(a \o try) /\ Passes(b))
          /\ (Passes(a \o try) <=> Passes(a) /\ Passes(try))
      BY <1>5, PassesAll, Concatenation
    <3> QED  BY <2>1, <3>1
  <2>3. DOMAIN map # {}
    <3>1. ~(\/ DOMAIN map = {} \/ "Dot11SecurityProtocolUnknown" \in DOMAIN map)
      BY <2>2, RefuseIfPasses
    <3> QED  BY <3>1
  <2>4. DOMAIN suites # {}
    <3>1. PICK q \in DOMAIN map : TRUE
      BY <2>3
    <3>2. FromDot11SecurityProtocol(q) \in DOMAIN from
      BY FromMap
    <3> QED  BY <3>2, FromSuites
  <2>5. PICK y : Done(y, commands, x)
    BY <2>1
  <2>6. x.live = x.conf
    BY <1>4, <2>4, <2>5
  <2>7. \A wpa \in DOMAIN suites :
            LET name == WpaCipherPropertyName(wpa)
                texts == Each(WpaCipherPropertyValue, suites[wpa])
            IN  name \in Pairwise => /\ x.conf[name] = <<texts>>
                                     /\ Accepts(name, texts)
                                     /\ "UNKNOWN" \notin ToSet(texts)
    BY <1>4, <2>5
  <2>8. ASSUME NEW wpa \in DOMAIN suites, NEW name \in Pairwise, WpaCipherPropertyName(wpa) = name
        PROVE  \E protocol : \E i \in FirstOf(list, protocol) :
                  /\ Wpa(FromDot11SecurityProtocol(protocol)) = wpa
                  /\ x.conf[name] = <<[k \in DOMAIN list[i].cipherSuites |->
                                          Meaning(CipherNames, list[i].cipherSuites[k])]>>
    <3> DEFINE texts == Each(WpaCipherPropertyValue, suites[wpa])
    <3>1. x.conf[name] = <<texts>> /\ Accepts(name, texts) /\ "UNKNOWN" \notin ToSet(texts)
      BY <2>7, <2>8
    <3>2. PICK protocol : \E i \in FirstOf(list, protocol) :
             /\ Wpa(FromDot11SecurityProtocol(protocol)) = wpa
             /\ texts = [k \in DOMAIN list[i].cipherSuites |-> CipherText(list[i].cipherSuites[k])]
      BY CiphersConverted
    <3>3. PICK i \in FirstOf(list, protocol) :
             /\ Wpa(FromDot11SecurityProtocol(protocol)) = wpa
             /\ texts = [k \in DOMAIN list[i].cipherSuites |-> CipherText(list[i].cipherSuites[k])]
      BY <3>2
    <3> HIDE DEF texts
    <3>4. texts = [k \in DOMAIN list[i].cipherSuites |->
                      Meaning(CipherNames, list[i].cipherSuites[k])]
      BY <3>1, <3>3, CiphersMeant
    <3> QED  BY <3>1, <3>3, <3>4
  <2>9. WpaCipherPropertyName(1) = "wpa_pairwise" /\ WpaCipherPropertyName(2) = "rsn_pairwise"
    BY Protocols
  <2> DEFINE Texts(i) == <<[k \in DOMAIN list[i].cipherSuites |->
                              Meaning(CipherNames, list[i].cipherSuites[k])]>>
             Wpa1 == FirstOf(list, "Dot11SecurityProtocolWpa1")
             Rsn == FirstOf(list, "Dot11SecurityProtocolWpa2")
                    \cup FirstOf(list, "Dot11SecurityProtocolWpa3")
  <2>10. Wpa1 # {} => \E i \in Wpa1 : x.conf["wpa_pairwise"] = Texts(i)
    <3>1. SUFFICES ASSUME Wpa1 # {} PROVE \E i \in Wpa1 : x.conf["wpa_pairwise"] = Texts(i)
      OBVIOUS
    <3>2. 1 \in DOMAIN suites
      BY <3>1, CiphersConverted, ProtocolNumbers
    <3>3. PICK protocol : \E i \in FirstOf(list, protocol) :
             /\ Wpa(FromDot11SecurityProtocol(protocol)) = 1
             /\ x.conf["wpa_pairwise"] = Texts(i)
      BY <2>8, <2>9, <3>2 DEF Pairwise
    <3> QED  BY <3>3, ProtocolNumbers
  <2>11. Rsn # {} => \E i \in Rsn : x.conf["rsn_pairwise"] = Texts(i)
    <3>1. SUFFICES ASSUME Rsn # {} PROVE \E i \in Rsn : x.conf["rsn_pairwise"] = Texts(i)
      OBVIOUS
    <3>2. 2 \in DOMAIN suites
      BY <3>1, CiphersConverted, ProtocolNumbers
    <3>3. PICK protocol : \E i \in FirstOf(list, protocol) :
             /\ Wpa(FromDot11SecurityProtocol(protocol)) = 2
             /\ x.conf["rsn_pairwise"] = Texts(i)
      BY <2>8, <2>9, <3>2 DEF Pairwise
    <3> QED  BY <3>3, ProtocolNumbers
  <2>12. CiphersGiven(list, x.conf)
    BY <2>10, <2>11 DEF CiphersGiven, FirstOf
  <2> QED  BY <2>6, <2>12
<1> QED  BY <1>6, <1>7

-----------------------------------------------------------------------------
(* The PHY type *)

\* The properties SetPhyType writes.
PhyProperties ==
    {"hw_mode", "ieee80211n", "disable_11n", "wmm_enabled", "ieee80211ac", "disable_11ac",
     "ieee80211ax", "disable_11ax"}

\* The properties a PHY type writes, and their values.
PhySets(phy) ==
    {"hw_mode"}
    \cup (IF phy = "AX" THEN {"ieee80211ax", "disable_11ax"} ELSE {})
    \cup (IF phy \in {"AX", "AC"} THEN {"ieee80211ac", "disable_11ac"} ELSE {})
    \cup (IF phy \in {"AX", "AC", "N"} THEN {"wmm_enabled", "ieee80211n", "disable_11n"} ELSE {})

\* What it writes them to.
PhyValue(phy, p) ==
    CASE p = "hw_mode" -> HostapdHwModePropertyValue(IeeePhyTypeToHostapdHwMode(phy))
      [] p \in {"disable_11ax", "disable_11ac", "disable_11n"} -> 0
      [] OTHER -> 1

\* Two or three commands.
LEMMA Several ==
    /\ \A c, d : IsList(<<c, d>>) /\ ToSet(<<c, d>>) = {c, d}
    /\ \A c, d, e : IsList(<<c, d, e>>) /\ ToSet(<<c, d, e>>) = {c, d, e}
<1>1. ASSUME NEW c, NEW d PROVE IsList(<<c, d>>) /\ ToSet(<<c, d>>) = {c, d}
  BY DEF IsList, ToSet
<1>2. ASSUME NEW c, NEW d, NEW e
      PROVE  IsList(<<c, d, e>>) /\ ToSet(<<c, d, e>>) = {c, d, e}
  BY DEF IsList, ToSet
<1> QED  BY <1>1, <1>2

\* SetPhyType: the commands it consists of.
LEMMA PhyCommands ==
    ASSUME NEW phy
    PROVE  \E s : /\ SetPhyType(phy) = (s \o Reload) \o Read
                  /\ IsList(s) /\ ToSet(s) = {Set(p, PhyValue(phy, p)) : p \in PhySets(phy)}
<1> DEFINE mode == HostapdHwModePropertyValue(IeeePhyTypeToHostapdHwMode(phy))
           hw == <<Set("hw_mode", mode)>>
           ax == IF phy = "AX" THEN <<Set("ieee80211ax", 1), Set("disable_11ax", 0)>> ELSE <<>>
           ac == IF phy \in {"AX", "AC"}
                 THEN <<Set("ieee80211ac", 1), Set("disable_11ac", 0)>> ELSE <<>>
           n == IF phy \in {"AX", "AC", "N"}
                THEN <<Set("wmm_enabled", 1), Set("ieee80211n", 1), Set("disable_11n", 0)>>
                ELSE <<>>
           s == ((hw \o ax) \o ac) \o n
           C(P) == {Set(p, PhyValue(phy, p)) : p \in P}
           Pax == IF phy = "AX" THEN {"ieee80211ax", "disable_11ax"} ELSE {}
           Pac == IF phy \in {"AX", "AC"} THEN {"ieee80211ac", "disable_11ac"} ELSE {}
           Pn == IF phy \in {"AX", "AC", "N"}
                 THEN {"wmm_enabled", "ieee80211n", "disable_11n"} ELSE {}
<1>1. SetPhyType(phy) = (s \o Reload) \o Read
  BY DEF SetPhyType
<1>2. /\ PhyValue(phy, "hw_mode") = mode
      /\ PhyValue(phy, "ieee80211ax") = 1 /\ PhyValue(phy, "disable_11ax") = 0
      /\ PhyValue(phy, "ieee80211ac") = 1 /\ PhyValue(phy, "disable_11ac") = 0
      /\ PhyValue(phy, "ieee80211n") = 1 /\ PhyValue(phy, "disable_11n") = 0
      /\ PhyValue(phy, "wmm_enabled") = 1
  BY DEF PhyValue
<1>3. IsList(hw) /\ ToSet(hw) = C({"hw_mode"})
  <2> HIDE DEF mode
  <2>1. C({"hw_mode"}) = {Set("hw_mode", mode)}
    BY <1>2
  <2> QED  BY <2>1, Singles
<1>4. IsList(ax) /\ ToSet(ax) = C(Pax)
  <2>1. CASE phy = "AX"
    <3>1. C(Pax) = {Set("ieee80211ax", 1), Set("disable_11ax", 0)}
      BY <1>2, <2>1
    <3>2. ax = <<Set("ieee80211ax", 1), Set("disable_11ax", 0)>>
      BY <2>1
    <3> HIDE DEF ax, Pax
    <3> QED  BY <3>1, <3>2, Several
  <2>2. CASE phy # "AX"
    BY <2>2, Singles
  <2> QED  BY <2>1, <2>2
<1>5. IsList(ac) /\ ToSet(ac) = C(Pac)
  <2>1. CASE phy \in {"AX", "AC"}
    <3>1. C(Pac) = {Set("ieee80211ac", 1), Set("disable_11ac", 0)}
      BY <1>2, <2>1
    <3>2. ac = <<Set("ieee80211ac", 1), Set("disable_11ac", 0)>>
      BY <2>1
    <3> HIDE DEF ac, Pac
    <3> QED  BY <3>1, <3>2, Several
  <2>2. CASE phy \notin {"AX", "AC"}
    BY <2>2, Singles
  <2> QED  BY <2>1, <2>2
<1>6. IsList(n) /\ ToSet(n) = C(Pn)
  <2>1. CASE phy \in {"AX", "AC", "N"}
    <3>1. C(Pn) = {Set("wmm_enabled", 1), Set("ieee80211n", 1), Set("disable_11n", 0)}
      BY <1>2, <2>1
    <3>2. n = <<Set("wmm_enabled", 1), Set("ieee80211n", 1), Set("disable_11n", 0)>>
      BY <2>1
    <3> DEFINE c == Set("wmm_enabled", 1)
               d == Set("ieee80211n", 1)
               e == Set("disable_11n", 0)
    <3>3. C(Pn) = {c, d, e} /\ n = <<c, d, e>>
      BY <3>1, <3>2
    <3> HIDE DEF n, Pn, C, c, d, e
    <3>4. IsList(<<c, d, e>>) /\ ToSet(<<c, d, e>>) = {c, d, e}
      BY Several
    <3> QED  BY <3>3, <3>4
  <2>2. CASE phy \notin {"AX", "AC", "N"}
    <3>1. n = <<>> /\ Pn = {} /\ C({}) = {}
      BY <2>2
    <3> HIDE DEF n, Pn, C
    <3> QED  BY <3>1, Singles
  <2> QED  BY <2>1, <2>2
<1>7. PhySets(phy) = (({"hw_mode"} \cup Pax) \cup Pac) \cup Pn
  BY DEF PhySets
<1>8. \A P, Q : C(P \cup Q) = C(P) \cup C(Q)
  OBVIOUS
<1> HIDE DEF hw, ax, ac, n, Pax, Pac, Pn, C
<1>9. IsList(hw \o ax) /\ ToSet(hw \o ax) = ToSet(hw) \cup ToSet(ax)
  BY <1>3, <1>4, Concatenation
<1>10. IsList((hw \o ax) \o ac) /\ ToSet((hw \o ax) \o ac) = ToSet(hw \o ax) \cup ToSet(ac)
  BY <1>5, <1>9, Concatenation
<1>11. IsList(s) /\ ToSet(s) = ToSet((hw \o ax) \o ac) \cup ToSet(n)
  BY <1>6, <1>10, Concatenation
<1>12. ToSet(s) = C(PhySets(phy))
  <2>1. ToSet(s) = ((C({"hw_mode"}) \cup C(Pax)) \cup C(Pac)) \cup C(Pn)
    BY <1>3, <1>4, <1>5, <1>6, <1>9, <1>10, <1>11
  <2>2. C({"hw_mode"}) \cup C(Pax) = C({"hw_mode"} \cup Pax)
    BY <1>8
  <2>3. C({"hw_mode"} \cup Pax) \cup C(Pac) = C(({"hw_mode"} \cup Pax) \cup Pac)
    BY <1>8
  <2>4. C(({"hw_mode"} \cup Pax) \cup Pac) \cup C(Pn)
          = C((({"hw_mode"} \cup Pax) \cup Pac) \cup Pn)
    BY <1>8
  <2> QED  BY <1>7, <2>1, <2>2, <2>3, <2>4
<1> HIDE DEF s
<1> QED  BY <1>1, <1>11, <1>12 DEF C

\* What a method of a PHY type does.
LEMMA PhySet ==
    ASSUME NEW phy
    PROVE  /\ Within(SetPhyType(phy), PhyProperties)
           /\ \A c \in ToSet(SetPhyType(phy)) : \A p : Sets(c, p) => p \in PhySets(phy)
           /\ \A h, x : Done(h, SetPhyType(phy), x) =>
                 /\ \A p \in PhySets(phy) : x.conf[p] = <<PhyValue(phy, p)>>
                 /\ x.live = x.conf
<1>1. PICK s : /\ SetPhyType(phy) = (s \o Reload) \o Read
               /\ IsList(s) /\ ToSet(s) = {Set(p, PhyValue(phy, p)) : p \in PhySets(phy)}
  BY PhyCommands
<1>2. PhySets(phy) \subseteq PhyProperties /\ PhyProperties \subseteq PropertyNames \ {"psk"}
      /\ \A p \in PhyProperties : p \notin Adding
  BY DEF PhySets, PhyProperties, PropertyNames, Adding
<1>3. \A c \in ToSet(s) : \E p \in PhySets(phy) :
          c.do \notin Orders /\ Property(c.name) = p /\ Stored(c) = <<PhyValue(phy, p)>>
  <2> SUFFICES ASSUME NEW p \in PhySets(phy), NEW c, c = Set(p, PhyValue(phy, p))
               PROVE c.do \notin Orders /\ Property(c.name) = p /\ Stored(c) = <<PhyValue(phy, p)>>
    BY <1>1
  <2>1. p \in PropertyNames \ {"psk"}
    BY <1>2
  <2> QED  BY <2>1, Commands
<1>4. Within(s, PhyProperties)
  BY <1>1, <1>2, <1>3 DEF Within, Orders, Switches
<1>5. Within(Reload, PhyProperties) /\ Within(Read, PhyProperties)
      /\ IsList(Reload) /\ IsList(Read) /\ ToSet(Reload) = {[do |-> "RELOAD"]}
      /\ ToSet(Read) = {[do |-> "read"]}
  BY Singles, WithinSmall DEF Reload, Read
<1>6. Within(s \o Reload, PhyProperties) /\ IsList(s \o Reload)
  BY <1>4, <1>5, WithinConcatenation DEF Within
<1>7. Within(SetPhyType(phy), PhyProperties)
  BY <1>1, <1>5, <1>6, WithinConcatenation
<1>8. ToSet(SetPhyType(phy)) = (ToSet(s) \cup {[do |-> "RELOAD"]}) \cup {[do |-> "read"]}
  BY <1>1, <1>5, <1>6, Concatenation
<1>9. ASSUME NEW c \in ToSet(SetPhyType(phy)), NEW p, Sets(c, p) PROVE p \in PhySets(phy)
  <2>1. CASE c \in ToSet(s)
    BY <1>3, <1>9, <2>1 DEF Sets
  <2>2. CASE c \in {[do |-> "RELOAD"], [do |-> "read"]}
    BY <1>9, <2>2, Commands DEF Sets
  <2> QED  BY <1>8, <2>1, <2>2
<1>10. ASSUME NEW h, NEW x, Done(h, SetPhyType(phy), x)
       PROVE  /\ \A p \in PhySets(phy) : x.conf[p] = <<PhyValue(phy, p)>>
              /\ x.live = x.conf
  <2>1. PICK z : Done(h, s \o Reload, z) /\ x.conf = z.conf /\ (z.live = z.conf => x.live = x.conf)
    BY <1>1, <1>6, <1>10, ReadBack
  <2>2. PICK y : Done(h, s, y) /\ Done(y, Reload, z)
    BY <1>1, <1>5, <2>1, RanConcatenation
  <2>3. z.live = z.conf /\ z.conf = y.conf
    BY <2>2, DoneReload
  <2>4. ASSUME NEW p \in PhySets(phy) PROVE y.conf[p] = <<PhyValue(phy, p)>>
    <3> DEFINE c == Set(p, PhyValue(phy, p))
               value == <<PhyValue(phy, p)>>
    <3>1. p \in PropertyNames /\ p \notin Adding /\ p # "psk" /\ c \in ToSet(s)
      BY <1>1, <1>2
    <3>2. Sets(c, p)
      BY <3>1, Commands
    <3>3. \A d \in ToSet(s) : Sets(d, p) => Stored(d) = value
      BY <1>3 DEF Sets
    <3> HIDE DEF c, value
    <3>4. y.conf[p] = value
      BY <2>2, <3>1, <3>2, <3>3, DoneValue
    <3> QED  BY <3>4 DEF value
  <2> QED  BY <2>1, <2>3, <2>4
<1> QED  BY <1>7, <1>9, <1>10

\* What a PHY type that is asked for says itself, and what is there for one
\* that was asked for at some time.
PhySaid(asked, conf) ==
    LET phy == Meaning(PhyNames, asked)
    IN  /\ conf.hw_mode = <<CASE phy \in {"b", "g", "ad"} -> phy [] OTHER -> "a">>
        /\ phy \in {"n", "ac", "ax"} => conf.ieee80211n = <<1>> /\ conf.disable_11n = <<0>>
                                        /\ conf.wmm_enabled = <<1>>
        /\ phy \in {"ac", "ax"} => conf.ieee80211ac = <<1>> /\ conf.disable_11ac = <<0>>
        /\ phy = "ax" => conf.ieee80211ax = <<1>> /\ conf.disable_11ax = <<0>>

\* The PHY types that need a property.
Needs(p) ==
    CASE p = "ieee80211n" -> {"n", "ac", "ax"}
      [] p = "ieee80211ac" -> {"ac", "ax"}
      [] p = "ieee80211ax" -> {"ax"}

\* One of the PHY types that were asked for is among these.
Ever(phys, set) == \E p \in phys : Means(PhyNames, p) /\ Meaning(PhyNames, p) \in set

\* The properties that turn an amendment of IEEE 802.11 on.
Amendments == {"ieee80211n", "ieee80211ac", "ieee80211ax"}

\* No amendment is on unless a PHY type that was asked for needs it: what other
\* requests have left in the configuration is theirs.
PhyNeeded(conf, phys) == \A p \in Amendments : conf[p] = <<1>> => Ever(phys, Needs(p))

\* Together with what SetPhyType says, that is what PhyGiven is about.
LEMMA PhyParts ==
    ASSUME NEW asked, NEW conf, NEW phys, PhySaid(asked, conf), PhyNeeded(conf, phys)
    PROVE  PhyGiven(<<asked>>, conf, phys)
<1>1. /\ conf.ieee80211n = <<1>> => Ever(phys, {"n", "ac", "ax"})
      /\ conf.ieee80211ac = <<1>> => Ever(phys, {"ac", "ax"})
      /\ conf.ieee80211ax = <<1>> => Ever(phys, {"ax"})
  BY DEF PhyNeeded, Amendments, Needs
<1>2. <<asked>>[1] = asked
  OBVIOUS
<1> QED  BY <1>1, <1>2 DEF PhyGiven, PhySaid, Ever

\* hostapd's names for the PHY types of the API.
LEMMA PhyModes ==
    ASSUME NEW p \in Ieee80211PhyType \ {"Unknown"}
    PROVE  /\ PhyValue(p, "hw_mode") = CASE PhyThing[p] \in {"b", "g", "ad"} -> PhyThing[p]
                                         [] OTHER -> "a"
           /\ p = "AX" <=> PhyThing[p] = "ax"
           /\ p \in {"AX", "AC"} <=> PhyThing[p] \in {"ac", "ax"}
           /\ p \in {"AX", "AC", "N"} <=> PhyThing[p] \in {"n", "ac", "ax"}
<1>1. PhyValue(p, "hw_mode") = HostapdHwModePropertyValue(IeeePhyTypeToHostapdHwMode(p))
  BY DEF PhyValue
<1>2. HostapdHwModePropertyValue(IeeePhyTypeToHostapdHwMode(p))
        = CASE PhyThing[p] \in {"b", "g", "ad"} -> PhyThing[p] [] OTHER -> "a"
  BY DEF Ieee80211PhyType, PhyThing, HostapdHwModePropertyValue, IeeePhyTypeToHostapdHwMode,
         Switch
<1>3. /\ p = "AX" <=> PhyThing[p] = "ax"
      /\ p \in {"AX", "AC"} <=> PhyThing[p] \in {"ac", "ax"}
      /\ p \in {"AX", "AC", "N"} <=> PhyThing[p] \in {"n", "ac", "ax"}
  BY DEF Ieee80211PhyType, PhyThing
<1> QED  BY <1>1, <1>2, <1>3

\* What the PHY type's handler does.
LEMMA PhyGivenBy ==
    ASSUME NEW accessPoint, NEW asked \in {ToDot11PhyType(p) : p \in Ieee80211PhyType},
           NEW impl, impl = WifiAccessPointSetPhyTypeImpl(accessPoint, asked)
    PROVE  /\ Within(impl, PhyProperties)
           /\ \A h, x : Done(h, impl, x) => PhySaid(asked, x.conf) /\ x.live = x.conf
                                            /\ Means(PhyNames, asked)
           /\ \A c \in ToSet(impl) : \A p \in Amendments :
                 Sets(c, p) => Means(PhyNames, asked) /\ Meaning(PhyNames, asked) \in Needs(p)
<1> DEFINE phy == FromDot11PhyType(asked)
           a == RefuseIf(asked = "Dot11PhyTypeUnknown", "InvalidParameter")
           try == TryGetAccessPointController(accessPoint)
           b == Capable(accessPoint, "PhyTypes", {phy})
           set == SetPhyType(phy)
<1>1. PICK p \in Ieee80211PhyType : asked = ToDot11PhyType(p)
  OBVIOUS
<1>2. impl = ((a \o try) \o b) \o set
  BY DEF WifiAccessPointSetPhyTypeImpl
<1>3. asked # "Dot11PhyTypeUnknown" =>
          /\ p # "Unknown" /\ phy = p /\ Means(PhyNames, asked)
          /\ Meaning(PhyNames, asked) = PhyThing[p]
  BY <1>1, PhyWords
<1>4. asked = "Dot11PhyTypeUnknown" => phy = "Unknown"
  BY DEF FromDot11PhyType, Switch
<1>5. /\ Within(set, PhyProperties)
      /\ \A c \in ToSet(set) : \A q : Sets(c, q) => q \in PhySets(phy)
      /\ \A h, x : Done(h, set, x) =>
            /\ \A q \in PhySets(phy) : x.conf[q] = <<PhyValue(phy, q)>>
            /\ x.live = x.conf
  BY PhySet
<1>6. Within(a, {}) /\ Within(try, {}) /\ Within(b, {})
  BY WithinChecks
<1>7. Passes(a) => asked # "Dot11PhyTypeUnknown"
  BY RefuseIfPasses
<1> HIDE DEF a, try, b, set, phy
<1>8. Within(a \o try, {})
  BY <1>6, WithinConcatenation
<1>9. Within((a \o try) \o b, {})
  BY <1>6, <1>8, WithinConcatenation
<1>10. IsList(a) /\ IsList(try) /\ IsList(b) /\ IsList(a \o try) /\ IsList(set)
       /\ IsList((a \o try) \o b)
  BY <1>5, <1>6, <1>8, <1>9 DEF Within
<1>11. Within(impl, PhyProperties)
  BY <1>2, <1>5, <1>9, WithinMore, WithinConcatenation
<1>12. ASSUME NEW h, NEW x, Done(h, impl, x)
       PROVE  PhySaid(asked, x.conf) /\ x.live = x.conf /\ Means(PhyNames, asked)
  <2>0. Done(h, ((a \o try) \o b) \o set, x)
    BY <1>2, <1>12
  <2>1. Passes((a \o try) \o b) /\ \E y : Done(y, set, x)
    BY <1>9, <1>10, <2>0, DoneChecked
  <2>2. Passes(a)
    BY <1>10, <2>1, RefusalsConcatenation
  <2>3. /\ p # "Unknown" /\ phy = p /\ Means(PhyNames, asked)
        /\ Meaning(PhyNames, asked) = PhyThing[p]
    BY <1>3, <1>7, <2>2
  <2>4. /\ \A q \in PhySets(p) : x.conf[q] = <<PhyValue(p, q)>>
        /\ x.live = x.conf
    BY <1>5, <2>1, <2>3
  <2>5. /\ p \in {"AX", "AC", "N"} => x.conf["ieee80211n"] = <<1>> /\ x.conf["disable_11n"] = <<0>>
                                     /\ x.conf["wmm_enabled"] = <<1>>
        /\ p \in {"AX", "AC"} => x.conf["ieee80211ac"] = <<1>> /\ x.conf["disable_11ac"] = <<0>>
        /\ p = "AX" => x.conf["ieee80211ax"] = <<1>> /\ x.conf["disable_11ax"] = <<0>>
    BY <2>4 DEF PhySets, PhyValue
  <2>6. x.conf["hw_mode"] = <<PhyValue(p, "hw_mode")>>
    BY <2>4 DEF PhySets
  <2>7. PhySaid(asked, x.conf)
    BY <1>1, <2>3, <2>5, <2>6, PhyModes DEF PhySaid
  <2> QED  BY <2>3, <2>4, <2>7
<1>13. ASSUME NEW c \in ToSet(impl), NEW q \in Amendments, Sets(c, q)
       PROVE  Means(PhyNames, asked) /\ Meaning(PhyNames, asked) \in Needs(q)
  <2>1. ToSet(impl) = ToSet((a \o try) \o b) \cup ToSet(set)
    BY <1>2, <1>10, Concatenation
  <2>2. c \notin ToSet((a \o try) \o b)
    BY <1>9, <1>13 DEF Within, Sets
  <2>3. q \in PhySets(phy)
    BY <1>5, <1>13, <2>1, <2>2
  <2>4. phy # "Unknown"
    BY <2>3 DEF PhySets, Amendments
  <2>5. /\ p # "Unknown" /\ phy = p /\ Means(PhyNames, asked)
        /\ Meaning(PhyNames, asked) = PhyThing[p]
    BY <1>3, <1>4, <2>4
  <2>6. CASE q = "ieee80211n"
    BY <2>3, <2>5, <2>6, PhyModes DEF PhySets, Needs
  <2>7. CASE q = "ieee80211ac"
    BY <2>3, <2>5, <2>7, PhyModes DEF PhySets, Needs
  <2>8. CASE q = "ieee80211ax"
    BY <2>3, <2>5, <2>8, PhyModes DEF PhySets, Needs
  <2> QED  BY <2>6, <2>7, <2>8 DEF Amendments
<1> QED  BY <1>11, <1>12, <1>13
=============================================================================
