-------------------------- MODULE MCConfigurationPath --------------------------
(***************************************************************************)
(* Hosts, command lines and requests for the model checker: every           *)
(* enumerator, size and combination the conversions tell apart is in one.   *)
(***************************************************************************)
EXTENDS ConfigurationProperties

-----------------------------------------------------------------------------
(* Hosts.                                                                   *)

Band(ht, vht) ==
    [readable |-> TRUE, htCapa |-> ht, vhtCapa |-> vht, vhtMcsSet |-> <<>>,
     freqs |-> <<[readable |-> TRUE, freq |-> <<2412>>, offset |-> <<>>, disabled |-> FALSE],
                 [readable |-> FALSE, freq |-> <<>>, offset |-> <<>>, disabled |-> FALSE]>>,
     rates |-> <<[readable |-> TRUE, rate |-> <<10>>]>>]

Radio(bands, akms, ciphers) ==
    [readable |-> TRUE, wiphy |-> <<0>>, wiphyName |-> <<"phy0">>, bands |-> bands,
     akmSuites |-> akms, cipherSuites |-> <<ciphers>>, iftypes |-> <<{"STATION", "AP"}>>,
     roamSupport |-> FALSE]

FullRadio ==
    Radio("2GHZ" :> Band(<<1>>, <<>>) @@ "5GHZ" :> Band(<<1>>, <<1>>)
          @@ "60GHZ" :> Band(<<>>, <<>>),
          <<>>, {CipherSelector("Tkip"), CipherSelector("Ccmp128"), <<1, 1>>})

\* The 5 GHz band cannot be read, and the real 6 GHz band is not known.
OldRadio ==
    Radio("2GHZ" :> Band(<<>>, <<>>) @@ "6GHZ" :> Band(<<>>, <<>>)
          @@ "5GHZ" :> [Band(<<1>>, <<1>>) EXCEPT !.readable = FALSE],
          <<{AkmSelector("Psk")}>>, {CipherSelector("Tkip")})

Wireless(name, index, type) ==
    [readable |-> TRUE, ifname |-> name, ifindex |-> index, iftype |-> type, wiphy |-> 0,
     mac |-> <<[size |-> 6, is |-> "mac of wlan0"]>>]

Link(index, name, type) == [ifindex |-> index, name |-> name, type |-> type, mac |-> name]
Address(index, family, text, length) ==
    [ifindex |-> index, family |-> family, host |-> text, prefixlen |-> length]

FullHost ==
    [managed |-> {"wlan0"}, exchange |-> "ok", wiphys |-> 0 :> FullRadio,
     interfaces |-> "wlan0" :> 0 @@ "wlan1" :> 0,
     messages |-> {Wireless(<<"wlan0">>, 3, "AP"), Wireless(<<"wlan1">>, 5, "STATION")},
     links |-> {Link(2, "eth0", <<>>), Link(3, "wlan0", <<>>), Link(4, "br0", <<"bridge">>)},
     addresses |-> {Address(2, "AF_INET", "10.0.0.1", 32), Address(3, "AF_INET", "10.0.0.10", 32),
                    Address(4, "AF_INET6", "fe80::1", 64), Address(4, "AF_INET", "10.1.0.1", 24)},
     rtnetlink |-> "ok"]

OldHost == [FullHost EXCEPT !.wiphys = 0 :> OldRadio]
PeerHost == [FullHost EXCEPT !.messages = @ \cup {Wireless(<<>>, 0, "P2P_DEVICE")}]
DeafHost == [FullHost EXCEPT !.rtnetlink = "no socket"]

\* No radio; then eth0 becomes lan0 and another link eth0, with an address of
\* its own.
WiredHost ==
    [FullHost EXCEPT !.managed = {}, !.wiphys = <<>>, !.interfaces = <<>>, !.messages = {}]
RenamedHost ==
    [WiredHost EXCEPT
        !.links = {Link(2, "lan0", <<>>), Link(3, "wlan0", <<>>), Link(6, "eth0", <<>>)},
        !.addresses = {Address(2, "AF_INET", "10.0.0.1", 32), Address(6, "AF_INET", "10.9.0.1", 24),
                       Address(3, "AF_INET", "10.0.0.10", 32)}]

\* Also: the radio is taken out, hostapd of the interface ends, and exchanges
\* with the kernel fail.
MCLater(h) ==
    CASE h = FullHost ->
            {[FullHost EXCEPT !.interfaces = <<>>, !.wiphys = <<>>], OldHost,
             [FullHost EXCEPT !.managed = {}]}
      [] h = OldHost -> {[OldHost EXCEPT !.exchange = "fails"]}
      [] h = WiredHost -> {RenamedHost, [WiredHost EXCEPT !.rtnetlink = "no dump"]}
      [] OTHER -> {}

MCHosts ==
    LET first == {FullHost, OldHost, PeerHost, DeafHost, WiredHost}
    IN  first \cup UNION {MCLater(h) : h \in first}

MCTextPrefixes == {<<"10.0.0.1", "10.0.0.10">>}

Text(form, hostPart, port) == [form |-> form, host |-> hostPart, port |-> port]

MCStarts ==
    {[host |-> h, address |-> Text("dotted", "10.0.0.10", <<5047>>)] :
        h \in {FullHost, OldHost, PeerHost, DeafHost, WiredHost}}
    \cup {[host |-> WiredHost, address |-> a] :
            a \in {Text("any4", "0.0.0.0", <<5047>>), Text("dotted", "10.1.0.1", <<>>)}}

-----------------------------------------------------------------------------
(* Command lines.                                                           *)

Line ==
    [server |-> <<>>, group |-> "wifi", command |-> "aps", detailed |-> FALSE, id |-> <<"wlan0">>,
     ssid |-> <<>>, phy |-> <<>>, bands |-> <<>>, auths |-> <<>>, akms |-> <<>>, psk |-> <<>>,
     passphrase |-> <<>>, sae |-> <<>>, auth |-> <<>>, acct |-> <<>>, fallback |-> <<>>]

Enable == [Line EXCEPT !.command = "ape"]
Secret(size, is) == [size |-> size, is |-> is]
Sae(peer) == [password |-> "pw", passwordId |-> <<"id">>, peer |-> peer]
Token(text) == Text("other", text, <<>>)
Mac(size, is) == [size |-> size, is |-> is]

Radius(auth, acct, fallback) ==
    [Line EXCEPT !.command = "radius", !.auth = auth, !.acct = acct, !.fallback = fallback]
Good == <<Text("dotted", "10.0.0.5", <<1812>>), Token("secret")>>
Typed == <<Token("acct"), Text("dotted", "10.0.0.6", <<>>), Token("secret2")>>
AuthTyped == <<Token("auth"), Text("dotted", "10.0.0.7", <<1645>>), Token("secret3")>>
BadPort == <<Text("dotted", "10.0.0.5", <<70000>>), Token("secret")>>

EnumerateLines ==
    {Line, [Line EXCEPT !.detailed = TRUE], [Line EXCEPT !.group = "net", !.command = "ifs"]}

PhyAndBandLines ==
    {[Enable EXCEPT !.phy = <<p>>] : p \in DOMAIN Ieee80211PhyTypeNames}
    \cup {[Enable EXCEPT !.bands = <<b>>] : b \in DOMAIN Ieee80211FrequencyBandNames}
    \cup {[Enable EXCEPT !.bands = <<"2.4", "5">>]}

FollowingLines ==
    {[Line EXCEPT !.detailed = TRUE], [Enable EXCEPT !.phy = <<"ax">>],
     [Enable EXCEPT !.bands = <<"2.4", "5.0">>], [Enable EXCEPT !.bands = <<"6">>],
     [Enable EXCEPT !.phy = <<"g">>, !.ssid = <<"other">>, !.sae = <<Sae(<<>>)>>],
     Radius(<<Good>>, <<Typed>>, <<>>)}

FirstLines ==
    EnumerateLines \cup PhyAndBandLines \cup
    {[Line EXCEPT !.command = "apd"], [Line EXCEPT !.command = "nothing"],
     [Line EXCEPT !.command = "apd", !.id = <<"wlan1">>], [Enable EXCEPT !.id = <<>>],
     [Line EXCEPT !.command = "ssid", !.ssid = <<"net">>],
     [Line EXCEPT !.command = "ssid", !.ssid = <<"">>],
     [Enable EXCEPT !.phy = <<"n">>, !.ssid = <<"net">>, !.bands = <<"6", "2">>,
                    !.passphrase = <<Secret(8, "p")>>,
                    !.sae = <<Sae(<<Mac(6, "peer")>>), Sae(<<Mac(6, "no address")>>)>>],
     [Enable EXCEPT !.ssid = <<"">>, !.passphrase = <<Secret(7, "p")>>],
     [Enable EXCEPT !.passphrase = <<Secret(0, "p")>>],
     [Enable EXCEPT !.psk = <<Secret(64, "k")>>],
     [Enable EXCEPT !.psk = <<Secret(64, "not hexadecimal")>>],
     [Enable EXCEPT !.psk = <<Secret(64, "k")>>, !.passphrase = <<Secret(8, "p")>>],
     [Enable EXCEPT !.auths = <<"open">>, !.akms = <<"sae">>], [Enable EXCEPT !.phy = <<"be">>],
     Radius(<<Good>>, <<>>, <<>>), Radius(<<Good>>, <<Good>>, <<Typed, Good>>),
     Radius(<<Good>>, <<Typed>>, <<AuthTyped, Good>>),
     [Enable EXCEPT !.sae = <<Sae(<<Mac(6, "peer")>>), Sae(<<>>)>>],
     Radius(<<BadPort>>, <<>>, <<>>), Radius(<<Good>>, <<>>, <<<<Token("acct")>> \o Good>>),
     Radius(<<Good>>, <<Good \o <<Token("more")>>>>, <<>>), Radius(<<>>, <<Good>>, <<>>)}

-----------------------------------------------------------------------------
(* API requests.                                                            *)

Bare ==
    [api |-> "WifiAccessPointEnable", id |-> "wlan0", dot1x |-> <<>>,
     phyType |-> "Dot11PhyTypeUnknown", ssid |-> <<>>, akmSuites |-> <<>>, ciphers |-> <<>>,
     algorithms |-> <<>>, bands |-> <<>>, data |-> [psk |-> <<>>, sae |-> <<>>]]

Name(text) == <<[case |-> "name", text |-> text]>>
Ciphers(protocol, suites) ==
    [securityProtocol |-> "Dot11SecurityProtocol" \o protocol, cipherSuites |-> suites]
Psk(encoding, size, is) ==
    [Bare EXCEPT !.data.psk = <<<<[encoding |-> encoding, size |-> size, is |-> is]>>>>]
Passwords(peers) ==
    [Bare EXCEPT !.data.sae = <<<<[credential |-> "pw", peerMacAddress |-> peers,
                                   passwordId |-> ""]>>>>]
RadiusServer(endpoint, address, port, secret) ==
    [endpoint |-> "Dot1xRadiusServerEndpoint" \o endpoint, address |-> address, port |-> port,
     sharedSecret |-> secret]
Dot1x(auth, acct, fallback) ==
    [radius |-> <<[authenticationServer |-> auth, accountingServer |-> acct,
                   fallbackServers |-> fallback]>>]
Auth == RadiusServer("Authentication", "10.0.0.5", 1812, "s")

PhyTypes == {ToDot11PhyType(p) : p \in Ieee80211PhyType}
AkmSuites == {ToDot11AkmSuite(a) : a \in Ieee80211AkmSuite}
CipherSuites == {ToDot11CipherSuite(c) : c \in Ieee80211CipherSuite}
Algorithms == {ToDot11AuthenticationAlgorithm(a) : a \in Ieee80211AuthenticationAlgorithm}

SetPhyTypes ==
    {[api |-> "WifiAccessPointSetPhyType", id |-> "wlan0", phyType |-> p] : p \in PhyTypes}
SetBands ==
    {[api |-> "WifiAccessPointSetFrequencyBands", id |-> "wlan0", bands |-> b] :
        b \in {<<>>, <<"Dot11FrequencyBandUnknown">>, <<"Dot11FrequencyBandSixGHz">>}}

SecurityRequests ==
    {[Bare EXCEPT !.akmSuites = <<a>>] : a \in AkmSuites}
    \cup {[Bare EXCEPT !.ciphers = <<Ciphers("Wpa2", <<c>>)>>] : c \in CipherSuites}
    \cup {[Bare EXCEPT !.algorithms = <<a>>] : a \in Algorithms}
    \cup {[Bare EXCEPT !.algorithms = <<"Dot11AuthenticationAlgorithmSharedKey",
                                        "Dot11AuthenticationAlgorithmOpenSystem">>],
          [Bare EXCEPT !.ciphers = <<Ciphers("Wpa1", <<"Dot11CipherSuiteTkip">>),
                                     Ciphers("Wpa3", <<"Dot11CipherSuiteGcmp256">>),
                                     Ciphers("Wpa2", <<"Dot11CipherSuiteCcmp128">>)>>],
          [Bare EXCEPT !.ciphers = <<Ciphers("Wpa2", <<"Dot11CipherSuiteCcmp128">>),
                                     Ciphers("Wpa2", <<"Dot11CipherSuiteGcmp256">>)>>],
          [Bare EXCEPT !.ciphers = <<Ciphers("Wpa2", <<>>)>>],
          [Bare EXCEPT !.ciphers = <<Ciphers("Unknown", <<"Dot11CipherSuiteTkip">>)>>],
          Psk("passphrase", 63, "p"), Psk("passphrase", 64, "p"), Psk("hex", 64, "k"),
          Psk("hex", 64, "not hexadecimal"), Psk("raw", 32, "k"), Psk("raw", 31, "k"),
          Psk("none", 0, "k"), [Bare EXCEPT !.data.psk = <<<<>>>>],
          [Bare EXCEPT !.data.sae = <<<<>>>>], Passwords(<<Mac(6, "peer")>>),
          Passwords(<<Mac(6, "peer"), Mac(5, "short")>>)}

SetRequest(name) == [api |-> "WifiAccessPoint" \o name, id |-> "wlan0"]
Bridge(bridge) == SetRequest("SetNetworkBridge") @@ [bridge |-> bridge]
SetSsid80211(ssid) == SetRequest("SetSsid") @@ [ssid |-> ssid]
SetDot1x(dot1x) == SetRequest("SetAuthenticationDot1x") @@ [dot1x |-> dot1x]

OtherRequests ==
    {[api |-> "NetworkInterfacesEnumerate"], [api |-> "WifiAccessPointsEnumerate"],
     SetRequest("GetAttributes"), [SetRequest("GetAttributes") EXCEPT !.id = "wlan1"],
     Bridge("br0"), SetSsid80211(<<>>), SetSsid80211(<<[case |-> "unset", text |-> ""]>>),
     SetSsid80211(<<[case |-> "hex", text |-> "6e6574"]>>),
     SetDot1x([radius |-> <<>>]), SetDot1x(Dot1x(<<>>, <<Auth>>, <<>>)),
     SetDot1x(Dot1x(<<Auth>>, <<[Auth EXCEPT !.sharedSecret = ""]>>, <<>>)),
     SetDot1x(Dot1x(<<Auth>>, <<>>, <<RadiusServer("Accounting", "10.0.0.6", 65536 + 1813, "t"),
                                      [Auth EXCEPT !.port = 0]>>)),
     SetDot1x(Dot1x(<<Auth>>, <<>>, <<RadiusServer("Accounting", "10.0.0.6", 1813, "t"),
                                      [Auth EXCEPT !.port = 0]>>)),
     SetDot1x(Dot1x(<<[Auth EXCEPT !.endpoint = "Dot1xRadiusServerEndpointUnknown"]>>, <<>>, <<>>)),
     [Bare EXCEPT !.phyType = "Dot11PhyTypeAC", !.dot1x = <<Dot1x(<<Auth>>, <<>>, <<>>)>>,
                  !.algorithms = <<"Dot11AuthenticationAlgorithmOpenSystem">>,
                  !.data.psk = <<<<[encoding |-> "passphrase", size |-> 12, is |-> "q"]>>>>,
                  !.akmSuites = <<"Dot11AkmSuiteFtPsk", "Dot11AkmSuite8021x">>,
                  !.ciphers = <<Ciphers("Wpa2", <<"Dot11CipherSuiteCcmp128">>)>>,
                  !.ssid = Name("net"), !.bands = <<"Dot11FrequencyBandSixGHz">>]}

FollowingRequests ==
    {[api |-> "NetworkInterfacesEnumerate"],
     [api |-> "WifiAccessPointSetPhyType", id |-> "wlan0", phyType |-> "Dot11PhyTypeAC"],
     SetRequest("Disable"),
     [Bare EXCEPT !.ssid = Name("mine"), !.akmSuites = <<"Dot11AkmSuiteSae">>]}

MCCommandLines == <<FirstLines, FollowingLines>>
MCApiRequests == <<SetPhyTypes \cup SetBands \cup SecurityRequests \cup OtherRequests,
                   FollowingRequests>>

-----------------------------------------------------------------------------
(* The conversions in both directions.                                      *)

RoundTrip(From(_), To(_), values) == \A v \in values : From(To(v)) = v

OperationStatusCodes ==
    {"Succeeded", "InvalidParameter", "AccessPointInvalid", "AccessPointNotEnabled",
     "OperationNotSupported", "InternalError"}

\* An enumerator sent over the API comes back as itself, whichever side
\* converts it first (Ieee80211Dot11Adapters.cxx, ServiceApiNetworkAdapters.hxx).
ApiEnumeratorsAgree ==
    /\ RoundTrip(FromDot11SecurityProtocol, ToDot11SecurityProtocol, Ieee80211SecurityProtocol)
    /\ RoundTrip(FromDot11PhyType, ToDot11PhyType, Ieee80211PhyType)
    /\ RoundTrip(FromDot11FrequencyBand, ToDot11FrequencyBand, Ieee80211FrequencyBand)
    /\ RoundTrip(FromDot11AkmSuite, ToDot11AkmSuite, Ieee80211AkmSuite)
    /\ RoundTrip(FromDot11CipherSuite, ToDot11CipherSuite, Ieee80211CipherSuite)
    /\ RoundTrip(FromDot11AuthenticationAlgorithm, ToDot11AuthenticationAlgorithm,
                 Ieee80211AuthenticationAlgorithm)
    /\ RoundTrip(FromDot11AccessPointOperationStatusCode, ToDot11AccessPointOperationStatusCode,
                 OperationStatusCodes)
    /\ RoundTrip(FromServiceNetworkInterfaceKind, ToServiceNetworkInterfaceKind,
                 {"Unknown", "Ethernet", "Wifi", "Bridge", "Other"})
    /\ RoundTrip(FromServiceNetworkAddressFamily, ToServiceNetworkAddressFamily,
                 {"Unknown", "Ipv4", "Ipv6"})
    /\ RoundTrip(FromServiceDot1xRadiusServerEndpoint, ToServiceDot1xRadiusServerEndpoint,
                 Ieee8021xRadiusServerEndpointType)

\* So does what a client builds of them: RADIUS servers with sixteen-bit
\* ports, keys and passwords, and the lists of bands.
ApiMessagesAgree ==
    LET Endpoint(type, port) ==
            [Type |-> type, Address |-> "10.0.0.5", Port |-> port, SharedSecret |-> "s"]
        radius == {[AuthenticationServer |-> Endpoint("Authentication", port),
                    AccountingServer |-> accounting,
                     FallbackServers |-> <<Endpoint("Unknown", <<>>)>>] :
                    port \in {<<>>, <<1812>>, <<2^16 - 1>>},
                    accounting \in {<<>>, <<Endpoint("Accounting", <<1813>>)>>}}
        psks == {[Psk |-> [encoding |-> "Passphrase", size |-> 8, is |-> "p"]],
                 [Psk |-> [encoding |-> "Value", size |-> PskValueSize, is |-> "k"]]}
        saes == {[Passwords |-> <<[Credential |-> "pw", PeerMacAddress |-> <<Mac(6, "peer")>>,
                                   PasswordId |-> id]>>] : id \in {<<>>, <<"id">>}}
    IN  /\ RoundTrip(FromDot11AuthenticationDot1x, ToDot11AuthenticationDot1x,
                     {[Radius |-> r] : r \in {<<>>} \cup {<<r>> : r \in radius}})
        /\ RoundTrip(FromDot11AuthenticationData, ToDot11AuthenticationData,
                     {[Psk |-> p, Sae |-> s] : p \in {<<>>} \cup {<<p>> : p \in psks},
                                               s \in {<<>>} \cup {<<s>> : s \in saes}})
        /\ RoundTrip(FromDot11AccessPointAttributes, ToDot11AccessPointAttributes,
                     {[Properties |-> "location" :> "lab"]})
        /\ \A bands \in {<<b>> : b \in Ieee80211FrequencyBand} :
             FromDot11SetFrequencyBandsRequest(
                 ToDot11FrequencyBands(Each(ToDot11FrequencyBand, bands))) = bands

\* What is written to hostapd reads back as itself (ProtocolHostapd.cxx): its
\* states, and the ciphers (all but SMS4) and key managements it has texts for,
\* among them all that hostapd accepts.
HostapdTextsAgree ==
    /\ RoundTrip(HostapdInterfaceStateFromString,
                 LAMBDA state : Switch(HostapdInterfaceStateTexts, state, "?"),
                 HostapdInterfaceState)
    /\ RoundTrip(WpaCipherFromPropertyValue, WpaCipherPropertyValue, WpaCiphersAll \ {"Sms4"})
    /\ \A k \in AllWpaKeyManagementsValid \ {"Unknown"} :
         WpaKeyManagementsFromPropertyValue(<<WpaKeyManagementPropertyValue(k)>>) = <<k>>
    /\ {a \in WpaAuthenticationAlgorithmsAll : IsWpaAuthenticationAlgorithmSupported(a)}
         = WpaAuthenticationAlgorithmMask
    /\ \A p \in Ieee80211SecurityProtocol \ {"Unknown"} :
         WpaCipherPropertyName(WpaSecurityProtocolPropertyValue(p)) # "invalid"

\* Whatever the radios report becomes capabilities of the server's own
\* vocabulary, and only an interface in an AP mode is an access point.
RadiosAreUnderstood ==
    /\ \A radio \in {FullRadio, OldRadio} :
         \A i \in DOMAIN Nl80211WiphyParse(radio) :
           GetCapabilities(Nl80211WiphyParse(radio)).capabilities[i]
             \in Ieee80211AccessPointCapabilities
    /\ {found.Name : found \in {i \in Nl80211InterfaceEnumerate("ok", PeerHost.messages) :
                                    IsAccessPoint(i)}} = {"wlan0"}

ASSUME ConversionsAgree ==
    ApiEnumeratorsAgree /\ ApiMessagesAgree /\ HostapdTextsAgree /\ RadiosAreUnderstood
=============================================================================
