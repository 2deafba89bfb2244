------------------------ MODULE ConfigurationProperties ------------------------
(***************************************************************************)
(* What the values of ConfigurationPath must be, said of both its ends at   *)
(* once: the names a client uses on one side, hostapd's texts on the other, *)
(* without the vocabularies between them.                                   *)
(***************************************************************************)
EXTENDS ConfigurationPath

Succeeded == "WifiAccessPointOperationStatusCodeSucceeded"
NotSupported == "WifiAccessPointOperationStatusCodeOperationNotSupported"

\* The names a client has for a thing.
Meaning(names, name) == CHOOSE thing \in DOMAIN names : name \in names[thing]
Means(names, name) == \E thing \in DOMAIN names : name \in names[thing]

PhyNames ==
    [a |-> {"a", "Dot11PhyTypeA"}, b |-> {"b", "Dot11PhyTypeB"}, g |-> {"g", "Dot11PhyTypeG"},
     n |-> {"n", "Dot11PhyTypeN"}, ac |-> {"ac", "Dot11PhyTypeAC"},
     ax |-> {"ax", "Dot11PhyTypeAX"}, ad |-> {"Dot11PhyTypeAD"}, be |-> {"Dot11PhyTypeBE"}]

BandNames ==
    [band \in {"2G", "5G", "6G"} |->
        CASE band = "2G" -> {"2", "2.4", "Dot11FrequencyBandTwoPoint4GHz"}
          [] band = "5G" -> {"5", "5.0", "Dot11FrequencyBandFiveGHz"}
          [] band = "6G" -> {"6", "6.0", "Dot11FrequencyBandSixGHz"}]

AkmNames ==
    [akm \in {"WPA-EAP", "WPA-PSK", "FT-EAP", "FT-PSK", "WPA-EAP-SHA256",
              "WPA-PSK-SHA256", "SAE", "FT-SAE", "WPA-EAP-SUITE-B",
              "WPA-EAP-SUITE-B-192", "FT-EAP-SHA384", "FILS-SHA256", "FILS-SHA384",
              "FT-FILS-SHA256", "FT-FILS-SHA384", "OWE"} |->
        CASE akm = "WPA-EAP" -> {"Dot11AkmSuite8021x"}
          [] akm = "WPA-PSK" -> {"Dot11AkmSuitePsk"}
          [] akm = "FT-EAP" -> {"Dot11AkmSuiteFt8021x"}
          [] akm = "FT-PSK" -> {"Dot11AkmSuiteFtPsk"}
          [] akm = "WPA-EAP-SHA256" -> {"Dot11AkmSuite8021xSha256"}
          [] akm = "WPA-PSK-SHA256" -> {"Dot11AkmSuitePskSha256"}
          [] akm = "SAE" -> {"Dot11AkmSuiteSae"}
          [] akm = "FT-SAE" -> {"Dot11AkmSuiteFtSae"}
          [] akm = "WPA-EAP-SUITE-B" -> {"Dot11AkmSuite8021xSuiteB"}
          [] akm = "WPA-EAP-SUITE-B-192" -> {"Dot11AkmSuite8021xSuiteB192"}
          [] akm = "FT-EAP-SHA384" -> {"Dot11AkmSuiteFt8021xSha384"}
          [] akm = "FILS-SHA256" -> {"Dot11AkmSuiteFilsSha256"}
          [] akm = "FILS-SHA384" -> {"Dot11AkmSuiteFilsSha384"}
          [] akm = "FT-FILS-SHA256" -> {"Dot11AkmSuiteFtFilsSha256"}
          [] akm = "FT-FILS-SHA384" -> {"Dot11AkmSuiteFtFilsSha384"}
          [] akm = "OWE" -> {"Dot11AkmSuiteOwe"}]

CipherNames ==
    [cipher \in {"TKIP", "CCMP", "CCMP-256", "GCMP", "GCMP-256", "AES-128-CMAC",
                 "BIP-CMAC-256", "BIP-GMAC-128", "BIP-GMAC-256", "GTK_NOT_USED"} |->
        CASE cipher = "TKIP" -> {"Dot11CipherSuiteTkip"}
          [] cipher = "CCMP" -> {"Dot11CipherSuiteCcmp128"}
          [] cipher = "CCMP-256" -> {"Dot11CipherSuiteCcmp256"}
          [] cipher = "GCMP" -> {"Dot11CipherSuiteGcmp128"}
          [] cipher = "GCMP-256" -> {"Dot11CipherSuiteGcmp256"}
          [] cipher = "AES-128-CMAC" -> {"Dot11CipherSuiteBipCmac128"}
          [] cipher = "BIP-CMAC-256" -> {"Dot11CipherSuiteBipCmac256"}
          [] cipher = "BIP-GMAC-128" -> {"Dot11CipherSuiteBipGmac128"}
          [] cipher = "BIP-GMAC-256" -> {"Dot11CipherSuiteBipGmac256"}
          [] cipher = "GTK_NOT_USED" -> {"Dot11CipherSuiteGroupAddressesTrafficNotAllowed"}]

AlgorithmNames ==
    [open |-> {"Dot11AuthenticationAlgorithmOpenSystem"},
     shared |-> {"Dot11AuthenticationAlgorithmSharedKey"}]

-----------------------------------------------------------------------------
(* What a call asked for, by the part of a configuration, in a client's     *)
(* names; a part it says nothing of is empty.                               *)

NothingAsked ==
    [phyType |-> <<>>, dot1x |-> <<>>, algorithms |-> <<>>, data |-> <<>>, akmSuites |-> <<>>,
     ciphers |-> <<>>, ssid |-> <<>>, bands |-> <<>>, bridge |-> <<>>, state |-> <<>>]

Server(list, address, secret, port) ==
    [list |-> list, address |-> address, secret |-> secret, port |-> port]

\* A key has its encoding, its size and what it is.
KeyData(key, passwords) == <<[key |-> key, passwords |-> passwords]>>
Password(password, id, peers) ==
    [Credential |-> password, PasswordId |-> id, PeerMacAddress |-> peers]

\* The form the help of the command line gives for the text of a server.
Documented(text) ==
    LET IsAddress(token) == GetIpAddressCategory(token) # "Unknown"
    IN  \/ Len(text) = 2 /\ text[1].host \notin RadiusTypeTokens /\ IsAddress(text[1])
        \/ Len(text) = 3 /\ text[1].host \in RadiusTypeTokens /\ IsAddress(text[2])

\* A server for accounting by its type, which it may be given in place of the default.
ForAccounting(text) == Len(text) = 3 /\ text[1].host \in {"acct", "accounting"}

\* (the text of a server that is not of the documented form
\* [<type>,]<address>[:<port>],<secret> does not say which is which)
AskedOfLine(line) ==
    LET Coded(encoding, text) ==
            IF text = <<>> \/ text[1].size = 0 THEN <<>>
            ELSE <<[encoding |-> encoding, size |-> text[1].size, is |-> text[1].is]>>
        key == IF line.psk = <<>> THEN Coded("passphrase", line.passphrase)
               ELSE Coded("hex", line.psk)
        Filled(text) == IF text = <<"">> THEN <<>> ELSE text
        ServerOf(text, list) ==
            LET n == Len(text)
            IN  Server(list, text[n - 1].host, text[n].host,
                       IF text[n - 1].port = <<0>> THEN <<>> ELSE text[n - 1].port)
        Servers(option, list) ==
            [i \in DOMAIN line[option] |-> ServerOf(line[option][i], list)]
        Fallback == [i \in DOMAIN line.fallback |->
                        ServerOf(line.fallback[i],
                                 IF ForAccounting(line.fallback[i]) THEN "acct_servers"
                                 ELSE "auth_servers")]
        Passwords(sae) == Password(sae.password, Filled(sae.passwordId), sae.peer)
    IN  CASE line.command \in {"access-point-enable", "ap-enable", "enable", "ape"} ->
                [NothingAsked EXCEPT !.phyType = line.phy, !.bands = line.bands,
                    !.ssid = Filled(line.ssid), !.state = <<"ENABLED">>,
                    !.algorithms = line.auths, !.akmSuites = line.akms,
                    !.data = IF key = <<>> /\ line.sae = <<>> THEN <<>>
                             ELSE KeyData(key, Each(Passwords, line.sae))]
          [] line.command \in {"access-point-disable", "ap-disable", "disable", "apd"} ->
                [NothingAsked EXCEPT !.state = <<"DISABLED">>]
          [] line.command \in {"access-point-set-ssid", "ap-set-ssid", "set-ssid", "setssid",
                               "ssid"} ->
                [NothingAsked EXCEPT !.ssid = line.ssid]
          [] line.command \in {"access-point-set-radius", "ap-set-radius", "ap-radius",
                               "radius"} ->
                [NothingAsked EXCEPT !.dot1x =
                    IF \E option \in {"auth", "acct", "fallback"} :
                           \E i \in DOMAIN line[option] : ~Documented(line[option][i])
                    THEN <<>>
                    ELSE Servers("auth", "auth_servers") \o Servers("acct", "acct_servers")
                         \o Fallback]
          [] OTHER -> NothingAsked

AskedOfRequest(request) ==
    LET FieldOr(field, none) == IF field \in DOMAIN request THEN request[field] ELSE none
        Field(field) == FieldOr(field, <<>>)
        ServerOf(s) == Server(IF s.endpoint = "Dot1xRadiusServerEndpointAccounting"
                              THEN "acct_servers" ELSE "auth_servers",
                              s.address, s.sharedSecret,
                              IF s.port = 0 THEN <<>> ELSE <<s.port>>)
        Servers(radius) == Each(ServerOf, radius.authenticationServer
                                \o radius.accountingServer \o radius.fallbackServers)
        PasswordOf(p) == Password(p.credential,
                                  IF p.passwordId = "" THEN <<>> ELSE <<p.passwordId>>,
                                  p.peerMacAddress)
        Data(data) == IF data = <<>> \/ (data.psk = <<>> /\ data.sae = <<>>) THEN <<>>
                      ELSE KeyData(Optional(data.psk, <<>>),
                                   Each(PasswordOf, Optional(data.sae, <<>>)))
        Dot1x(dot1x) == Optional(Each(Servers, dot1x.radius), <<>>)
    IN  [NothingAsked EXCEPT
            !.phyType = IF Means(PhyNames, FieldOr("phyType", "")) THEN <<request.phyType>>
                        ELSE <<>>,
            !.dot1x = CASE request.api = "WifiAccessPointEnable" ->
                            Optional(Each(Dot1x, request.dot1x), <<>>)
                        [] request.api = "WifiAccessPointSetAuthenticationDot1x" ->
                            Dot1x(request.dot1x)
                        [] OTHER -> <<>>,
            !.algorithms = Field("algorithms"), !.data = Data(Field("data")),
            !.akmSuites = Field("akmSuites"), !.ciphers = Field("ciphers"),
            !.ssid = [i \in DOMAIN Field("ssid") |-> request.ssid[i].text],
            !.bands = Field("bands"),
            !.bridge = IF FieldOr("bridge", "") = "" THEN <<>> ELSE <<request.bridge>>,
            !.state = CASE request.api = "WifiAccessPointEnable" -> <<"ENABLED">>
                        [] request.api = "WifiAccessPointDisable" -> <<"DISABLED">>
                        [] OTHER -> <<>>]

Asked(c) == IF c.client = "cli" THEN AskedOfLine(c.asked) ELSE AskedOfRequest(c.asked)

Parts == DOMAIN NothingAsked \ {"state"}

\* The parts of what a client asks that do not reach hostapd as asked.  Of a command
\* line: its --auth and --akm (declared at NetRemoteCli.cxx:326-329, read by nothing
\* in the callback, 178-212); its RADIUS servers, if one to fall back on is for
\* accounting ("If the type is not specified, it defaults to 'auth'", 429: it always
\* is 'auth', 444 and 524); its keys, if the address of a peer cannot be read.
LostOfLine(line) ==
    {"algorithms", "akmSuites"}
    \cup {part \in {"dot1x"} : \E i \in DOMAIN line.fallback : ForAccounting(line.fallback[i])}
    \cup {part \in {"data"} : \E i \in DOMAIN line.sae :
             line.sae[i].peer # <<>> /\ line.sae[i].peer[1].is = "no address"}

\* Of a request: its RADIUS servers, if a port is not one of 16 bits, and its
\* passwords, if the address of a peer is not one of six octets.
LostOfRequest(asked) ==
    {part \in {"dot1x"} : \E i \in DOMAIN asked.dot1x :
        asked.dot1x[i].port # <<>> /\ asked.dot1x[i].port[1] \notin 0 .. 2^16 - 1}
    \cup {part \in {"data"} : asked.data # <<>> /\
        \E i \in DOMAIN asked.data[1].passwords :
            LET peers == asked.data[1].passwords[i].PeerMacAddress
            IN  peers # [k \in DOMAIN peers |-> [size |-> 6, is |-> peers[k].is]]}

Kept(c) == Parts \ (IF c.client = "cli" THEN LostOfLine(c.asked)
                    ELSE LostOfRequest(AskedOfRequest(c.asked)))

-----------------------------------------------------------------------------
(* What hostapd's configuration must then say, by part.                     *)

PhyGiven(asked, conf, phys) ==
    LET ForN == {"n", "ac", "ax"} ForAc == {"ac", "ax"}
        phy == Meaning(PhyNames, asked[1])
        Ever(set) == \E p \in phys : Means(PhyNames, p) /\ Meaning(PhyNames, p) \in set
    IN  /\ conf.hw_mode = <<CASE phy \in {"b", "g", "ad"} -> phy [] OTHER -> "a">>
        /\ phy \in ForN => conf.ieee80211n = <<1>> /\ conf.disable_11n = <<0>>
                           /\ conf.wmm_enabled = <<1>>
        /\ phy \in ForAc => conf.ieee80211ac = <<1>> /\ conf.disable_11ac = <<0>>
        /\ phy = "ax" => conf.ieee80211ax = <<1>> /\ conf.disable_11ax = <<0>>
        \* what a greater type needed stays
        /\ conf.ieee80211n = <<1>> => Ever(ForN)
        /\ conf.ieee80211ac = <<1>> => Ever(ForAc)
        /\ conf.ieee80211ax = <<1>> => Ever({"ax"})

\* The lists end with the servers: those given before stay in front of them.
Dot1xGiven(asked, conf) ==
    \A list \in {"auth_servers", "acct_servers"} :
        LET wanted == FlattenSeq([i \in DOMAIN asked |->
                          IF asked[i].list = list THEN <<asked[i]>> ELSE <<>>])
            before == Len(conf[list]) - Len(wanted)
        IN  /\ before >= 0
            /\ \A i \in DOMAIN wanted :
                  conf[list][before + i] = [address |-> wanted[i].address,
                                            secret |-> <<wanted[i].secret>>,
                                            port |-> wanted[i].port]

\* hostapd's property and value for a key: a key that is not a passphrase is
\* given by its digits, two for each octet.
Installed(key) ==
    IF key.encoding = "passphrase"
    THEN <<"wpa_passphrase", [size |-> key.size, is |-> key.is]>>
    ELSE <<"wpa_psk", [size |-> 64, is |-> key.is]>>

DataGiven(asked, conf) ==
    /\ asked.key # <<>> => conf.psk = Installed(asked.key[1])
    /\ asked.passwords # <<>> => conf.sae_password = asked.passwords

\* (one suite is installed under the name of another, FT-FILS-SHA384 as FILS-SHA384,
\* Ieee80211WpaAdapters.cxx:137-138)
Misnamed == {"Dot11AkmSuiteFtFilsSha384"}

AkmGiven(asked, conf) ==
    LET Text(i) == Meaning(AkmNames, asked[i])
        texts == {Text(i) : i \in DOMAIN asked}
        Enterprise == {"WPA-EAP", "FT-EAP", "WPA-EAP-SHA256", "WPA-EAP-SUITE-B",
                       "WPA-EAP-SUITE-B-192", "FT-EAP-SHA384", "FILS-SHA256",
                       "FILS-SHA384", "FT-FILS-SHA256", "FT-FILS-SHA384"}
        FastTransition == {"FT-EAP", "FT-PSK", "FT-SAE", "FT-EAP-SHA384", "FT-FILS-SHA256"}
    IN  /\ Len(conf.wpa_key_mgmt) = 1 /\ DOMAIN conf.wpa_key_mgmt[1] = DOMAIN asked
        /\ \A i \in DOMAIN asked :
              asked[i] \notin Misnamed => conf.wpa_key_mgmt[1][i] = Text(i)
        /\ texts \cap Enterprise # {} => conf.ieee8021x = <<1>>
        /\ texts \cap FastTransition # {} => conf.nas_identifier = <<"random">>

\* Of several lists for a protocol the first counts; of those for WPA2 and WPA3,
\* which hostapd has one property for, one of the two.
CiphersGiven(asked, conf) ==
    LET First(protocol) == {i \in DOMAIN asked : /\ asked[i].securityProtocol = protocol
                                /\ \A j \in 1 .. i - 1 : asked[j].securityProtocol # protocol}
        Texts(i) == <<[k \in DOMAIN asked[i].cipherSuites |->
                        Meaning(CipherNames, asked[i].cipherSuites[k])]>>
        Wpa1 == First("Dot11SecurityProtocolWpa1")
        Rsn == First("Dot11SecurityProtocolWpa2") \cup First("Dot11SecurityProtocolWpa3")
    IN  /\ Wpa1 # {} => conf.wpa_pairwise \in {Texts(i) : i \in Wpa1}
        /\ Rsn # {} => conf.rsn_pairwise \in {Texts(i) : i \in Rsn}

\* (a vendor-specific algorithm is none of hostapd's: it adds nothing)
AlgorithmsGiven(asked, conf) ==
    LET named == {a \in ToSet(asked) : Means(AlgorithmNames, a)}
        things == {Meaning(AlgorithmNames, a) : a \in named}
    IN  conf.auth_algs = <<(IF "open" \in things THEN 1 ELSE 0)
                           + (IF "shared" \in things THEN 2 ELSE 0)>>

BandsGiven(asked, conf) ==
    conf.setband = <<[i \in DOMAIN asked |-> Meaning(BandNames, asked[i])]>>

\* The protection that 6 GHz requires: written, in force with a later reload.
ProtectionGiven(asked, conf) ==
    (\E i \in DOMAIN asked : Meaning(BandNames, asked[i]) = "6G") => conf.ieee80211w = <<"2">>

Given(part, asked, conf, phys) ==
    asked[part] = <<>> \/
    CASE part = "phyType"    -> PhyGiven(asked.phyType, conf, phys)
      [] part = "dot1x"      -> Dot1xGiven(asked.dot1x, conf)
      [] part = "algorithms" -> AlgorithmsGiven(asked.algorithms, conf)
      [] part = "data"       -> DataGiven(asked.data[1], conf)
      [] part = "akmSuites"  -> AkmGiven(asked.akmSuites, conf)
      [] part = "ciphers"    -> CiphersGiven(asked.ciphers, conf)
      [] part = "ssid"       -> conf.ssid = asked.ssid
      [] part = "bands"      -> BandsGiven(asked.bands, conf)
      [] part = "bridge"     -> conf.bridge = asked.bridge

\* A change that is answered with Succeeded is in force in hostapd as its client
\* named it, after all the conversions between, but for the parts and the suite that
\* are named above as lost: its parts in the running configuration, the protection
\* for 6 GHz at least in the written one, and the interface on or off as asked.
AskedIsGiven ==
    last.client # "none" /\ last.code = Succeeded =>
        LET asked == Asked(last)
        IN  /\ \A part \in Kept(last) : Given(part, asked, hostapd.live, phyAsked)
            /\ ProtectionGiven(asked.bands, hostapd.conf)
            /\ asked.state \in {<<>>, <<hostapd.state>>}

\* The parts of a configuration in the order they are to be applied, and the
\* properties that are written for each.
InOrder == <<"phyType", "dot1x", "algorithms", "data", "akmSuites", "ciphers", "ssid", "bands">>

Written ==
    [phyType |-> {"hw_mode", "ieee80211n", "ieee80211ac", "ieee80211ax"},
     dot1x |-> {"auth_servers", "acct_servers", "eap_server", "own_ip_addr"},
     algorithms |-> {"auth_algs"}, data |-> {"psk", "sae_password"},
     akmSuites |-> {"wpa_key_mgmt", "ieee8021x", "nas_identifier"},
     ciphers |-> {"wpa_pairwise", "rsn_pairwise"}, ssid |-> {"ssid"},
     bands |-> {"setband", "ieee80211w"}]

\* An Enable, whether it succeeds or fails on the way, has written nothing of a
\* part unless all parts before it, but for those lost, are fully given, and it does not enable an
\* interface whose configuration is not: the SSID in particular is not changed
\* before what secures it.
PrefixApplied ==
    [][calls' # calls /\ last'.client # "none" /\ Asked(last').state = <<"ENABLED">> =>
        LET asked == Asked(last')
            GivenBefore(i) ==
                \A j \in 1 .. i - 1 : InOrder[j] \in Kept(last')
                    => Given(InOrder[j], asked, hostapd'.conf, phyAsked')
        IN  /\ \A i \in DOMAIN InOrder :
                  (\E p \in Written[InOrder[i]] : hostapd'.conf[p] # hostapd.conf[p])
                  => GivenBefore(i)
            /\ hostapd'.state # hostapd.state => GivenBefore(Len(InOrder) + 1)]_vars

-----------------------------------------------------------------------------
\* A PHY type or band that a client has been shown for an access point is not
\* refused as not supported when it asks for it in its own words, and one it was
\* not shown is never granted, as long as the host is the same.
AdvertisedIsAccepted ==
    last.client # "none" /\ told # NoAnswer /\ last.code \in {Succeeded, NotSupported} =>
        LET asked == Asked(last)
            shown == ShowsAccessPoints(told.answer, FALSE)
            Things(names, set) == {Meaning(names, n) : n \in {m \in set : Means(names, m)}}
            id == IF last.client = "cli" THEN last.asked.id[1] ELSE last.asked.id
        IN  last.host = told.host /\ (\E part \in Kept(last) : asked[part] # <<>>) =>
            \A item \in {s \in shown : s.id = id} :
                (last.code = Succeeded) =
                    /\ Things(PhyNames, ToSet(asked.phyType))
                       \subseteq Things(PhyNames, item.text.phyTypes)
                    /\ Things(BandNames, ToSet(asked.bands))
                       \subseteq Things(BandNames, item.text.bands)

-----------------------------------------------------------------------------
ShownAddress(a) ==
    [address |-> [host |-> a.host, prefix |-> <<>>], length |-> a.prefixlen,
     family |-> IF a.family = "AF_INET" THEN "NetworkAddressFamilyIpv4"
                ELSE "NetworkAddressFamilyIpv6"]

\* (of the kinds of interface the kernel names only the bridge is known)
ShownLink(h, l) ==
    [id |-> l.name,
     kind |-> IF l.type = <<"bridge">> THEN "NetworkInterfaceKindBridge"
              ELSE "NetworkInterfaceKindUnknown",
     addresses |-> {ShownAddress(a) : a \in {b \in h.addresses : b.ifindex = l.ifindex}}]

\* A client is shown exactly the host's links, each with its own addresses, if
\* the host does not change meanwhile.  If it does, no link is shown that there
\* was not, no address that no link of that name had, and no address is missing
\* that was there all the time; and what is published for discovery is what a
\* client is shown on the same host.
InterfacesReported ==
    last.client # "none" /\ last.code = "NetworkOperationStatusCodeSuccess" =>
        /\ \A h \in seen : seen = {h} => last.shown = {ShownLink(h, l) : l \in h.links}
        /\ \A i \in last.shown : \E h \in seen : \E l \in h.links : l.name = i.id
        /\ \A i \in last.shown : \A a \in i.addresses : \E h, g \in seen : \E l \in h.links :
              l.name = i.id /\ a \in ShownLink(g, l).addresses
        /\ \A a \in UNION {h.addresses : h \in seen} : \A l \in UNION {h.links : h \in seen} :
              (\A h \in seen : a \in h.addresses /\ l \in h.links /\ a.ifindex = l.ifindex)
              => \E i \in last.shown : i.id = l.name /\ ShownAddress(a) \in i.addresses
        /\ disturbances = 0 => \A p \in published :
              \E i \in last.shown : /\ i.id = p.InterfaceName
                                    /\ \E a \in i.addresses : a.address.host = p.Address.host
=============================================================================
