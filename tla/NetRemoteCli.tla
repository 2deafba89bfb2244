---------------------------- MODULE NetRemoteCli ----------------------------
(***************************************************************************)
(* The command line client: what request it makes of a command line, and    *)
(* what it shows of the answer.                                             *)
(*                                                                         *)
(* A command line is a record: server (a text, or none), group, command,    *)
(* detailed, and the options' values, each a sequence: id, ssid, phy,       *)
(* bands, auths, akms (names), psk, passphrase ([size, is]), sae            *)
(* ([password, passwordId, peer]), auth, acct and fallback (each the        *)
(* comma-separated texts of a RADIUS server).  A run of the client is its   *)
(* exit status and the request it makes, if any.                            *)
(***************************************************************************)
EXTENDS Dot11Adapters, NetworkInterfaces

ParseError == [exit |-> 1, request |-> <<>>]
Nothing == [exit |-> 0, request |-> <<>>]

PortDefault == 5047

-----------------------------------------------------------------------------
(* NetRemoteCliHandler and the requests of its operations.                  *)

\* Without a connection there are no operations, and the command ends quietly.
HandleCommand(connection, request) ==
    IF connection = <<>> THEN Nothing ELSE [exit |-> 0, request |-> <<request>>]

CliSsid(ssid) == [case |-> "name", text |-> ssid]

\* The options of a command line: those that take one value, and those that take
\* several.  Keys and passphrases have a length.  A password may have an identifier
\* and an address, of six octets if it can be read, and a token of a server's text
\* a port.
IsLine(line) ==
    /\ \A option \in {"id", "ssid", "phy", "psk", "passphrase", "auth", "acct"} :
          IsOptional(line[option])
    /\ \A option \in {"bands", "auths", "akms", "sae", "fallback"} : IsList(line[option])
    /\ \A key \in ToSet(line.psk) \cup ToSet(line.passphrase) : key.size \in Nat
    /\ \A sae \in ToSet(line.sae) :
          /\ IsOptional(sae.passwordId) /\ IsOptional(sae.peer)
          /\ \A mac \in ToSet(sae.peer) :
                mac.is # "no address" => mac = [size |-> MacAddressSize, is |-> mac.is]
    /\ \A text \in ToSet(line.auth) \cup ToSet(line.acct) \cup ToSet(line.fallback) :
          /\ IsList(text)
          /\ \A token \in ToSet(text) :
                IsOptional(token.port) /\ ToSet(token.port) \subseteq Nat

\* What is given of a configuration, in the API's terms; it has no 802.1X part.
CliWifiAccessPointEnable(id, configuration) ==
    [api |-> "WifiAccessPointEnable", id |-> id, dot1x |-> <<>>,
     phyType |-> IF configuration.PhyType = <<>> THEN "Dot11PhyTypeUnknown"
                 ELSE ToDot11PhyType(configuration.PhyType[1]),
     ssid |-> Each(CliSsid, configuration.Ssid),
     akmSuites |-> ToDot11AkmSuites(configuration.AkmSuites),
     ciphers |-> ToDot11CipherSuiteConfigurations(configuration.PairwiseCipherSuites),
     algorithms |-> ToDot11AuthenticationAlgorithms(configuration.AuthenticationAlgorithms),
     bands |-> Each(ToDot11FrequencyBand, configuration.FrequencyBands),
     data |-> ToDot11AuthenticationData(configuration.AuthenticationData)]

CliWifiAccessPointDisable(id) == [api |-> "WifiAccessPointDisable", id |-> id]

CliWifiAccessPointSetSsid(id, ssid) ==
    [api |-> "WifiAccessPointSetSsid", id |-> id, ssid |-> <<CliSsid(ssid)>>]

CliWifiAccessPointSet8021xRadius(id, radius) ==
    [api |-> "WifiAccessPointSetAuthenticationDot1x", id |-> id,
     dot1x |-> ToDot11AuthenticationDot1x([Radius |-> <<radius>>])]

-----------------------------------------------------------------------------
(* The names an option takes.                                               *)

Ieee80211PhyTypeNames ==
    [a |-> "A", b |-> "B", g |-> "G", n |-> "N", ac |-> "AC", ax |-> "AX"]

Ieee80211FrequencyBandNames ==
    LET band == [two |-> {"2", "2.4"}, five |-> {"5", "5.0"}, six |-> {"6", "6.0"}]
    IN  [name \in band.two \cup band.five \cup band.six |->
            CASE name \in band.two  -> "TwoPointFourGHz"
              [] name \in band.five -> "FiveGHz"
              [] name \in band.six  -> "SixGHz"]

Ieee80211AuthenticationAlgorithmNames ==
    LET open == {"o", "open", "open-system"}
        shared == {"s", "shared", "shared-key", "skey"}
    IN  [name \in open \cup shared |-> IF name \in open THEN "OpenSystem" ELSE "SharedKey"]

\* The suites by name; some have several.
Ieee80211AkmSuiteNamesOf ==
    [Ieee8021x |-> {"8021x", "dot1x"}, Psk |-> {"psk"}, Ft8021x |-> {"ft8021x", "ftdot1x"},
     FtPsk |-> {"ftpsk"}, Ieee8021xSha256 |-> {"8021xsha256", "dot1xsha256"},
     PskSha256 |-> {"psksha256"}, Tdls |-> {"tdls"}, Sae |-> {"sae"}, FtSae |-> {"ftsae"},
     ApPeerKey |-> {"appeerkey"},
     Ieee8021xSuiteB |-> {"8021xsuiteb", "dot1xsuiteb", "8021xb", "dot11b"},
     Ieee8011xSuiteB192 |-> {"8021xsuiteb192", "dot1xsuiteb192", "8021xb192", "dot11b192"},
     Ft8021xSha384 |-> {"ft8021xsha384", "ftdot1xsha384"}, FilsSha256 |-> {"filssha256"},
     FilsSha384 |-> {"filssha384"}, FtFilsSha256 |-> {"ftfilssha256"},
     FtFilsSha384 |-> {"ftfilssha384"}, Owe |-> {"owe"}, FtPskSha384 |-> {"ftpsksha384"},
     PskSha384 |-> {"psksha384"}, Pasn |-> {"pasn"}]

Ieee80211AkmSuiteNames ==
    [name \in UNION {Ieee80211AkmSuiteNamesOf[s] : s \in DOMAIN Ieee80211AkmSuiteNamesOf} |->
        CHOOSE s \in DOMAIN Ieee80211AkmSuiteNamesOf : name \in Ieee80211AkmSuiteNamesOf[s]]

-----------------------------------------------------------------------------
(* The subcommands.                                                         *)

\* A MAC address that cannot be read is left out.
ParseSaePasswordCliArgument(sae) ==
    [Credential |-> sae.password, PasswordId |-> sae.passwordId,
     PeerMacAddress |-> IF sae.peer = <<>> \/ sae.peer[1].is = "no address" THEN <<>>
                        ELSE sae.peer]

\* The key counts, not the passphrase; a key that cannot be read ends the
\* command, an empty text is as none.  Of algorithms and AKM suites nothing
\* reaches the configuration.
WifiAccessPointEnableCallback(connection, line) ==
    LET Given(text) == IF text # <<>> /\ text[1].size > 0 THEN text ELSE <<>>
        Psk(encoding, text) == [Psk |-> [encoding |-> encoding, size |-> text.size,
                                         is |-> text.is]]
        psk == Given(line.psk)
        key == IF psk # <<>> THEN <<Psk("Value", [psk[1] EXCEPT !.size = PskValueSize])>>
               ELSE Each(LAMBDA text : Psk("Passphrase", text), Given(line.passphrase))
        passwords == IF line.sae = <<>> THEN <<>>
                     ELSE <<[Passwords |-> Each(ParseSaePasswordCliArgument, line.sae)]>>
    IN  IF psk # <<>> /\ ~ParseHexString(psk[1]) THEN Nothing
        ELSE HandleCommand(connection, CliWifiAccessPointEnable(line.id[1],
                [PhyType |-> [i \in DOMAIN line.phy |-> Ieee80211PhyTypeNames[line.phy[i]]],
                 Ssid |-> IF line.ssid = <<"">> THEN <<>> ELSE line.ssid,
                 FrequencyBands |-> [i \in DOMAIN line.bands |->
                                        Ieee80211FrequencyBandNames[line.bands[i]]],
                 AuthenticationAlgorithms |-> <<>>, AkmSuites |-> <<>>,
                 PairwiseCipherSuites |-> <<>>,
                 AuthenticationData |-> [Psk |-> key, Sae |-> passwords]]))

AddSubcommandWifiAccessPointEnable(connection, line) ==
    IF \/ line.id = <<>>
       \/ ~ToSet(line.phy) \subseteq DOMAIN Ieee80211PhyTypeNames
       \/ ~ToSet(line.bands) \subseteq DOMAIN Ieee80211FrequencyBandNames
       \/ ~ToSet(line.auths) \subseteq DOMAIN Ieee80211AuthenticationAlgorithmNames
       \/ ~ToSet(line.akms) \subseteq DOMAIN Ieee80211AkmSuiteNames
       \/ line.passphrase # <<>> /\ line.psk # <<>>
    THEN ParseError ELSE WifiAccessPointEnableCallback(connection, line)

AddSubcommandWifiAccessPointDisable(connection, line) ==
    IF line.id = <<>> THEN ParseError
    ELSE HandleCommand(connection, CliWifiAccessPointDisable(line.id[1]))

AddSubcommandWifiAccessPointSetSsid(connection, line) ==
    IF line.id = <<>> \/ line.ssid = <<>> THEN ParseError
    ELSE HandleCommand(connection, CliWifiAccessPointSetSsid(line.id[1], line.ssid[1]))

RadiusTypeTokens == {"acct", "accounting", "auth", "authentication"}

\* The tokens are [<type>,]<address>[:<port>],<secret>.  The address is the last
\* of the first two that is one, the secret the last of the first three that is
\* neither it nor the type.  A port that is given must be readable, and the any
\* address of IPv6 has a colon of its own.  The type that was given is lost.
ParseIeee8021xRadiusServerEndpointConfiguration(tokens) ==
    LET IsType(i)    == i = 1 /\ tokens[1].host \in RadiusTypeTokens
        IsAddress(i) == i <= 2 /\ ~IsType(i) /\ GetIpAddressCategory(tokens[i]) # "Unknown"
        IsSecret(i)  == i <= 3 /\ ~IsType(i) /\ ~IsAddress(i)
        PortReadable(text) == IF text.port = <<>> THEN text.form # "any6"
                              ELSE text.port[1] < 2^16
        LastOf(P(_)) == {i \in DOMAIN tokens :
                            P(i) /\ \A j \in DOMAIN tokens : P(j) => j <= i}
        Ports == {i \in DOMAIN tokens : IsAddress(i) /\ tokens[i].port # <<>>}
        port  == IF Ports = {} THEN <<>>
                 ELSE tokens[CHOOSE i \in Ports : \A j \in Ports : j <= i].port
    IN  IF \/ \E i \in DOMAIN tokens : IsAddress(i) /\ ~PortReadable(tokens[i])
           \/ LastOf(IsAddress) = {} \/ LastOf(IsSecret) = {}
        THEN <<>>
        ELSE <<[Type |-> "Authentication",
                Address |-> tokens[CHOOSE i \in LastOf(IsAddress) : TRUE].host,
                Port |-> IF port = <<0>> THEN <<>> ELSE port,
                SharedSecret |-> tokens[CHOOSE i \in LastOf(IsSecret) : TRUE].host]>>

\* One option's servers; CLI11 takes a failed extraction for a parse error.
ExtractRadiusServers(servers) ==
    FlattenSeq(Each(ParseIeee8021xRadiusServerEndpointConfiguration, servers))

\* The primary servers get their types, the fallback ones keep what was parsed.
AddSubcommandWifiAccessPointSet8021xRadius(connection, line) ==
    LET Extract(option) == ExtractRadiusServers(line[option])
        Typed(server, type) == [server EXCEPT !.Type = type]
    IN  IF \/ line.id = <<>> \/ line.auth = <<>>
           \/ \E option \in {"auth", "acct", "fallback"} :
                 Len(Extract(option)) # Len(line[option])
        THEN ParseError
        ELSE HandleCommand(connection, CliWifiAccessPointSet8021xRadius(line.id[1],
                [AuthenticationServer |-> Typed(Extract("auth")[1], "Authentication"),
                 AccountingServer |-> [i \in DOMAIN line.acct |->
                                        Typed(Extract("acct")[i], "Accounting")],
                 FallbackServers |-> Extract("fallback")]))

AddSubcommandWifi(connection, line) ==
    CASE line.command \in {"enumerate-access-points", "enumaps", "enum", "aps"} ->
            HandleCommand(connection, [api |-> "WifiAccessPointsEnumerate"])
      [] line.command \in {"access-point-enable", "ap-enable", "enable", "ape"} ->
            AddSubcommandWifiAccessPointEnable(connection, line)
      [] line.command \in {"access-point-disable", "ap-disable", "disable", "apd"} ->
            AddSubcommandWifiAccessPointDisable(connection, line)
      [] line.command \in {"access-point-set-ssid", "ap-set-ssid", "set-ssid", "setssid",
                           "ssid"} ->
            AddSubcommandWifiAccessPointSetSsid(connection, line)
      [] line.command \in {"access-point-set-radius", "ap-set-radius", "ap-radius",
                           "radius"} ->
            AddSubcommandWifiAccessPointSet8021xRadius(connection, line)
      [] OTHER -> ParseError

AddSubcommandNetwork(connection, line) ==
    IF line.command \in {"enumerate-interfaces", "enumifs", "enum", "interfaces",
                         "ifaces", "ifs"}
    THEN HandleCommand(connection, [api |-> "NetworkInterfacesEnumerate"])
    ELSE ParseError

\* The default port is added to an address without a colon.  A channel that is
\* not made leaves no connection.
OnServerAddressChanged(server, channel) ==
    LET address == IF server.port = <<>> /\ server.form # "any6"
                   THEN [server EXCEPT !.port = <<PortDefault>>] ELSE server
    IN  IF channel THEN <<address>> ELSE <<>>

ServerDefault == [form |-> "other", host |-> "localhost", port |-> <<>>]

\* The server's option first, with its default, then the subcommands; there
\* must be one.
CreateParser(channel, line) ==
    LET connection == OnServerAddressChanged(Optional(line.server, ServerDefault), channel)
    IN  CASE line.group = "net"  -> AddSubcommandNetwork(connection, line)
          [] line.group = "wifi" -> AddSubcommandWifi(connection, line)
          [] OTHER -> ParseError

\* A command that fails is a success to the shell all the same.
Parse(channel, line) == CreateParser(channel, line)

-----------------------------------------------------------------------------
(* What is shown of an answer: [ok, code, ...] is gRPC's status, the        *)
(* server's, and the result.                                                *)

Dot11FrequencyBandToString(band) ==
    Switch([Dot11FrequencyBandTwoPoint4GHz |-> "2.4", Dot11FrequencyBandFiveGHz |-> "5.0",
            Dot11FrequencyBandSixGHz |-> "6.0"], band, "??")

Dot11SecurityProtocolToString(protocol) ==
    Switch([Dot11SecurityProtocolWpa1 |-> "WPA1", Dot11SecurityProtocolWpa2 |-> "WPA2",
            Dot11SecurityProtocolWpa3 |-> "WPA3"], protocol, "??")

\* The API's names, less their common beginning.
NetRemoteAccessPointCapabilitiesToStringDetailed(capabilities) ==
    [protocols |-> {Dot11SecurityProtocolToString(p) : p \in capabilities.securityProtocols},
     phyTypes |-> capabilities.phyTypes, bands |-> capabilities.frequencyBands,
     akmSuites |-> capabilities.akmSuites, ciphers |-> capabilities.cipherSuites]

NetRemoteAccessPointCapabilitiesToStringBrief(capabilities) ==
    [protocols |-> {Dot11SecurityProtocolToString(p) : p \in capabilities.securityProtocols},
     phyTypes |-> capabilities.phyTypes,
     bands |-> {Dot11FrequencyBandToString(b) : b \in capabilities.frequencyBands}]

NetRemoteAccessPointCapabilitiesToString(capabilities, detailed) ==
    IF detailed THEN NetRemoteAccessPointCapabilitiesToStringDetailed(capabilities)
    ELSE NetRemoteAccessPointCapabilitiesToStringBrief(capabilities)

ShowsInterfaces(answer) ==
    IF ~answer.ok \/ answer.code # "NetworkOperationStatusCodeSuccess" THEN {}
    ELSE {[id |-> i.id, kind |-> i.kind, addresses |->
            {[address |-> a.address, length |-> a.prefixLength, family |-> a.family] :
                a \in i.addresses}] : i \in answer.networkInterfaces}

ShowsAccessPoints(answer, detailed) ==
    IF ~answer.ok \/ answer.code # "WifiAccessPointOperationStatusCodeSucceeded" THEN {}
    ELSE {[id |-> p.accessPointId, disabled |-> ~p.isEnabled, text |->
            NetRemoteAccessPointCapabilitiesToString(p.capabilities, detailed)] :
                p \in answer.accessPoints}
=============================================================================
