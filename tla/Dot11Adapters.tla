---------------------------- MODULE Dot11Adapters ----------------------------
(***************************************************************************)
(* The conversions between the API's messages and the neutral vocabulary:   *)
(* To... makes a message of a value, From... a value of a message.  The     *)
(* client uses the former for its requests, the service the latter for what *)
(* it received and the former again for what it reports.                    *)
(*                                                                         *)
(* An API enumerator is its protobuf name.  A repeated field is a sequence; *)
(* a field that may be absent is a sequence of at most one element.  A      *)
(* secret is its size and a name for its content; a MAC address likewise.   *)
(* The API gives each frequency band three names for the same number; the   *)
(* models use one.                                                         *)
(***************************************************************************)
EXTENDS ServiceApiAdapters

ToDot11AccessPointOperationStatusCode(status) ==
    Switch([Succeeded |-> "WifiAccessPointOperationStatusCodeSucceeded",
            InvalidParameter |-> "WifiAccessPointOperationStatusCodeInvalidParameter",
            AccessPointInvalid |-> "WifiAccessPointOperationStatusCodeAccessPointInvalid",
            AccessPointNotEnabled |-> "WifiAccessPointOperationStatusCodeAccessPointNotEnabled",
            OperationNotSupported |-> "WifiAccessPointOperationStatusCodeOperationNotSupported",
            InternalError |-> "WifiAccessPointOperationStatusCodeInternalError"],
           status, "WifiAccessPointOperationStatusCodeUnknown")

FromDot11AccessPointOperationStatusCode(status) ==
    Switch([WifiAccessPointOperationStatusCodeSucceeded |-> "Succeeded",
            WifiAccessPointOperationStatusCodeInvalidParameter |-> "InvalidParameter",
            WifiAccessPointOperationStatusCodeAccessPointInvalid |-> "AccessPointInvalid",
            WifiAccessPointOperationStatusCodeAccessPointNotEnabled |-> "AccessPointNotEnabled",
            WifiAccessPointOperationStatusCodeOperationNotSupported |-> "OperationNotSupported",
            WifiAccessPointOperationStatusCodeInternalError |-> "InternalError"],
           status, "Unknown")

ToDot11SecurityProtocol(protocol) ==
    Switch([Wpa |-> "Dot11SecurityProtocolWpa1",
            Wpa2 |-> "Dot11SecurityProtocolWpa2",
            Wpa3 |-> "Dot11SecurityProtocolWpa3"],
           protocol, "Dot11SecurityProtocolUnknown")

FromDot11SecurityProtocol(protocol) ==
    Switch([Dot11SecurityProtocolWpa1 |-> "Wpa",
            Dot11SecurityProtocolWpa2 |-> "Wpa2",
            Dot11SecurityProtocolWpa3 |-> "Wpa3"], protocol, "Unknown")

ToDot11PhyType(phy) ==
    Switch([B |-> "Dot11PhyTypeB", G |-> "Dot11PhyTypeG",
            N |-> "Dot11PhyTypeN", A |-> "Dot11PhyTypeA",
            AC |-> "Dot11PhyTypeAC", AD |-> "Dot11PhyTypeAD",
            AX |-> "Dot11PhyTypeAX", BE |-> "Dot11PhyTypeBE"],
           phy, "Dot11PhyTypeUnknown")

FromDot11PhyType(phy) ==
    Switch([Dot11PhyTypeB |-> "B", Dot11PhyTypeG |-> "G",
            Dot11PhyTypeN |-> "N", Dot11PhyTypeA |-> "A",
            Dot11PhyTypeAC |-> "AC", Dot11PhyTypeAD |-> "AD",
            Dot11PhyTypeAX |-> "AX", Dot11PhyTypeBE |-> "BE"], phy, "Unknown")

ToDot11FrequencyBand(band) ==
    Switch([TwoPointFourGHz |-> "Dot11FrequencyBandTwoPoint4GHz",
            FiveGHz |-> "Dot11FrequencyBandFiveGHz",
            SixGHz |-> "Dot11FrequencyBandSixGHz"],
           band, "Dot11FrequencyBandUnknown")

FromDot11FrequencyBand(band) ==
    Switch([Dot11FrequencyBandTwoPoint4GHz |-> "TwoPointFourGHz",
            Dot11FrequencyBandFiveGHz |-> "FiveGHz",
            Dot11FrequencyBandSixGHz |-> "SixGHz"], band, "Unknown")

\* The bands of a request or a configuration, strongly typed, and converted.
ToDot11FrequencyBands(bands) == bands
FromDot11SetFrequencyBandsRequest(bands) == Each(FromDot11FrequencyBand, bands)

ToDot11AuthenticationAlgorithm(algorithm) ==
    Switch([OpenSystem |-> "Dot11AuthenticationAlgorithmOpenSystem",
            SharedKey |-> "Dot11AuthenticationAlgorithmSharedKey",
            FastBssTransition |-> "Dot11AuthenticationAlgorithmFastBssTransition",
            Sae |-> "Dot11AuthenticationAlgorithmSae",
            Fils |-> "Dot11AuthenticationAlgorithmFils",
            FilsPfs |-> "Dot11AuthenticationAlgorithmFilsPfs",
            FilsPublicKey |-> "Dot11AuthenticationAlgorithmFilsPublicKey",
            VendorSpecific |-> "Dot11AuthenticationAlgorithmVendorSpecific"],
           algorithm, "Dot11AuthenticationAlgorithmUnknown")

FromDot11AuthenticationAlgorithm(algorithm) ==
    Switch([Dot11AuthenticationAlgorithmOpenSystem |-> "OpenSystem",
            Dot11AuthenticationAlgorithmSharedKey |-> "SharedKey",
            Dot11AuthenticationAlgorithmFastBssTransition |-> "FastBssTransition",
            Dot11AuthenticationAlgorithmSae |-> "Sae",
            Dot11AuthenticationAlgorithmFils |-> "Fils",
            Dot11AuthenticationAlgorithmFilsPfs |-> "FilsPfs",
            Dot11AuthenticationAlgorithmFilsPublicKey |-> "FilsPublicKey",
            Dot11AuthenticationAlgorithmVendorSpecific |-> "VendorSpecific"],
           algorithm, "Unknown")

ToDot11AuthenticationAlgorithms(algorithms) ==
    Each(ToDot11AuthenticationAlgorithm, algorithms)

ToDot11AkmSuite(akm) ==
    Switch([Reserved0 |-> "Dot11AkmSuiteReserved0",
            Ieee8021x |-> "Dot11AkmSuite8021x", Psk |-> "Dot11AkmSuitePsk",
            Ft8021x |-> "Dot11AkmSuiteFt8021x",
            FtPsk |-> "Dot11AkmSuiteFtPsk",
            Ieee8021xSha256 |-> "Dot11AkmSuite8021xSha256",
            PskSha256 |-> "Dot11AkmSuitePskSha256",
            Tdls |-> "Dot11AkmSuiteTdls", Sae |-> "Dot11AkmSuiteSae",
            FtSae |-> "Dot11AkmSuiteFtSae",
            ApPeerKey |-> "Dot11AkmSuiteApPeerKey",
            Ieee8021xSuiteB |-> "Dot11AkmSuite8021xSuiteB",
            Ieee8011xSuiteB192 |-> "Dot11AkmSuite8021xSuiteB192",
            Ft8021xSha384 |-> "Dot11AkmSuiteFt8021xSha384",
            FilsSha256 |-> "Dot11AkmSuiteFilsSha256",
            FilsSha384 |-> "Dot11AkmSuiteFilsSha384",
            FtFilsSha256 |-> "Dot11AkmSuiteFtFilsSha256",
            FtFilsSha384 |-> "Dot11AkmSuiteFtFilsSha384",
            Owe |-> "Dot11AkmSuiteOwe",
            FtPskSha384 |-> "Dot11AkmSuiteFtPskSha384",
            PskSha384 |-> "Dot11AkmSuitePskSha384",
            Pasn |-> "Dot11AkmSuitePasn"], akm, "Dot11AkmSuiteUnknown")

FromDot11AkmSuite(akm) ==
    Switch([Dot11AkmSuiteReserved0 |-> "Reserved0",
            Dot11AkmSuite8021x |-> "Ieee8021x", Dot11AkmSuitePsk |-> "Psk",
            Dot11AkmSuiteFt8021x |-> "Ft8021x",
            Dot11AkmSuiteFtPsk |-> "FtPsk",
            Dot11AkmSuite8021xSha256 |-> "Ieee8021xSha256",
            Dot11AkmSuitePskSha256 |-> "PskSha256",
            Dot11AkmSuiteTdls |-> "Tdls", Dot11AkmSuiteSae |-> "Sae",
            Dot11AkmSuiteFtSae |-> "FtSae",
            Dot11AkmSuiteApPeerKey |-> "ApPeerKey",
            Dot11AkmSuite8021xSuiteB |-> "Ieee8021xSuiteB",
            Dot11AkmSuite8021xSuiteB192 |-> "Ieee8011xSuiteB192",
            Dot11AkmSuiteFt8021xSha384 |-> "Ft8021xSha384",
            Dot11AkmSuiteFilsSha256 |-> "FilsSha256",
            Dot11AkmSuiteFilsSha384 |-> "FilsSha384",
            Dot11AkmSuiteFtFilsSha256 |-> "FtFilsSha256",
            Dot11AkmSuiteFtFilsSha384 |-> "FtFilsSha384",
            Dot11AkmSuiteOwe |-> "Owe",
            Dot11AkmSuiteFtPskSha384 |-> "FtPskSha384",
            Dot11AkmSuitePskSha384 |-> "PskSha384",
            Dot11AkmSuitePasn |-> "Pasn"], akm, "Unknown")

ToDot11AkmSuites(akms) == Each(ToDot11AkmSuite, akms)

ToDot11CipherSuite(cipher) ==
    Switch([BipCmac128 |-> "Dot11CipherSuiteBipCmac128",
            BipCmac256 |-> "Dot11CipherSuiteBipCmac256",
            BipGmac128 |-> "Dot11CipherSuiteBipGmac128",
            BipGmac256 |-> "Dot11CipherSuiteBipGmac256",
            Ccmp128 |-> "Dot11CipherSuiteCcmp128",
            Ccmp256 |-> "Dot11CipherSuiteCcmp256",
            Gcmp128 |-> "Dot11CipherSuiteGcmp128",
            Gcmp256 |-> "Dot11CipherSuiteGcmp256",
            GroupAddressesTrafficNotAllowed |-> "Dot11CipherSuiteGroupAddressesTrafficNotAllowed",
            Tkip |-> "Dot11CipherSuiteTkip",
            UseGroup |-> "Dot11CipherSuiteUseGroup",
            Wep104 |-> "Dot11CipherSuiteWep104",
            Wep40 |-> "Dot11CipherSuiteWep40"],
           cipher, "Dot11CipherSuiteUnknown")

FromDot11CipherSuite(cipher) ==
    Switch([Dot11CipherSuiteBipCmac128 |-> "BipCmac128",
            Dot11CipherSuiteBipCmac256 |-> "BipCmac256",
            Dot11CipherSuiteBipGmac128 |-> "BipGmac128",
            Dot11CipherSuiteBipGmac256 |-> "BipGmac256",
            Dot11CipherSuiteCcmp128 |-> "Ccmp128",
            Dot11CipherSuiteCcmp256 |-> "Ccmp256",
            Dot11CipherSuiteGcmp128 |-> "Gcmp128",
            Dot11CipherSuiteGcmp256 |-> "Gcmp256",
            Dot11CipherSuiteGroupAddressesTrafficNotAllowed |-> "GroupAddressesTrafficNotAllowed",
            Dot11CipherSuiteTkip |-> "Tkip",
            Dot11CipherSuiteUseGroup |-> "UseGroup",
            Dot11CipherSuiteWep104 |-> "Wep104",
            Dot11CipherSuiteWep40 |-> "Wep40"], cipher, "Unknown")

\* (mutant) the last configuration of a protocol wins
ToDot11CipherSuiteMapLastWins(configurations) ==
    [protocol \in {configurations[i].securityProtocol : i \in DOMAIN configurations} |->
        LET last == CHOOSE i \in DOMAIN configurations :
                        /\ configurations[i].securityProtocol = protocol
                        /\ \A j \in i + 1 .. Len(configurations) :
                              configurations[j].securityProtocol # protocol
        IN  configurations[last].cipherSuites]

\* The request's list as a map: emplace keeps the first configuration of a
\* protocol and drops the others.
ToDot11CipherSuiteMap(configurations) ==
    [protocol \in {configurations[i].securityProtocol : i \in DOMAIN configurations} |->
        LET first == CHOOSE i \in DOMAIN configurations :
                        /\ configurations[i].securityProtocol = protocol
                        /\ \A j \in 1 .. i - 1 : configurations[j].securityProtocol # protocol
        IN  configurations[first].cipherSuites]

\* A client's map as the list of a request, in some order.
ToDot11CipherSuiteConfigurations(ciphers) ==
    LET configurations ==
            {[securityProtocol |-> ToDot11SecurityProtocol(protocol),
              cipherSuites |-> Each(ToDot11CipherSuite, ciphers[protocol])] :
                protocol \in DOMAIN ciphers}
    IN  SetToSeq(configurations)

\* The API's protocols are distinct values of the neutral ones, so no
\* configuration takes another's place.
FromDot11CipherSuiteConfigurations(ciphers) ==
    [protocol \in {FromDot11SecurityProtocol(p) : p \in DOMAIN ciphers} |->
        Each(FromDot11CipherSuite,
             ciphers[CHOOSE p \in DOMAIN ciphers : FromDot11SecurityProtocol(p) = protocol])]

ToDot11AccessPointCapabilities(capabilities) ==
    [securityProtocols |-> {ToDot11SecurityProtocol(p) : p \in capabilities.SecurityProtocols},
     phyTypes          |-> {ToDot11PhyType(p) : p \in capabilities.PhyTypes},
     frequencyBands    |-> {ToDot11FrequencyBand(b) : b \in capabilities.FrequencyBands},
     akmSuites         |-> {ToDot11AkmSuite(a) : a \in capabilities.AkmSuites},
     cipherSuites      |-> {ToDot11CipherSuite(c) : c \in capabilities.CipherSuites}]

MacAddressSize == 6
Ieee80211MacAddressZero == [size |-> MacAddressSize, is |-> "zeros"]

\* A value that is too short leaves the address all zeros.
FromDot11MacAddress(address) ==
    IF address.size >= MacAddressSize THEN [address EXCEPT !.size = MacAddressSize]
    ELSE Ieee80211MacAddressZero

ToDot11MacAddress(address) == address

PskValueSize == 32
EmptyPassphrase == [encoding |-> "Passphrase", size |-> 0, is |-> "empty"]

\* Whether a text has the digits of a key's octets: two for each, all readable.
ParseHexString(hex) == hex.size \div 2 >= PskValueSize /\ hex.is # "not hexadecimal"

\* Nothing readable is an empty passphrase, the variant's first alternative.
FromDot11RsnaPsk(psk) ==
    LET value == [encoding |-> "Value", size |-> PskValueSize, is |-> psk.is]
    IN  CASE psk.encoding = "passphrase" ->
                [encoding |-> "Passphrase", size |-> psk.size, is |-> psk.is]
          [] psk.encoding = "hex" /\ ParseHexString(psk) -> value
          [] psk.encoding = "raw" /\ psk.size >= PskValueSize -> value
          [] OTHER -> EmptyPassphrase

\* A client sends a key in hexadecimal as the octets it stands for.
ToDot11RsnaPsk(psk) ==
    [encoding |-> IF psk.encoding = "Passphrase" THEN "passphrase" ELSE "raw",
     size |-> psk.size, is |-> psk.is]

FromDot11RsnaPassword(password) ==
    [Credential     |-> password.credential,
     PeerMacAddress |-> Each(FromDot11MacAddress, password.peerMacAddress),
     PasswordId     |-> IF password.passwordId = "" THEN <<>> ELSE <<password.passwordId>>]

ToDot11RsnaPassword(password) ==
    [credential     |-> password.Credential,
     peerMacAddress |-> Each(ToDot11MacAddress, password.PeerMacAddress),
     passwordId     |-> IF password.PasswordId = <<>> THEN "" ELSE password.PasswordId[1]]

\* The key of the data, absent or not: its absence is an empty passphrase too.
FromDot11AuthenticationDataPsk(psk) ==
    [Psk |-> IF psk = <<>> THEN EmptyPassphrase ELSE FromDot11RsnaPsk(psk[1])]
ToDot11AuthenticationDataPsk(data) == <<ToDot11RsnaPsk(data.Psk)>>

FromDot11AuthenticationDataSae(passwords) == [Passwords |-> Each(FromDot11RsnaPassword, passwords)]
ToDot11AuthenticationDataSae(data) == Each(ToDot11RsnaPassword, data.Passwords)

FromDot11AuthenticationData(data) ==
    [Psk |-> Each(FromDot11AuthenticationDataPsk, data.psk),
     Sae |-> Each(FromDot11AuthenticationDataSae, data.sae)]
ToDot11AuthenticationData(data) ==
    [psk |-> Each(ToDot11AuthenticationDataPsk, data.Psk),
     sae |-> Each(ToDot11AuthenticationDataSae, data.Sae)]

FromDot11AuthenticationDot1x(dot1x) ==
    [Radius |-> Each(FromServiceDot1xRadiusConfiguration, dot1x.radius)]
ToDot11AuthenticationDot1x(dot1x) ==
    [radius |-> Each(ToServiceDot1xRadiusConfiguration, dot1x.Radius)]

FromDot11AccessPointAttributes(attributes) == [Properties |-> attributes.properties]
ToDot11AccessPointAttributes(attributes) == [properties |-> attributes.Properties]
=============================================================================
