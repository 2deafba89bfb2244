----------------------------- MODULE WpaAdapters -----------------------------
(***************************************************************************)
(* From the neutral 802.11 and 802.1X values to hostapd's.  Of the values   *)
(* hostapd has nothing for, each switch gives its own kind of nothing.      *)
(***************************************************************************)
EXTENDS ProtocolHostapd

IeeePhyTypeToHostapdHwMode(phy) ==
    Switch([B |-> "Ieee80211b", G |-> "Ieee80211g", N |-> "Ieee80211a",
            A |-> "Ieee80211a", AC |-> "Ieee80211a", AD |-> "Ieee80211ad",
            AX |-> "Ieee80211a", BE |-> "Ieee80211a"], phy, "Unknown")

IeeeFrequencyBandToHostapdBand(band) ==
    Switch([TwoPointFourGHz |-> "2G", FiveGHz |-> "5G", SixGHz |-> "6G"], band, "invalid")

Ieee80211AuthenticationAlgorithmToWpaAuthenticationAlgorithm(algorithm) ==
    Switch([OpenSystem |-> "OpenSystem", SharedKey |-> "SharedKey",
            FastBssTransition |-> "Ft", Sae |-> "Sae", Fils |-> "Fils",
            FilsPfs |-> "FilsSkPfs", FilsPublicKey |-> "FilsSkPfs"],
           algorithm, "Invalid")

Ieee80211SecurityProtocolToWpaSecurityProtocol(protocol) ==
    Switch(WpaSecurityProtocol, protocol, WpaSecurityProtocol.Unknown)

\* FT-FILS-SHA384 becomes FILS-SHA384, as the code has it.
Ieee80211AkmSuiteToWpaKeyManagement(akm) ==
    Switch([Ieee8021x |-> "Ieee8021x", Psk |-> "Psk",
            Ft8021x |-> "FtIeee8021x", FtPsk |-> "FtPsk",
            Ieee8021xSha256 |-> "Ieee8021xSha256", PskSha256 |-> "PskSha256",
            Sae |-> "Sae", FtSae |-> "FtSae",
            Ieee8021xSuiteB |-> "Ieee8021xSuiteB",
            Ieee8011xSuiteB192 |-> "Ieee8021xSuiteB192",
            Ft8021xSha384 |-> "FtIeee8021xSha384",
            FilsSha256 |-> "FilsSha256", FilsSha384 |-> "FilsSha384",
            FtFilsSha256 |-> "FtFilsSha256", FtFilsSha384 |-> "FilsSha384",
            Owe |-> "Owe"], akm, "Unknown")

Ieee80211CipherSuiteToWpaCipher(cipher) ==
    Switch([BipCmac128 |-> "Aes128Cmac", BipCmac256 |-> "BipCmac256",
            BipGmac128 |-> "BipGmac128", BipGmac256 |-> "BipGmac256",
            Ccmp128 |-> "Ccmp", Ccmp256 |-> "Ccmp256", Gcmp128 |-> "Gcmp",
            Gcmp256 |-> "Gcmp256",
            GroupAddressesTrafficNotAllowed |-> "GtkNotUsed",
            Tkip |-> "Tkip", UseGroup |-> "None", Wep104 |-> "Wep104",
            Wep40 |-> "Wep40"], cipher, "Unknown")

\* The maps the conversion may give: of protocols that are one to hostapd, as
\* WPA2 and WPA3 are, only the first in the order of an unordered map is kept.
Ieee80211CipherSuitesToWpaCipherSuites(ciphers) ==
    LET Wpa(protocol) == Ieee80211SecurityProtocolToWpaSecurityProtocol(protocol)
        Kept == {kept \in SUBSET DOMAIN ciphers :
                    /\ {Wpa(p) : p \in kept} = {Wpa(p) : p \in DOMAIN ciphers}
                    /\ \A p, q \in kept : Wpa(p) = Wpa(q) => p = q}
    IN  {[wpa \in {Wpa(p) : p \in kept} |->
            Each(Ieee80211CipherSuiteToWpaCipher,
                 ciphers[CHOOSE p \in kept : Wpa(p) = wpa])] : kept \in Kept}

\* A key's digits are copied the wrong way round: hostapd's key stays all zero
\* octets, which are no digits.
Ieee80211RsnaPskToWpaSharedKey(psk) ==
    IF psk.encoding = "Passphrase" THEN psk
    ELSE [encoding |-> "Value", size |-> WpaPskValueLength, is |-> "zeros"]

Ieee80211RsnaPasswordToWpaSaePassword(password) ==
    [Credential |-> password.Credential, PasswordId |-> password.PasswordId,
     PeerMacAddress |-> password.PeerMacAddress]

Ieee8021xRadiusEndpointTypeToWpaRadiusEndpointType(type) ==
    IF type \in {"Authentication", "Accounting"} THEN type ELSE "Unknown"

Ieee8021xRadiusServerEndpointConfigurationToWpaRadiusEndpointConfiguration(server) ==
    [server EXCEPT !.Type = Ieee8021xRadiusEndpointTypeToWpaRadiusEndpointType(server.Type)]
=============================================================================
