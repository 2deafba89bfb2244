--------------------------- MODULE ProtocolHostapd ---------------------------
(***************************************************************************)
(* What is said on hostapd's control socket: its states, the bits of its    *)
(* configuration, the names of its properties and the texts of their        *)
(* values, and how the answers to STATUS and GET_CONFIG are read back.      *)
(***************************************************************************)
EXTENDS ServiceApiAdapters

HostapdInterfaceState ==
    {"Uninitialized", "Disabled", "Enabled", "CountryUpdate", "Acs", "HtScan",
     "Dfs", "NoIr", "Unknown"}

\* The enumerator of a text, from a table of texts or a chain of comparisons.
Named(texts, text) ==
    IF \E e \in DOMAIN texts : texts[e] = text
    THEN CHOOSE e \in DOMAIN texts : texts[e] = text ELSE "Unknown"

HostapdInterfaceStateTexts ==
    [Uninitialized |-> "UNINITIALIZED", Disabled |-> "DISABLED", Enabled |-> "ENABLED",
     CountryUpdate |-> "COUNTRY_UPDATE", Acs |-> "ACS", HtScan |-> "HT_SCAN",
     Dfs |-> "DFS", NoIr |-> "NO_IR"]

HostapdInterfaceStateFromString(state) == Named(HostapdInterfaceStateTexts, state)

HostapdHwModePropertyValue(hwMode) ==
    Switch([Ieee80211b |-> "b", Ieee80211g |-> "g", Ieee80211a |-> "a",
            Ieee80211ad |-> "ad", Ieee80211any |-> "any"], hwMode, "UNKNOWN")

ManagementFrameProtectionToPropertyValue(protection) ==
    Switch([None |-> "0", Optional |-> "1", Required |-> "2"], protection, "UNKNOWN")

-----------------------------------------------------------------------------
\* Each algorithm is a bit.
WpaAuthenticationAlgorithm ==
    [Invalid |-> 0, OpenSystem |-> 2^0, SharedKey |-> 2^1, Leap |-> 2^2, Ft |-> 2^3,
     Sae |-> 2^4, Fils |-> 2^5, FilsSkPfs |-> 2^6]

WpaAuthenticationAlgorithmsAll == DOMAIN WpaAuthenticationAlgorithm
WpaAuthenticationAlgorithmsUnsupported ==
    {"Invalid", "Leap", "Ft", "Sae", "Fils", "FilsSkPfs"}
IsWpaAuthenticationAlgorithmSupported(algorithm) ==
    algorithm \notin WpaAuthenticationAlgorithmsUnsupported

\* The algorithms of the mask: a number beyond them has another bit.
WpaAuthenticationAlgorithmMask == {"OpenSystem", "SharedKey"}
WpaAuthenticationAlgorithmPropertyValue(algorithm) == WpaAuthenticationAlgorithm[algorithm]

\* hostapd has no value of its own for WPA3.
WpaSecurityProtocol == [Unknown |-> 0, Wpa |-> 2^0, Wpa2 |-> 2^1, Wpa3 |-> 2^1]
WpaSecurityProtocolPropertyValue(protocol) == WpaSecurityProtocol[protocol]

WpaCipherPropertyName(protocol) ==
    CASE protocol = WpaSecurityProtocol.Wpa  -> "wpa_pairwise"
      [] protocol = WpaSecurityProtocol.Wpa2 -> "rsn_pairwise"
      [] OTHER -> "invalid"

WpaCipher ==
    [Unknown |-> 0, None |-> 2^0, Wep40 |-> 2^1, Wep104 |-> 2^2, Tkip |-> 2^3,
     Ccmp |-> 2^4, Aes128Cmac |-> 2^5, Gcmp |-> 2^6, Sms4 |-> 2^7, Gcmp256 |-> 2^8,
     Ccmp256 |-> 2^9, BipGmac128 |-> 2^11, BipGmac256 |-> 2^12, BipCmac256 |-> 2^13,
     GtkNotUsed |-> 2^14]

WpaCiphersAll == DOMAIN WpaCipher
WpaCiphersUnsupported == {"Unknown", "None", "Wep40", "Wep104", "Sms4"}
IsWpaCipherSupported(cipher) == cipher \notin WpaCiphersUnsupported

WpaCipherTexts ==
    [None |-> "NONE", Wep40 |-> "WEP40", Wep104 |-> "WEP104", Tkip |-> "TKIP",
     Ccmp |-> "CCMP", Aes128Cmac |-> "AES-128-CMAC", Gcmp |-> "GCMP",
     Gcmp256 |-> "GCMP-256", Ccmp256 |-> "CCMP-256", BipGmac128 |-> "BIP-GMAC-128",
     BipGmac256 |-> "BIP-GMAC-256", BipCmac256 |-> "BIP-CMAC-256",
     GtkNotUsed |-> "GTK_NOT_USED"]

WpaCipherPropertyValue(cipher) == Switch(WpaCipherTexts, cipher, "UNKNOWN")

WpaCipherFromPropertyValue(text) == Named(WpaCipherTexts, text)

-----------------------------------------------------------------------------
WpaKeyManagement ==
    [Unknown |-> 0, Ieee8021x |-> 2^0, Psk |-> 2^1, None |-> 2^2, Ieee8021xNoWpa |-> 2^3,
     WpaNone |-> 2^4, FtIeee8021x |-> 2^5, FtPsk |-> 2^6, Ieee8021xSha256 |-> 2^7,
     PskSha256 |-> 2^8, Wps |-> 2^9, Sae |-> 2^10, FtSae |-> 2^11, WapiPsk |-> 2^12,
     WapiCert |-> 2^13, Cckm |-> 2^14, Osen |-> 2^15, Ieee8021xSuiteB |-> 2^16,
     Ieee8021xSuiteB192 |-> 2^17, FilsSha256 |-> 2^18, FilsSha384 |-> 2^19,
     FtFilsSha256 |-> 2^20, FtFilsSha384 |-> 2^21, Owe |-> 2^22, Dpp |-> 2^23,
     FtIeee8021xSha384 |-> 2^24, Pasn |-> 2^25]

AllWpaKeyManagements == DOMAIN WpaKeyManagement
AllWpaKeyManagementsValid ==
    AllWpaKeyManagements \ {"None", "Ieee8021xNoWpa", "WpaNone", "Wps", "WapiPsk",
                            "WapiCert", "Cckm"}

\* (the code's list has plain 802.1X too)
WpaKeyManagementFt ==
    {"Ieee8021x", "FtIeee8021x", "FtPsk", "FtIeee8021xSha384", "FtSae",
     "FtFilsSha256", "FtFilsSha384"}
WpaKeyManagementIeee8021x ==
    {"Ieee8021x", "FtIeee8021x", "FtIeee8021xSha384", "Cckm", "Osen",
     "Ieee8021xSha256", "Ieee8021xSuiteB", "Ieee8021xSuiteB192", "FilsSha256",
     "FilsSha384", "FtFilsSha256", "FtFilsSha384"}

IsKeyManagementFastTransition(keyManagement) == keyManagement \in WpaKeyManagementFt
IsKeyManagementIeee8021x(keyManagement) == keyManagement \in WpaKeyManagementIeee8021x

WpaKeyManagementTexts ==
    [Ieee8021x |-> "WPA-EAP", Psk |-> "WPA-PSK", FtIeee8021x |-> "FT-EAP",
     FtPsk |-> "FT-PSK", Ieee8021xSha256 |-> "WPA-EAP-SHA256",
     PskSha256 |-> "WPA-PSK-SHA256", Sae |-> "SAE", FtSae |-> "FT-SAE",
     Osen |-> "OSEN", Ieee8021xSuiteB |-> "WPA-EAP-SUITE-B",
     Ieee8021xSuiteB192 |-> "WPA-EAP-SUITE-B-192", FilsSha256 |-> "FILS-SHA256",
     FilsSha384 |-> "FILS-SHA384", FtFilsSha256 |-> "FT-FILS-SHA256",
     FtFilsSha384 |-> "FT-FILS-SHA384", Owe |-> "OWE", Dpp |-> "DPP",
     FtIeee8021xSha384 |-> "FT-EAP-SHA384", Pasn |-> "PASN"]

WpaKeyManagementPropertyValue(keyManagement) ==
    Switch(WpaKeyManagementTexts, keyManagement, "UNKNOWN")

WpaKeyManagementFromPropertyValue(text) == Named(WpaKeyManagementTexts, text)
WpaKeyManagementsFromPropertyValue(texts) == Each(WpaKeyManagementFromPropertyValue, texts)

-----------------------------------------------------------------------------
WpaPskValueLength == 64
WpaPskPassphraseLengthMin == 8
WpaPskPassphraseLengthMax == 63

\* A shared key is a passphrase or the digits of a key.
WpaPreSharedKeyPropertyKeyAndValue(key) ==
    [name  |-> IF key.encoding = "Passphrase" THEN "wpa_passphrase" ELSE "wpa_psk",
     value |-> [size |-> key.size, is |-> key.is]]

GetRadiusEndpointPropertyNames(type) ==
    CASE type = "Authentication" ->
            [address |-> "auth_server_addr", port |-> "auth_server_port",
             secret |-> "auth_server_shared_secret"]
      [] type = "Accounting" ->
            [address |-> "acct_server_addr", port |-> "acct_server_port",
             secret |-> "acct_server_shared_secret"]
      [] OTHER -> [address |-> "invalid", port |-> "invalid", secret |-> "invalid"]
=============================================================================
