------------------------------ MODULE Ieee80211 ------------------------------
(***************************************************************************)
(* The neutral IEEE 802.11 vocabulary every other part of the server         *)
(* converts to or from.  An enumerator is its name; AKM and cipher suites    *)
(* also have the selector the kernel reports them by, a 24-bit OUI and an    *)
(* 8-bit suite identifier.                                                   *)
(***************************************************************************)
EXTENDS Integers, Sequences, SequencesExt

\* A switch over enumerators with its default, a conversion of each element, and
\* an optional value, a sequence of at most one, with its default.
Switch(cases, x, default) == IF x \in DOMAIN cases THEN cases[x] ELSE default
Each(Convert(_), s) == [i \in DOMAIN s |-> Convert(s[i])]
Optional(value, default) == IF value = <<>> THEN default ELSE value[1]

\* The form of an optional value and of a repeated one.
IsOptional(value) == value = <<>> \/ value = <<value[1]>>
IsList(s) == s \in Seq(ToSet(s))

Ieee80211SecurityProtocol == {"Unknown", "Wpa", "Wpa2", "Wpa3"}

Ieee80211FrequencyBand == {"Unknown", "TwoPointFourGHz", "FiveGHz", "SixGHz"}

Ieee80211PhyType == {"Unknown", "B", "G", "N", "A", "AC", "AD", "AX", "BE"}

\* The four octets of a selector, the OUI as one number.
MakeIeeeSuite(oui, suiteId) == <<oui % 2^24, suiteId % 2^8>>

OuiIeee80211 == 4012
OuiInvalid == 2^24 - 1

MakeIeee80211Suite(suiteId) == MakeIeeeSuite(OuiIeee80211, suiteId)

Ieee80211AuthenticationAlgorithm ==
    {"Unknown", "OpenSystem", "SharedKey", "FastBssTransition", "Sae", "Fils",
     "FilsPfs", "FilsPublicKey", "VendorSpecific"}

Ieee80211AkmSuiteId ==
    [Reserved0 |-> 0, Ieee8021x |-> 1, Psk |-> 2, Ft8021x |-> 3, FtPsk |-> 4,
     Ieee8021xSha256 |-> 5, PskSha256 |-> 6, Tdls |-> 7, Sae |-> 8, FtSae |-> 9,
     ApPeerKey |-> 10, Ieee8021xSuiteB |-> 11, Ieee8011xSuiteB192 |-> 12,
     Ft8021xSha384 |-> 13, FilsSha256 |-> 14, FilsSha384 |-> 15,
     FtFilsSha256 |-> 16, FtFilsSha384 |-> 17, Owe |-> 18, FtPskSha384 |-> 19,
     PskSha384 |-> 20, Pasn |-> 21]

Ieee80211AkmSuite == {"Unknown"} \cup DOMAIN Ieee80211AkmSuiteId

\* The selector of an enumerator.
AkmSelector(akm) ==
    IF akm = "Unknown" THEN MakeIeeeSuite(OuiInvalid, 0)
    ELSE MakeIeee80211Suite(Ieee80211AkmSuiteId[akm])

\* What a wiphy that reports no AKM suites is taken to support.
AllIeee80211Akms == {AkmSelector(akm) : akm \in Ieee80211AkmSuite}

WpaAkmSuites(securityProtocol) ==
    CASE securityProtocol \in {"Wpa", "Wpa2"} -> {"Ieee8021x", "Psk"}
      [] securityProtocol = "Wpa3" ->
            {"Ieee8021x", "Ft8021x", "FtSae", "Ieee8021xSuiteB",
             "Ieee8011xSuiteB192", "Sae", "Owe"}
      [] OTHER -> {}

Ieee80211CipherSuiteId ==
    [UseGroup |-> 0, Wep40 |-> 1, Tkip |-> 2, Ccmp128 |-> 4, Wep104 |-> 5,
     BipCmac128 |-> 6, GroupAddressesTrafficNotAllowed |-> 7, Gcmp128 |-> 8,
     Gcmp256 |-> 9, Ccmp256 |-> 10, BipGmac128 |-> 11, BipGmac256 |-> 12,
     BipCmac256 |-> 13]

Ieee80211CipherSuite == {"Unknown"} \cup DOMAIN Ieee80211CipherSuiteId

CipherSelector(cipher) ==
    IF cipher = "Unknown" THEN MakeIeeeSuite(OuiInvalid, 0)
    ELSE MakeIeee80211Suite(Ieee80211CipherSuiteId[cipher])

WpaCipherSuites(securityProtocol) ==
    CASE securityProtocol = "Wpa"  -> {"Tkip"}
      [] securityProtocol = "Wpa2" -> {"Tkip", "Ccmp128"}
      [] securityProtocol = "Wpa3" -> {"Tkip", "Ccmp128", "Ccmp256", "Gcmp128", "Gcmp256"}
      [] OTHER -> {}
=============================================================================
