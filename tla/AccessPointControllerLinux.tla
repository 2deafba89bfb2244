--------------------- MODULE AccessPointControllerLinux ---------------------
(***************************************************************************)
(* What the methods of AccessPointControllerLinux send to hostapd.  They are *)
(* noexcept: a HostapdException is turned into InternalError, but the        *)
(* GetStatus and GetConfiguration that check a change (Read) are outside the *)
(* try blocks, and an exception there terminates the server.                 *)
(***************************************************************************)
EXTENDS Naturals, Sequences

Hostapd == INSTANCE Hostapd

\* The properties an 802.11 PHY type needs, each type those of the ones below.
PhyProperties(type) ==
    <<"hw_mode">>
    \o (IF type = "AX" THEN <<"ieee80211ax", "disable_11ax">> ELSE <<>>)
    \o (IF type \in {"AX", "AC"} THEN <<"ieee80211ac", "disable_11ac">> ELSE <<>>)
    \o (IF type \in {"AX", "AC", "N"}
          THEN <<"wmm_enabled", "ieee80211n", "disable_11n">> ELSE <<>>)

SetPhyProperties(type) ==
    [i \in DOMAIN PhyProperties(type) |-> Hostapd!Step("set", PhyProperties(type)[i], 1)]

\* (mutant) the change is checked before the configuration is reloaded
SetPhyTypeReadFirst(type) == SetPhyProperties(type) \o Hostapd!Read \o Hostapd!Reload

SetPhyType(type) == SetPhyProperties(type) \o Hostapd!Reload \o Hostapd!Read

\* Bands are not reloaded; nor is the protection that 6 GHz requires.
SetFrequencyBands(sixGHz) ==
    Hostapd!SetProperty("setband", "Defer")
    \o IF sixGHz THEN Hostapd!SetProperty("ieee80211w", "Defer") ELSE <<>>

SetAuthenticationAlgorithms(known) == Hostapd!SetAuthenticationAlgorithms(known, "Now")

SetAuthenticationData(psk, saePasswords) ==
    (IF psk THEN Hostapd!SetPreSharedKey("Now") ELSE <<>>)
    \o (IF saePasswords > 0 THEN Hostapd!SetSaePasswords(saePasswords, "Now") ELSE <<>>)

SetAkmSuites(akms) == Hostapd!SetKeyManagement(akms, "Now") \o Hostapd!Read

SetPairwiseCipherSuites(suites) ==
    Hostapd!SetPairwiseCipherSuites(suites, "Now") \o Hostapd!Read

SetSsid == Hostapd!SetProperty("ssid", "Now") \o Hostapd!Read

SetNetworkBridge == Hostapd!SetBridgeInterface("Now")

SetRadiusConfiguration(servers) ==
    Hostapd!AddRadiusEndpoints(servers, "Defer")
    \o Hostapd!SetProperty("eap_server", "Defer")
    \o Hostapd!SetProperty("own_ip_addr", "Defer")
    \o Hostapd!Reload
=============================================================================
