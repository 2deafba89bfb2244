------------------------ MODULE AccessPointSettings ------------------------
(***************************************************************************)
(* The values the access point controller sends to hostapd, and what        *)
(* hostapd makes of them.  A method is the sequence of its commands, and    *)
(* ends at the first that does not succeed; what was sent before stays.     *)
(*                                                                         *)
(* "SET", "RELOAD", "ENABLE" and "DISABLE" are sent to hostapd, "QUERY" and *)
(* "read" ask it for its state and its configuration; "throw" stands for a  *)
(* value the code refuses to send, "refuse" for a status it returns at      *)
(* once.  In which order the commands of several requests meet is the       *)
(* subject of NetRemoteService; here they are the values that matter.       *)
(***************************************************************************)
EXTENDS WpaAdapters, WpaResponses

Set(name, value) == [do |-> "SET", name |-> name, value |-> value]
Reload == <<[do |-> "RELOAD"]>>
Throw == <<[do |-> "throw"]>>
Refuse(status) == <<[do |-> "refuse", status |-> status]>>

\* What is read back is logged, and outside the blocks that catch.
Read == <<[do |-> "read"]>>

\* The state is asked for, and changed if it is another.
GetOperationalState == <<[do |-> "QUERY"]>>
SetOperationalState(target) ==
    <<[do |-> IF target = "Enabled" THEN "ENABLE" ELSE "DISABLE"], [do |-> "confirm"]>>

SetProperty(name, value, enforce) ==
    <<Set(name, value)>> \o IF enforce = "Now" THEN Reload ELSE <<>>

\* The properties an 802.11 PHY type needs, in addition to those set before:
\* a lesser type clears none of those a greater one has set.
SetPhyType(phy) ==
    <<Set("hw_mode", HostapdHwModePropertyValue(IeeePhyTypeToHostapdHwMode(phy)))>>
    \o (IF phy = "AX" THEN <<Set("ieee80211ax", 1), Set("disable_11ax", 0)>> ELSE <<>>)
    \o (IF phy \in {"AX", "AC"}
          THEN <<Set("ieee80211ac", 1), Set("disable_11ac", 0)>> ELSE <<>>)
    \o (IF phy \in {"AX", "AC", "N"}
          THEN <<Set("wmm_enabled", 1), Set("ieee80211n", 1), Set("disable_11n", 0)>>
          ELSE <<>>)
    \o Reload \o Read

\* (mutant) the protection is left to the administrator
SetFrequencyBandsBare(bands) ==
    SetProperty("setband", Each(IeeeFrequencyBandToHostapdBand, bands), "Defer")

\* Nothing is reloaded, the protection 6 GHz requires no more than the bands.
SetFrequencyBands(bands) ==
    SetProperty("setband", Each(IeeeFrequencyBandToHostapdBand, bands), "Defer")
    \o IF "SixGHz" \in ToSet(bands)
       THEN SetProperty("ieee80211w", ManagementFrameProtectionToPropertyValue("Required"),
                        "Defer")
       ELSE <<>>

\* The bits of the algorithms, ORed.
SetAuthenticationAlgorithms(algorithms) ==
    LET wpa == Each(Ieee80211AuthenticationAlgorithmToWpaAuthenticationAlgorithm, algorithms)
        Bit(a) == IF a \in ToSet(wpa) THEN WpaAuthenticationAlgorithmPropertyValue(a) ELSE 0
    IN  IF ToSet(wpa) \subseteq WpaAuthenticationAlgorithmMask \cup {"Invalid"}
        THEN SetProperty("auth_algs", Bit("OpenSystem") + Bit("SharedKey"), "Now")
        ELSE Throw

SetPreSharedKey(psk) ==
    LET property == WpaPreSharedKeyPropertyKeyAndValue(Ieee80211RsnaPskToWpaSharedKey(psk))
    IN  SetProperty(property.name, property.value, "Now")

\* All passwords are cleared, then each is added.
SetSaePasswords(passwords) ==
    LET Add(password) == Set("sae_password", <<password>>)
    IN  <<Set("sae_password", <<>>)>>
        \o Each(Add, Each(Ieee80211RsnaPasswordToWpaSaePassword, passwords)) \o Reload

SetAuthenticationData(data) ==
    (IF data.Psk # <<>> THEN SetPreSharedKey(data.Psk[1].Psk) ELSE <<>>)
    \o IF data.Sae # <<>> THEN SetSaePasswords(data.Sae[1].Passwords) ELSE <<>>

\* The list is refused before anything of it is sent; 802.1X is switched on
\* with the first key management that needs it and never off.
SetAkmSuites(akms) ==
    LET keys  == Each(Ieee80211AkmSuiteToWpaKeyManagement, akms)
        texts == Each(WpaKeyManagementPropertyValue, keys)
    IN  IF "UNKNOWN" \in ToSet(texts) THEN Throw ELSE
        (IF \E key \in ToSet(keys) : IsKeyManagementFastTransition(key)
           THEN SetProperty("nas_identifier", "random", "Now") ELSE <<>>)
        \o (IF \E key \in ToSet(keys) : IsKeyManagementIeee8021x(key)
              THEN SetProperty("ieee8021x", 1, "Defer") ELSE <<>>)
        \o SetProperty("wpa_key_mgmt", texts, "Now") \o Read

\* One protocol's ciphers.
SetProtocolCipherSuites(wpa, ciphers) ==
    LET texts == Each(WpaCipherPropertyValue, ciphers)
    IN  IF \/ texts = <<>> \/ "UNKNOWN" \in ToSet(texts)
           \/ WpaCipherPropertyName(wpa) = "invalid"
        THEN Throw
        ELSE SetProperty(WpaCipherPropertyName(wpa), texts, "Now")

\* The sequences the conversion and the order of its map may give.  The
\* protocols themselves, hostapd's "wpa", are never set.
SetPairwiseCipherSuites(ciphers) ==
    UNION {{FlattenSeq([i \in DOMAIN order |->
                SetProtocolCipherSuites(order[i], suites[order[i]])]) \o Read :
                order \in SetToSeqs(DOMAIN suites)} :
            suites \in Ieee80211CipherSuitesToWpaCipherSuites(ciphers)}

SetSsid(ssid) ==
    IF ssid = "" THEN Refuse("InvalidParameter") ELSE SetProperty("ssid", ssid, "Now") \o Read

SetNetworkBridge(bridge) == SetProperty("bridge", bridge, "Now")

AddRadiusEndpoint(server) ==
    LET names == GetRadiusEndpointPropertyNames(server.Type)
    IN  IF server.Type = "Unknown" \/ server.Address = "" \/ server.SharedSecret = ""
        THEN Throw
        ELSE <<Set(names.address, server.Address), Set(names.secret, server.SharedSecret)>>
             \o IF server.Port = <<>> THEN <<>> ELSE <<Set(names.port, server.Port[1])>>

\* The primary servers, the fallback ones, and hostapd's own EAP server off.
SetRadiusConfiguration(radius) ==
    LET Convert(server) ==
            Ieee8021xRadiusServerEndpointConfigurationToWpaRadiusEndpointConfiguration(server)
        servers == <<radius.AuthenticationServer>> \o radius.AccountingServer
                   \o radius.FallbackServers
    IN  FlattenSeq(Each(AddRadiusEndpoint, Each(Convert, servers)))
        \o SetProperty("eap_server", 0, "Defer")
        \o SetProperty("own_ip_addr", "own", "Defer") \o Reload

-----------------------------------------------------------------------------
(***************************************************************************)
(* hostapd (external): conf is what SET has written, live what is in force. *)
(* Bands are in force at once, the rest with the next RELOAD.               *)
(***************************************************************************)
PropertyNames ==
    {"hw_mode", "ieee80211ax", "disable_11ax", "ieee80211ac", "disable_11ac",
     "wmm_enabled", "ieee80211n", "disable_11n", "setband", "ieee80211w", "auth_algs",
     "psk", "sae_password", "nas_identifier", "ieee8021x", "wpa_key_mgmt",
     "wpa_pairwise", "rsn_pairwise", "ssid", "auth_servers", "acct_servers",
     "eap_server", "own_ip_addr", "bridge"}

\* A configuration without any of the properties the server sets.
Unset == [name \in PropertyNames |-> <<>>]

\* The values hostapd refuses.
Accepts(name, value) ==
    CASE name = "hw_mode"        -> value # "UNKNOWN"
      [] name = "setband"        -> "invalid" \notin ToSet(value)
      [] name = "wpa_psk"        -> value.size = WpaPskValueLength /\ value.is # "zeros"
      [] name = "wpa_passphrase" -> value.size \in WpaPskPassphraseLengthMin ..
                                                   WpaPskPassphraseLengthMax
      [] name \in {"wpa_pairwise", "rsn_pairwise"} ->
            \A text \in ToSet(value) : IsWpaCipherSupported(WpaCipherFromPropertyValue(text))
      [] OTHER -> TRUE

\* The two forms of a key are one setting, passwords and servers add up, a
\* secret and a port belong to the last server.
Assign(conf, name, value) ==
    LET ToLast(servers, field) == [conf EXCEPT ![servers][Len(conf[servers])][field] = <<value>>]
        Server == [address |-> value, secret |-> <<>>, port |-> <<>>]
    IN  CASE name \in {"wpa_psk", "wpa_passphrase"} -> [conf EXCEPT !.psk = <<name, value>>]
          [] name = "sae_password" ->
                [conf EXCEPT !.sae_password = IF value = <<>> THEN <<>> ELSE @ \o value]
          [] name = "auth_server_addr" ->
                [conf EXCEPT !.auth_servers = Append(@, Server)]
          [] name = "acct_server_addr" ->
                [conf EXCEPT !.acct_servers = Append(@, Server)]
          [] name = "auth_server_shared_secret" -> ToLast("auth_servers", "secret")
          [] name = "acct_server_shared_secret" -> ToLast("acct_servers", "secret")
          [] name = "auth_server_port" -> ToLast("auth_servers", "port")
          [] name = "acct_server_port" -> ToLast("acct_servers", "port")
          [] OTHER -> [conf EXCEPT ![name] = <<value>>]

\* One command, answered or not.  A status other than Succeeded ends the request,
\* "terminated" the server: the methods are noexcept.
Step(hostapd, command, answered) ==
    LET Fail(status) == [hostapd EXCEPT !.status = status]
        Enabled == OperationalState(StatusReply(hostapd.state)) = "Enabled"
    IN  IF hostapd.status # "Succeeded" THEN hostapd ELSE
        CASE command.do = "refuse" -> Fail(command.status)
          [] command.do = "throw" -> Fail("InternalError")
          [] command.do = "confirm" -> hostapd
          [] command.do = "read" -> IF answered THEN hostapd ELSE Fail("terminated")
          [] command.do = "ENABLE" /\ Enabled -> hostapd
          [] command.do = "DISABLE" /\ ~Enabled -> hostapd
          [] OTHER -> IF ~answered THEN Fail("InternalError") ELSE
            CASE command.do = "QUERY" -> hostapd
              [] command.do = "RELOAD" -> [hostapd EXCEPT !.live = hostapd.conf]
              [] command.do = "ENABLE" ->
                    [hostapd EXCEPT !.live = hostapd.conf, !.state = "ENABLED"]
              [] command.do = "DISABLE" -> [hostapd EXCEPT !.state = "DISABLED"]
              [] OTHER -> IF ~Accepts(command.name, command.value) THEN Fail("InternalError")
                ELSE LET conf == Assign(hostapd.conf, command.name, command.value)
                     IN  IF command.name = "setband"
                         THEN [hostapd EXCEPT !.conf = conf, !.live.setband = conf.setband]
                         ELSE [hostapd EXCEPT !.conf = conf]

\* The commands in order, of which hostapd answers the first so many.
Run(hostapd, commands, answered) ==
    LET after[i \in 0 .. Len(commands)] ==
            IF i = 0 THEN [hostapd EXCEPT !.status = "Succeeded"]
            ELSE Step(after[i - 1], commands[i], i <= answered)
    IN  after[Len(commands)]
=============================================================================
