--------------------------- MODULE ServiceRequests ---------------------------
(***************************************************************************)
(* What the service makes of each request to one access point: the checks   *)
(* of its parameters, the conversion to neutral values and the commands of  *)
(* the controller's methods, as one sequence that ends at its first refusal *)
(* or failure (AccessPointSettings!Run).                                    *)
(*                                                                         *)
(* accessPoint is a record: known, whether the manager has it; controller,  *)
(* whether one can be created; capabilities, what that one reports; mac and *)
(* attributes.  The WifiAccessPoint...Impl of a part of a configuration is  *)
(* given the controller of the whole, for which the checks of the access    *)
(* point have been made.                                                    *)
(***************************************************************************)
EXTENDS AccessPointSettings, Nl80211Wiphy

RefuseIf(condition, status) == IF condition THEN Refuse(status) ELSE <<>>

TryGetAccessPoint(accessPoint) == RefuseIf(~accessPoint.known, "AccessPointInvalid")

TryGetAccessPointController(accessPoint) ==
    TryGetAccessPoint(accessPoint) \o RefuseIf(~accessPoint.controller, "InternalError")

\* (mutant) one of the values is enough
CapableOfAny(accessPoint, capability, values) ==
    LET reported == accessPoint.capabilities
    IN  RefuseIf(reported.status # "Succeeded", reported.status)
        \o RefuseIf(\E capabilities \in ToSet(reported.capabilities) :
                        values \cap capabilities[capability] = {},
                    "OperationNotSupported")

\* What the capabilities must have, after they could be read.
Capable(accessPoint, capability, values) ==
    LET reported == accessPoint.capabilities
    IN  RefuseIf(reported.status # "Succeeded", reported.status)
        \o RefuseIf(\E capabilities \in ToSet(reported.capabilities) :
                        ~values \subseteq capabilities[capability],
                    "OperationNotSupported")

WifiAccessPointSetPhyTypeImpl(accessPoint, dot11PhyType) ==
    LET phy == FromDot11PhyType(dot11PhyType)
    IN  RefuseIf(dot11PhyType = "Dot11PhyTypeUnknown", "InvalidParameter")
        \o TryGetAccessPointController(accessPoint)
        \o Capable(accessPoint, "PhyTypes", {phy}) \o SetPhyType(phy)

WifiAccessPointSetFrequencyBandsImpl(accessPoint, dot11FrequencyBands) ==
    LET bands == FromDot11SetFrequencyBandsRequest(dot11FrequencyBands)
    IN  RefuseIf(\/ bands = <<>>
                 \/ "Dot11FrequencyBandUnknown" \in ToSet(dot11FrequencyBands),
                 "InvalidParameter")
        \o TryGetAccessPointController(accessPoint)
        \o Capable(accessPoint, "FrequencyBands", ToSet(bands)) \o SetFrequencyBands(bands)

WifiAccessPointSetNetworkBridgeImpl(accessPoint, bridge) ==
    TryGetAccessPointController(accessPoint) \o SetNetworkBridge(bridge)

\* (an enumerator without a neutral value is refused like Unknown)
WifiAccessPointSetAuthenticationAlgorithmsImpl(accessPoint, dot11Algorithms) ==
    LET algorithms == Each(FromDot11AuthenticationAlgorithm, dot11Algorithms)
    IN  RefuseIf(\/ dot11Algorithms = <<>>
                 \/ "Dot11AuthenticationAlgorithmUnknown" \in ToSet(dot11Algorithms),
                 "InvalidParameter")
        \o TryGetAccessPointController(accessPoint)
        \o RefuseIf("Unknown" \in ToSet(algorithms), "InvalidParameter")
        \o SetAuthenticationAlgorithms(algorithms)

\* The sizes each form of a key may have.
PskSizes == [passphrase |-> 8 .. 63, hex |-> {64}, raw |-> {32}]

\* The digits of a key are counted, not read; SAE passwords are not looked at.
WifiAccessPointSetAuthenticationDataImpl(accessPoint, data) ==
    LET Valid(psk) == psk.encoding \in DOMAIN PskSizes /\ psk.size \in PskSizes[psk.encoding]
    IN  RefuseIf(\/ data.psk = <<>> /\ data.sae = <<>>
                 \/ \E keys \in ToSet(data.psk) :
                        keys = <<>> \/ \E psk \in ToSet(keys) : ~Valid(psk)
                 \/ <<>> \in ToSet(data.sae),
                 "InvalidParameter")
        \o TryGetAccessPointController(accessPoint)
        \o SetAuthenticationData(FromDot11AuthenticationData(data))

WifiAccessPointSetAkmSuitesImpl(accessPoint, dot11AkmSuites) ==
    LET akms == Each(FromDot11AkmSuite, dot11AkmSuites)
    IN  RefuseIf(dot11AkmSuites = <<>> \/ "Dot11AkmSuiteUnknown" \in ToSet(dot11AkmSuites),
                 "InvalidParameter")
        \o TryGetAccessPointController(accessPoint)
        \o RefuseIf("Unknown" \in ToSet(akms), "InvalidParameter") \o SetAkmSuites(akms)

\* The sequences there may be.
WifiAccessPointSetPairwiseCipherSuitesImpl(accessPoint, dot11Ciphers) ==
    LET ciphers == FromDot11CipherSuiteConfigurations(dot11Ciphers)
        checks == RefuseIf(\/ DOMAIN dot11Ciphers = {}
                           \/ "Dot11SecurityProtocolUnknown" \in DOMAIN dot11Ciphers,
                           "InvalidParameter")
                  \o TryGetAccessPointController(accessPoint)
                  \o RefuseIf("Unknown" \in DOMAIN ciphers, "InvalidParameter")
    IN  {checks \o commands : commands \in SetPairwiseCipherSuites(ciphers)}

\* Of the three forms each is taken literally.
WifiAccessPointSetSsidImpl(accessPoint, ssid) ==
    RefuseIf(ssid.case = "unset", "InvalidParameter")
    \o TryGetAccessPointController(accessPoint) \o SetSsid(ssid.text)

ValidateDot1xRadiusServerEndpointConfiguration(server) ==
    CASE server.address = "" -> "MissingAddress"
      [] server.sharedSecret = "" -> "MissingSharedSecret"
      [] OTHER -> "Valid"

IsDot1xRadiusServerEndpointConfigurationValid(server) ==
    ValidateDot1xRadiusServerEndpointConfiguration(server) = "Valid"

\* Every server needs its address and its secret, not its type.
WifiAccessPointSetAuthenticationDot1xImpl(accessPoint, dot1x) ==
    LET Servers(radius) == ToSet(radius.authenticationServer \o radius.accountingServer
                                 \o radius.fallbackServers)
    IN  RefuseIf(dot1x.radius = <<>>, "InvalidParameter")
        \o TryGetAccessPointController(accessPoint)
        \o FlattenSeq([i \in DOMAIN dot1x.radius |->
                RefuseIf(\/ dot1x.radius[i].authenticationServer = <<>>
                         \/ \E server \in Servers(dot1x.radius[i]) :
                                ~IsDot1xRadiusServerEndpointConfigurationValid(server),
                         "InvalidParameter")
                \o SetRadiusConfiguration(FromServiceDot1xRadiusConfiguration(dot1x.radius[i]))])

\* The parts of a configuration that are present, with one of the sequences its
\* ciphers may give.
ConfigurationParts(accessPoint, request, ciphers) ==
    LET Given(present, commands) == IF present THEN commands ELSE <<>>
        Dot1x(dot1x) == WifiAccessPointSetAuthenticationDot1xImpl(accessPoint, dot1x)
        Ssid(ssid) == WifiAccessPointSetSsidImpl(accessPoint, ssid)
    IN  [phyType |-> Given(request.phyType # "Dot11PhyTypeUnknown",
                           WifiAccessPointSetPhyTypeImpl(accessPoint, request.phyType)),
         dot1x   |-> FlattenSeq(Each(Dot1x, request.dot1x)),
         algorithms |-> Given(request.algorithms # <<>>,
             WifiAccessPointSetAuthenticationAlgorithmsImpl(accessPoint, request.algorithms)),
         data |-> Given(request.data.psk # <<>> \/ request.data.sae # <<>>,
             WifiAccessPointSetAuthenticationDataImpl(accessPoint, request.data)),
         akmSuites |-> Given(request.akmSuites # <<>>,
             WifiAccessPointSetAkmSuitesImpl(accessPoint, request.akmSuites)),
         ciphers |-> ciphers,
         ssid |-> FlattenSeq(Each(Ssid, request.ssid)),
         bands |-> Given(request.bands # <<>>,
             WifiAccessPointSetFrequencyBandsImpl(accessPoint, request.bands))]

\* (mutant) the SSID before what secures it
PartOrderSsidFirst ==
    <<"ssid", "phyType", "dot1x", "algorithms", "data", "akmSuites", "ciphers", "bands">>

PartOrder ==
    <<"phyType", "dot1x", "algorithms", "data", "akmSuites", "ciphers", "ssid", "bands">>

WifiAccessPointEnableImpl(accessPoint, request) ==
    LET Ciphers == IF request.ciphers = <<>> THEN {<<>>}
                   ELSE WifiAccessPointSetPairwiseCipherSuitesImpl(
                            accessPoint, ToDot11CipherSuiteMap(request.ciphers))
    IN  {TryGetAccessPointController(accessPoint)
         \o FlattenSeq([i \in DOMAIN PartOrder |->
                ConfigurationParts(accessPoint, request, ciphers)[PartOrder[i]]])
         \o GetOperationalState \o SetOperationalState("Enabled") : ciphers \in Ciphers}

WifiAccessPointDisableImpl(accessPoint) ==
    TryGetAccessPointController(accessPoint)
    \o GetOperationalState \o SetOperationalState("Disabled")

WifiAccessPointGetAttributesImpl(accessPoint) == TryGetAccessPoint(accessPoint)

-----------------------------------------------------------------------------
(* The RPCs.                                                                *)

\* The fields of each request's message.
RequestFields ==
    [WifiAccessPointsEnumerate |-> {}, NetworkInterfacesEnumerate |-> {},
     WifiAccessPointEnable |-> {"id", "dot1x", "phyType", "ssid", "akmSuites", "ciphers",
                                "algorithms", "bands", "data"},
     WifiAccessPointDisable |-> {"id"}, WifiAccessPointGetAttributes |-> {"id"},
     WifiAccessPointSetPhyType |-> {"id", "phyType"},
     WifiAccessPointSetFrequencyBands |-> {"id", "bands"},
     WifiAccessPointSetSsid |-> {"id", "ssid"},
     WifiAccessPointSetNetworkBridge |-> {"id", "bridge"},
     WifiAccessPointSetAuthenticationDot1x |-> {"id", "dot1x"}]

IsRadius(radius) ==
    /\ IsOptional(radius.authenticationServer)
    /\ IsList(radius.accountingServer) /\ IsList(radius.fallbackServers)

IsDot1x(dot1x) == IsOptional(dot1x.radius) /\ \A radius \in ToSet(dot1x.radius) : IsRadius(radius)

\* An optional field has one value at most, an enumerator one of the API's names.
IsField(request, field) ==
    LET value == request[field]
    IN  CASE field = "phyType" -> value \in {ToDot11PhyType(p) : p \in Ieee80211PhyType}
          [] field = "bands" ->
                value \in Seq({ToDot11FrequencyBand(b) : b \in Ieee80211FrequencyBand})
          [] field = "ssid" -> IsOptional(value)
          [] field = "data" ->
                /\ IsOptional(value.psk) /\ IsOptional(value.sae)
                /\ \A psk \in ToSet(value.psk) : IsOptional(psk)
                /\ \A passwords \in ToSet(value.sae) : IsList(passwords)
          [] field \in {"algorithms", "akmSuites"} -> IsList(value)
          [] field = "ciphers" ->
                IsList(value) /\ \A ciphers \in ToSet(value) : IsList(ciphers.cipherSuites)
          [] field = "dot1x" /\ request.api = "WifiAccessPointEnable" ->
                IsOptional(value) /\ \A dot1x \in ToSet(value) : IsDot1x(dot1x)
          [] field = "dot1x" /\ request.api # "WifiAccessPointEnable" -> IsDot1x(value)
          [] OTHER -> TRUE

IsRequest(request) ==
    /\ request.api \in DOMAIN RequestFields
    /\ DOMAIN request = {"api"} \cup RequestFields[request.api]
    /\ \A field \in RequestFields[request.api] : IsField(request, field)

\* The sequences of commands the request for a change may give.
Changes(accessPoint, request) ==
    CASE request.api = "WifiAccessPointEnable" ->
            WifiAccessPointEnableImpl(accessPoint, request)
      [] request.api = "WifiAccessPointDisable" -> {WifiAccessPointDisableImpl(accessPoint)}
      [] request.api = "WifiAccessPointSetPhyType" ->
            {WifiAccessPointSetPhyTypeImpl(accessPoint, request.phyType)}
      [] request.api = "WifiAccessPointSetFrequencyBands" ->
            {WifiAccessPointSetFrequencyBandsImpl(accessPoint, request.bands)}
      [] request.api = "WifiAccessPointSetSsid" ->
            {IF request.ssid = <<>> THEN Refuse("InvalidParameter")
             ELSE WifiAccessPointSetSsidImpl(accessPoint, request.ssid[1])}
      [] request.api = "WifiAccessPointSetNetworkBridge" ->
            {WifiAccessPointSetNetworkBridgeImpl(accessPoint, request.bridge)}
      [] request.api = "WifiAccessPointSetAuthenticationDot1x" ->
            {WifiAccessPointSetAuthenticationDot1xImpl(accessPoint, request.dot1x)}
      [] request.api = "WifiAccessPointGetAttributes" ->
            {WifiAccessPointGetAttributesImpl(accessPoint)}

AccessPointIdInvalid == "invalid"
MakeInvalidAccessPointResultItem == [accessPointId |-> AccessPointIdInvalid]

\* An access point that cannot be asked is an invalid item.
IAccessPointToNetRemoteAccessPointResultItem(id, accessPoint, hostapd, answered) ==
    IF ~accessPoint.controller \/ ~answered \/ accessPoint.capabilities.status # "Succeeded"
    THEN MakeInvalidAccessPointResultItem
    ELSE [accessPointId |-> id, macAddress |-> accessPoint.mac,
          isEnabled |-> OperationalState(StatusReply(hostapd.state)) = "Enabled",
          capabilities |->
            ToDot11AccessPointCapabilities(accessPoint.capabilities.capabilities[1]),
          attributes |-> ToDot11AccessPointAttributes(accessPoint.attributes)]

\* An access point that is gone is an invalid item too.
IAccessPointWeakToNetRemoteAccessPointResultItem(id, accessPoint, hostapd, answered) ==
    IF accessPoint.known
    THEN IAccessPointToNetRemoteAccessPointResultItem(id, accessPoint, hostapd, answered)
    ELSE MakeInvalidAccessPointResultItem

NetRemoteAccessPointResultItemIsInvalid(item) == item.accessPointId = AccessPointIdInvalid

\* accessPoints: from the identifiers the manager lists to their records.
WifiAccessPointsEnumerate(accessPoints, hostapd, answered) ==
    LET items == {IAccessPointWeakToNetRemoteAccessPointResultItem(
                    id, accessPoints[id], hostapd, answered) : id \in DOMAIN accessPoints}
    IN  [ok |-> TRUE, code |-> ToDot11AccessPointOperationStatusCode("Succeeded"),
         accessPoints |-> {i \in items : ~NetRemoteAccessPointResultItemIsInvalid(i)}]
=============================================================================
