------------------------- MODULE ServiceApiAdapters -------------------------
(***************************************************************************)
(* The conversions between the API's network messages and the server's own  *)
(* values: interfaces with their addresses, and the RADIUS servers of       *)
(* 802.1X.                                                                  *)
(*                                                                         *)
(* The text of an address is its host part and the prefix length after a    *)
(* slash, if it has one.  An optional field is a sequence of at most one.   *)
(***************************************************************************)
EXTENDS Ieee80211

ToServiceNetworkInterfaceKind(type) ==
    Switch([Ethernet |-> "NetworkInterfaceKindEthernet",
            Wifi |-> "NetworkInterfaceKindWifi",
            Bridge |-> "NetworkInterfaceKindBridge",
            Other |-> "NetworkInterfaceKindOther"],
           type, "NetworkInterfaceKindUnknown")

FromServiceNetworkInterfaceKind(kind) ==
    Switch([NetworkInterfaceKindEthernet |-> "Ethernet",
            NetworkInterfaceKindWifi |-> "Wifi",
            NetworkInterfaceKindBridge |-> "Bridge",
            NetworkInterfaceKindOther |-> "Other"], kind, "Unknown")

ToServiceNetworkAddressFamily(family) ==
    Switch([Ipv4 |-> "NetworkAddressFamilyIpv4", Ipv6 |-> "NetworkAddressFamilyIpv6"],
           family, "NetworkAddressFamilyUnknown")

FromServiceNetworkAddressFamily(family) ==
    Switch([NetworkAddressFamilyIpv4 |-> "Ipv4", NetworkAddressFamilyIpv6 |-> "Ipv6"],
           family, "Unknown")

\* (mutant) the prefix length stays at the end of the address
ToServiceNetworkAddressWhole(address) ==
    [family |-> ToServiceNetworkAddressFamily(address.Family),
     address |-> address.Address, prefixLength |-> address.PrefixLength]

ToServiceNetworkAddress(address) ==
    [family       |-> ToServiceNetworkAddressFamily(address.Family),
     address      |-> [address.Address EXCEPT !.prefix = <<>>],
     prefixLength |-> address.PrefixLength]

ToServiceNetworkInterface(id, addresses) ==
    [id        |-> id.Name,
     kind      |-> ToServiceNetworkInterfaceKind(id.Type),
     addresses |-> {ToServiceNetworkAddress(a) : a \in addresses}]

ToServiceNetworkInterfaces(information) ==
    {ToServiceNetworkInterface(id, information[id]) : id \in DOMAIN information}

-----------------------------------------------------------------------------
Ieee8021xRadiusServerEndpointType == {"Unknown", "Authentication", "Accounting"}

ToServiceDot1xRadiusServerEndpoint(type) ==
    Switch([Authentication |-> "Dot1xRadiusServerEndpointAuthentication",
            Accounting |-> "Dot1xRadiusServerEndpointAccounting"],
           type, "Dot1xRadiusServerEndpointUnknown")

FromServiceDot1xRadiusServerEndpoint(endpoint) ==
    Switch([Dot1xRadiusServerEndpointAuthentication |-> "Authentication",
            Dot1xRadiusServerEndpointAccounting |-> "Accounting"], endpoint, "Unknown")

ToServiceDot1xRadiusServerEndpointConfiguration(server) ==
    [endpoint     |-> ToServiceDot1xRadiusServerEndpoint(server.Type),
     address      |-> server.Address,
     port         |-> IF server.Port = <<>> THEN 0 ELSE server.Port[1],
     sharedSecret |-> server.SharedSecret]

\* Port zero is no port, and the port is kept in sixteen bits.
FromServiceDot1xRadiusServerEndpointConfiguration(server) ==
    [Type         |-> FromServiceDot1xRadiusServerEndpoint(server.endpoint),
     Address      |-> server.address,
     Port         |-> IF server.port = 0 THEN <<>> ELSE <<server.port % 2^16>>,
     SharedSecret |-> server.sharedSecret]

ToServiceDot1xRadiusConfiguration(radius) ==
    LET Convert(server) == ToServiceDot1xRadiusServerEndpointConfiguration(server)
    IN  [authenticationServer |-> <<Convert(radius.AuthenticationServer)>>,
         accountingServer     |-> Each(Convert, radius.AccountingServer),
         fallbackServers      |-> Each(Convert, radius.FallbackServers)]

NoRadiusServer == [Type |-> "Unknown", Address |-> "", Port |-> <<>>, SharedSecret |-> ""]

\* A configuration without an authentication server gets a server of no type.
FromServiceDot1xRadiusConfiguration(radius) ==
    LET Convert(server) == FromServiceDot1xRadiusServerEndpointConfiguration(server)
    IN  [AuthenticationServer |-> IF radius.authenticationServer = <<>> THEN NoRadiusServer
                                  ELSE Convert(radius.authenticationServer[1]),
         AccountingServer     |-> Each(Convert, radius.accountingServer),
         FallbackServers      |-> Each(Convert, radius.fallbackServers)]
=============================================================================
