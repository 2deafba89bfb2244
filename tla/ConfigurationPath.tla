--------------------------- MODULE ConfigurationPath ---------------------------
(***************************************************************************)
(* The values of a configuration on their way: from the client's command    *)
(* line or the API's request through the service's checks and conversions   *)
(* to hostapd's configuration, and back from the kernel's radios and links  *)
(* to what a client is shown.                                               *)
(*                                                                         *)
(* A request for a change is one step: what interleavings do to it is the   *)
(* subject of NetRemoteService.  Enumerating the network interfaces is      *)
(* several, between which the host changes.                                 *)
(*                                                                         *)
(* host is what the kernel and hostapd's sockets answer: managed, the       *)
(* interfaces with a hostapd; exchange, wiphys, interfaces and messages of  *)
(* nl80211 (Nl80211Wiphy); links, addresses and rtnetlink                   *)
(* (NetworkInterfaces).  There is one hostapd.                              *)
(***************************************************************************)
EXTENDS ServiceRequests, NetRemoteCli, FiniteSets

CONSTANTS
    Hosts,              \* the hosts there may be
    Starts,             \* the hosts, and the texts of the address to listen on, to start with
    Later(_),           \* the hosts a host may become
    CommandLines,       \* per call, the command lines of the client
    ApiRequests,        \* per call, the requests of other clients
    MaxDisturbances,    \* bound: how often the host changes or hostapd is started again
    MaxUnanswered       \* bound: how many calls hostapd does not answer to the end

ASSUME PathAssumption ==
    /\ MaxDisturbances \in Nat /\ MaxUnanswered \in Nat
    /\ Len(CommandLines) = Len(ApiRequests)

\* The kernel gives links names and indexes of their own, no index is zero, and
\* the kinds it names are those of virtual links.
IsHost(h) ==
    /\ \A l, m \in h.links : l.name = m.name \/ l.ifindex = m.ifindex => l = m
    /\ \A l \in h.links :
          /\ l.ifindex # 0
          /\ \/ l.type = <<>>
             \/ /\ l.type = <<l.type[1]>>
                /\ l.type[1] \notin {"wireless", "ethernet", "loopback"}
    /\ \A a \in h.addresses : a.family \in {"AF_INET", "AF_INET6"}

ASSUME HostAssumption ==
    /\ \A h \in Hosts : IsHost(h) /\ Later(h) \subseteq Hosts
    /\ \A start \in Starts : start.host \in Hosts

\* What the command line's parser and the API's messages let through.
ASSUME RequestAssumption ==
    /\ IsList(CommandLines) /\ IsList(ApiRequests)
    /\ \A i \in DOMAIN CommandLines : \A line \in CommandLines[i] : IsLine(line)
    /\ \A i \in DOMAIN ApiRequests : \A request \in ApiRequests[i] : IsRequest(request)

VARIABLES
    host,          \* what the kernel answers, now
    hostapd,       \* AccessPointSettings!Run
    accessPoints,  \* the manager's: from name to what was parsed at the start
    published,     \* the addresses published for discovery
    gone,          \* the server's process has ended
    call,          \* the enumeration of network interfaces under way
    calls,         \* how many calls there were
    disturbances, unanswered,
    last,          \* (ghost) the last call that ended and what came of it
    told,          \* (ghost) the access points a client was told of, and when
    phyAsked,      \* (ghost) the PHY types asked for since hostapd was started
    seen           \* (ghost) the hosts there were during the enumeration, or since the start

countVars == <<calls, disturbances, unanswered>>
vars == <<host, hostapd, accessPoints, published, gone, call, last, told, phyAsked,
          seen, countVars>>

Idle == [step |-> "idle"]
NoCall == [client |-> "none"]
NoAnswer == [answer |-> "none"]

-----------------------------------------------------------------------------
(* The service's view of an access point.                                   *)

Wiphy(h, name) == Nl80211WiphyFromInterfaceName(h.exchange, h.wiphys, h.interfaces, name)

\* A controller is created for the request, if hostapd manages the interface.
AccessPoint(name) ==
    [known        |-> name \in DOMAIN accessPoints,
     controller   |-> name \in host.managed,
     capabilities |-> GetCapabilities(Wiphy(host, name)),
     mac          |-> IF name \in DOMAIN accessPoints THEN accessPoints[name].MacAddress
                      ELSE <<>>,
     attributes   |-> [Properties |-> {}]]

\* The access points probed at the start that can be controlled.
Probed(h) ==
    LET found == {i \in Nl80211InterfaceEnumerate(h.exchange, h.messages) :
                    /\ SupportsAccessPointMode(h.exchange, h.wiphys, i)
                    /\ i.Name \in h.managed}
    IN  [name \in {i.Name : i \in found} |-> CHOOSE i \in found : i.Name = name]

\* A name that is not there is read all the same.
ProbeFails(h) ==
    "undefined" \in {i.Name : i \in Nl80211InterfaceEnumerate(h.exchange, h.messages)}

Init ==
    /\ hostapd = [status |-> "Succeeded", conf |-> Unset, live |-> Unset, state |-> "DISABLED"]
    /\ \E start \in Starts :
          LET local == GetLocalIpAddressInformation(start.host, start.address)
          IN  /\ host = start.host /\ accessPoints = Probed(host)
              /\ published \in IF local = <<>> THEN {{}} ELSE local[1]
              /\ gone = (ProbeFails(host) \/ local = <<>>)
    /\ call = Idle /\ calls = 0 /\ disturbances = 0 /\ unanswered = 0
    /\ last = NoCall /\ told = NoAnswer /\ phyAsked = {} /\ seen = {host}

-----------------------------------------------------------------------------
\* A call that is answered or refused at once.
Ends(client, asked, code, shown) ==
    last' = [client |-> client, asked |-> asked, code |-> code, shown |-> shown,
             host |-> host]

PhyOf(request) == IF "phyType" \in DOMAIN request THEN {request.phyType} ELSE {}

\* A change: the commands its request gives, of which hostapd answers some.
Change(client, asked, request) ==
    \E commands \in Changes(AccessPoint(request.id), request) :
    \E answered \in 0 .. Len(commands) :
        /\ answered < Len(commands) => unanswered < MaxUnanswered
        /\ unanswered' = unanswered + IF answered < Len(commands) THEN 1 ELSE 0
        /\ hostapd' = Run(hostapd, commands, answered)
        /\ gone' = (hostapd'.status = "terminated")
        /\ Ends(client, asked, ToDot11AccessPointOperationStatusCode(hostapd'.status), {})
        /\ phyAsked' = phyAsked \cup PhyOf(request)
        /\ UNCHANGED <<host, accessPoints, published, call, disturbances, told, seen>>

Enumerates(client, asked, detailed) ==
    \E answered \in BOOLEAN :
        /\ ~answered => unanswered < MaxUnanswered
        /\ unanswered' = unanswered + IF answered THEN 0 ELSE 1
        /\ LET answer == WifiAccessPointsEnumerate(
                [name \in DOMAIN accessPoints |-> AccessPoint(name)], hostapd, answered)
           IN  /\ told' = [answer |-> answer, host |-> host]
               /\ Ends(client, asked, answer.code, ShowsAccessPoints(answer, detailed))
        /\ UNCHANGED <<host, hostapd, accessPoints, published, gone, call, disturbances,
                        phyAsked, seen>>

\* The links first.
NetworkInterfacesBegin(client, asked) ==
    /\ LET ids == EnumerateNetworkInterfaces(host)
       IN  /\ gone' = (ids = <<>>)
           /\ call' = IF ids = <<>> THEN Idle
                      ELSE [step |-> "listed", client |-> client, asked |-> asked,
                            ids |-> ids[1], information |-> <<>>]
    /\ seen' = {host} /\ last' = NoCall
    /\ UNCHANGED <<host, hostapd, accessPoints, published, disturbances,
                   unanswered, told, phyAsked>>

Serve(client, asked, request) ==
    /\ ~gone /\ call = Idle /\ calls' = calls + 1
    /\ CASE request.api = "NetworkInterfacesEnumerate" -> NetworkInterfacesBegin(client, asked)
         [] request.api = "WifiAccessPointsEnumerate" ->
                Enumerates(client, asked, client = "cli" /\ asked.detailed)
         [] OTHER -> Change(client, asked, request)

\* The client with one of its command lines; one that it does not understand, or
\* without a channel, makes no request.
CommandLine ==
    /\ calls < Len(CommandLines)
    /\ \E line \in CommandLines[calls + 1], channel \in BOOLEAN :
          LET run == Parse(channel, line)
          IN  \/ run.request # <<>> /\ Serve("cli", line, run.request[1])
              \/ /\ run.request = <<>> /\ ~gone /\ call = Idle /\ calls' = calls + 1
                 /\ Ends("cli", line, "none", {})
                 /\ UNCHANGED <<host, hostapd, accessPoints, published, gone, call,
                                disturbances, unanswered, told, phyAsked, seen>>

ApiRequest ==
    /\ calls < Len(ApiRequests)
    /\ \E request \in ApiRequests[calls + 1] : Serve("api", request, request)

-----------------------------------------------------------------------------
(* The enumeration of network interfaces, one of them after another.        *)

LooksUpIndex ==
    /\ ~gone /\ call.step = "listed" /\ call.ids # {}
    /\ \E id \in call.ids :
          call' = [step |-> "indexed", client |-> call.client, asked |-> call.asked,
                   ids |-> call.ids, information |-> call.information,
                   id |-> id, index |-> InterfaceIndexOf(host, id.Name)]
    /\ UNCHANGED <<host, hostapd, accessPoints, published, gone, last, told, phyAsked, seen,
                   countVars>>

CollectsAddresses ==
    /\ ~gone /\ call.step = "indexed"
    /\ LET addresses == GetNetworkInterfaceAddresses(host, call.index)
       IN  /\ gone' = (addresses = <<>>)
           /\ call' = IF addresses = <<>> THEN Idle
                      ELSE [step |-> "listed", client |-> call.client, asked |-> call.asked,
                            ids |-> call.ids \ {call.id},
                            information |->
                                [id \in DOMAIN call.information \cup {call.id} |->
                                    IF id = call.id THEN addresses[1]
                                    ELSE call.information[id]]]
    /\ UNCHANGED <<host, hostapd, accessPoints, published, last, told, phyAsked, seen,
                   countVars>>

NetworkInterfacesAnswered ==
    /\ ~gone /\ call.step = "listed" /\ call.ids = {}
    /\ LET answer == [ok |-> TRUE, code |-> "NetworkOperationStatusCodeSuccess",
                      networkInterfaces |-> ToServiceNetworkInterfaces(call.information)]
       IN  Ends(call.client, call.asked, answer.code, ShowsInterfaces(answer))
    /\ call' = Idle
    /\ UNCHANGED <<host, hostapd, accessPoints, published, gone, told, phyAsked, seen,
                   countVars>>

-----------------------------------------------------------------------------
\* Links, addresses, radios, or the hostapd of an interface come or go.
HostChanges ==
    /\ ~gone /\ disturbances < MaxDisturbances /\ disturbances' = disturbances + 1
    /\ host' \in Later(host)
    /\ seen' = seen \cup {host'}
    /\ UNCHANGED <<hostapd, accessPoints, published, gone, call, last, told, phyAsked, calls,
                   unanswered>>

\* hostapd is started again, with none of what it was given.
HostapdRestarts ==
    /\ ~gone /\ disturbances < MaxDisturbances /\ disturbances' = disturbances + 1
    /\ hostapd' = [status |-> "Succeeded", conf |-> Unset, live |-> Unset,
                   state |-> "DISABLED"]
    /\ last' = NoCall /\ phyAsked' = {}
    /\ UNCHANGED <<host, accessPoints, published, gone, call, told, seen, calls, unanswered>>

Next ==
    \/ CommandLine \/ ApiRequest
    \/ LooksUpIndex \/ CollectsAddresses \/ NetworkInterfacesAnswered
    \/ HostChanges \/ HostapdRestarts

Spec == Init /\ [][Next]_vars
=============================================================================
