------------------------ MODULE AccessPointDiscovery ------------------------
(***************************************************************************)
(* How the server learns which access points exist: AccessPointManager,     *)
(* AccessPointDiscoveryAgent and the netlink discovery operations, against   *)
(* a kernel whose interfaces come and go and a hostapd that may not manage   *)
(* them.  Two threads touch the manager: main, which runs AddDiscoveryAgent  *)
(* and finally drops the manager, and the netlink thread, which turns each   *)
(* nl80211 message into a presence callback.  Who holds the last reference   *)
(* decides on which thread the destructors run.                              *)
(*                                                                          *)
(* The netlink thread is started and stopped as in the code: it saves an     *)
(* eventfd late, looks at the stop token before it waits, and waits for a    *)
(* message or the eventfd.  What becomes of the eventfd's number once it is   *)
(* closed, and of a full socket buffer, is in NetlinkListener.                *)
(***************************************************************************)
EXTENDS Integers, Sequences, FiniteSets

CONSTANTS
    Interfaces,     \* wireless interfaces whose adapter supports AP mode
    Removable,      \* those whose whole adapter (wiphy) can be unplugged
    Unmanaged,      \* those hostapd may not manage, or stop managing
    MaxChanges,     \* bound: how many interfaces come or go
    MayThrow,       \* whether hostapd can go between its two connections
    WeakCas,        \* whether compare_exchange_weak can fail spuriously
    MayShutdown     \* whether main drops the manager

ASSUME DiscoveryAssumption ==
    /\ Removable \subseteq Interfaces /\ Unmanaged \subseteq Interfaces
    /\ "none" \notin Interfaces
    /\ MaxChanges \in Nat
    /\ MayThrow \in BOOLEAN /\ WeakCas \in BOOLEAN /\ MayShutdown \in BOOLEAN

Threads == {"main", "netlink"}

VARIABLES
    present,     \* the interfaces the kernel has
    wiphy,       \* per interface, the index of its adapter, 0 when unplugged
    plugs,       \* adapters plugged so far: the index of the latest
    changes,     \* interface changes so far (bound)
    queue,       \* nl80211 messages in the discovery socket
    mainPc,      \* where main is
    found,       \* probed access points main has still to add
    started,     \* m_started
    netPc,       \* where the netlink thread is
    msg,         \* the message it handles
    eventFd,     \* m_eventLoopStopFd: "none", "saved", or with the stop "signalled"
    stop,        \* the thread's stop token is set
    skipped,     \* history: the latest stop found no eventfd to signal
    adding,      \* per thread, the interface whose access point it adds
    entries,     \* m_accessPoints: how many entries each interface name has
    mgrRefs,     \* threads that hold a reference to the manager
    agentRefs,   \* threads, and the manager, that hold one to the agent
    crashed,     \* why the process was terminated, if it was
    missed       \* history: departures that found nothing to remove yet

kernelVars == <<present, wiphy, plugs, changes>>
refVars == <<mgrRefs, agentRefs, crashed>>
mainVars == <<mainPc, found, started>>
netVars == <<netPc, msg>>
stopVars == <<eventFd, stop, skipped>>
vars == <<kernelVars, queue, mainVars, netVars, stopVars, adding, entries,
          refVars, missed>>

Messages == [event : {"Arrived", "Departed"}, interface : Interfaces, wiphy : Nat]
NoMessage == [event |-> "none"]
NoInterface == "none"

\* The steps of ~AccessPointDiscoveryAgent on main.
Stopping == {"signal first", "signal", "request", "joining"}

MainPlaces == {"start", "probe", "push", "add", "close", "silent", "insert",
               "serving", "done"} \cup Stopping
NetPlaces == {"off", "starting", "check", "idle", "attributes", "agent", "manager",
              "create", "close", "silent", "insert", "remove", "releaseManager",
              "releaseAgent", "exited"}

TypeOK ==
    /\ present \subseteq Interfaces
    /\ wiphy \in [Interfaces -> Nat] /\ plugs \in Nat
    /\ changes \in 0 .. MaxChanges
    /\ queue \in Seq(Messages)
    /\ mainPc \in MainPlaces /\ netPc \in NetPlaces
    /\ found \subseteq Interfaces
    /\ started \in BOOLEAN /\ stop \in BOOLEAN /\ skipped \in BOOLEAN
    /\ eventFd \in {"none", "saved", "signalled"}
    /\ msg \in Messages \cup {NoMessage}
    /\ adding \in [Threads -> Interfaces \cup {NoInterface}]
    /\ entries \in [Interfaces -> Nat]
    /\ mgrRefs \subseteq Threads
    /\ agentRefs \subseteq Threads \cup {"manager"}
    /\ crashed \in {"no", "self join", "noexcept", "uncaught"}
    /\ missed \subseteq Interfaces

\* main has created the manager and the agent, and registered the manager's
\* callback with the agent.
Init ==
    /\ present \in SUBSET Interfaces
    /\ wiphy = [i \in Interfaces |-> 1] /\ plugs = 1
    /\ changes = 0
    /\ queue = <<>>
    /\ mainPc = "start" /\ found = {} /\ started = FALSE
    /\ netPc = "off" /\ msg = NoMessage
    /\ eventFd = "none" /\ stop = FALSE /\ skipped = FALSE
    /\ adding = [t \in Threads |-> NoInterface]
    /\ entries = [i \in Interfaces |-> 0]
    /\ mgrRefs = {"main"} /\ agentRefs = {"main"}
    /\ crashed = "no" /\ missed = {}

Tracked == {i \in Interfaces : entries[i] > 0}

\* (mutant) the socket joins the multicast group once the agent is added
SubscribedLate ==
    netPc \notin {"off", "exited"} /\ mainPc \notin {"start", "probe", "push"}

\* Start joins the multicast group before the thread runs; the thread owns
\* the socket, and drops it when it returns.
Subscribed == netPc \notin {"off", "exited"}

-----------------------------------------------------------------------------
(* The kernel: interfaces and adapters come and go; every change of a        *)
(* subscribed interface is multicast.                                        *)

Multicast(event, i) ==
    queue' = IF Subscribed
               THEN Append(queue, [event |-> event, interface |-> i, wiphy |-> wiphy'[i]])
               ELSE queue

Change == changes < MaxChanges /\ changes' = changes + 1

InterfaceAdded ==
    /\ Change
    /\ \E i \in Interfaces \ present :
         /\ present' = present \cup {i}
         /\ IF wiphy[i] = 0
              THEN /\ plugs' = plugs + 1
                   /\ wiphy' = [wiphy EXCEPT ![i] = plugs + 1]
              ELSE UNCHANGED <<wiphy, plugs>>
         /\ Multicast("Arrived", i)
    /\ UNCHANGED <<mainVars, netVars, stopVars, adding, entries, refVars, missed>>

InterfaceRemoved ==
    /\ Change
    /\ \E i \in present :
         /\ present' = present \ {i}
         /\ UNCHANGED <<wiphy, plugs>>
         /\ Multicast("Departed", i)
    /\ UNCHANGED <<mainVars, netVars, stopVars, adding, entries, refVars, missed>>

\* The adapter goes with its interface; the message still names its index.
AdapterUnplugged ==
    /\ Change
    /\ \E i \in present \cap Removable :
         /\ present' = present \ {i}
         /\ wiphy' = [wiphy EXCEPT ![i] = 0]
         /\ queue' = IF Subscribed
                       THEN Append(queue, [event |-> "Departed", interface |-> i,
                                           wiphy |-> wiphy[i]])
                       ELSE queue
    /\ UNCHANGED <<plugs, mainVars, netVars, stopVars, adding, entries, refVars, missed>>

-----------------------------------------------------------------------------
(* References.  Dropping the last one runs the destructors on that thread.   *)

\* Thread t gets on without running the agent's destructor.
Undisturbed(t) ==
    /\ mainPc' = IF t = "main" THEN "done" ELSE mainPc
    /\ UNCHANGED crashed

\* (mutant) ~AccessPointDiscoveryAgent leaves the operations running
AgentDestroyedNoStop(t) == Undisturbed(t)

\* ~AccessPointDiscoveryAgent on thread t stops the operations, and their
\* destructor would.  When the compare_exchange_weak of Stop fails it is the
\* destructor that does, and signals once more before.  Without a thread
\* there is nothing to join, and a thread that joins itself gets a
\* std::system_error out of a destructor.
AgentDestroyedOn(t) ==
    IF t = "netlink" THEN crashed' = "self join" /\ UNCHANGED mainPc
    ELSE /\ \/ netPc = "off" /\ mainPc' = "done"
            \/ netPc # "off" /\ mainPc' = "signal"
            \/ netPc # "off" /\ WeakCas /\ mainPc' = "signal first"
         /\ UNCHANGED crashed

ReleaseAgent(t) ==
    /\ agentRefs' = agentRefs \ {t}
    /\ IF agentRefs = {t} THEN AgentDestroyedOn(t) ELSE Undisturbed(t)

\* (mutant) any reference that is dropped takes the manager with it
ReleaseManagerAlways(t) ==
    /\ mgrRefs' = mgrRefs \ {t}
    /\ entries' = [i \in Interfaces |-> 0]
    /\ agentRefs' = agentRefs \ {"manager"}
    /\ IF agentRefs = {"manager"} THEN AgentDestroyedOn(t) ELSE Undisturbed(t)

\* The manager's destructor drops its agents, then its access points.
ReleaseManager(t) ==
    /\ mgrRefs' = mgrRefs \ {t}
    /\ IF mgrRefs = {t}
         THEN /\ entries' = [i \in Interfaces |-> 0]
              /\ agentRefs' = agentRefs \ {"manager"}
              /\ IF agentRefs = {"manager"} THEN AgentDestroyedOn(t) ELSE Undisturbed(t)
         ELSE UNCHANGED <<entries, agentRefs>> /\ Undisturbed(t)

\* A terminated process takes no more steps.
Running == crashed = "no"
MainAt(p) == Running /\ mainPc = p
NetAt(p) == Running /\ netPc = p

-----------------------------------------------------------------------------
(* AddAccessPoint and RemoveAccessPoint, on either thread.                   *)

\* (mutant) push_back without the search for an existing entry
PushAlways(i) == entries' = [entries EXCEPT ![i] = @ + 1]

\* The search and the push_back, under m_accessPointGate.
PushUnique(i) ==
    entries' = IF entries[i] = 0 THEN [entries EXCEPT ![i] = 1] ELSE entries

\* (mutant) an access point hostapd does not manage is not removed either
EraseControllable(i) ==
    entries' = IF i \notin Unmanaged /\ entries[i] > 0
                 THEN [entries EXCEPT ![i] = @ - 1] ELSE entries

\* (mutant) erase without looking whether the search found an entry
EraseUnchecked(i) == entries' = [entries EXCEPT ![i] = @ - 1]

\* The search and the erase, under m_accessPointGate.
EraseFirst(i) ==
    entries' = IF entries[i] > 0 THEN [entries EXCEPT ![i] = @ - 1] ELSE entries

\* CreateController asks whether hostapd manages the interface, then connects
\* to it again: a controller (t goes on to insert), none, or an exception,
\* which escapes main or the noexcept DevicePresenceChanged.
CreateController(t, i) ==
    \/ adding' = [adding EXCEPT ![t] = i] /\ UNCHANGED crashed
    \/ i \in Unmanaged /\ UNCHANGED <<adding, crashed>>
    \/ /\ MayThrow /\ i \in Unmanaged
       /\ crashed' = IF t = "netlink" THEN "noexcept" ELSE "uncaught"
       /\ UNCHANGED adding

-----------------------------------------------------------------------------
(* main: AddDiscoveryAgent, then dropping the manager.                       *)

Start ==
    /\ MainAt("start") /\ ~started
    /\ mainPc' = "probe"
    /\ \/ started' = TRUE /\ netPc' = "starting"
       \/ WeakCas /\ UNCHANGED <<started, netPc>>
    /\ UNCHANGED <<kernelVars, queue, found, msg, stopVars, adding, entries, refVars, missed>>

\* ProbeAsync enumerates the interfaces before it returns its future.
Probe ==
    /\ MainAt("probe") /\ mainPc' = "push"
    /\ found' = {i \in present : wiphy[i] # 0}
    /\ UNCHANGED <<kernelVars, queue, started, netVars, stopVars, adding, entries,
                   refVars, missed>>

PushAgent ==
    /\ MainAt("push") /\ mainPc' = "add"
    /\ agentRefs' = (agentRefs \ {"main"}) \cup {"manager"}
    /\ UNCHANGED <<kernelVars, queue, found, started, netVars, stopVars, adding,
                   entries, mgrRefs, crashed, missed>>

AddFound ==
    /\ MainAt("add")
    /\ \E i \in found :
         /\ found' = found \ {i}
         /\ CreateController("main", i)
    /\ mainPc' = IF adding' = adding THEN "add" ELSE "close"
    /\ UNCHANGED <<kernelVars, queue, started, netVars, stopVars, entries, mgrRefs,
                   agentRefs, missed>>

\* The controller, made to see whether hostapd answers, is destroyed at once,
\* and its Hostapd joins the thread that listens to hostapd's events.  If the
\* thread had no eventfd yet (WpaEventHandler), that lasts until an event.
CloseFound ==
    /\ MainAt("close") /\ mainPc' \in {"insert", "silent"}
    /\ UNCHANGED <<kernelVars, queue, found, started, netVars, stopVars, adding,
                   entries, refVars, missed>>

InsertFound ==
    /\ MainAt("insert") /\ mainPc' = "add"
    /\ PushUnique(adding["main"])
    /\ adding' = [adding EXCEPT !["main"] = NoInterface]
    /\ UNCHANGED <<kernelVars, queue, found, started, netVars, stopVars, refVars, missed>>

AddDone ==
    /\ MainAt("add") /\ found = {} /\ mainPc' = "serving"
    /\ UNCHANGED <<kernelVars, queue, found, started, netVars, stopVars, adding,
                   entries, refVars, missed>>

Shutdown ==
    /\ MayShutdown
    /\ MainAt("serving")
    /\ ReleaseManager("main")
    /\ UNCHANGED <<kernelVars, queue, found, started, netVars, stopVars, adding, missed>>

\* (mutant) the value is not written
SignalForgotten == UNCHANGED eventFd

SignalEventFd == eventFd' = "signalled"

\* RequestNetlinkProcessingLoopStop: the thread may not have saved its eventfd.
Signal ==
    /\ Running /\ mainPc \in {"signal first", "signal"}
    /\ mainPc' = IF mainPc = "signal first" THEN "signal" ELSE "request"
    /\ skipped' = (eventFd = "none")
    /\ IF eventFd = "none" THEN UNCHANGED eventFd ELSE SignalEventFd
    /\ UNCHANGED <<kernelVars, queue, found, started, netVars, stop, adding,
                   entries, refVars, missed>>

RequestStop ==
    /\ MainAt("request") /\ mainPc' = "joining"
    /\ stop' = TRUE
    /\ UNCHANGED <<kernelVars, queue, found, started, netVars, eventFd, skipped,
                   adding, entries, refVars, missed>>

Joined ==
    /\ MainAt("joining") /\ netPc = "exited"
    /\ mainPc' = "done"
    /\ UNCHANGED <<kernelVars, queue, found, started, netVars, stopVars, adding,
                   entries, refVars, missed>>

-----------------------------------------------------------------------------
(* The netlink thread.                                                       *)

\* Leaving the loop closes the eventfd and drops the socket.
LeaveThread == netPc' = "exited" /\ eventFd' = "none" /\ queue' = <<>>

\* Callbacks, non-blocking mode, epoll and the eventfd, saved at the end.
SetUp ==
    /\ NetAt("starting") /\ netPc' = "check"
    /\ eventFd' = "saved"
    /\ UNCHANGED <<kernelVars, queue, mainVars, msg, stop, skipped, adding,
                   entries, refVars, missed>>

\* The top of the loop.
CheckStop ==
    /\ NetAt("check")
    /\ IF stop THEN LeaveThread ELSE netPc' = "idle" /\ UNCHANGED <<eventFd, queue>>
    /\ UNCHANGED <<kernelVars, mainVars, msg, stop, skipped, adding, entries,
                   refVars, missed>>

\* main has probed interface i and not added it yet.
InProbe(i) == i \in found \/ adding["main"] = i

\* ProcessNetlinkMessage asks the kernel, now, whether the adapter the message
\* names supports AP mode.  It does not if the adapter has gone since; such a
\* message is ignored.  Otherwise MakeAccessPoint looks up the attributes,
\* through a promoted weak_ptr to the manager.
Receive ==
    /\ NetAt("idle") /\ queue # <<>>
    /\ queue' = Tail(queue)
    /\ LET m == Head(queue) IN
         IF wiphy[m.interface] = m.wiphy
           THEN /\ msg' = m
                /\ netPc' = "attributes"
                /\ mgrRefs' = IF mgrRefs = {} THEN {} ELSE mgrRefs \cup {"netlink"}
                /\ UNCHANGED missed
           ELSE /\ missed' = IF m.event = "Departed" THEN missed \cup {m.interface}
                                                    ELSE missed
                /\ netPc' = "check"
                /\ UNCHANGED <<msg, mgrRefs>>
    /\ UNCHANGED <<kernelVars, mainVars, stopVars, adding, entries, agentRefs, crashed>>

AttributesDone ==
    /\ NetAt("attributes") /\ netPc' = "agent"
    /\ IF "netlink" \in mgrRefs THEN ReleaseManager("netlink")
                                ELSE UNCHANGED <<mainPc, entries, refVars>>
    /\ UNCHANGED <<kernelVars, queue, found, started, msg, stopVars, adding, missed>>

\* The agent's callback promotes its weak_ptr, the manager's callback its own.
LockAgent ==
    /\ NetAt("agent")
    /\ IF agentRefs = {}
         THEN netPc' = "check" /\ msg' = NoMessage /\ UNCHANGED agentRefs
         ELSE netPc' = "manager" /\ agentRefs' = agentRefs \cup {"netlink"} /\ UNCHANGED msg
    /\ UNCHANGED <<kernelVars, queue, mainVars, stopVars, adding, entries, mgrRefs,
                   crashed, missed>>

LockManager ==
    /\ NetAt("manager")
    /\ IF mgrRefs = {}
         THEN netPc' = "releaseAgent" /\ UNCHANGED mgrRefs
         ELSE /\ mgrRefs' = mgrRefs \cup {"netlink"}
              /\ netPc' = IF msg.event = "Arrived" THEN "create" ELSE "remove"
    /\ UNCHANGED <<kernelVars, queue, mainVars, msg, stopVars, adding, entries,
                   agentRefs, crashed, missed>>

AddArrived ==
    /\ NetAt("create")
    /\ CreateController("netlink", msg.interface)
    /\ netPc' = IF adding' = adding THEN "releaseManager" ELSE "close"
    /\ UNCHANGED <<kernelVars, queue, mainVars, msg, stopVars, entries, mgrRefs,
                   agentRefs, missed>>

CloseArrived ==
    /\ NetAt("close") /\ netPc' \in {"insert", "silent"}
    /\ UNCHANGED <<kernelVars, queue, mainVars, msg, stopVars, adding, entries,
                   refVars, missed>>

InsertArrived ==
    /\ NetAt("insert") /\ netPc' = "releaseManager"
    /\ PushUnique(msg.interface)
    /\ adding' = [adding EXCEPT !["netlink"] = NoInterface]
    /\ UNCHANGED <<kernelVars, queue, mainVars, msg, stopVars, refVars, missed>>

RemoveDeparted ==
    /\ NetAt("remove") /\ netPc' = "releaseManager"
    /\ EraseFirst(msg.interface)
    /\ missed' = IF InProbe(msg.interface) THEN missed \cup {msg.interface} ELSE missed
    /\ UNCHANGED <<kernelVars, queue, mainVars, msg, stopVars, adding, refVars>>

CallbackDone ==
    /\ NetAt("releaseManager") /\ netPc' = "releaseAgent"
    /\ ReleaseManager("netlink")
    /\ UNCHANGED <<kernelVars, queue, found, started, msg, stopVars, adding, missed>>

AgentCallbackDone ==
    /\ NetAt("releaseAgent") /\ netPc' = "check" /\ msg' = NoMessage
    /\ ReleaseAgent("netlink")
    /\ UNCHANGED <<kernelVars, queue, found, started, stopVars, adding, entries,
                   mgrRefs, missed>>

\* epoll_wait returns the eventfd.
NetlinkExit ==
    /\ NetAt("idle") /\ eventFd = "signalled"
    /\ LeaveThread
    /\ UNCHANGED <<kernelVars, mainVars, msg, stop, skipped, adding, entries,
                   refVars, missed>>

\* Any step of the set-up fails, or epoll_wait does: nobody restarts the loop.
NetlinkFails ==
    /\ Running /\ netPc \in {"starting", "idle"}
    /\ LeaveThread
    /\ UNCHANGED <<kernelVars, mainVars, msg, stop, skipped, adding, entries,
                   refVars, missed>>

\* epoll_wait returns what is ready before it looks for a signal.
WaitInterrupted ==
    /\ NetAt("idle") /\ queue = <<>> /\ eventFd = "saved"
    /\ netPc' = "check"
    /\ UNCHANGED <<kernelVars, queue, mainVars, msg, stopVars, adding, entries,
                   refVars, missed>>

\* hostapd sends the event that a Hostapd's listener thread was waiting for.
HostapdSpeaks ==
    /\ Running
    /\ \/ mainPc = "silent" /\ mainPc' = "insert" /\ UNCHANGED netPc
       \/ netPc = "silent" /\ netPc' = "insert" /\ UNCHANGED mainPc
    /\ UNCHANGED <<kernelVars, queue, found, started, msg, stopVars, adding, entries,
                   refVars, missed>>

-----------------------------------------------------------------------------
Main == Start \/ Probe \/ PushAgent \/ AddFound \/ CloseFound \/ InsertFound
        \/ AddDone \/ Signal \/ RequestStop \/ Joined

NetlinkThread ==
    \/ SetUp \/ CheckStop
    \/ Receive \/ AttributesDone \/ LockAgent \/ LockManager
    \/ AddArrived \/ CloseArrived \/ InsertArrived \/ RemoveDeparted
    \/ CallbackDone \/ AgentCallbackDone \/ NetlinkExit

Kernel == InterfaceAdded \/ InterfaceRemoved \/ AdapterUnplugged

Next == Main \/ Shutdown \/ NetlinkThread \/ Kernel
        \/ NetlinkFails \/ WaitInterrupted \/ HostapdSpeaks

Spec == Init /\ [][Next]_vars

\* Both threads are scheduled; the kernel, hostapd and the operator owe nothing.
FairSpec == Spec /\ WF_vars(Main) /\ WF_vars(NetlinkThread)

-----------------------------------------------------------------------------
(* Properties.                                                               *)

(* One access point per interface name, although the probe's results and the *)
(* presence events are added by two threads.                                 *)
NoDuplicates == \A i \in Interfaces : entries[i] <= 1

\* Nothing is left to handle.
Quiescent == Running /\ mainPc = "serving" /\ netPc = "idle" /\ queue = <<>>

(* No arrival falls between the subscription and the probe: once every       *)
(* message is handled, an interface that is there and managed is tracked.    *)
PresentIsTracked == Quiescent => present \ Unmanaged \subseteq Tracked

(* A tracked access point whose interface is gone is explained: its          *)
(* departure was handled while main still had it from the probe, or found    *)
(* its adapter gone.  There is no third way to a phantom.                    *)
PhantomsExplained == Quiescent => Tracked \ present \subseteq missed

(* The netlink thread's raw pointer to the discovery operations, and         *)
(* everything it reaches through it, outlives the thread: main only gets out *)
(* of the agent's destructor when the thread has ended, or the thread itself *)
(* still keeps the agent.                                                    *)
OperationsOutliveThread ==
    mainPc = "done" /\ netPc \notin {"off", "exited"} =>
        "netlink" \in agentRefs \/ "netlink" \in mgrRefs \/ ~Running

\* The netlink thread has ended, or waits in ~Hostapd for hostapd to speak.
Deaf == netPc \in {"silent", "exited"}

(* A managed interface that is there is tracked in the end, unless it goes,  *)
(* or the netlink thread has failed or is held by a Hostapd it destroys.     *)
ArrivalTracked ==
    \A i \in Interfaces \ Unmanaged :
        (i \in present /\ mainPc = "serving" /\ started) ~>
            (i \in Tracked \/ i \notin present \/ mainPc # "serving" \/ ~Running
             \/ Deaf)

\* The stop signalled nothing, the thread had looked at the stop token before,
\* and waits for a message that does not come.
HangsInSilence ==
    mainPc = "joining" /\ skipped /\ netPc = "idle" /\ queue = <<>>

(* main gets out of the destructors it runs (Stop's join, line 127 of the    *)
(* operations), unless it found no eventfd to signal (line 80) and no        *)
(* interface comes or goes any more.                                         *)
ShutdownCompletes == (mainPc \in Stopping) ~> (mainPc = "done" \/ HangsInSilence)

(* The netlink thread joins itself only if main dropped the manager while    *)
(* the thread held it, or the agent: never while the server serves.          *)
SelfJoinExplained == crashed = "self join" => mainPc = "done"

(* The manager tracks access points that are removed or become unavailable:  *)
(* an entry whose interface stays away goes, while the netlink thread works. *)
DepartureTracked ==
    \A i \in Interfaces : []<>(i \notin Tracked \/ i \in present \/ Deaf)
=============================================================================
