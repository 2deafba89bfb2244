--------------------- MODULE AccessPointDiscoveryProofs ---------------------
(***************************************************************************)
(* Proofs about AccessPointDiscovery, for any set of interfaces and any      *)
(* number of changes: the types, one entry per interface, that nothing the   *)
(* netlink thread uses is destroyed before the thread has ended; and then    *)
(* that the manager's list follows the kernel: what is there is tracked,     *)
(* what is tracked and gone has one of two explanations, and the netlink     *)
(* thread joins itself at shutdown only.                                     *)
(***************************************************************************)
EXTENDS AccessPointDiscovery, TLAPS

\* Where the netlink thread holds the manager, and where it holds the agent.
HoldsManager == {"attributes", "create", "close", "silent", "insert", "remove",
                 "releaseManager"}
HoldsAgent == {"manager", "create", "close", "silent", "insert", "remove",
               "releaseManager", "releaseAgent"}

\* Where it has no message in hand.
Between == {"off", "starting", "check", "idle", "exited"}

(* Which references each thread holds where, while the process runs: the     *)
(* agent is the manager's once it is pushed, and lives while the manager     *)
(* does; main holds the manager until it drops it.                           *)
RefInv ==
    /\ "manager" \in agentRefs => mgrRefs # {}
    /\ mgrRefs # {} /\ mainPc \notin {"start", "probe", "push"} =>
           "manager" \in agentRefs
    /\ "main" \in agentRefs => mainPc \in {"start", "probe", "push"}
    /\ "main" \in mgrRefs <=> mainPc \notin Stopping \cup {"done"}
    /\ "netlink" \in mgrRefs => netPc \in HoldsManager
    /\ netPc \in HoldsAgent => "netlink" \in agentRefs
    /\ mainPc = "start" => netPc = "off"

\* The thread that is still running with main gone keeps what it needs.
KeptAlive ==
    mainPc = "done" /\ netPc \notin {"off", "exited"} =>
        "netlink" \in agentRefs \/ "netlink" \in mgrRefs

\* The thread handles a message until it is back between messages.
MsgInv == netPc \notin Between => msg \in Messages

IInv == TypeOK /\ MsgInv /\ (Running => RefInv /\ KeptAlive)

USE DEF Running, MainAt, NetAt, Subscribed, Stopping

\* The part of the types that destructors and exceptions disturb.
RefTypes ==
    /\ mgrRefs \subseteq Threads /\ agentRefs \subseteq Threads \cup {"manager"}
    /\ crashed \in {"no", "self join", "noexcept", "uncaught"}
    /\ mainPc \in MainPlaces

-----------------------------------------------------------------------------
(* The initial state, and every step, respect the types.                     *)
LEMMA InitTypeOK == Init => TypeOK
<1> SUFFICES ASSUME Init PROVE TypeOK
  OBVIOUS
<1> USE DiscoveryAssumption DEF Init, Threads, NoInterface
<1>1. present \subseteq Interfaces /\ wiphy \in [Interfaces -> Nat] /\ plugs \in Nat
  OBVIOUS
<1>2. queue \in Seq(Messages) /\ msg \in {NoMessage}
  OBVIOUS
<1>3. adding \in [Threads -> Interfaces \cup {NoInterface}]
  OBVIOUS
<1>4. /\ started \in BOOLEAN /\ stop \in BOOLEAN /\ skipped \in BOOLEAN
      /\ eventFd \in {"none", "saved", "signalled"}
  OBVIOUS
<1>5. entries \in [Interfaces -> Nat] /\ changes \in 0 .. MaxChanges
  OBVIOUS
<1>6. QED
  BY <1>1, <1>2, <1>3, <1>4, <1>5 DEF TypeOK, MainPlaces, NetPlaces

(* Dropping a reference to the manager, the last one or not.                 *)
LEMMA ReleaseManagerTypes ==
    ASSUME NEW t \in Threads, TypeOK, ReleaseManager(t)
    PROVE  RefTypes' /\ entries' \in [Interfaces -> Nat]
<1>1. entries' = entries \/ entries' = [i \in Interfaces |-> 0]
  BY DEF ReleaseManager
<1>2. mgrRefs' \subseteq Threads /\ agentRefs' \subseteq Threads \cup {"manager"}
  BY DEF TypeOK, ReleaseManager
<1>3. crashed' \in {crashed, "self join"}
  BY DEF ReleaseManager, AgentDestroyedOn, Undisturbed
<1>4. mainPc' \in {mainPc, "done", "signal", "signal first"}
  BY DEF ReleaseManager, AgentDestroyedOn, Undisturbed
<1>5. crashed' \in {"no", "self join", "noexcept", "uncaught"}
  BY <1>3 DEF TypeOK
<1>6. mainPc' \in MainPlaces
  BY <1>4 DEF TypeOK, MainPlaces
<1>7. entries' \in [Interfaces -> Nat]
  <2>1. entries \in [Interfaces -> Nat]
    BY DEF TypeOK
  <2>2. [i \in Interfaces |-> 0] \in [Interfaces -> Nat]
    OBVIOUS
  <2>3. QED
    BY <1>1, <2>1, <2>2
<1>8. QED
  BY <1>2, <1>5, <1>6, <1>7 DEF RefTypes

\* An empty queue is a queue.
LEMMA NoMessages == <<>> \in Seq(Messages)
  OBVIOUS

(* Interfaces come and go within their bound, and are announced in order.    *)
LEMMA KernelTypes ==
    ASSUME TypeOK, Kernel
    PROVE  /\ present' \subseteq Interfaces
           /\ wiphy' \in [Interfaces -> Nat] /\ plugs' \in Nat
           /\ changes' \in 0 .. MaxChanges
           /\ queue' \in Seq(Messages)
<1>1. /\ present \subseteq Interfaces
      /\ wiphy \in [Interfaces -> Nat] /\ plugs \in Nat
      /\ queue \in Seq(Messages)
  BY DEF TypeOK
<1>2. changes' \in 0 .. MaxChanges
  <2>1. changes' = changes + 1 /\ changes < MaxChanges
    BY DEF Kernel, InterfaceAdded, InterfaceRemoved, AdapterUnplugged, Change
  <2>2. changes \in 0 .. MaxChanges /\ MaxChanges \in Nat
    BY DiscoveryAssumption DEF TypeOK
  <2>3. QED
    BY <2>1, <2>2
<1>3. CASE InterfaceAdded
  <2>1. PICK i \in Interfaces \ present :
          /\ present' = present \cup {i}
          /\ \/ plugs' = plugs + 1 /\ wiphy' = [wiphy EXCEPT ![i] = plugs + 1]
             \/ UNCHANGED <<wiphy, plugs>>
          /\ Multicast("Arrived", i)
    BY <1>3 DEF InterfaceAdded
  <2>2. wiphy' \in [Interfaces -> Nat] /\ plugs' \in Nat
    BY <1>1, <2>1
  <2>3. [event |-> "Arrived", interface |-> i, wiphy |-> wiphy'[i]] \in Messages
    BY <2>1, <2>2 DEF Messages
  <2>4. queue' \in Seq(Messages)
    BY <1>1, <2>1, <2>3 DEF Multicast
  <2>5. QED
    BY <1>1, <1>2, <2>1, <2>2, <2>4
<1>4. CASE InterfaceRemoved
  <2>1. PICK i \in present :
          /\ present' = present \ {i}
          /\ UNCHANGED <<wiphy, plugs>>
          /\ Multicast("Departed", i)
    BY <1>4 DEF InterfaceRemoved
  <2>2. [event |-> "Departed", interface |-> i, wiphy |-> wiphy'[i]] \in Messages
    BY <1>1, <2>1 DEF Messages
  <2>3. queue' \in Seq(Messages)
    BY <1>1, <2>1, <2>2 DEF Multicast
  <2>4. QED
    BY <1>1, <1>2, <2>1, <2>3
<1>5. CASE AdapterUnplugged
  <2>1. PICK i \in present \cap Removable :
          /\ present' = present \ {i}
          /\ wiphy' = [wiphy EXCEPT ![i] = 0]
          /\ \/ UNCHANGED queue
             \/ queue' = Append(queue, [event |-> "Departed", interface |-> i,
                                        wiphy |-> wiphy[i]])
    BY <1>5 DEF AdapterUnplugged
  <2>2. [event |-> "Departed", interface |-> i, wiphy |-> wiphy[i]] \in Messages
    BY <1>1, <2>1 DEF Messages
  <2>3. queue' \in Seq(Messages) /\ wiphy' \in [Interfaces -> Nat]
    BY <1>1, <2>1, <2>2, SMTT(60)
  <2>4. plugs' = plugs
    BY <1>5 DEF AdapterUnplugged
  <2>5. QED
    BY <1>1, <1>2, <2>1, <2>3, <2>4
<1>6. QED
  BY <1>3, <1>4, <1>5 DEF Kernel

\* Every step of main, of the netlink thread and of the kernel respects the types.
LEMMA NextTypeOK == TypeOK /\ MsgInv /\ [Next]_vars => TypeOK'
<1> SUFFICES ASSUME TypeOK, MsgInv, [Next]_vars PROVE TypeOK'
  OBVIOUS
<1>20. CASE Kernel
  <2>1. UNCHANGED <<mainPc, found, started, netPc, msg, eventFd, stop, skipped,
                    adding, entries, mgrRefs, agentRefs, crashed, missed>>
    BY <1>20 DEF Kernel, InterfaceAdded, InterfaceRemoved, AdapterUnplugged,
                 mainVars, netVars, stopVars, refVars
  <2>2. /\ present' \subseteq Interfaces
        /\ wiphy' \in [Interfaces -> Nat] /\ plugs' \in Nat
        /\ changes' \in 0 .. MaxChanges
        /\ queue' \in Seq(Messages)
    BY <1>20, KernelTypes
  <2>3. QED
    BY <2>1, <2>2 DEF TypeOK
<1>28. mainPc' \in MainPlaces /\ netPc' \in NetPlaces
  <2> USE DEF vars, mainVars, netVars, MainPlaces, NetPlaces
  <2>0. mainPc \in MainPlaces /\ netPc \in NetPlaces
    BY DEF TypeOK
  <2>1. CASE UNCHANGED vars \/ Main
    BY <2>0, <2>1 DEF Main, Start, Probe, PushAgent, AddFound, CloseFound,
      InsertFound, AddDone, Signal, RequestStop, Joined
  <2>2. CASE Shutdown
    BY <2>0, <2>2 DEF Shutdown, ReleaseManager, AgentDestroyedOn, Undisturbed
  <2>3. CASE AttributesDone \/ CallbackDone \/ AgentCallbackDone
    <3>1. mainPc' = mainPc
      BY <2>3 DEF AttributesDone, CallbackDone, AgentCallbackDone, ReleaseManager,
        ReleaseAgent, AgentDestroyedOn, Undisturbed
    <3>2. netPc' \in NetPlaces
      BY <2>3 DEF AttributesDone, CallbackDone, AgentCallbackDone
    <3>3. QED
      BY <2>0, <3>1, <3>2
  <2>4. CASE SetUp \/ CheckStop \/ NetlinkExit \/ NetlinkFails \/ WaitInterrupted
    BY <2>0, <2>4 DEF SetUp, CheckStop, LeaveThread, NetlinkExit, NetlinkFails,
      WaitInterrupted
  <2>5. CASE Receive \/ LockAgent \/ LockManager \/ AddArrived \/ CloseArrived
             \/ InsertArrived \/ RemoveDeparted \/ HostapdSpeaks
    BY <2>0, <2>5 DEF Receive, LockAgent, LockManager, AddArrived, CloseArrived,
      InsertArrived, RemoveDeparted, HostapdSpeaks
  <2>6. CASE Kernel
    BY <2>0, <2>6 DEF Kernel, InterfaceAdded, InterfaceRemoved, AdapterUnplugged
  <2>7. QED
    BY <2>1, <2>2, <2>3, <2>4, <2>5, <2>6 DEF Next, NetlinkThread
<1>0. netPc \notin Between => msg.interface \in Interfaces
  BY DEF MsgInv, Messages
<1> USE <1>28 DEF TypeOK, Threads, NoInterface, kernelVars, mainVars, netVars,
        stopVars, refVars
<1>1. CASE UNCHANGED vars
  BY <1>1 DEF vars
<1>2. CASE Start
  BY <1>2 DEF Start
<1>3. CASE Probe
  BY <1>3 DEF Probe
<1>4. CASE PushAgent
  BY <1>4 DEF PushAgent
<1>5. CASE AddFound
  BY <1>5, ZenonT(60) DEF AddFound, CreateController
<1>6. CASE InsertFound
  BY <1>6 DEF InsertFound, PushUnique
<1>7. CASE AddDone
  BY <1>7 DEF AddDone
<1>8. CASE Joined
  BY <1>8 DEF Joined
<1>9. CASE Shutdown
  <2>1. ReleaseManager("main") /\ TypeOK
    BY <1>9 DEF Shutdown
  <2>2. RefTypes' /\ entries' \in [Interfaces -> Nat]
    BY <2>1, ReleaseManagerTypes DEF Threads
  <2>3. QED
    BY <1>9, <2>2 DEF Shutdown, RefTypes
<1>10. CASE Receive
  <2>1. Head(queue) \in Messages /\ Tail(queue) \in Seq(Messages)
    BY <1>10 DEF Receive
  <2>5. Head(queue).interface \in Interfaces
    BY <2>1 DEF Messages
  <2>2. CASE wiphy[Head(queue).interface] = Head(queue).wiphy
    BY <1>10, <2>1, <2>2 DEF Receive
  <2>3. CASE wiphy[Head(queue).interface] # Head(queue).wiphy
    BY <1>10, <2>1, <2>3, <2>5 DEF Receive
  <2>4. QED
    BY <2>2, <2>3
<1>11. CASE AttributesDone
  <2>1. RefTypes' /\ entries' \in [Interfaces -> Nat]
    <3>1. CASE "netlink" \in mgrRefs
      BY <1>11, <3>1, ReleaseManagerTypes DEF AttributesDone, Threads
    <3>2. CASE "netlink" \notin mgrRefs
      BY <1>11, <3>2 DEF AttributesDone, RefTypes
    <3>3. QED
      BY <3>1, <3>2
  <2>2. QED
    BY <1>11, <2>1 DEF AttributesDone, RefTypes
<1>12. CASE LockAgent
  BY <1>12 DEF LockAgent
<1>13. CASE LockManager
  BY <1>13 DEF LockManager
<1>14. CASE AddArrived
  <2>1. adding' \in [Threads -> Interfaces \cup {NoInterface}]
    BY <1>0, <1>14 DEF AddArrived, Between, CreateController
  <2>2. crashed' \in {"no", "self join", "noexcept", "uncaught"}
    BY <1>14 DEF AddArrived, CreateController
  <2>3. QED
    BY <1>14, <2>1, <2>2 DEF AddArrived
<1>15. CASE InsertArrived
  BY <1>15 DEF InsertArrived, PushUnique
<1>16. CASE RemoveDeparted
  <2>1. entries' \in [Interfaces -> Nat]
    BY <1>0, <1>16 DEF Between, RemoveDeparted, EraseFirst
  <2>2. missed' \subseteq Interfaces
    BY <1>0, <1>16 DEF Between, RemoveDeparted
  <2>3. QED
    BY <1>16, <2>1, <2>2 DEF RemoveDeparted
<1>17. CASE CallbackDone
  <2>1. ReleaseManager("netlink") /\ TypeOK
    BY <1>17 DEF CallbackDone
  <2>2. RefTypes' /\ entries' \in [Interfaces -> Nat]
    BY <2>1, ReleaseManagerTypes DEF Threads
  <2>3. QED
    BY <1>17, <2>2 DEF CallbackDone, RefTypes
<1>18. CASE AgentCallbackDone
  BY <1>18 DEF AgentCallbackDone, ReleaseAgent, AgentDestroyedOn, Undisturbed
<1>19. CASE NetlinkExit
  BY <1>19 DEF NetlinkExit, LeaveThread
<1>22. CASE CloseFound \/ CloseArrived
  BY <1>22 DEF CloseFound, CloseArrived
<1>23. CASE Signal
  <2>1. eventFd' \in {"none", "saved", "signalled"} /\ skipped' \in BOOLEAN
    BY <1>23 DEF Signal, SignalEventFd
  <2>2. QED
    BY <1>23, <2>1 DEF Signal
<1>24. CASE RequestStop
  BY <1>24 DEF RequestStop
<1>25. CASE SetUp \/ WaitInterrupted
  BY <1>25 DEF SetUp, WaitInterrupted
<1>26. CASE CheckStop \/ NetlinkFails
  <2>0. <<>> \in Seq(Messages)
    BY NoMessages
  <2>4. \/ queue' = queue /\ eventFd' = eventFd
        \/ queue' = <<>> /\ eventFd' = "none"
    BY <1>26 DEF CheckStop, NetlinkFails, LeaveThread
  <2>1. queue' \in Seq(Messages) /\ eventFd' \in {"none", "saved", "signalled"}
    BY <2>0, <2>4
  <2>2. netPc' \in {"idle", "exited"}
    BY <1>26 DEF CheckStop, NetlinkFails, LeaveThread
  <2>3. QED
    BY <1>26, <2>1, <2>2 DEF CheckStop, NetlinkFails
<1>27. CASE HostapdSpeaks
  BY <1>27 DEF HostapdSpeaks
<1>21. QED
  BY <1>1, <1>2, <1>3, <1>4, <1>5, <1>6, <1>7, <1>8, <1>9, <1>10, <1>11,
     <1>12, <1>13, <1>14, <1>15, <1>16, <1>17, <1>18, <1>19, <1>20,
     <1>22, <1>23, <1>24, <1>25, <1>26, <1>27
  DEF Next, Main, NetlinkThread

(* Only Receive leaves the idle state, with the message it took.             *)
LEMMA NextMsgInv == TypeOK /\ MsgInv /\ [Next]_vars => MsgInv'
<1> SUFFICES ASSUME TypeOK, MsgInv, [Next]_vars PROVE MsgInv'
  OBVIOUS
<1>1. CASE Receive
  <2>1. queue \in Seq(Messages) /\ queue # <<>>
    BY <1>1 DEF TypeOK, Receive
  <2>2. Head(queue) \in Messages
    BY <2>1
  <2>3. netPc = "idle" /\ (netPc' = "check" \/ msg' = Head(queue))
    BY <1>1 DEF Receive
  <2>4. QED
    BY <2>2, <2>3 DEF MsgInv, Between
<1>2. CASE [Next]_vars /\ ~Receive
  <2>1. \/ msg' = msg /\ netPc' = netPc
        \/ msg' = msg /\ netPc \notin Between
        \/ netPc' \in Between
    BY <1>2 DEF Next, Main, NetlinkThread, Kernel, Between, Start, Probe, PushAgent,
      AddFound, CloseFound, InsertFound, AddDone, Signal, RequestStop, Joined,
      Shutdown, SetUp, CheckStop, LeaveThread, AttributesDone, LockAgent,
      LockManager, AddArrived, CloseArrived, InsertArrived, RemoveDeparted,
      CallbackDone, AgentCallbackDone, NetlinkExit, NetlinkFails, WaitInterrupted,
      HostapdSpeaks, InterfaceAdded, InterfaceRemoved, AdapterUnplugged, netVars, vars
  <2>2. QED
    BY <2>1 DEF MsgInv
<1>3. QED
  BY <1>1, <1>2

-----------------------------------------------------------------------------
(* A step keeps one entry per interface: the search and the push_back are    *)
(* one critical section of m_accessPointGate.                                *)
LEMMA NextNoDuplicates ==
    TypeOK /\ NoDuplicates /\ [Next]_vars => NoDuplicates'
<1> SUFFICES ASSUME TypeOK, NoDuplicates, [Next]_vars PROVE NoDuplicates'
  OBVIOUS
<1> USE DEF NoDuplicates, mainVars, netVars, refVars
<1>0. entries \in [Interfaces -> Nat]
  BY DEF TypeOK
<1> USE <1>0
<1>1. CASE UNCHANGED vars
  BY <1>1 DEF vars
<1>2. CASE Start
  BY <1>2 DEF Start
<1>3. CASE Probe
  BY <1>3 DEF Probe
<1>4. CASE PushAgent
  BY <1>4 DEF PushAgent
<1>5. CASE AddFound
  BY <1>5 DEF AddFound, CreateController
<1>6. CASE InsertFound
  BY <1>6 DEF InsertFound, PushUnique
<1>7. CASE AddDone
  BY <1>7 DEF AddDone
<1>8. CASE Joined
  BY <1>8 DEF Joined
<1>9. CASE Shutdown
  BY <1>9 DEF Shutdown, ReleaseManager
<1>10. CASE Receive
  BY <1>10 DEF Receive
<1>11. CASE AttributesDone
  BY <1>11 DEF AttributesDone, ReleaseManager
<1>12. CASE LockAgent
  BY <1>12 DEF LockAgent
<1>13. CASE LockManager
  BY <1>13 DEF LockManager
<1>14. CASE AddArrived
  BY <1>14 DEF AddArrived, CreateController
<1>15. CASE InsertArrived
  BY <1>15 DEF InsertArrived, PushUnique
<1>16. CASE RemoveDeparted
  BY <1>16 DEF RemoveDeparted, EraseFirst
<1>17. CASE CallbackDone
  BY <1>17 DEF CallbackDone, ReleaseManager
<1>18. CASE AgentCallbackDone
  BY <1>18 DEF AgentCallbackDone, ReleaseAgent, AgentDestroyedOn
<1>19. CASE NetlinkExit
  BY <1>19 DEF NetlinkExit
<1>20. CASE InterfaceAdded
  BY <1>20 DEF InterfaceAdded, Change, Multicast
<1>21. CASE InterfaceRemoved
  BY <1>21 DEF InterfaceRemoved, Change, Multicast
<1>22. CASE AdapterUnplugged
  BY <1>22 DEF AdapterUnplugged, Change
<1>24. CASE CloseFound \/ CloseArrived \/ Signal \/ RequestStop
  BY <1>24 DEF CloseFound, CloseArrived, Signal, RequestStop
<1>25. CASE SetUp \/ CheckStop \/ NetlinkFails \/ WaitInterrupted \/ HostapdSpeaks
  BY <1>25 DEF SetUp, CheckStop, NetlinkFails, WaitInterrupted, HostapdSpeaks
<1>23. QED
  BY <1>1, <1>2, <1>3, <1>4, <1>5, <1>6, <1>7, <1>8, <1>9, <1>10, <1>11,
     <1>12, <1>13, <1>14, <1>15, <1>16, <1>17, <1>18, <1>19, <1>20, <1>21,
     <1>22, <1>24, <1>25
  DEF Next, Main, NetlinkThread, Kernel

-----------------------------------------------------------------------------
(* A step keeps the references in order, until the process is terminated.    *)
LEMMA NextRefInv ==
    IInv /\ [Next]_vars => (Running => RefInv /\ KeptAlive)'
<1> SUFFICES ASSUME IInv, [Next]_vars PROVE (Running => RefInv /\ KeptAlive)'
  OBVIOUS
<1>0. mgrRefs \subseteq Threads /\ agentRefs \subseteq Threads \cup {"manager"}
  BY DEF IInv, TypeOK
<1> USE <1>0 DEF IInv, RefInv, KeptAlive, Threads, HoldsManager, HoldsAgent,
             mainVars, netVars, refVars
<1>1. CASE UNCHANGED vars
  BY <1>1 DEF vars
<1>2. CASE Start
  <2>1. /\ mainPc = "start" /\ mainPc' = "probe"
        /\ UNCHANGED <<mgrRefs, agentRefs, crashed>>
    BY <1>2 DEF Start
  <2>2. netPc' \in {"starting", netPc}
    BY <1>2 DEF Start
  <2>3. QED
    BY <2>1, <2>2
<1>3. CASE Probe
  BY <1>3 DEF Probe
<1>4. CASE PushAgent
  BY <1>4 DEF PushAgent
<1>5. CASE AddFound
  BY <1>5 DEF AddFound, CreateController
<1>6. CASE InsertFound
  BY <1>6 DEF InsertFound, PushUnique
<1>7. CASE AddDone
  BY <1>7 DEF AddDone
<1>8. CASE Joined
  BY <1>8 DEF Joined
<1>9. CASE Shutdown
  <2>1. /\ mainPc = "serving" /\ mainPc' \in {"done", "signal", "signal first"}
        /\ mgrRefs' = mgrRefs \ {"main"} /\ UNCHANGED <<netPc, crashed>>
    BY <1>9 DEF Shutdown, ReleaseManager, AgentDestroyedOn, Undisturbed
  <2>2. CASE mgrRefs = {"main"}
    <3>1. agentRefs' = agentRefs \ {"manager"}
      BY <1>9, <2>2 DEF Shutdown, ReleaseManager
    <3>2. agentRefs = {"manager"} =>
            (mainPc' = "done" => netPc = "off")
      BY <1>9, <2>2 DEF Shutdown, ReleaseManager, AgentDestroyedOn
    <3>3. QED
      BY <1>9, <2>1, <2>2, <3>1, <3>2 DEF Shutdown
  <2>3. CASE mgrRefs # {"main"}
    <3>1. agentRefs' = agentRefs
      BY <1>9, <2>3 DEF Shutdown, ReleaseManager
    <3>2. QED
      BY <1>9, <2>1, <2>3, <3>1 DEF Shutdown
  <2>4. QED
    BY <2>2, <2>3
<1>10. CASE Receive
  BY <1>10 DEF Receive
<1>11. CASE AttributesDone
  <2>1. CASE "netlink" \in mgrRefs
    <3>1. ReleaseManager("netlink") /\ netPc' = "agent" /\ Running
      BY <1>11, <2>1 DEF AttributesDone
    <3>2. mainPc' = mainPc /\ netPc = "attributes"
      BY <1>11, <3>1 DEF AttributesDone, ReleaseManager, AgentDestroyedOn, Undisturbed
    <3>3. CASE mgrRefs = {"netlink"}
      <4>1. CASE agentRefs = {"manager"}
        BY <3>1, <3>3, <4>1 DEF ReleaseManager, AgentDestroyedOn, Undisturbed
      <4>2. CASE agentRefs # {"manager"}
        <5>1. mgrRefs' = {} /\ agentRefs' = agentRefs \ {"manager"}
          BY <3>1, <3>3 DEF ReleaseManager
        <5>2. mainPc = "done" => "netlink" \in agentRefs
          BY <3>1, <3>3, <4>2
        <5>3. "main" \notin mgrRefs
          BY <3>3
        <5>4. QED
          BY <3>1, <3>2, <5>1, <5>2, <5>3
      <4>3. QED
        BY <4>1, <4>2
    <3>4. CASE mgrRefs # {"netlink"}
      BY <2>1, <3>1, <3>2, <3>4 DEF ReleaseManager, Undisturbed
    <3>5. QED
      BY <3>3, <3>4
  <2>2. CASE "netlink" \notin mgrRefs
    BY <1>11, <2>2 DEF AttributesDone
  <2>3. QED
    BY <2>1, <2>2
<1>12. CASE LockAgent
  BY <1>12, ZenonT(60) DEF LockAgent
<1>13. CASE LockManager
  BY <1>13 DEF LockManager
<1>14. CASE AddArrived
  BY <1>14 DEF AddArrived, CreateController
<1>15. CASE InsertArrived
  BY <1>15 DEF InsertArrived, PushUnique
<1>16. CASE RemoveDeparted
  BY <1>16 DEF RemoveDeparted, EraseFirst
<1>17. CASE CallbackDone
  BY <1>17 DEF CallbackDone, ReleaseManager, AgentDestroyedOn, Undisturbed
<1>18. CASE AgentCallbackDone
  BY <1>18 DEF AgentCallbackDone, ReleaseAgent, AgentDestroyedOn, Undisturbed
<1>19. CASE NetlinkExit
  BY <1>19 DEF NetlinkExit, LeaveThread
<1>20. CASE InterfaceAdded
  BY <1>20 DEF InterfaceAdded, Change, Multicast
<1>21. CASE InterfaceRemoved
  BY <1>21 DEF InterfaceRemoved, Change, Multicast
<1>22. CASE AdapterUnplugged
  BY <1>22 DEF AdapterUnplugged, Change
<1>24. CASE CloseFound \/ CloseArrived \/ Signal \/ RequestStop
  BY <1>24 DEF CloseFound, CloseArrived, Signal, RequestStop
<1>25. CASE SetUp \/ CheckStop \/ NetlinkFails \/ WaitInterrupted \/ HostapdSpeaks
  BY <1>25 DEF SetUp, CheckStop, NetlinkFails, LeaveThread, WaitInterrupted, HostapdSpeaks
<1>23. QED
  BY <1>1, <1>2, <1>3, <1>4, <1>5, <1>6, <1>7, <1>8, <1>9, <1>10, <1>11,
     <1>12, <1>13, <1>14, <1>15, <1>16, <1>17, <1>18, <1>19, <1>20, <1>21,
     <1>22, <1>24, <1>25
  DEF Next, Main, NetlinkThread, Kernel

-----------------------------------------------------------------------------
\* The types, the message in hand and the references the threads hold, together.
THEOREM Invariant == Spec => []IInv
<1>1. Init => IInv
  BY InitTypeOK
  DEF Init, IInv, MsgInv, RefInv, KeptAlive, Between, HoldsManager, HoldsAgent
<1>2. IInv /\ [Next]_vars => IInv'
  BY NextTypeOK, NextMsgInv, NextRefInv DEF IInv
<1>3. QED
  BY <1>1, <1>2, PTL DEF Spec

(* Every reachable state has the declared types: in particular an entry is   *)
(* only erased when the search found one.                                    *)
THEOREM TypeCorrect == Spec => []TypeOK
<1>1. IInv => TypeOK
  BY DEF IInv
<1>2. QED
  BY <1>1, Invariant, PTL

(* The manager never has two access points with the same interface name,     *)
(* although main and the netlink thread both add them.                       *)
THEOREM OneEntryPerInterface == Spec => []NoDuplicates
<1>1. Init => NoDuplicates
  BY DEF Init, NoDuplicates
<1>2. TypeOK /\ NoDuplicates /\ [Next]_vars => NoDuplicates'
  BY NextNoDuplicates
<1>3. QED
  BY <1>1, <1>2, TypeCorrect, PTL DEF Spec

(* The operations the netlink thread points to outlive it: main only leaves  *)
(* the agent's destructor with the thread ended, or leaves the agent to it.  *)
THEOREM ThreadOutlived == Spec => []OperationsOutliveThread
<1>1. IInv => OperationsOutliveThread
  BY DEF IInv, KeptAlive, OperationsOutliveThread
<1>2. QED
  BY <1>1, Invariant, PTL

-----------------------------------------------------------------------------
(* Self joins.                                                               *)

\* main keeps the agent until the manager has it; only main's destructor asks
\* the thread to stop, when nobody else has the manager or the agent.
JoinInv ==
    /\ mainPc \in {"start", "probe", "push"} => "main" \in agentRefs
    /\ mainPc \in Stopping => mgrRefs = {} /\ agentRefs = {}

(* Only main's destructors join the thread, while the thread serves a        *)
(* manager that main still has (~AccessPointManager, Stop).                  *)
LEMMA JoinStep ==
    ASSUME IInv, Running => JoinInv, SelfJoinExplained, [Next]_vars
    PROVE  (Running => JoinInv)' /\ SelfJoinExplained'
<1>0. mgrRefs \subseteq Threads /\ agentRefs \subseteq Threads \cup {"manager"}
  BY DEF IInv, TypeOK
<1>1. Running => RefInv /\ MsgInv
  BY DEF IInv
<1> HIDE DEF IInv
<1> USE <1>0, <1>1 DEF JoinInv, SelfJoinExplained, Threads, HoldsManager, HoldsAgent,
        mainVars, netVars, refVars
<1>2. CASE UNCHANGED <<mainPc, mgrRefs, agentRefs, crashed>>
  BY <1>2
<1>3. CASE Start \/ Probe \/ PushAgent
  <2>1. CASE Start \/ Probe
    <3>1. /\ mainPc \in {"start", "probe"} /\ mainPc' \in {"probe", "push"}
          /\ UNCHANGED <<mgrRefs, agentRefs, crashed>>
      BY <2>1 DEF Start, Probe
    <3>2. QED
      BY <3>1
  <2>2. CASE PushAgent
    <3>1. /\ mainPc = "push" /\ mainPc' = "add"
          /\ UNCHANGED crashed
      BY <2>2 DEF PushAgent
    <3>2. QED
      BY <3>1
  <2>3. QED
    BY <1>3, <2>1, <2>2
<1>4. CASE AddFound \/ CloseFound \/ InsertFound \/ AddDone
  <2>1. /\ mainPc \in {"add", "close", "silent", "insert"}
        /\ mainPc' \in {"add", "close", "silent", "insert", "serving"}
        /\ UNCHANGED <<mgrRefs, agentRefs>>
        /\ crashed = "no" /\ crashed' # "self join"
    BY <1>4 DEF AddFound, CloseFound, InsertFound, AddDone, CreateController
  <2>2. QED
    BY <2>1
<1>5. CASE Shutdown
  <2>1. /\ mainPc = "serving" /\ crashed = "no" /\ ReleaseManager("main")
    BY <1>5 DEF Shutdown
  <2>2. CASE mgrRefs = {"main"} /\ agentRefs = {"manager"}
    <3>1. /\ mgrRefs' = {} /\ agentRefs' = {} /\ crashed' = crashed
          /\ mainPc' \in {"done", "signal", "signal first"}
      BY <2>1, <2>2 DEF ReleaseManager, AgentDestroyedOn
    <3>2. QED
      BY <2>1, <3>1
  <2>3. CASE ~(mgrRefs = {"main"} /\ agentRefs = {"manager"})
    <3>1. mainPc' = "done" /\ crashed' = crashed
      BY <2>1, <2>3 DEF ReleaseManager, Undisturbed
    <3>2. QED
      BY <2>1, <3>1
  <2>4. QED
    BY <2>2, <2>3
<1>6. CASE Signal \/ RequestStop \/ Joined
  <2>1. /\ mainPc \in Stopping /\ mainPc' \in Stopping \cup {"done"}
        /\ UNCHANGED <<mgrRefs, agentRefs, crashed>>
    BY <1>6 DEF Signal, RequestStop, Joined
  <2>2. QED
    BY <2>1
<1>7. CASE Receive
  BY <1>7 DEF Receive
<1>8. CASE AttributesDone \/ CallbackDone
  <2>1. /\ Running
        /\ \/ UNCHANGED <<mainPc, mgrRefs, agentRefs, crashed>>
           \/ ReleaseManager("netlink")
    BY <1>8 DEF AttributesDone, CallbackDone
  <2>2. CASE ReleaseManager("netlink") /\ mgrRefs = {"netlink"}
    <3>1. mainPc \in Stopping \cup {"done"}
      BY <2>1, <2>2 DEF RefInv
    <3>2. mainPc = "done"
      BY <2>1, <2>2, <3>1
    <3>3. mainPc' = mainPc /\ crashed' \in {"no", "self join"}
      BY <2>1, <2>2 DEF ReleaseManager, AgentDestroyedOn, Undisturbed
    <3>4. QED
      BY <2>1, <3>2, <3>3
  <2>3. CASE ReleaseManager("netlink") /\ mgrRefs # {"netlink"}
    <3>1. mgrRefs' = mgrRefs \ {"netlink"} /\ UNCHANGED <<mainPc, agentRefs, crashed>>
      BY <2>3 DEF ReleaseManager, Undisturbed
    <3>2. QED
      BY <2>1, <3>1
  <2>4. QED
    BY <2>1, <2>2, <2>3, <1>2
<1>9. CASE LockAgent \/ LockManager
  <2>1. /\ UNCHANGED <<mainPc, crashed>>
        /\ mgrRefs = {} => mgrRefs' = {}
        /\ agentRefs = {} => agentRefs' = {}
        /\ agentRefs \subseteq agentRefs'
    BY <1>9 DEF LockAgent, LockManager
  <2>2. QED
    BY <2>1
<1>10. CASE AddArrived
  BY <1>10 DEF AddArrived, CreateController
<1>11. CASE CloseArrived \/ InsertArrived \/ RemoveDeparted
  BY <1>11, <1>2 DEF CloseArrived, InsertArrived, RemoveDeparted
<1>16. CASE SetUp \/ CheckStop \/ NetlinkExit \/ NetlinkFails \/ WaitInterrupted
  BY <1>16, <1>2 DEF SetUp, CheckStop, NetlinkExit, NetlinkFails, WaitInterrupted
<1>17. CASE HostapdSpeaks
  <2>1. /\ mainPc' = mainPc \/ (mainPc = "silent" /\ mainPc' = "insert")
        /\ UNCHANGED <<mgrRefs, agentRefs, crashed>>
    BY <1>17 DEF HostapdSpeaks
  <2>2. QED
    BY <2>1
<1>12. CASE AgentCallbackDone
  <2>1. /\ Running /\ UNCHANGED mgrRefs
        /\ ReleaseAgent("netlink")
    BY <1>12 DEF AgentCallbackDone
  <2>2. mainPc' = mainPc
    BY <2>1 DEF ReleaseAgent, AgentDestroyedOn, Undisturbed
  <2>3. CASE agentRefs = {"netlink"}
    <3>1. mainPc = "done"
      BY <2>1, <2>3 DEF RefInv
    <3>2. crashed' = "self join"
      BY <2>1, <2>3 DEF ReleaseAgent, AgentDestroyedOn
    <3>3. QED
      BY <2>1, <2>2, <3>1, <3>2
  <2>4. CASE agentRefs # {"netlink"}
    <3>1. agentRefs' = agentRefs \ {"netlink"} /\ UNCHANGED crashed
      BY <2>1, <2>4 DEF ReleaseAgent, Undisturbed
    <3>2. QED
      BY <2>1, <2>2, <3>1
  <2>5. QED
    BY <2>3, <2>4
<1>13. CASE Kernel
  BY <1>13, <1>2 DEF Kernel, InterfaceAdded, InterfaceRemoved, AdapterUnplugged
<1>14. CASE UNCHANGED vars
  BY <1>14, <1>2 DEF vars
<1>15. QED
  BY <1>3, <1>4, <1>5, <1>6, <1>7, <1>8, <1>9, <1>10, <1>11, <1>12, <1>13, <1>14,
     <1>16, <1>17
  DEF Next, Main, NetlinkThread

-----------------------------------------------------------------------------
(* Tracking.                                                                 *)

Serving == mainPc \notin Stopping \cup {"done"}

\* The message that tells what is so of the interface now.
Settles(m, i) ==
    /\ m.interface = i
    /\ IF i \in present THEN m.event = "Arrived" /\ m.wiphy = wiphy[i]
                        ELSE m.event = "Departed"

Awaited(i) == \E k \in 1 .. Len(queue) : Settles(queue[k], i)

\* The thread has a message about the interface and has not acted on it.
HandlingAt == {"attributes", "agent", "manager", "create", "close", "silent",
               "insert", "remove"}
Handling(i) == netPc \in HandlingAt /\ msg.interface = i

Underway(i) == Awaited(i) \/ (Handling(i) /\ Settles(msg, i))

\* Of the messages about an interface the last one settles it.
OrderInv ==
    /\ ~Subscribed => queue = <<>>
    /\ \A k \in 1 .. Len(queue) :
         \E l \in k .. Len(queue) : Settles(queue[l], queue[k].interface)
    /\ \A i \in Interfaces : Handling(i) => Underway(i)
    /\ \A i \in present : wiphy[i] # 0

\* What each thread is about to do: a removal only with a departure, an
\* insertion only of an interface; what the probe found is added before main
\* serves.
PlaceInv ==
    /\ netPc \in {"create", "close", "silent", "insert"} => msg.event = "Arrived"
    /\ netPc = "remove" => msg.event = "Departed"
    /\ netPc \notin {"close", "silent", "insert"} => adding["netlink"] = NoInterface
    /\ IF mainPc \in {"close", "silent", "insert"} THEN adding["main"] \in Interfaces
                                                   ELSE adding["main"] = NoInterface
    /\ mainPc \in {"start", "serving"} => found = {}
    /\ mainPc = "start" => Tracked = {}

\* The list differs from the kernel's only where a message that says so is
\* underway, main still has the interface from the probe, or its departure
\* was missed.
GoneExplained(i) ==
    i \notin present /\ (i \in Tracked \/ InProbe(i)) => i \in missed \/ Underway(i)

ThereKnown(i) ==
    i \in present \ Unmanaged /\ mainPc \notin {"start", "probe"} =>
        i \in Tracked \/ InProbe(i) \/ Underway(i)

TrackInv ==
    Subscribed /\ Serving => \A i \in Interfaces : GoneExplained(i) /\ ThereKnown(i)

FollowsInv == NoDuplicates /\ OrderInv /\ (Running => JoinInv /\ PlaceInv /\ TrackInv)

\* What a message at the end of the queue, or taken from its head, does to it.
LEMMA Appended ==
    ASSUME NEW S, NEW q \in Seq(S), NEW m \in S
    PROVE  /\ Len(q) \in Nat /\ Len(Append(q, m)) = Len(q) + 1
           /\ Append(q, m)[Len(q) + 1] = m
           /\ \A k \in 1 .. Len(q) : Append(q, m)[k] = q[k]
  OBVIOUS

\* Taking the head moves the rest up by one.
LEMMA Taken ==
    ASSUME NEW S, NEW q \in Seq(S), q # <<>>
    PROVE  /\ Len(q) \in Nat /\ Len(q) >= 1 /\ Len(Tail(q)) = Len(q) - 1
           /\ Head(q) = q[1]
           /\ \A k \in 1 .. Len(Tail(q)) : Tail(q)[k] = q[k + 1]
  OBVIOUS

(* A change of an interface is announced to a subscriber, by a message that  *)
(* tells what is so of it now (the kernel's multicast).                      *)
WillSettle(m, i) ==
    /\ m.interface = i
    /\ IF i \in present' THEN m.event = "Arrived" /\ m.wiphy = wiphy'[i]
                         ELSE m.event = "Departed"

KernelStep(i) ==
    /\ \A j \in Interfaces \ {i} : (j \in present' <=> j \in present) /\ wiphy'[j] = wiphy[j]
    /\ i \in present' => wiphy'[i] # 0
    /\ ~Subscribed => queue' = queue
    /\ Subscribed =>
         \E m \in Messages : queue' = Append(queue, m) /\ WillSettle(m, i)

\* Whatever comes or goes is one such change of one interface.
LEMMA KernelSteps ==
    ASSUME TypeOK, OrderInv, Kernel
    PROVE  \E i \in Interfaces : KernelStep(i)
<1>1. present \subseteq Interfaces /\ wiphy \in [Interfaces -> Nat] /\ plugs \in Nat
  BY DEF TypeOK
<1>2. \A i \in present : wiphy[i] # 0
  BY DEF OrderInv
<1>3. CASE InterfaceAdded
  <2>1. PICK i \in Interfaces \ present :
          /\ present' = present \cup {i}
          /\ IF wiphy[i] = 0
               THEN /\ plugs' = plugs + 1
                    /\ wiphy' = [wiphy EXCEPT ![i] = plugs + 1]
               ELSE UNCHANGED <<wiphy, plugs>>
          /\ Multicast("Arrived", i)
    BY <1>3 DEF InterfaceAdded
  <2> DEFINE m == [event |-> "Arrived", interface |-> i, wiphy |-> wiphy'[i]]
  <2>2. /\ wiphy'[i] \in Nat \ {0}
        /\ \A j \in Interfaces \ {i} : (j \in present' <=> j \in present) /\ wiphy'[j] = wiphy[j]
    BY <1>1, <2>1
  <2>3. m \in Messages /\ WillSettle(m, i)
    BY <2>1, <2>2 DEF Messages, WillSettle
  <2>4. queue' = IF Subscribed THEN Append(queue, m) ELSE queue
    BY <2>1 DEF Multicast
  <2> HIDE DEF m
  <2>5. KernelStep(i)
    BY <2>2, <2>3, <2>4 DEF KernelStep
  <2>6. QED
    BY <2>5
<1>4. CASE InterfaceRemoved
  <2>1. PICK i \in present :
          /\ present' = present \ {i}
          /\ UNCHANGED <<wiphy, plugs>>
          /\ Multicast("Departed", i)
    BY <1>4 DEF InterfaceRemoved
  <2> DEFINE m == [event |-> "Departed", interface |-> i, wiphy |-> wiphy'[i]]
  <2>2. /\ i \in Interfaces /\ i \notin present' /\ wiphy'[i] \in Nat
        /\ \A j \in Interfaces \ {i} : (j \in present' <=> j \in present) /\ wiphy'[j] = wiphy[j]
    BY <1>1, <2>1
  <2>3. m \in Messages /\ WillSettle(m, i)
    BY <2>2 DEF Messages, WillSettle
  <2>4. queue' = IF Subscribed THEN Append(queue, m) ELSE queue
    BY <2>1 DEF Multicast
  <2> HIDE DEF m
  <2>5. KernelStep(i)
    BY <2>2, <2>3, <2>4 DEF KernelStep
  <2>6. QED
    BY <2>2, <2>5
<1>5. CASE AdapterUnplugged
  <2>1. PICK i \in present \cap Removable :
          /\ present' = present \ {i}
          /\ wiphy' = [wiphy EXCEPT ![i] = 0]
          /\ queue' = IF Subscribed
                        THEN Append(queue, [event |-> "Departed", interface |-> i,
                                            wiphy |-> wiphy[i]])
                        ELSE queue
    BY <1>5 DEF AdapterUnplugged
  <2> DEFINE m == [event |-> "Departed", interface |-> i, wiphy |-> wiphy[i]]
  <2>2. /\ i \in Interfaces /\ i \notin present' /\ wiphy[i] \in Nat
        /\ \A j \in Interfaces \ {i} : (j \in present' <=> j \in present) /\ wiphy'[j] = wiphy[j]
    BY <1>1, <2>1
  <2>3. m \in Messages /\ WillSettle(m, i)
    BY <2>2 DEF Messages, WillSettle
  <2>4. queue' = IF Subscribed THEN Append(queue, m) ELSE queue
    BY <2>1
  <2> HIDE DEF m
  <2>5. KernelStep(i)
    BY <2>2, <2>3, <2>4 DEF KernelStep
  <2>6. QED
    BY <2>2, <2>5
<1>6. QED
  BY <1>3, <1>4, <1>5 DEF Kernel

\* A change leaves the message that tells it at the end of the queue, and does
\* not touch what is underway for the others.
LEMMA UnderwayAfterChange ==
    ASSUME TypeOK, Kernel, Subscribed, NEW i \in Interfaces, KernelStep(i)
    PROVE  /\ Awaited(i)'
           /\ \A j \in Interfaces \ {i} : Underway(j) => Underway(j)'
<1>1. queue \in Seq(Messages)
  BY DEF TypeOK
<1>2. UNCHANGED <<netPc, msg>>
  BY DEF Kernel, InterfaceAdded, InterfaceRemoved, AdapterUnplugged, netVars
<1>3. PICK m \in Messages : queue' = Append(queue, m) /\ WillSettle(m, i)
  BY DEF KernelStep
<1>4. /\ Len(queue) \in Nat /\ Len(queue') = Len(queue) + 1
      /\ queue'[Len(queue) + 1] = m
      /\ \A k \in 1 .. Len(queue) : queue'[k] = queue[k]
  BY <1>1, <1>3, Appended
<1>5. \A j \in Interfaces \ {i} : \A n : Settles(n, j) => WillSettle(n, j)
  BY DEF KernelStep, Settles, WillSettle
<1>6. \A n, j : WillSettle(n, j) <=> n.interface = j /\ IF j \in present'
          THEN n.event = "Arrived" /\ n.wiphy = wiphy'[j] ELSE n.event = "Departed"
  BY DEF WillSettle
<1>7. Awaited(i)'
  <2>1. WillSettle(queue'[Len(queue')], i) /\ Len(queue') \in 1 .. Len(queue')
    BY <1>3, <1>4
  <2>2. QED
    BY <2>1, <1>6 DEF Awaited, Settles
<1>8. ASSUME NEW j \in Interfaces \ {i}, Underway(j)
      PROVE  Underway(j)'
  <2>1. CASE Handling(j) /\ Settles(msg, j)
    <3>1. WillSettle(msg, j)
      BY <2>1, <1>5
    <3>2. QED
      BY <1>2, <1>6, <2>1, <3>1 DEF Underway, Handling, Settles
  <2>2. CASE Awaited(j)
    <3>1. PICK k \in 1 .. Len(queue) : Settles(queue[k], j)
      BY <2>2 DEF Awaited
    <3>2. k \in 1 .. Len(queue') /\ WillSettle(queue'[k], j)
      BY <1>4, <1>5, <3>1
    <3>3. QED
      BY <1>6, <3>2 DEF Underway, Awaited, Settles
  <2>3. QED
    BY <1>8, <2>1, <2>2 DEF Underway
<1>9. QED
  BY <1>7, <1>8

(* Of the two sources of messages about an interface, the kernel's change    *)
(* and the thread's taking one (ProcessNetlinkMessage), neither leaves what  *)
(* is so of it untold.                                                       *)
LEMMA OrderUnderKernel ==
    ASSUME TypeOK, OrderInv, Kernel
    PROVE  OrderInv'
<1>1. PICK i \in Interfaces : KernelStep(i)
  BY KernelSteps
<1>2. queue \in Seq(Messages) /\ \A k \in 1 .. Len(queue) : queue[k].interface \in Interfaces
  <2>1. queue \in Seq(Messages)
    BY DEF TypeOK
  <2>2. \A k \in 1 .. Len(queue) : queue[k] \in Messages
    BY <2>1
  <2>3. QED
    BY <2>1, <2>2 DEF Messages
<1>3. UNCHANGED <<netPc, msg>>
  BY DEF Kernel, InterfaceAdded, InterfaceRemoved, AdapterUnplugged, netVars
<1>4. \A j \in Interfaces \ {i} : \A m : Settles(m, j) => WillSettle(m, j)
  BY <1>1 DEF KernelStep, Settles, WillSettle
<1>5. \A m, j : WillSettle(m, j) <=> m.interface = j /\ IF j \in present'
          THEN m.event = "Arrived" /\ m.wiphy = wiphy'[j] ELSE m.event = "Departed"
  BY DEF WillSettle
<1>6. CASE ~Subscribed
  <2>1. queue' = <<>>
    BY <1>1, <1>6 DEF OrderInv, KernelStep
  <2>2. \A j \in present' : wiphy'[j] # 0
    <3>1. present' \subseteq Interfaces
      BY KernelTypes
    <3>2. QED
      BY <1>1, <3>1 DEF KernelStep, OrderInv
  <2>3. QED
    BY <1>3, <1>6, <2>1, <2>2 DEF OrderInv, Handling, HandlingAt
<1>7. CASE Subscribed
  <2>1. PICK m \in Messages : queue' = Append(queue, m) /\ WillSettle(m, i)
    BY <1>1, <1>7 DEF KernelStep
  <2>2. /\ Len(queue) \in Nat /\ Len(queue') = Len(queue) + 1
        /\ queue'[Len(queue) + 1] = m
        /\ \A k \in 1 .. Len(queue) : queue'[k] = queue[k]
    BY <1>2, <2>1, Appended
  <2>3. \A k \in 1 .. Len(queue') :
          \E l \in k .. Len(queue') : WillSettle(queue'[l], queue'[k].interface)
    <3> SUFFICES ASSUME NEW k \in 1 .. Len(queue')
                 PROVE  \E l \in k .. Len(queue') : WillSettle(queue'[l], queue'[k].interface)
      OBVIOUS
    <3>1. CASE queue'[k].interface = i
      <4>1. WillSettle(queue'[Len(queue')], queue'[k].interface)
        BY <2>1, <2>2, <3>1
      <4>2. Len(queue') \in k .. Len(queue')
        BY <2>2
      <4>3. QED
        BY <4>1, <4>2
    <3>2. CASE queue'[k].interface # i
      <4>1. k \in 1 .. Len(queue) /\ queue'[k] = queue[k]
        <5>1. k # Len(queue) + 1
          BY <2>1, <2>2, <3>2 DEF WillSettle
        <5>2. QED
          BY <2>2, <5>1
      <4>2. PICK l \in k .. Len(queue) : Settles(queue[l], queue[k].interface)
        BY <4>1 DEF OrderInv
      <4>3. l \in k .. Len(queue') /\ queue'[l] = queue[l]
        BY <2>2, <4>1
      <4>4. WillSettle(queue'[l], queue'[k].interface)
        BY <1>2, <1>4, <3>2, <4>1, <4>2, <4>3
      <4>5. QED
        BY <4>3, <4>4
    <3>3. QED
      BY <3>1, <3>2
  <2>4. Awaited(i)' /\ \A j \in Interfaces \ {i} : Underway(j) => Underway(j)'
    BY <1>1, <1>7, UnderwayAfterChange
  <2>5. \A j \in Interfaces : Handling(j)' => Underway(j)'
    <3>1. \A j \in Interfaces : Handling(j)' => Underway(j)
      BY <1>3 DEF Handling, OrderInv
    <3>2. QED
      BY <2>4, <3>1 DEF Underway
  <2>6. \A j \in present' : wiphy'[j] # 0
    <3>1. present' \subseteq Interfaces
      BY KernelTypes
    <3>2. QED
      BY <1>1, <3>1 DEF KernelStep, OrderInv
  <2>7. \A k \in 1 .. Len(queue') :
          \E l \in k .. Len(queue') : Settles(queue[l], queue[k].interface)'
    BY <2>3, <1>5 DEF Settles
  <2>8. QED
    BY <1>3, <1>7, <2>5, <2>6, <2>7 DEF OrderInv
<1>8. QED
  BY <1>6, <1>7

\* Receive takes the first message; either it settles its interface, or one
\* that does is left in the queue.
LEMMA OrderUnderReceive ==
    ASSUME TypeOK, OrderInv, Receive
    PROVE  /\ OrderInv'
           /\ \A i \in Interfaces : i = Head(queue).interface =>
                Settles(Head(queue), i) \/ Awaited(i)'
<1>1. queue \in Seq(Messages)
  BY DEF TypeOK
<1>2. queue # <<>> /\ queue' = Tail(queue) /\ UNCHANGED <<present, wiphy>>
  BY DEF Receive, kernelVars
<1>3. /\ Len(queue) \in Nat /\ Len(queue) >= 1 /\ Len(queue') = Len(queue) - 1
      /\ Head(queue) = queue[1]
      /\ \A k \in 1 .. Len(queue') : queue'[k] = queue[k + 1]
  BY <1>1, <1>2, Taken
<1>4. \A m, i : Settles(m, i)' <=> Settles(m, i)
  BY <1>2 DEF Settles
<1>5. \A k \in 1 .. Len(queue') :
        \E l \in k .. Len(queue') : Settles(queue'[l], queue'[k].interface)
  <2> SUFFICES ASSUME NEW k \in 1 .. Len(queue')
               PROVE  \E l \in k .. Len(queue') : Settles(queue'[l], queue'[k].interface)
    OBVIOUS
  <2>1. k + 1 \in 1 .. Len(queue)
    BY <1>3
  <2>2. PICK l \in k + 1 .. Len(queue) : Settles(queue[l], queue[k + 1].interface)
    BY <2>1 DEF OrderInv
  <2>3. l - 1 \in k .. Len(queue') /\ queue'[l - 1] = queue[l]
    BY <1>3, <2>2
  <2>4. QED
    BY <1>3, <2>2, <2>3
<1>6. \A i \in Interfaces : i = Head(queue).interface =>
        Settles(Head(queue), i) \/ Awaited(i)'
  <2> SUFFICES ASSUME NEW i \in Interfaces, i = Head(queue).interface
               PROVE  Settles(Head(queue), i) \/ Awaited(i)'
    OBVIOUS
  <2>1. PICK l \in 1 .. Len(queue) : Settles(queue[l], i)
    BY <1>3 DEF OrderInv
  <2>2. CASE l = 1
    BY <1>3, <2>1, <2>2 DEF Settles
  <2>3. CASE l # 1
    <3>1. l - 1 \in 1 .. Len(queue') /\ queue'[l - 1] = queue[l]
      BY <1>3, <2>1, <2>3
    <3>2. \E k \in 1 .. Len(queue') : Settles(queue'[k], i)
      BY <2>1, <3>1
    <3>3. QED
      BY <3>2, <1>2 DEF Awaited, Settles
  <2>4. QED
    BY <2>2, <2>3
<1>7. \A i \in Interfaces : Handling(i)' => Underway(i)'
  <2> SUFFICES ASSUME NEW i \in Interfaces, Handling(i)' PROVE Underway(i)'
    OBVIOUS
  <2>1. msg' = Head(queue) /\ i = Head(queue).interface
    BY DEF Receive, Handling, HandlingAt
  <2>2. CASE Awaited(i)'
    BY <2>2 DEF Underway
  <2>3. CASE Settles(Head(queue), i)
    BY <1>2, <2>1, <2>3 DEF Underway, Settles
  <2>4. QED
    BY <1>6, <2>1, <2>2, <2>3
<1>8. netPc' \notin {"off", "exited"} /\ \A i \in present' : wiphy'[i] # 0
  BY <1>2 DEF Receive, OrderInv
<1>9. \A k \in 1 .. Len(queue') :
        \E l \in k .. Len(queue') : Settles(queue[l], queue[k].interface)'
  BY <1>2, <1>5 DEF Settles
<1>10. QED
  BY <1>6, <1>7, <1>8, <1>9 DEF OrderInv

\* All other steps leave the interfaces and the message handled alone, and
\* the queue too while the thread lasts.
LEMMA OtherSteps ==
    ASSUME [Next]_vars, ~Kernel, ~Receive
    PROVE  /\ UNCHANGED <<present, wiphy>>
           /\ queue' = queue \/ (netPc' = "exited" /\ queue' = <<>>)
           /\ ~Subscribed' => ~Subscribed \/ queue' = <<>>
           /\ netPc' \in HandlingAt => netPc \in HandlingAt /\ msg' = msg
  BY DEF Next, Main, NetlinkThread, Start, Probe, PushAgent,
      AddFound, CloseFound, InsertFound, AddDone, Signal, RequestStop, Joined,
      Shutdown, SetUp, CheckStop, LeaveThread, AttributesDone, LockAgent,
      LockManager, AddArrived, CloseArrived, InsertArrived, RemoveDeparted,
      CallbackDone, AgentCallbackDone, NetlinkExit, NetlinkFails, WaitInterrupted,
      HostapdSpeaks, netVars, vars, kernelVars, HandlingAt

(* No step leaves a message about an interface without a later one that      *)
(* settles it, or one taken and dropped without either.                      *)
LEMMA OrderStep ==
    ASSUME TypeOK, OrderInv, [Next]_vars
    PROVE  OrderInv'
<1>1. CASE ~Kernel /\ ~Receive
  <2>1. /\ UNCHANGED <<present, wiphy>>
        /\ queue' = queue \/ (netPc' = "exited" /\ queue' = <<>>)
        /\ ~Subscribed' => ~Subscribed \/ queue' = <<>>
        /\ netPc' \in HandlingAt => netPc \in HandlingAt /\ msg' = msg
    BY <1>1, OtherSteps
  <2>2. \A i \in Interfaces : Handling(i)' => Underway(i)'
    <3>1. ASSUME NEW i \in Interfaces, Handling(i)' PROVE Underway(i)'
      <4>1. netPc' \in HandlingAt /\ netPc' # "exited"
        BY <3>1 DEF Handling, HandlingAt
      <4>2. queue' = queue /\ Handling(i) /\ msg' = msg
        BY <2>1, <3>1, <4>1 DEF Handling
      <4>3. Underway(i)
        BY <4>2 DEF OrderInv
      <4>4. QED
        BY <2>1, <3>1, <4>2, <4>3 DEF Underway, Awaited, Settles
    <3>2. QED
      BY <3>1
  <2>3. \A k \in 1 .. Len(queue') :
          \E l \in k .. Len(queue') : Settles(queue[l], queue[k].interface)'
    <3>1. CASE queue' = queue
      BY <2>1, <3>1 DEF OrderInv, Settles
    <3>2. CASE queue' = <<>>
      <4>1. 1 .. Len(queue') = {}
        BY <3>2
      <4>2. QED
        BY <4>1
    <3>3. QED
      BY <2>1, <3>1, <3>2
  <2>4. ~Subscribed' => queue' = <<>>
    BY <2>1 DEF OrderInv
  <2>5. \A i \in present' : wiphy'[i] # 0
    BY <2>1 DEF OrderInv
  <2>6. QED
    BY <2>2, <2>3, <2>4, <2>5 DEF OrderInv
<1>2. QED
  BY <1>1, OrderUnderKernel, OrderUnderReceive

(* The thread keeps to the event it took (OnPresenceChanged), and main has   *)
(* found nothing before it probes.                                           *)
LEMMA PlaceStep ==
    ASSUME IInv, Running => JoinInv /\ PlaceInv, [Next]_vars
    PROVE  (Running => PlaceInv)'
<1>0. /\ adding \in [Threads -> Interfaces \cup {NoInterface}]
      /\ found \subseteq Interfaces /\ queue \in Seq(Messages)
      /\ NoInterface \notin Interfaces
  BY DiscoveryAssumption DEF IInv, TypeOK, NoInterface
<1>1. netPc \notin Between =>
        msg.event \in {"Arrived", "Departed"} /\ msg.interface \in Interfaces
  BY DEF IInv, MsgInv, Messages
<1>2. Running => RefInv
  BY DEF IInv
<1> USE <1>0, <1>1, <1>2 DEF PlaceInv, Threads, Between, mainVars, netVars, refVars
<1>3. CASE UNCHANGED <<mainPc, found, entries, netPc, msg, adding, crashed>>
  BY <1>3 DEF Tracked
<1>4. CASE Start \/ Probe \/ PushAgent \/ AddDone \/ Joined
  <2>1. /\ mainPc' \in {"probe", "push", "add", "serving", "done"}
        /\ mainPc # "insert" /\ Running
        /\ netPc' \in {netPc, "starting"} /\ (netPc' # netPc => netPc = "off" \/ mainPc = "start")
        /\ mainPc' = "serving" => found' = {}
        /\ UNCHANGED <<msg, adding>>
    BY <1>4 DEF Start, Probe, PushAgent, AddDone, Joined
  <2>2. mainPc = "start" => netPc = "off"
    BY <2>1 DEF RefInv
  <2>3. mainPc \notin {"close", "silent", "insert", "start"} \/ mainPc = "start"
    BY <1>4 DEF Start, Probe, PushAgent, AddDone, Joined
  <2>4. QED
    BY <2>1, <2>2, <2>3
<1>5. CASE AddFound
  <2>1. PICK i \in found : CreateController("main", i)
    BY <1>5 DEF AddFound
  <2>2. /\ Running /\ mainPc = "add" /\ mainPc' = IF adding' = adding THEN "add" ELSE "close"
        /\ UNCHANGED <<netPc, msg>>
    BY <1>5 DEF AddFound
  <2>3. \/ adding' = [adding EXCEPT !["main"] = i] /\ adding' # adding
        \/ adding' = adding
    BY <2>1, <2>2 DEF CreateController
  <2>4. QED
    BY <2>2, <2>3
<1>6. CASE InsertFound
  BY <1>6 DEF InsertFound
<1>7. CASE Shutdown
  <2>1. /\ mainPc = "serving" /\ mainPc' \in {"done", "signal", "signal first"}
        /\ UNCHANGED <<found, netPc, msg, adding>>
    BY <1>7 DEF Shutdown, ReleaseManager, AgentDestroyedOn, Undisturbed
  <2>2. QED
    BY <1>7, <2>1 DEF Shutdown
<1>17. CASE CloseFound
  BY <1>17 DEF CloseFound
<1>18. CASE Signal \/ RequestStop
  <2>1. /\ mainPc \in Stopping /\ mainPc' \in Stopping /\ Running
        /\ UNCHANGED <<found, netPc, msg, adding>>
    BY <1>18 DEF Signal, RequestStop
  <2>2. QED
    BY <2>1
<1>8. CASE Receive
  BY <1>8 DEF Receive, Tracked, RefInv
<1>9. CASE AttributesDone \/ CallbackDone \/ AgentCallbackDone
  <2>1. /\ Running /\ UNCHANGED <<mainPc, found, adding>>
        /\ netPc \in {"attributes", "releaseManager", "releaseAgent"}
        /\ netPc' \in {"agent", "releaseAgent", "check"}
    BY <1>9 DEF AttributesDone, CallbackDone, AgentCallbackDone, ReleaseManager,
      ReleaseAgent, AgentDestroyedOn, Undisturbed
  <2>2. mainPc # "start"
    BY <2>1 DEF RefInv
  <2>3. QED
    BY <2>1, <2>2
<1>10. CASE LockAgent \/ LockManager
  <2>1. /\ Running /\ UNCHANGED <<mainPc, found, adding>>
        /\ netPc \in {"agent", "manager"}
        /\ \/ netPc' \in {"check", "manager", "releaseAgent"}
           \/ netPc' = (IF msg.event = "Arrived" THEN "create" ELSE "remove") /\ msg' = msg
    BY <1>10 DEF LockAgent, LockManager
  <2>2. mainPc # "start"
    BY <2>1 DEF RefInv
  <2>3. QED
    BY <2>1, <2>2
<1>11. CASE AddArrived
  <2>1. /\ Running /\ netPc = "create" /\ UNCHANGED <<mainPc, found, msg>>
        /\ netPc' = IF adding' = adding THEN "releaseManager" ELSE "close"
        /\ adding' = [adding EXCEPT !["netlink"] = msg.interface] \/ adding' = adding
    BY <1>11 DEF AddArrived, CreateController
  <2>2. mainPc # "start"
    BY <2>1 DEF RefInv
  <2>3. QED
    BY <2>1, <2>2
<1>12. CASE InsertArrived \/ RemoveDeparted
  <2>1. /\ Running /\ UNCHANGED <<mainPc, found>>
        /\ netPc \in {"insert", "remove"} /\ netPc' = "releaseManager"
        /\ \/ netPc = "insert" /\ adding' = [adding EXCEPT !["netlink"] = NoInterface]
           \/ netPc = "remove" /\ adding' = adding
    BY <1>12 DEF InsertArrived, RemoveDeparted
  <2>2. mainPc # "start"
    BY <2>1 DEF RefInv
  <2>3. QED
    BY <2>1, <2>2
<1>13. CASE SetUp \/ CheckStop \/ NetlinkExit \/ NetlinkFails \/ WaitInterrupted
  <2>1. /\ Running /\ UNCHANGED <<mainPc, found, adding, entries>>
        /\ netPc \in {"starting", "check", "idle"}
        /\ netPc' \in {"check", "idle", "exited"}
    BY <1>13 DEF SetUp, CheckStop, NetlinkExit, NetlinkFails, WaitInterrupted, LeaveThread
  <2>2. mainPc # "start"
    BY <2>1 DEF RefInv
  <2>3. QED
    BY <2>1, <2>2
<1>19. CASE CloseArrived
  <2>1. /\ Running /\ UNCHANGED <<mainPc, found, msg, adding, entries>>
        /\ netPc = "close" /\ netPc' \in {"insert", "silent"}
    BY <1>19 DEF CloseArrived
  <2>2. mainPc # "start"
    BY <2>1 DEF RefInv
  <2>3. QED
    BY <2>1, <2>2
<1>20. CASE HostapdSpeaks
  <2>1. /\ Running /\ UNCHANGED <<found, msg, adding, entries>>
        /\ \/ mainPc = "silent" /\ mainPc' = "insert" /\ netPc' = netPc
           \/ netPc = "silent" /\ netPc' = "insert" /\ mainPc' = mainPc
    BY <1>20 DEF HostapdSpeaks
  <2>2. netPc = "silent" => mainPc # "start"
    BY <2>1 DEF RefInv
  <2>3. QED
    BY <2>1, <2>2
<1>14. CASE Kernel
  BY <1>14, <1>3 DEF Kernel, InterfaceAdded, InterfaceRemoved, AdapterUnplugged
<1>15. CASE UNCHANGED vars
  BY <1>15, <1>3 DEF vars
<1>16. QED
  BY <1>4, <1>5, <1>6, <1>7, <1>8, <1>9, <1>10, <1>11, <1>12, <1>13, <1>14, <1>15,
     <1>17, <1>18, <1>19, <1>20
  DEF Next, Main, NetlinkThread

\* What a step leaves of what is underway, when it touches neither the
\* interfaces nor the queue: all that the thread is not done with.
LEMMA SameUnderway ==
    ASSUME UNCHANGED <<present, wiphy, queue>>, NEW i \in Interfaces
    PROVE  /\ Awaited(i)' <=> Awaited(i)
           /\ (Handling(i) => Handling(i)' /\ msg' = msg) => (Underway(i) => Underway(i)')
<1>1. \A m : Settles(m, i)' <=> Settles(m, i)
  BY DEF Settles
<1>2. Awaited(i)' <=> Awaited(i)
  BY <1>1 DEF Awaited
<1>3. QED
  BY <1>1, <1>2 DEF Underway

\* The references that keep the list from being emptied while the server serves.
LEMMA ServingKeeps ==
    ASSUME RefInv, JoinInv, Serving
    PROVE  /\ "main" \in mgrRefs
           /\ agentRefs # {}
           /\ ReleaseManager("netlink") => UNCHANGED <<entries, mainPc>>
<1>1. "main" \in mgrRefs /\ agentRefs # {}
  BY DEF RefInv, JoinInv, Serving
<1>2. QED
  BY <1>1 DEF ReleaseManager, Undisturbed

\* What is so of one interface survives a step that keeps the list, what main
\* has from the probe and what is underway.
LEMMA SameTracking ==
    ASSUME NEW i \in Interfaces, GoneExplained(i), ThereKnown(i),
           UNCHANGED <<present, entries, found>>,
           InProbe(i)' <=> InProbe(i),
           missed \subseteq missed',
           mainPc' \notin {"start", "probe"} => mainPc \notin {"start", "probe"},
           Underway(i) => Underway(i)'
    PROVE  GoneExplained(i)' /\ ThereKnown(i)'
  BY DEF GoneExplained, ThereKnown, Tracked

(* The list follows the kernel through every step of main, of the netlink    *)
(* thread and of the kernel, while the server serves.                        *)
LEMMA TrackStep ==
    ASSUME IInv, FollowsInv, [Next]_vars, Running', (Subscribed /\ Serving)',
           NEW i \in Interfaces
    PROVE  GoneExplained(i)' /\ ThereKnown(i)'
<1>0. /\ entries \in [Interfaces -> Nat] /\ missed \subseteq Interfaces
      /\ adding \in [Threads -> Interfaces \cup {NoInterface}]
      /\ NoInterface \notin Interfaces /\ i # NoInterface
      /\ present \subseteq Interfaces
      /\ TypeOK
  BY DiscoveryAssumption DEF IInv, TypeOK, NoInterface
<1>1. OrderInv /\ NoDuplicates /\ (Handling(i) => Underway(i))
  BY DEF FollowsInv, OrderInv
<1>2. Running => RefInv /\ JoinInv /\ PlaceInv /\ TrackInv
  BY DEF IInv, FollowsInv
<1>3. Subscribed /\ Serving /\ Running => GoneExplained(i) /\ ThereKnown(i)
  BY <1>2 DEF TrackInv
<1>4. \A j : UNCHANGED <<adding, found>> => (InProbe(j)' <=> InProbe(j))
  BY DEF InProbe
<1> USE DEF mainVars, netVars, refVars, kernelVars
<1>5. CASE UNCHANGED vars
  <2>1. /\ UNCHANGED <<present, wiphy, queue, entries, found, mainPc, netPc, msg,
                       adding, missed, crashed>>
        /\ Running /\ Subscribed /\ Serving
    BY <1>5 DEF vars, Serving
  <2>2. Underway(i) => Underway(i)'
    BY <2>1, SameUnderway DEF Handling
  <2>3. QED
    BY <1>3, <1>4, <2>1, <2>2, SameTracking
<1>6. CASE Start
  <2>1. /\ Running /\ mainPc = "start" /\ mainPc' = "probe"
        /\ UNCHANGED <<entries, found, adding>>
    BY <1>6 DEF Start
  <2>2. i \notin Tracked' /\ ~InProbe(i)'
    BY <1>0, <1>2, <2>1 DEF PlaceInv, Tracked, InProbe
  <2>3. QED
    BY <2>1, <2>2 DEF GoneExplained, ThereKnown
<1>7. CASE Probe
  <2>1. /\ Running /\ mainPc = "probe" /\ mainPc' = "push"
        /\ found' = {j \in present : wiphy[j] # 0}
        /\ UNCHANGED <<present, wiphy, queue, entries, netPc, msg, adding, missed>>
    BY <1>7 DEF Probe
  <2>2. /\ Underway(i) => Underway(i)'
        /\ GoneExplained(i)
    BY <1>3, <2>1, SameUnderway DEF Handling, Serving
  <2>3. i \in found' <=> i \in present
    BY <1>1, <2>1 DEF OrderInv
  <2>4. adding'["main"] # i
    BY <1>0, <1>2, <2>1 DEF PlaceInv
  <2>5. QED
    BY <2>1, <2>2, <2>3, <2>4 DEF GoneExplained, ThereKnown, Tracked, InProbe
<1>8. CASE PushAgent \/ AddDone \/ CloseFound
  <2>1. /\ Running /\ mainPc \in {"push", "add", "close"}
        /\ UNCHANGED <<present, wiphy, queue, entries, found, netPc, msg, adding, missed>>
    BY <1>8 DEF PushAgent, AddDone, CloseFound
  <2>2. Underway(i) => Underway(i)'
    BY <2>1, SameUnderway DEF Handling
  <2>3. QED
    BY <1>3, <1>4, <2>1, <2>2, SameTracking DEF Serving
<1>9. CASE AddFound
  <2>1. PICK j \in found : found' = found \ {j} /\ CreateController("main", j)
    BY <1>9 DEF AddFound
  <2>2. /\ Running /\ mainPc = "add" /\ mainPc' \in {"add", "close"}
        /\ UNCHANGED <<present, wiphy, queue, entries, netPc, msg, missed>>
    BY <1>9 DEF AddFound
  <2>3. Underway(i) => Underway(i)'
    BY <2>2, SameUnderway DEF Handling
  <2>4. GoneExplained(i) /\ ThereKnown(i)
    BY <1>3, <2>2 DEF Serving
  <2>5. adding["main"] = NoInterface
    BY <1>2, <2>2 DEF PlaceInv
  <2>6. \/ adding' = [adding EXCEPT !["main"] = j]
        \/ j \in Unmanaged /\ adding' = adding
    BY <2>1, <2>2 DEF CreateController
  <2>7. /\ InProbe(i)' => InProbe(i)
        /\ InProbe(i) => InProbe(i)' \/ i \in Unmanaged
    BY <1>0, <2>1, <2>5, <2>6 DEF InProbe, Threads
  <2>8. QED
    BY <2>2, <2>3, <2>4, <2>7 DEF GoneExplained, ThereKnown, Tracked
<1>10. CASE InsertFound
  <2>1. /\ Running /\ mainPc = "insert" /\ mainPc' = "add"
        /\ PushUnique(adding["main"])
        /\ adding' = [adding EXCEPT !["main"] = NoInterface]
        /\ UNCHANGED <<present, wiphy, queue, found, netPc, msg, missed>>
    BY <1>10 DEF InsertFound
  <2>2. Underway(i) => Underway(i)'
    BY <2>1, SameUnderway DEF Handling
  <2>3. GoneExplained(i) /\ ThereKnown(i)
    BY <1>3, <2>1 DEF Serving
  <2>4. /\ i = adding["main"] => i \in Tracked' /\ InProbe(i)
        /\ i # adding["main"] => (i \in Tracked' <=> i \in Tracked) /\ (InProbe(i)' <=> InProbe(i))
        /\ InProbe(i)' => InProbe(i)
    BY <1>0, <2>1 DEF PushUnique, Tracked, InProbe, Threads
  <2>5. QED
    BY <2>1, <2>2, <2>3, <2>4 DEF GoneExplained, ThereKnown
<1>11. CASE Shutdown \/ Signal \/ RequestStop \/ Joined
  <2>1. mainPc' \in Stopping \cup {"done"}
    BY <1>11 DEF Shutdown, ReleaseManager, AgentDestroyedOn, Undisturbed, Signal,
      RequestStop, Joined
  <2>2. QED
    BY <2>1 DEF Serving
<1>12. CASE Receive
  <2>1. /\ Running /\ netPc = "idle" /\ Serving
        /\ UNCHANGED <<present, wiphy, entries, found, adding, mainPc>>
        /\ netPc = "idle" => ~Handling(i)
    BY <1>12 DEF Receive, Serving, Handling, HandlingAt
  <2>2. GoneExplained(i) /\ ThereKnown(i)
    BY <1>3, <2>1
  <2>3. missed \subseteq missed' /\ queue' = Tail(queue) /\ queue # <<>>
    BY <1>12 DEF Receive
  <2> DEFINE h == Head(queue)
  <2>4. i = h.interface => Settles(h, i) \/ Awaited(i)'
    BY <1>0, <1>1, <1>12, OrderUnderReceive
  <2>5. CASE i # h.interface
    <3>1. Awaited(i) => Awaited(i)'
      <4>1. queue \in Seq(Messages)
        BY <1>0 DEF TypeOK
      <4>2. /\ Len(queue) \in Nat /\ Len(queue') = Len(queue) - 1
            /\ h = queue[1]
            /\ \A k \in 1 .. Len(queue') : queue'[k] = queue[k + 1]
        BY <2>3, <4>1, Taken
      <4>3. SUFFICES ASSUME NEW k \in 1 .. Len(queue), Settles(queue[k], i)
                     PROVE  Awaited(i)'
        BY DEF Awaited
      <4>4. k # 1
        BY <2>5, <4>2, <4>3 DEF Settles
      <4>5. k - 1 \in 1 .. Len(queue') /\ queue'[k - 1] = queue[k]
        BY <4>2, <4>4
      <4>6. \E l \in 1 .. Len(queue') : Settles(queue'[l], i)
        BY <4>3, <4>5
      <4>7. QED
        BY <2>1, <4>6 DEF Awaited, Settles
    <3>2. Underway(i) => Underway(i)'
      BY <2>1, <3>1 DEF Underway
    <3>3. QED
      BY <1>4, <2>1, <2>2, <2>3, <3>2, SameTracking
  <2>6. CASE i = h.interface /\ Awaited(i)'
    BY <2>6 DEF GoneExplained, ThereKnown, Underway
  <2>7. CASE i = h.interface /\ Settles(h, i)
    <3>1. CASE wiphy[i] = h.wiphy
      <4>1. netPc' = "attributes" /\ msg' = h
        BY <1>12, <2>7, <3>1 DEF Receive
      <4>2. Underway(i)'
        BY <2>1, <2>7, <4>1 DEF Underway, Handling, HandlingAt, Settles
      <4>3. QED
        BY <4>2 DEF GoneExplained, ThereKnown
    <3>2. CASE wiphy[i] # h.wiphy
      <4>1. i \notin present /\ h.event = "Departed"
        BY <2>7, <3>2 DEF Settles
      <4>2. i \in missed'
        BY <1>12, <2>7, <3>2, <4>1 DEF Receive
      <4>3. QED
        BY <2>1, <4>1, <4>2 DEF GoneExplained, ThereKnown
    <3>3. QED
      BY <3>1, <3>2
  <2>8. QED
    BY <2>4, <2>5, <2>6, <2>7
<1>13. CASE AttributesDone \/ LockAgent \/ LockManager
  <2>1. /\ Running /\ netPc \in HandlingAt
        /\ UNCHANGED <<present, wiphy, queue, found, adding, msg, missed>>
             \/ (agentRefs = {} /\ LockAgent)
    BY <1>13 DEF AttributesDone, LockAgent, LockManager, HandlingAt
  <2>2. mainPc' = mainPc
    BY <1>13 DEF AttributesDone, LockAgent, LockManager, ReleaseManager,
      AgentDestroyedOn, Undisturbed
  <2>3. Serving
    BY <2>2 DEF Serving
  <2>4. /\ "main" \in mgrRefs /\ agentRefs # {}
        /\ ReleaseManager("netlink") => UNCHANGED <<entries, mainPc>>
    BY <1>2, <2>1, <2>3, ServingKeeps
  <2>5. entries' = entries /\ netPc' \in HandlingAt
    BY <1>13, <2>4 DEF AttributesDone, LockAgent, LockManager, HandlingAt
  <2>6. Underway(i) => Underway(i)'
    BY <2>1, <2>4, <2>5, SameUnderway DEF Handling
  <2>7. QED
    BY <1>3, <1>4, <2>1, <2>2, <2>3, <2>4, <2>5, <2>6, SameTracking DEF HandlingAt
<1>14. CASE AddArrived
  <2>1. /\ Running /\ netPc = "create" /\ Serving
        /\ UNCHANGED <<present, wiphy, queue, entries, found, mainPc, msg, missed>>
    BY <1>14 DEF AddArrived, Serving
  <2>2. /\ GoneExplained(i) /\ ThereKnown(i)
        /\ msg.event = "Arrived"
    BY <1>2, <1>3, <2>1 DEF PlaceInv
  <2>3. /\ InProbe(i)' <=> InProbe(i)
        /\ netPc' = "close" \/ msg.interface \in Unmanaged
    <3>1. msg.interface \in Interfaces /\ adding["netlink"] = NoInterface
      BY <1>2, <2>1 DEF PlaceInv, IInv, MsgInv, Between, Messages
    <3>2. \/ adding' = [adding EXCEPT !["netlink"] = msg.interface] /\ adding' # adding
          \/ adding' = adding /\ msg.interface \in Unmanaged
      BY <1>0, <1>14, <3>1 DEF AddArrived, CreateController, Threads
    <3>3. netPc' = IF adding' = adding THEN "releaseManager" ELSE "close"
      BY <1>14 DEF AddArrived
    <3>4. adding'["main"] = adding["main"]
      BY <1>0, <3>2 DEF Threads
    <3>5. QED
      BY <2>1, <3>2, <3>3, <3>4 DEF InProbe
  <2>4. CASE netPc' = "close" \/ i # msg.interface
    <3>1. Underway(i) => Underway(i)'
      BY <2>1, <2>4, SameUnderway DEF Handling, HandlingAt
    <3>2. QED
      BY <2>1, <2>2, <2>3, <3>1, SameTracking
  <2>5. CASE msg.interface \in Unmanaged /\ i = msg.interface
    <3>1. i \notin present => Awaited(i)'
      <4>1. Handling(i) /\ (i \notin present => ~Settles(msg, i))
        BY <2>1, <2>2, <2>5 DEF Handling, HandlingAt, Settles
      <4>2. QED
        BY <1>1, <2>1, <4>1, SameUnderway DEF Underway
    <3>2. QED
      BY <2>1, <2>5, <3>1 DEF GoneExplained, ThereKnown, Underway
  <2>6. QED
    BY <2>3, <2>4, <2>5
<1>15. CASE InsertArrived
  <2>1. /\ Running /\ netPc = "insert" /\ Serving
        /\ PushUnique(msg.interface)
        /\ adding' = [adding EXCEPT !["netlink"] = NoInterface]
        /\ UNCHANGED <<present, wiphy, queue, found, mainPc, msg, missed>>
    BY <1>15 DEF InsertArrived, Serving
  <2>2. /\ GoneExplained(i) /\ ThereKnown(i)
        /\ msg.event = "Arrived"
    BY <1>2, <1>3, <2>1 DEF PlaceInv
  <2>3. InProbe(i)' <=> InProbe(i)
    BY <1>0, <2>1 DEF InProbe, Threads
  <2>4. CASE i # msg.interface
    <3>1. Underway(i) => Underway(i)'
      BY <2>1, <2>4, SameUnderway DEF Handling
    <3>2. i \in Tracked' <=> i \in Tracked
      BY <1>0, <2>1, <2>4 DEF PushUnique, Tracked
    <3>3. QED
      BY <2>1, <2>2, <2>3, <3>1, <3>2 DEF GoneExplained, ThereKnown
  <2>5. CASE i = msg.interface
    <3>1. i \in Tracked'
      BY <1>0, <2>1, <2>5 DEF PushUnique, Tracked
    <3>2. i \notin present => Awaited(i)'
      <4>1. Handling(i) /\ (i \notin present => ~Settles(msg, i))
        BY <2>1, <2>2, <2>5 DEF Handling, HandlingAt, Settles
      <4>2. QED
        BY <1>1, <2>1, <4>1, SameUnderway DEF Underway
    <3>3. QED
      BY <2>1, <3>1, <3>2 DEF GoneExplained, ThereKnown, Underway
  <2>6. QED
    BY <2>4, <2>5
<1>16. CASE RemoveDeparted
  <2>1. /\ Running /\ netPc = "remove" /\ Serving
        /\ EraseFirst(msg.interface)
        /\ missed' = IF InProbe(msg.interface) THEN missed \cup {msg.interface} ELSE missed
        /\ UNCHANGED <<present, wiphy, queue, found, adding, mainPc, msg>>
    BY <1>16 DEF RemoveDeparted, Serving
  <2>2. /\ GoneExplained(i) /\ ThereKnown(i)
        /\ msg.event = "Departed"
    BY <1>2, <1>3, <2>1 DEF PlaceInv
  <2>3. CASE i # msg.interface
    <3>1. Underway(i) => Underway(i)'
      BY <2>1, <2>3, SameUnderway DEF Handling
    <3>2. i \in Tracked' <=> i \in Tracked
      BY <1>0, <2>1, <2>3 DEF EraseFirst, Tracked
    <3>3. QED
      BY <1>4, <2>1, <2>2, <3>1, <3>2 DEF GoneExplained, ThereKnown
  <2>4. CASE i = msg.interface
    <3>1. i \notin Tracked'
      BY <1>0, <1>1, <2>1, <2>4 DEF EraseFirst, Tracked, NoDuplicates
    <3>2. InProbe(i)' => i \in missed'
      BY <1>4, <2>1, <2>4
    <3>3. i \in present => Awaited(i)'
      <4>1. Handling(i) /\ (i \in present => ~Settles(msg, i))
        BY <2>1, <2>2, <2>4 DEF Handling, HandlingAt, Settles
      <4>2. QED
        BY <1>1, <2>1, <4>1, SameUnderway DEF Underway
    <3>4. QED
      BY <2>1, <3>1, <3>2, <3>3 DEF GoneExplained, ThereKnown, Underway
  <2>5. QED
    BY <2>3, <2>4
<1>17. CASE CallbackDone \/ AgentCallbackDone
  <2>1. /\ Running /\ netPc \in {"releaseManager", "releaseAgent"}
        /\ UNCHANGED <<present, wiphy, queue, found, adding, missed>>
        /\ ReleaseManager("netlink") \/ UNCHANGED entries
    BY <1>17 DEF CallbackDone, AgentCallbackDone
  <2>2. mainPc' = mainPc
    BY <1>17 DEF CallbackDone, AgentCallbackDone, ReleaseManager, ReleaseAgent,
      AgentDestroyedOn, Undisturbed
  <2>3. Serving
    BY <2>2 DEF Serving
  <2>4. entries' = entries
    BY <1>2, <2>1, <2>3, ServingKeeps
  <2>5. Underway(i) => Underway(i)'
    BY <2>1, SameUnderway DEF Handling, HandlingAt
  <2>6. QED
    BY <1>3, <1>4, <2>1, <2>2, <2>3, <2>4, <2>5, SameTracking
<1>20. CASE SetUp \/ CheckStop \/ NetlinkExit \/ NetlinkFails \/ WaitInterrupted
  <2>1. /\ Running /\ netPc \in {"starting", "check", "idle"}
        /\ UNCHANGED <<present, wiphy, entries, found, adding, mainPc, missed>>
        /\ netPc' # "exited" => queue' = queue
    BY <1>20 DEF SetUp, CheckStop, NetlinkExit, NetlinkFails, WaitInterrupted, LeaveThread
  <2>2. queue' = queue /\ Serving
    BY <2>1 DEF Serving
  <2>3. Underway(i) => Underway(i)'
    BY <2>1, <2>2, SameUnderway DEF Handling, HandlingAt
  <2>4. QED
    BY <1>3, <1>4, <2>1, <2>2, <2>3, SameTracking
<1>21. CASE CloseArrived \/ HostapdSpeaks
  <2>1. /\ Running
        /\ UNCHANGED <<present, wiphy, queue, entries, found, adding, msg, missed>>
        /\ \/ mainPc = "silent" /\ mainPc' = "insert" /\ netPc' = netPc
           \/ netPc \in {"close", "silent"} /\ netPc' \in {"insert", "silent"}
                /\ mainPc' = mainPc
    BY <1>21 DEF CloseArrived, HostapdSpeaks
  <2>2. Serving
    BY <2>1 DEF Serving
  <2>3. Underway(i) => Underway(i)'
    BY <2>1, SameUnderway DEF Handling, HandlingAt
  <2>4. QED
    BY <1>3, <1>4, <2>1, <2>2, <2>3, SameTracking
<1>18. CASE Kernel
  <2>1. /\ UNCHANGED <<mainPc, netPc, msg, entries, found, adding, missed, crashed>>
        /\ Running /\ Subscribed /\ Serving
    BY <1>18 DEF Kernel, InterfaceAdded, InterfaceRemoved, AdapterUnplugged, Serving
  <2>2. PICK c \in Interfaces : KernelStep(c)
    BY <1>0, <1>1, <1>18, KernelSteps
  <2>3. Awaited(c)' /\ \A j \in Interfaces \ {c} : Underway(j) => Underway(j)'
    BY <1>0, <1>18, <2>1, <2>2, UnderwayAfterChange
  <2>4. CASE i = c
    BY <2>3, <2>4 DEF GoneExplained, ThereKnown, Underway
  <2>5. CASE i # c
    <3>1. (i \in present' <=> i \in present) /\ (Underway(i) => Underway(i)')
      BY <2>2, <2>3, <2>5 DEF KernelStep
    <3>2. QED
      BY <1>3, <1>4, <2>1, <3>1 DEF GoneExplained, ThereKnown, Tracked
  <2>6. QED
    BY <2>4, <2>5
<1>19. QED
  BY <1>5, <1>6, <1>7, <1>8, <1>9, <1>10, <1>11, <1>12, <1>13, <1>14, <1>15,
     <1>16, <1>17, <1>18, <1>20, <1>21
  DEF Next, Main, NetlinkThread

-----------------------------------------------------------------------------
(* The messages in order, the places of the threads and the tracking, as one *)
(* invariant: each leans on the others.                                      *)
LEMMA Follows == Spec => [](FollowsInv /\ SelfJoinExplained)
<1>1. Init => FollowsInv /\ SelfJoinExplained
  <2> SUFFICES ASSUME Init PROVE FollowsInv /\ SelfJoinExplained
    OBVIOUS
  <2>1. NoDuplicates /\ Tracked = {} /\ present \subseteq Interfaces
    BY DEF Init, NoDuplicates, Tracked
  <2>2. OrderInv
    BY <2>1 DEF Init, OrderInv, Handling, HandlingAt
  <2>3. JoinInv /\ PlaceInv /\ TrackInv
    BY <2>1 DEF Init, JoinInv, PlaceInv, TrackInv, Threads
  <2>4. QED
    BY <2>1, <2>2, <2>3 DEF Init, FollowsInv, SelfJoinExplained
<1>2. IInv /\ FollowsInv /\ SelfJoinExplained /\ [Next]_vars =>
        (FollowsInv /\ SelfJoinExplained)'
  <2> SUFFICES ASSUME IInv, FollowsInv, SelfJoinExplained, [Next]_vars
               PROVE  (FollowsInv /\ SelfJoinExplained)'
    OBVIOUS
  <2>0. TypeOK /\ NoDuplicates /\ OrderInv /\ (Running => JoinInv /\ PlaceInv)
    BY DEF IInv, FollowsInv
  <2>1. NoDuplicates' /\ OrderInv'
    BY <2>0, NextNoDuplicates, OrderStep
  <2>2. (Running => JoinInv)' /\ SelfJoinExplained' /\ (Running => PlaceInv)'
    BY <2>0, JoinStep, PlaceStep
  <2>3. (Running => TrackInv)'
    <3>1. ASSUME Running', (Subscribed /\ Serving)', NEW i \in Interfaces
          PROVE  GoneExplained(i)' /\ ThereKnown(i)'
      BY <3>1, TrackStep
    <3>2. QED
      BY <3>1 DEF TrackInv
  <2>4. QED
    BY <2>1, <2>2, <2>3 DEF FollowsInv
<1>3. QED
  BY <1>1, <1>2, Invariant, PTL DEF Spec

(* The netlink thread joins itself only if main dropped the manager while    *)
(* the thread had it, or its agent: never while the server serves.           *)
THEOREM SelfJoinsExplained == Spec => []SelfJoinExplained
  BY Follows, PTL

\* With the queue empty and the thread between messages nothing is underway.
LEMMA NothingUnderway ==
    ASSUME Quiescent, NEW i \in Interfaces
    PROVE  ~Underway(i)
<1>1. netPc = "idle" /\ queue = <<>> /\ Len(queue) = 0
  BY DEF Quiescent
<1>2. 1 .. Len(queue) = {}
  BY <1>1
<1>3. ~Awaited(i)
  BY <1>2 DEF Awaited
<1>4. QED
  BY <1>1, <1>3 DEF Underway, Handling, HandlingAt

\* What FollowsInv says once there is nothing left to handle.
LEMMA WhenQuiescent ==
    ASSUME IInv, FollowsInv, Quiescent, NEW i \in Interfaces
    PROVE  /\ i \in Tracked \ present => i \in missed
           /\ i \in present \ Unmanaged => i \in Tracked
<1>1. /\ Running /\ mainPc = "serving" /\ netPc = "idle"
      /\ JoinInv /\ PlaceInv /\ TrackInv
  BY DEF Quiescent, FollowsInv
<1>2. GoneExplained(i) /\ ThereKnown(i) /\ ~Underway(i)
  BY <1>1, NothingUnderway DEF TrackInv, Serving
<1>3. ~InProbe(i)
  BY <1>1, DiscoveryAssumption DEF PlaceInv, InProbe, NoInterface
<1>4. QED
  BY <1>1, <1>2, <1>3 DEF GoneExplained, ThereKnown

(* A tracked access point whose interface is gone has its departure among    *)
(* those that found nothing to remove.                                       *)
THEOREM AllPhantomsExplained == Spec => []PhantomsExplained
<1>1. IInv /\ FollowsInv => PhantomsExplained
  BY WhenQuiescent DEF PhantomsExplained, Tracked
<1>2. QED
  BY <1>1, Invariant, Follows, PTL

(* With every message handled, a managed interface that is there is tracked: *)
(* none falls between the subscription and the probe.                        *)
THEOREM PresentTracked == Spec => []PresentIsTracked
<1>1. IInv /\ FollowsInv => PresentIsTracked
  <2>1. IInv => present \subseteq Interfaces
    BY DEF IInv, TypeOK
  <2>2. QED
    BY <2>1, WhenQuiescent DEF PresentIsTracked
<1>2. QED
  BY <1>1, Invariant, Follows, PTL
=============================================================================
