------------------------ MODULE WpaEventHandlerProofs ------------------------
(***************************************************************************)
(* Proofs about WpaEventHandler, for any number of callers, listeners,      *)
(* registrations and events.                                                *)
(***************************************************************************)
EXTENDS WpaEventHandler, TLAPS

USE DEF CanLockUnique, NextToken, EventFdStopRequestValue, ProxyToken,
        Joined, LeaveLoop, ThreadStep

\* Where the listener thread can be while its jthread is not joinable.
NotRunning == {"none", "exited"}

(* The thread exists only between StartListening and the join; a pinned      *)
(* listener means the thread is in the callback.                             *)
ThreadInv ==
    /\ pc[Owner] \in {"new", "registered"} => evPc = "none" /\ ~joinable
    /\ ~joinable => evPc \in NotRunning
    /\ pc[Owner] = "gone" => evPc \in NotRunning
    /\ calling # {} => evPc = "calling"

(* The thread's copy and its list of expired tokens agree with the registry  *)
(* on every token still registered; tokens are never handed out twice.       *)
RegistryInv ==
    /\ \A t \in DOMAIN snapshot \cap DOMAIN listeners : snapshot[t] = listeners[t]
    /\ \A t \in expired \cap DOMAIN listeners : listeners[t] \notin live

(* While the thread drains the socket it is on one of the two slots.         *)
SlotInv == evPc \in {"drain", "invoke", "calling", "erase"} => slot <= 2

(* The callers between the lock and the end of StopListening hold the gate.  *)
(* The eventfd is open while the thread runs; a thread that has attached     *)
(* leaves only on a stop request, and behind a request is a caller that has  *)
(* written the stop value and not left yet, or one that has joined.          *)
StopInv ==
    /\ readers = {c \in Callers : pc[c] \in {"stopWrite", "stopRequest", "stopJoin"}}
    /\ pc[Owner] \in {"new", "registered"} =>
           ~stopToken /\ ~stopSeen /\ efd = 0
    /\ pc[Owner] # "running" => \A c \in Stoppers : pc[c] \in {"idle", "gone"}
    /\ evPc \in {"none", "created", "setup"} => ~attached
    /\ evPc \notin {"none", "created", "reset", "exited"} => fdStop = "open"
    /\ attached /\ evPc \in {"closing", "reset", "exited"} => stopToken \/ stopSeen
    /\ stopToken \/ stopSeen \/ efd > 0 =>
           ~joinable \/ \E c \in Callers : pc[c] \in {"stopRequest", "stopJoin"}

IInv == TypeOK /\ SlotInv /\ ThreadInv /\ RegistryInv /\ StopInv

-----------------------------------------------------------------------------
(* The initial state, and every step, respect the types.                     *)
LEMMA InitTypeOK == Init => TypeOK
<1> SUFFICES ASSUME Init PROVE TypeOK
  OBVIOUS
<1> USE HandlerAssumption DEF Init, Callers
<1>1. IsRegistry(listeners) /\ IsRegistry(snapshot)
  BY DEF IsRegistry, EmptyRegistry
<1>2. slots \in [1 .. 2 -> Fds] /\ slot \in 1 .. 3
  BY DEF Fds
<1>3. tokenNext \in 0 .. MaxTokens /\ sent \in 0 .. MaxEvents
  OBVIOUS
<1>4. QED
  BY <1>1, <1>2, <1>3 DEF TypeOK

\* Every step of the owner, the callers, the clients and the thread respects the types.
LEMMA NextTypeOK == TypeOK /\ SlotInv /\ [Next]_vars => TypeOK'
<1> SUFFICES ASSUME TypeOK, SlotInv, [Next]_vars PROVE TypeOK'
  OBVIOUS
<1> USE HandlerAssumption DEF TypeOK, IsRegistry
<1>1. ASSUME UNCHANGED vars PROVE TypeOK'
  BY <1>1 DEF vars, callerVars, registryVars, fdVars, socketVars, loopVars,
              dispatchVars, threadVars
<1>2. CASE ClientRegister
  BY <1>2 DEF ClientRegister, RegisterEventListener, callerVars, fdVars,
              socketVars, loopVars, dispatchVars, threadVars
<1>3. CASE ClientUnregister
  BY <1>3 DEF ClientUnregister, UnregisterEventListener, Restrict, callerVars,
              fdVars, socketVars, loopVars, dispatchVars, threadVars
<1>4. CASE ListenerDropped
  BY <1>4 DEF ListenerDropped, callerVars, fdVars, socketVars, loopVars,
              dispatchVars, threadVars
<1>5. CASE HostapdRegister
  BY <1>5 DEF HostapdRegister, RegisterEventListener, Callers, fdVars,
              socketVars, loopVars, dispatchVars, threadVars
<1>6. CASE StartListening
  BY <1>6 DEF StartListening, Callers, registryVars, fdVars, socketVars,
              loopVars, dispatchVars
<1>7. CASE HostapdDestructor
  BY <1>7 DEF HostapdDestructor, UnregisterEventListener, Restrict, Callers,
              fdVars, socketVars, loopVars, dispatchVars, threadVars
<1>8. CASE \E c \in Stoppers : ClientStop(c)
  BY <1>8 DEF ClientStop, Callers, registryVars, fdVars, socketVars, loopVars,
              dispatchVars, threadVars
<1>9. ASSUME NEW c \in Callers, StopStep(c) PROVE TypeOK'
  <2> USE DEF registryVars, fdVars, socketVars, loopVars, dispatchVars,
              threadVars
  <2>1. CASE StopLock(c)
    BY <2>1 DEF StopLock
  <2>2. CASE StopWrite(c)
    BY <2>2 DEF StopWrite
  <2>3. CASE StopRequest(c)
    BY <2>3 DEF StopRequest
  <2>4. CASE StopNotJoinable(c)
    BY <2>4 DEF StopNotJoinable, StopDone
  <2>5. CASE StopJoin(c)
    BY <2>5 DEF StopJoin, StopDone
  <2>6. CASE StopJoinRefused(c)
    BY <2>6 DEF StopJoinRefused, StopDone
  <2>7. QED
    BY <1>9, <2>1, <2>2, <2>3, <2>4, <2>5, <2>6 DEF StopStep
<1> USE DEF callerVars, registryVars, fdVars, socketVars, loopVars,
            dispatchVars, threadVars
<1>10. CASE CreateEventFd
  BY <1>10 DEF CreateEventFd
<1>11. CASE CreateEventFdFails
  BY <1>11 DEF CreateEventFdFails
<1>12. CASE Attach
  BY <1>12 DEF Attach
<1>13. CASE AttachFails
  BY <1>13 DEF AttachFails
<1>14. CASE LoopCheck
  BY <1>14 DEF LoopCheck
<1>15. CASE EpollWait
  BY <1>15 DEF EpollWait, Ready, Fds
<1>16. CASE EpollInterrupted
  BY <1>16 DEF EpollInterrupted
<1>17. CASE HandleStopSlot
  <2>1. slot' \in 1 .. 3 /\ efd' \in Nat
    BY <1>17 DEF HandleStopSlot
  <2>2. stopSeen' \in BOOLEAN /\ evPc' \in {"slot", "check"}
    BY <1>17 DEF HandleStopSlot
  <2>3. QED
    BY <1>17, <2>1, <2>2 DEF HandleStopSlot
<1>18. CASE HandleWpaSlot
  BY <1>18 DEF HandleWpaSlot
<1>19. CASE SlotsDone
  BY <1>19 DEF SlotsDone
<1>20. CASE DrainDone
  BY <1>20 DEF DrainDone, SlotInv
<1>21. CASE ReceiveEvent
  BY <1>21 DEF ReceiveEvent
<1>22. CASE ReceiveUnparsable
  BY <1>22 DEF ReceiveUnparsable
<1>23. CASE InvokeListener
  BY <1>23 DEF InvokeListener, Restrict
<1>24. CASE CallbackReturns
  BY <1>24 DEF CallbackReturns
<1>25. CASE InvokeDone
  BY <1>25 DEF InvokeDone
<1>26. CASE EraseExpired
  BY <1>26 DEF EraseExpired, Restrict
<1>27. CASE CloseEventFd
  BY <1>27 DEF CloseEventFd
<1>28. CASE ResetEventFd
  BY <1>28 DEF ResetEventFd
<1>29. CASE HostapdEvent
  BY <1>29 DEF HostapdEvent
<1>30. QED
  BY <1>1, <1>2, <1>3, <1>4, <1>5, <1>6, <1>7, <1>8, <1>9, <1>10, <1>11, <1>12,
     <1>13, <1>14, <1>15, <1>16, <1>17, <1>18, <1>19, <1>20, <1>21, <1>22,
     <1>23, <1>24, <1>25, <1>26, <1>27, <1>28, <1>29
  DEF Next, ListenerThread

(* ThreadInv and RegistryInv are preserved by every step.                    *)
LEMMA NextInv == IInv /\ [Next]_vars => (SlotInv /\ ThreadInv /\ RegistryInv)'
<1> SUFFICES ASSUME IInv, [Next]_vars PROVE (SlotInv /\ ThreadInv /\ RegistryInv)'
  OBVIOUS
<1> USE HandlerAssumption DEF IInv, TypeOK, IsRegistry, SlotInv, ThreadInv,
        RegistryInv, NotRunning
<1>1. CASE UNCHANGED vars
  BY <1>1 DEF vars, callerVars, registryVars, fdVars, socketVars, loopVars,
              dispatchVars, threadVars
<1> USE DEF callerVars, registryVars, fdVars, socketVars, loopVars,
            dispatchVars, threadVars, Callers
<1>2. CASE ClientRegister
  BY <1>2 DEF ClientRegister, RegisterEventListener
<1>3. CASE ClientUnregister
  BY <1>3 DEF ClientUnregister, UnregisterEventListener, Restrict
<1>4. CASE ListenerDropped
  BY <1>4 DEF ListenerDropped
<1>5. CASE HostapdRegister
  BY <1>5 DEF HostapdRegister, RegisterEventListener
<1>6. CASE StartListening
  BY <1>6 DEF StartListening
<1>7. CASE HostapdDestructor
  BY <1>7 DEF HostapdDestructor, UnregisterEventListener, Restrict
<1>8. ASSUME NEW c \in Stoppers, ClientStop(c)
      PROVE (SlotInv /\ ThreadInv /\ RegistryInv)'
  BY <1>8 DEF ClientStop
<1>9. ASSUME NEW c \in Callers, StopStep(c)
      PROVE (SlotInv /\ ThreadInv /\ RegistryInv)'
  <2>1. CASE StopLock(c)
    BY <2>1 DEF StopLock
  <2>2. CASE StopWrite(c)
    BY <2>2 DEF StopWrite
  <2>3. CASE StopRequest(c)
    BY <2>3 DEF StopRequest
  <2>4. CASE StopNotJoinable(c)
    BY <2>4 DEF StopNotJoinable, StopDone
  <2>5. CASE StopJoin(c)
    BY <2>5 DEF StopJoin, StopDone
  <2>6. CASE StopJoinRefused(c)
    <3>1. c # Owner \/ ~joinable
      BY <2>6 DEF StopJoinRefused, StopInv
    <3> QED  BY <2>6, <3>1 DEF StopJoinRefused, StopDone
  <2>7. QED
    BY <1>9, <2>1, <2>2, <2>3, <2>4, <2>5, <2>6 DEF StopStep
<1>10. CASE CreateEventFd
  BY <1>10 DEF CreateEventFd
<1>11. CASE CreateEventFdFails
  BY <1>11 DEF CreateEventFdFails
<1>12. CASE Attach
  BY <1>12 DEF Attach
<1>13. CASE AttachFails
  BY <1>13 DEF AttachFails
<1>14. CASE LoopCheck
  BY <1>14 DEF LoopCheck
<1>15. CASE EpollWait
  BY <1>15 DEF EpollWait
<1>16. CASE EpollInterrupted
  BY <1>16 DEF EpollInterrupted
<1>17. CASE HandleStopSlot
  BY <1>17 DEF HandleStopSlot
<1>18. CASE HandleWpaSlot
  BY <1>18 DEF HandleWpaSlot
<1>19. CASE SlotsDone
  BY <1>19 DEF SlotsDone
<1>20. CASE DrainDone
  BY <1>20 DEF DrainDone
<1>21. CASE ReceiveEvent
  BY <1>21 DEF ReceiveEvent
<1>22. CASE ReceiveUnparsable
  BY <1>22 DEF ReceiveUnparsable
<1>23. CASE InvokeListener
  BY <1>23 DEF InvokeListener, Restrict
<1>24. CASE CallbackReturns
  BY <1>24 DEF CallbackReturns
<1>25. CASE InvokeDone
  BY <1>25 DEF InvokeDone
<1>26. CASE EraseExpired
  BY <1>26 DEF EraseExpired, Restrict
<1>27. CASE CloseEventFd
  BY <1>27 DEF CloseEventFd
<1>28. CASE ResetEventFd
  BY <1>28 DEF ResetEventFd
<1>29. CASE HostapdEvent
  BY <1>29 DEF HostapdEvent
<1>30. QED
  BY <1>1, <1>2, <1>3, <1>4, <1>5, <1>6, <1>7, <1>8, <1>9, <1>10, <1>11, <1>12,
     <1>13, <1>14, <1>15, <1>16, <1>17, <1>18, <1>19, <1>20, <1>21, <1>22,
     <1>23, <1>24, <1>25, <1>26, <1>27, <1>28, <1>29
  DEF Next, ListenerThread

(* Every step keeps StopInv.                                                 *)
LEMMA NextStopInv == IInv /\ [Next]_vars => StopInv'
<1> SUFFICES ASSUME IInv, [Next]_vars PROVE StopInv'
  OBVIOUS
<1> USE HandlerAssumption DEF IInv, TypeOK, StopInv, ThreadInv, NotRunning
<1>1. CASE UNCHANGED vars
  BY <1>1 DEF vars, callerVars, registryVars, fdVars, socketVars, loopVars,
              dispatchVars, threadVars
<1> USE DEF callerVars, registryVars, fdVars, socketVars, loopVars,
            dispatchVars, threadVars, Callers
<1>2. CASE ClientRegister \/ ClientUnregister \/ ListenerDropped
  BY <1>2 DEF ClientRegister, ClientUnregister, ListenerDropped
<1>3. CASE HostapdRegister
  BY <1>3 DEF HostapdRegister
<1>4. CASE StartListening
  BY <1>4 DEF StartListening
<1>5. CASE HostapdDestructor
  BY <1>5 DEF HostapdDestructor
<1>6. ASSUME NEW c \in Stoppers, ClientStop(c) PROVE StopInv'
  BY <1>6 DEF ClientStop
<1>7. ASSUME NEW c \in Callers, StopStep(c) PROVE StopInv'
  <2>1. CASE StopLock(c)
    BY <2>1 DEF StopLock
  <2>2. CASE StopWrite(c)
    BY <2>2 DEF StopWrite
  <2>3. CASE StopRequest(c)
    BY <2>3 DEF StopRequest
  <2>4. CASE StopNotJoinable(c)
    BY <2>4 DEF StopNotJoinable, StopDone
  <2>5. CASE StopJoin(c)
    BY <2>5 DEF StopJoin, StopDone
  <2>6. CASE StopJoinRefused(c)
    BY <2>6 DEF StopJoinRefused, StopDone
  <2>7. QED
    BY <1>7, <2>1, <2>2, <2>3, <2>4, <2>5, <2>6 DEF StopStep
<1>8. CASE CreateEventFd \/ CreateEventFdFails \/ Attach \/ AttachFails
  BY <1>8 DEF CreateEventFd, CreateEventFdFails, Attach, AttachFails
<1>9. CASE LoopCheck \/ EpollWait \/ EpollInterrupted
  BY <1>9 DEF LoopCheck, EpollWait, EpollInterrupted
<1>10. CASE HandleStopSlot
  BY <1>10 DEF HandleStopSlot
<1>11. CASE HandleWpaSlot \/ SlotsDone \/ DrainDone \/ ReceiveEvent \/ ReceiveUnparsable
  BY <1>11 DEF HandleWpaSlot, SlotsDone, DrainDone, ReceiveEvent, ReceiveUnparsable
<1>12. CASE InvokeListener \/ CallbackReturns \/ InvokeDone \/ EraseExpired
  <2>1. /\ evPc \in {"invoke", "calling", "erase"}
        /\ evPc' \in {"invoke", "calling", "drain", "erase"}
    BY <1>12 DEF InvokeListener, CallbackReturns, InvokeDone, EraseExpired
  <2>2. UNCHANGED <<callerVars, fdVars, loopVars>>
    BY <1>12 DEF InvokeListener, CallbackReturns, InvokeDone, EraseExpired
  <2>3. QED
    BY <2>1, <2>2
<1>13. CASE CloseEventFd \/ ResetEventFd
  BY <1>13 DEF CloseEventFd, ResetEventFd
<1>14. CASE HostapdEvent
  BY <1>14 DEF HostapdEvent
<1>15. QED
  BY <1>1, <1>2, <1>3, <1>4, <1>5, <1>6, <1>7, <1>8, <1>9, <1>10, <1>11, <1>12,
     <1>13, <1>14
  DEF Next, ListenerThread

-----------------------------------------------------------------------------
(* The inductive invariant holds in every reachable state.                   *)
THEOREM Invariant == Spec => []IInv
<1>1. Init => IInv
  BY InitTypeOK, HandlerAssumption
  DEF IInv, SlotInv, ThreadInv, RegistryInv, StopInv, Init, NotRunning, EmptyRegistry, Callers
<1>2. IInv /\ [Next]_vars => IInv'
  BY NextTypeOK, NextInv, NextStopInv DEF IInv
<1>3. QED
  BY <1>1, <1>2, PTL DEF Spec

(* Every reachable state has the declared types.                             *)
THEOREM TypeCorrect == Spec => []TypeOK
BY Invariant, PTL DEF IInv

(* The listener thread has ended before the Hostapd is gone: the destructors *)
(* join it first.                                                            *)
THEOREM ThreadJoined == Spec => []NoThreadAfterDestruction
<1>1. IInv => NoThreadAfterDestruction
  BY DEF IInv, ThreadInv, NotRunning, NoThreadAfterDestruction
<1>2. QED
  BY <1>1, Invariant, PTL

(* The thread's late erase of expired tokens never removes a registration    *)
(* whose listener is alive.                                                  *)
THEOREM ErasesOnlyDead == Spec => LiveRegistrationKept
<1>1. IInv /\ [Next]_vars =>
        [\A t \in DOMAIN listeners \ DOMAIN listeners' :
            evPc' # evPc => listeners[t] \notin live]_vars
  <2> SUFFICES ASSUME IInv, Next, evPc' # evPc,
                      NEW t \in DOMAIN listeners \ DOMAIN listeners'
               PROVE  listeners[t] \notin live
    BY DEF vars, registryVars, threadVars
  <2>1. EraseExpired
    <3> USE DEF callerVars, registryVars, fdVars, socketVars, loopVars,
                dispatchVars, threadVars
    <3>1. ~(ClientRegister \/ ClientUnregister \/ HostapdRegister \/ HostapdDestructor)
      BY DEF ClientRegister, ClientUnregister, HostapdRegister, HostapdDestructor
    <3>2. ~(ListenerDropped \/ StartListening \/ EpollInterrupted \/ HostapdEvent)
      BY DEF ListenerDropped, StartListening, EpollInterrupted, HostapdEvent
    <3>3. ASSUME NEW c \in Callers PROVE ~ClientStop(c) /\ ~StopStep(c)
      BY DEF ClientStop, StopStep, StopLock, StopWrite, StopRequest,
             StopNotJoinable, StopJoin, StopJoinRefused, StopDone
    <3>4. ~(\/ CreateEventFd \/ CreateEventFdFails \/ Attach \/ AttachFails
            \/ LoopCheck \/ EpollWait \/ HandleStopSlot \/ HandleWpaSlot)
      BY DEF CreateEventFd, CreateEventFdFails, Attach, AttachFails,
             LoopCheck, EpollWait, HandleStopSlot, HandleWpaSlot
    <3>5. ~(\/ SlotsDone \/ DrainDone \/ ReceiveEvent \/ ReceiveUnparsable
            \/ InvokeListener \/ CallbackReturns \/ InvokeDone
            \/ CloseEventFd \/ ResetEventFd)
      BY DEF SlotsDone, DrainDone, ReceiveEvent, ReceiveUnparsable,
             InvokeListener, CallbackReturns, InvokeDone, CloseEventFd, ResetEventFd
    <3>6. QED
      BY <3>1, <3>2, <3>3, <3>4, <3>5 DEF Next, ListenerThread, Callers
  <2>2. QED
    BY <2>1 DEF IInv, RegistryInv, EraseExpired, Restrict
<1>2. QED
  BY <1>1, Invariant, PTL DEF Spec, LiveRegistrationKept

(* A stop value is not written to a descriptor that the thread has closed    *)
(* since the caller saw it, unless callers of StopListening overlap.         *)
THEOREM StopWritesReach == Spec => StopWriteReachesThread
<1>1. ASSUME IInv, NEW c \in Callers, pc[c] = "stopWrite", attached,
             readers = {c}, joinable
      PROVE  fdStop = "open"
  <2>1. \A d \in Callers : pc[d] \notin {"stopRequest", "stopJoin"}
    BY <1>1 DEF IInv, StopInv
  <2>2. ~stopToken /\ ~stopSeen
    BY <1>1, <2>1 DEF IInv, StopInv
  <2>3. QED
    BY <1>1, <2>2 DEF IInv, StopInv
<1>2. IInv =>
        [\A c \in Callers :
            pc[c] = "stopWrite" /\ pc'[c] # "stopWrite" /\ attached =>
                fdStop = "open" \/ readers # {c} \/ ~joinable]_vars
  <2>1. IInv => joinable \in BOOLEAN
    BY DEF IInv, TypeOK
  <2>2. QED
    BY <1>1, <2>1
<1>3. QED
  BY <1>2, Invariant, PTL DEF StopWriteReachesThread
=============================================================================
