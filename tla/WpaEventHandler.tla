--------------------------- MODULE WpaEventHandler ---------------------------
(***************************************************************************)
(* The WPA event handler of one hostapd control interface, together with    *)
(* the Hostapd object that owns it: listener registration under a          *)
(* shared_mutex, the listener thread (epoll over an eventfd and the control *)
(* socket), the dispatch of events to weakly held listeners, and the stop   *)
(* protocol run by StopListening and by the destructors.                    *)
(*                                                                          *)
(* A critical section that neither blocks nor calls out is one action whose *)
(* guard is that the lock is available.  Only StopListening keeps the gate  *)
(* (shared) across a blocking call, so the gate is the set of its readers.  *)
(***************************************************************************)
EXTENDS Integers, FiniteSets, Functions

CONSTANTS
    Owner,         \* the thread that constructs and destroys the Hostapd
    Stoppers,      \* further threads that call StopListening, once each
    Proxy,         \* Hostapd's WpaEventListenerProxy
    Listeners,     \* every listener object, the proxy included
    MayExpire,     \* the listeners whose last reference may go while registered
    MaxTokens,     \* bound: how many registrations are made
    MaxEvents,     \* bound: how many events hostapd sends
    SetupMayFail   \* whether epoll_create1, eventfd or wpa_ctrl_attach may fail

ASSUME HandlerAssumption ==
    /\ Owner \notin Stoppers
    /\ Proxy \in Listeners
    /\ MayExpire \subseteq Listeners \ {Proxy}
    /\ MaxTokens \in Nat \ {0}
    /\ MaxEvents \in Nat
    /\ SetupMayFail \in BOOLEAN

Callers == Stoppers \cup {Owner}

\* The proxy is registered by the constructor, before anyone else can.
ProxyToken == 0

\* The two descriptors in the epoll set.
Fds == {"stop", "wpa"}
EventFdStopRequestValue == 1

VARIABLES
    pc,          \* per caller, where it is in the calls it makes
    readers,     \* the callers that hold m_eventListenerStateGate shared
    listeners,   \* m_eventListeners: token -> listener
    tokenNext,   \* m_eventListenerRegistrationTokenNext
    live,        \* listener objects that still have an owner
    joinable,    \* m_eventListenerThread.joinable()
    stopToken,   \* the jthread's stop state
    fdStop,      \* m_fdEventFdStop: -1, an open or a closed descriptor
    efd,         \* the eventfd counter
    evPc,        \* where the listener thread is
    attached,    \* the thread has attached to the event stream
    slots,       \* its epollEvents array (data.fd of each slot)
    slot,        \* the slot it handles
    stopSeen,    \* its local stopRequested
    pending,     \* events waiting in the control socket
    sent,        \* events hostapd has sent so far (bound)
    snapshot,    \* its copy of m_eventListeners still to be visited
    expired,     \* its eventListenerRegistrationTokensExpired
    calling      \* {l} while it holds a shared_ptr to listener l and calls it

callerVars == <<pc, readers, joinable, stopToken>>
registryVars == <<listeners, tokenNext, live>>
fdVars == <<fdStop, efd>>
socketVars == <<pending, sent>>
loopVars == <<attached, slots, slot, stopSeen>>
dispatchVars == <<snapshot, expired, calling>>
threadVars == <<evPc, loopVars, dispatchVars>>
vars == <<callerVars, registryVars, fdVars, socketVars, threadVars>>

\* A map from tokens handed out so far to listeners.
IsRegistry(f) ==
    /\ f \in [DOMAIN f -> Listeners]
    /\ DOMAIN f \subseteq 0 .. tokenNext - 1

TypeOK ==
    /\ pc \in [Callers -> {"new", "registered", "running", "idle", "stopping",
                           "stopWrite", "stopRequest", "stopJoin", "gone"}]
    /\ readers \subseteq Callers
    /\ tokenNext \in 0 .. MaxTokens
    /\ IsRegistry(listeners)
    /\ live \subseteq Listeners
    /\ joinable \in BOOLEAN /\ stopToken \in BOOLEAN
    /\ fdStop \in {"none", "open", "closed"}
    /\ efd \in Nat
    /\ evPc \in {"none", "created", "setup", "check", "wait", "slot", "drain",
                 "invoke", "calling", "erase", "closing", "reset", "exited"}
    /\ attached \in BOOLEAN /\ stopSeen \in BOOLEAN
    /\ slots \in [1 .. 2 -> Fds] /\ slot \in 1 .. 3
    /\ pending \in Nat /\ sent \in 0 .. MaxEvents
    /\ IsRegistry(snapshot)
    /\ expired \subseteq 0 .. tokenNext - 1
    /\ calling \subseteq Listeners

EmptyRegistry == [t \in {} |-> Proxy]

Init ==
    /\ pc = [c \in Callers |-> IF c = Owner THEN "new" ELSE "idle"]
    /\ readers = {}
    /\ listeners = EmptyRegistry /\ tokenNext = 0
    /\ live = Listeners
    /\ joinable = FALSE /\ stopToken = FALSE
    /\ fdStop = "none" /\ efd = 0
    /\ evPc = "none" /\ attached = FALSE
    /\ slots = [i \in 1 .. 2 |-> IF i = 1 THEN "stop" ELSE "wpa"]
    /\ slot = 1 /\ stopSeen = FALSE
    /\ pending = 0 /\ sent = 0
    /\ snapshot = EmptyRegistry /\ expired = {} /\ calling = {}

-----------------------------------------------------------------------------
(* The listener registry.                                                   *)

\* A unique_lock on the gate can be taken.
CanLockUnique == readers = {}

\* (mutant) tokens are handed out again once they are free
NextTokenReused ==
    CHOOSE t \in 0 .. MaxTokens :
        /\ t \notin DOMAIN listeners
        /\ \A u \in 0 .. t - 1 : u \in DOMAIN listeners

\* (mutant) ++tokenNext instead of tokenNext++, in the map only
NextTokenPreIncrement == tokenNext + 1

\* The token handed to the next registration.
NextToken == tokenNext

RegisterEventListener(l) ==
    /\ CanLockUnique
    /\ tokenNext < MaxTokens
    /\ listeners' = [t \in DOMAIN listeners \cup {NextToken} |->
                        IF t = NextToken THEN l ELSE listeners[t]]
    /\ tokenNext' = tokenNext + 1
    /\ UNCHANGED live

UnregisterEventListener(t) ==
    /\ CanLockUnique
    /\ listeners' = Restrict(listeners, DOMAIN listeners \ {t})
    /\ UNCHANGED <<tokenNext, live>>

\* A client of the handler registers a listener, or gives a token back.
ClientRegister ==
    /\ pc[Owner] = "running"
    /\ \E l \in live \ {Proxy} : RegisterEventListener(l)
    /\ UNCHANGED <<callerVars, fdVars, socketVars, threadVars>>

ClientUnregister ==
    /\ pc[Owner] = "running"
    /\ \E t \in (0 .. tokenNext - 1) \ {ProxyToken} : UnregisterEventListener(t)
    /\ UNCHANGED <<callerVars, fdVars, socketVars, threadVars>>

\* The last shared_ptr a client holds to a listener goes away.  The handler
\* only holds weak_ptrs, so nothing makes a client unregister first.
ListenerDropped ==
    /\ \E l \in live \ {Proxy} :
         /\ l \in MayExpire \/ \A t \in DOMAIN listeners : listeners[t] # l
         /\ live' = live \ {l}
    /\ UNCHANGED <<callerVars, listeners, tokenNext, fdVars, socketVars, threadVars>>

-----------------------------------------------------------------------------
(* The Hostapd object that owns the handler, and StopListening.             *)

HostapdRegister ==
    /\ pc[Owner] = "new"
    /\ RegisterEventListener(Proxy)
    /\ pc' = [pc EXCEPT ![Owner] = "registered"]
    /\ UNCHANGED <<readers, joinable, stopToken, fdVars, socketVars, threadVars>>

StartListening ==
    /\ pc[Owner] = "registered"
    /\ CanLockUnique
    /\ joinable' = TRUE /\ evPc' = "created"
    /\ pc' = [pc EXCEPT ![Owner] = "running"]
    /\ UNCHANGED <<readers, stopToken, registryVars, fdVars, socketVars,
                   loopVars, dispatchVars>>

\* ~Hostapd unregisters the proxy; its members are destroyed after that, the
\* handler (whose destructor calls StopListening) before the proxy.  The
\* handler has no other owner: nothing in the repository calls GetEventHandler,
\* which would hand out another reference.
HostapdDestructor ==
    /\ pc[Owner] = "running"
    /\ \A c \in Stoppers : pc[c] \in {"idle", "gone"}
    /\ UnregisterEventListener(ProxyToken)
    /\ pc' = [pc EXCEPT ![Owner] = "stopping"]
    /\ UNCHANGED <<readers, joinable, stopToken, fdVars, socketVars, threadVars>>

\* The gate is held shared, so that calls may overlap.
ClientStop(c) ==
    /\ pc[Owner] = "running" /\ pc[c] = "idle"
    /\ pc' = [pc EXCEPT ![c] = "stopping"]
    /\ UNCHANGED <<readers, joinable, stopToken, registryVars, fdVars,
                   socketVars, threadVars>>

\* (mutant) request_stop comes before the eventfd is signalled
StopLockRequestsFirst(c) ==
    /\ pc[c] = "stopping"
    /\ readers' = readers \cup {c}
    /\ stopToken' = joinable
    /\ pc' = [pc EXCEPT ![c] = IF fdStop = "none" THEN "stopRequest" ELSE "stopWrite"]
    /\ UNCHANGED <<joinable, registryVars, fdVars, socketVars, threadVars>>

\* StopListening takes the gate shared and tests m_fdEventFdStop.
StopLock(c) ==
    /\ pc[c] = "stopping"
    /\ readers' = readers \cup {c}
    /\ pc' = [pc EXCEPT ![c] = IF fdStop = "none" THEN "stopRequest" ELSE "stopWrite"]
    /\ UNCHANGED <<joinable, stopToken, registryVars, fdVars, socketVars, threadVars>>

\* It reads the member again for the write.  A closed or absent descriptor
\* makes the write fail, which is only logged.
StopWrite(c) ==
    /\ pc[c] = "stopWrite"
    /\ efd' = IF fdStop = "open" THEN efd + EventFdStopRequestValue ELSE efd
    /\ pc' = [pc EXCEPT ![c] = "stopRequest"]
    /\ UNCHANGED <<readers, joinable, stopToken, registryVars, fdStop,
                   socketVars, threadVars>>

\* The end of StopListening: the gate is released and the caller goes on.  The
\* owner's handler, then its proxy and the Hostapd, are destroyed.
StopDone(c) ==
    /\ readers' = readers \ {c}
    /\ pc' = [pc EXCEPT ![c] = "gone"]
    /\ live' = IF c = Owner THEN live \ {Proxy} ELSE live
    /\ UNCHANGED <<listeners, tokenNext, stopToken, fdVars, socketVars, threadVars>>

StopRequest(c) ==
    /\ pc[c] = "stopRequest"
    /\ joinable
    /\ stopToken' = TRUE
    /\ pc' = [pc EXCEPT ![c] = "stopJoin"]
    /\ UNCHANGED <<readers, joinable, registryVars, fdVars, socketVars, threadVars>>

StopNotJoinable(c) ==
    /\ pc[c] = "stopRequest"
    /\ ~joinable
    /\ joinable' = joinable
    /\ StopDone(c)

\* (mutant) the thread is asked to stop and detached, not joined
JoinedOnRequest == stopToken

\* join() returns once the thread has exited.
Joined == evPc = "exited"

StopJoin(c) ==
    /\ pc[c] = "stopJoin"
    /\ joinable /\ Joined
    /\ joinable' = FALSE
    /\ StopDone(c)

\* join() of a thread that another caller joins, or has joined since joinable()
\* was asked, throws out of StopListening.
StopJoinRefused(c) ==
    /\ pc[c] = "stopJoin"
    /\ ~joinable \/ \E d \in Callers \ {c} : pc[d] = "stopJoin"
    /\ joinable' = joinable
    /\ StopDone(c)

-----------------------------------------------------------------------------
(* The listener thread: ProcessEvents and ProcessNextEvent.                 *)

ThreadStep(from, to) == evPc = from /\ evPc' = to

CreateEventFd ==
    /\ ThreadStep("created", "setup")
    /\ fdStop' = "open" /\ efd' = 0
    /\ UNCHANGED <<callerVars, registryVars, socketVars, loopVars, dispatchVars>>

CreateEventFdFails ==
    /\ SetupMayFail
    /\ ThreadStep("created", "exited")
    /\ UNCHANGED <<callerVars, registryVars, fdVars, socketVars, loopVars, dispatchVars>>

Attach ==
    /\ ThreadStep("setup", "check")
    /\ attached' = TRUE
    /\ UNCHANGED <<callerVars, registryVars, fdVars, socketVars, slots, slot,
                   stopSeen, dispatchVars>>

AttachFails ==
    /\ SetupMayFail
    /\ ThreadStep("setup", "closing")
    /\ UNCHANGED <<callerVars, registryVars, fdVars, socketVars, loopVars, dispatchVars>>

\* (mutant) the stop value read from the eventfd is not remembered
LeaveOnTokenOnly == stopToken

\* The loop is left on either form of the stop request.
LeaveLoop == stopToken \/ stopSeen

\* The top of the loop: leave on a stop request, wait for events otherwise.
LoopCheck ==
    /\ evPc = "check"
    /\ evPc' = IF LeaveLoop THEN "closing" ELSE "wait"
    /\ UNCHANGED <<callerVars, registryVars, fdVars, socketVars, loopVars, dispatchVars>>

Ready == {f \in Fds : \/ f = "stop" /\ efd > 0
                      \/ f = "wpa" /\ pending > 0}

\* epoll_wait overwrites the first numEvents slots, in either order; the loop
\* then visits both slots, so the second one may be left from an earlier wait.
EpollWait ==
    /\ ThreadStep("wait", "slot")
    /\ slot' = 1
    /\ \/ \E f \in Ready : Ready = {f} /\ slots' = [slots EXCEPT ![1] = f]
       \/ Ready = Fds /\ slots' \in {s \in [1 .. 2 -> Fds] : s[1] # s[2]}
    /\ UNCHANGED <<callerVars, registryVars, fdVars, socketVars, attached,
                   stopSeen, dispatchVars>>

EpollInterrupted ==
    /\ ThreadStep("wait", "check")
    /\ UNCHANGED <<callerVars, registryVars, fdVars, socketVars, loopVars, dispatchVars>>

\* The eventfd is blocking: read waits for a non-zero counter, returns it and
\* resets it.  Only the exact stop value ends the loop.
HandleStopSlot ==
    /\ evPc = "slot" /\ slot <= 2 /\ slots[slot] = "stop"
    /\ efd > 0
    /\ efd' = 0
    /\ IF efd = EventFdStopRequestValue
         THEN stopSeen' = TRUE /\ evPc' = "check" /\ UNCHANGED slot
         ELSE slot' = slot + 1 /\ UNCHANGED <<stopSeen, evPc>>
    /\ UNCHANGED <<callerVars, registryVars, fdStop, socketVars, attached,
                   slots, dispatchVars>>

HandleWpaSlot ==
    /\ slot <= 2 /\ slots[slot] = "wpa"
    /\ ThreadStep("slot", "drain")
    /\ UNCHANGED <<callerVars, registryVars, fdVars, socketVars, loopVars, dispatchVars>>

SlotsDone ==
    /\ slot > 2
    /\ ThreadStep("slot", "check")
    /\ UNCHANGED <<callerVars, registryVars, fdVars, socketVars, loopVars, dispatchVars>>

\* wpa_ctrl_pending says no.
DrainDone ==
    /\ ThreadStep("drain", "slot")
    /\ pending = 0
    /\ slot' = slot + 1
    /\ UNCHANGED <<callerVars, registryVars, fdVars, socketVars, attached,
                   slots, stopSeen, dispatchVars>>

\* ProcessNextEvent: receive an event and copy the listeners, under the gate
\* held shared; a payload that does not parse is dropped.
ReceiveEvent ==
    /\ ThreadStep("drain", "invoke")
    /\ pending > 0 /\ pending' = pending - 1
    /\ snapshot' = listeners
    /\ UNCHANGED <<callerVars, registryVars, fdVars, sent, loopVars, expired, calling>>

\* The payload is no event.  A wpa_ctrl_recv that fails returns earlier and
\* leaves everything as it was: a stuttering step.
ReceiveUnparsable ==
    /\ ThreadStep("drain", "drain")
    /\ pending > 0 /\ pending' = pending - 1
    /\ UNCHANGED <<callerVars, registryVars, fdVars, sent, loopVars, dispatchVars>>

\* weak_ptr::lock on the next listener of the copy: call it, or note it expired.
InvokeListener ==
    /\ evPc = "invoke"
    /\ \E t \in DOMAIN snapshot :
         /\ snapshot' = Restrict(snapshot, DOMAIN snapshot \ {t})
         /\ \/ /\ snapshot[t] \in live
               /\ calling' = {snapshot[t]} /\ evPc' = "calling"
               /\ UNCHANGED expired
            \/ /\ snapshot[t] \notin live
               /\ expired' = expired \cup {t}
               /\ UNCHANGED <<calling, evPc>>
    /\ UNCHANGED <<callerVars, registryVars, fdVars, socketVars, loopVars>>

CallbackReturns ==
    /\ ThreadStep("calling", "invoke")
    /\ calling' = {}
    /\ UNCHANGED <<callerVars, registryVars, fdVars, socketVars, loopVars,
                   snapshot, expired>>

InvokeDone ==
    /\ evPc = "invoke" /\ DOMAIN snapshot = {}
    /\ evPc' = IF expired = {} THEN "drain" ELSE "erase"
    /\ UNCHANGED <<callerVars, registryVars, fdVars, socketVars, loopVars, dispatchVars>>

\* The expired tokens are erased under a unique_lock.
EraseExpired ==
    /\ ThreadStep("erase", "drain")
    /\ CanLockUnique
    /\ listeners' = Restrict(listeners, DOMAIN listeners \ expired)
    /\ expired' = {}
    /\ UNCHANGED <<callerVars, tokenNext, live, fdVars, socketVars, loopVars,
                   snapshot, calling>>

\* The scope guards: close the eventfd, then reset the member.
CloseEventFd ==
    /\ ThreadStep("closing", "reset")
    /\ fdStop' = "closed"
    /\ UNCHANGED <<callerVars, registryVars, efd, socketVars, loopVars, dispatchVars>>

ResetEventFd ==
    /\ ThreadStep("reset", "exited")
    /\ fdStop' = "none"
    /\ UNCHANGED <<callerVars, registryVars, efd, socketVars, loopVars, dispatchVars>>

-----------------------------------------------------------------------------
\* hostapd sends an event to an attached monitor.
HostapdEvent ==
    /\ attached /\ evPc # "exited"
    /\ sent < MaxEvents
    /\ sent' = sent + 1 /\ pending' = pending + 1
    /\ UNCHANGED <<callerVars, registryVars, fdVars, threadVars>>

StopStep(c) ==
    \/ StopLock(c) \/ StopWrite(c) \/ StopRequest(c)
    \/ StopNotJoinable(c) \/ StopJoin(c) \/ StopJoinRefused(c)

ListenerThread ==
    \/ CreateEventFd \/ CreateEventFdFails \/ Attach \/ AttachFails
    \/ LoopCheck \/ EpollWait
    \/ HandleStopSlot \/ HandleWpaSlot \/ SlotsDone \/ DrainDone
    \/ ReceiveEvent \/ ReceiveUnparsable
    \/ InvokeListener \/ CallbackReturns \/ InvokeDone \/ EraseExpired
    \/ CloseEventFd \/ ResetEventFd

Next ==
    \/ ClientRegister \/ ClientUnregister \/ ListenerDropped
    \/ HostapdRegister \/ StartListening \/ HostapdDestructor
    \/ \E c \in Stoppers : ClientStop(c)
    \/ \E c \in Callers : StopStep(c)
    \/ ListenerThread \/ EpollInterrupted
    \/ HostapdEvent

Spec == Init /\ [][Next]_vars

\* The threads that run StopListening and the listener thread are scheduled;
\* clients, hostapd and signals owe nothing.
FairSpec ==
    /\ Spec
    /\ WF_vars(ListenerThread)
    /\ \A c \in Callers : WF_vars(StopStep(c))

-----------------------------------------------------------------------------
(* Properties.                                                              *)

(* ~WpaEventHandler has joined the listener thread before the handler, the  *)
(* proxy and the Hostapd behind the proxy go: the thread runs no code on    *)
(* behalf of an object that is gone.                                        *)
NoThreadAfterDestruction ==
    pc[Owner] = "gone" => evPc \in {"none", "exited"}

(* The listener thread only removes registrations whose listener is dead:    *)
(* the late erase of tokens the thread noted without the lock never hits a   *)
(* registration made in between.                                             *)
LiveRegistrationKept ==
    [][\A t \in DOMAIN listeners \ DOMAIN listeners' :
          evPc' # evPc => listeners[t] \notin live]_vars

(* The stop value StopListening writes reaches the thread's eventfd: once    *)
(* the thread has got past its setup, a caller that saw a descriptor never   *)
(* writes to one the thread has closed meanwhile, unless another caller is   *)
(* stopping the thread too, or has stopped it since.                         *)
StopWriteReachesThread ==
    [][\A c \in Callers :
          pc[c] = "stopWrite" /\ pc'[c] # "stopWrite" /\ attached =>
              fdStop = "open" \/ readers # {c} \/ ~joinable]_vars

(* A stop whose value is in the eventfd ends: the listener thread leaves its *)
(* loop, StopListening joins it and the destructor returns.  The only other  *)
(* end is the deadlock on the gate with a thread that has an expired         *)
(* listener to erase.                                                        *)
SignalledStopReturns ==
    (pc[Owner] = "stopRequest" /\ efd = 1) ~>
        (pc[Owner] = "gone" \/ (evPc = "erase" /\ expired # {}))

(* StopListening stops the thread and returns, whenever it is called.        *)
StopListeningReturns ==
    (pc[Owner] = "stopping") ~> (pc[Owner] = "gone")
=============================================================================
