--------------------------- MODULE NetlinkListener ---------------------------
(***************************************************************************)
(* The netlink thread of AccessPointDiscoveryAgentOperationsNetlink: how    *)
(* Start, Stop and the destructor start it and get it to end, how its loop  *)
(* waits on the nl80211 socket and on an eventfd, and what a full socket    *)
(* buffer does.  One thread calls the operations (the class is not          *)
(* thread-safe), in any order; the listener thread, the kernel and the      *)
(* process's other users of file descriptors run beside it.                 *)
(*                                                                          *)
(* m_eventLoopStopFd is a plain int that both threads touch: a read gives   *)
(* the value before or after the other thread's write.  A message is its    *)
(* number; what a callback does with it is in AccessPointDiscovery.         *)
(***************************************************************************)
EXTENDS Integers, Sequences, FiniteSets

CONSTANTS
    Descriptors,    \* file descriptor numbers the process may still use
    BufferSize,     \* messages the socket's receive buffer holds
    MaxStarts,      \* bound: calls of Start
    MaxMessages     \* bound: messages the kernel multicasts

NoDescriptor == -1

ASSUME ListenerAssumption ==
    /\ Descriptors \subseteq Nat
    /\ BufferSize \in Nat \ {0}
    /\ MaxStarts \in Nat /\ MaxMessages \in Nat

VARIABLES
    caller,         \* where the calling thread is in the operations
    then,           \* what it does once the stop in progress is done
    copied,         \* the descriptor RequestNetlinkProcessingLoopStop has read
    skipped,        \* its latest call found no descriptor to signal
    starts,         \* calls of Start so far
    callback,       \* m_accessPointPresenceCallback: which Start's
    joinable,       \* m_netlinkMessageProcessingThread.joinable()
    stopToken,      \* request_stop() was called on the current thread
    stopFd,         \* m_eventLoopStopFd
    thread,         \* where the listener thread is
    ownFd,          \* its eventfd
    signalled,      \* the eventfd's counter is not 0
    stopRequested,  \* its loop has seen the eventfd
    ready,          \* events epoll_wait returned that it has still to handle
    queue,          \* messages in the socket
    overrun,        \* lost messages: "no", an error "pending", or "reported"
    sent,           \* messages multicast so far
    heard,          \* history: which callback got which message
    owner,          \* per descriptor: "free", "eventfd" or "other"
    stray,          \* history: a stop signal was written elsewhere
    loopFailed      \* history: epoll_wait failed

callerVars == <<caller, then, copied, skipped, starts>>
memberVars == <<callback, joinable, stopToken, stopFd>>
threadVars == <<thread, ownFd, stopRequested, ready>>
socketVars == <<queue, overrun, sent, heard>>
processVars == <<owner, signalled, stray>>
vars == <<callerVars, memberVars, threadVars, socketVars, processVars, loopFailed>>

Stopping == {"signal", "write", "request", "join"}
InLoop == {"check", "wait", "handle"}
HasEventFd == {"register", "save", "check", "wait", "handle", "close"}
Listening == {"setup", "register", "save", "check", "wait", "handle", "close", "clear"}

TypeOK ==
    /\ caller \in {"idle", "subscribe", "gone"} \cup Stopping
    /\ then \in {"return", "subscribe", "signal again", "destroy"}
    /\ copied \in Descriptors \cup {NoDescriptor} /\ skipped \in BOOLEAN
    /\ starts \in Nat /\ callback \in Nat
    /\ joinable \in BOOLEAN /\ stopToken \in BOOLEAN
    /\ stopFd \in Descriptors \cup {NoDescriptor}
    /\ thread \in {"none", "exited"} \cup Listening
    /\ ownFd \in Descriptors \cup {NoDescriptor}
    /\ signalled \in BOOLEAN /\ stopRequested \in BOOLEAN
    /\ ready \subseteq {"socket", "eventfd"}
    /\ queue \in Seq(Nat) /\ overrun \in {"no", "pending", "reported"}
    /\ sent \in Nat /\ heard \in Seq(Nat \X Nat)
    /\ owner \in [Descriptors -> {"free", "eventfd", "other"}]
    /\ stray \in BOOLEAN /\ loopFailed \in BOOLEAN

Init ==
    /\ caller = "idle" /\ then = "return"
    /\ copied = NoDescriptor /\ skipped = FALSE
    /\ starts = 0 /\ callback = 0
    /\ joinable = FALSE /\ stopToken = FALSE /\ stopFd = NoDescriptor
    /\ thread = "none" /\ ownFd = NoDescriptor /\ signalled = FALSE
    /\ stopRequested = FALSE /\ ready = {}
    /\ queue = <<>> /\ overrun = "no" /\ sent = 0 /\ heard = <<>>
    /\ owner = [d \in Descriptors |-> "free"]
    /\ stray = FALSE /\ loopFailed = FALSE

-----------------------------------------------------------------------------
(* The calling thread.                                                       *)

\* (mutant) Start does not stop the thread that already runs
StartOverRunning ==
    /\ caller = "idle" /\ starts < MaxStarts
    /\ starts' = starts + 1
    /\ then' = "subscribe" /\ caller' = "subscribe"
    /\ UNCHANGED <<copied, skipped, memberVars, threadVars, socketVars,
                   processVars, loopFailed>>

Start ==
    /\ caller = "idle" /\ starts < MaxStarts
    /\ starts' = starts + 1
    /\ then' = "subscribe"
    /\ caller' = IF joinable THEN "signal" ELSE "subscribe"
    /\ UNCHANGED <<copied, skipped, memberVars, threadVars, socketVars,
                   processVars, loopFailed>>

\* Stop without a thread returns at once.
Stop ==
    /\ caller = "idle" /\ joinable
    /\ then' = "return" /\ caller' = "signal"
    /\ UNCHANGED <<copied, skipped, starts, memberVars, threadVars, socketVars,
                   processVars, loopFailed>>

\* The destructor signals the loop, and then calls Stop, which signals again.
Destroy ==
    /\ caller = "idle"
    /\ then' = "signal again" /\ caller' = "signal"
    /\ UNCHANGED <<copied, skipped, starts, memberVars, threadVars, socketVars,
                   processVars, loopFailed>>

SignalDone ==
    IF then = "signal again"
      THEN /\ then' = "destroy"
           /\ caller' = IF joinable THEN "signal" ELSE "gone"
      ELSE /\ then' = then
           /\ caller' = "request"

ReadStopFd ==
    /\ caller = "signal"
    /\ skipped' = (stopFd = NoDescriptor)
    /\ \/ /\ stopFd = NoDescriptor
          /\ SignalDone
          /\ UNCHANGED copied
       \/ /\ stopFd # NoDescriptor
          /\ copied' = stopFd /\ caller' = "write"
          /\ UNCHANGED then
    /\ UNCHANGED <<starts, memberVars, threadVars, socketVars, processVars, loopFailed>>

\* The thread may have closed the eventfd since its number was read: the
\* write then fails, or reaches whatever was given that number.
WriteStopFd ==
    /\ caller = "write"
    /\ signalled' = (signalled \/ owner[copied] = "eventfd")
    /\ stray' = (stray \/ owner[copied] # "eventfd")
    /\ SignalDone
    /\ UNCHANGED <<copied, skipped, starts, memberVars, threadVars, socketVars,
                   owner, loopFailed>>

RequestStop ==
    /\ caller = "request" /\ caller' = "join"
    /\ stopToken' = TRUE
    /\ UNCHANGED <<then, copied, skipped, starts, callback, joinable, stopFd,
                   threadVars, socketVars, processVars, loopFailed>>

Join ==
    /\ caller = "join" /\ thread = "exited"
    /\ joinable' = FALSE /\ thread' = "none"
    /\ \/ then = "return" /\ caller' = "idle"
       \/ then = "subscribe" /\ caller' = "subscribe"
       \/ then = "destroy" /\ caller' = "gone"
    /\ UNCHANGED <<then, copied, skipped, starts, callback, stopToken, stopFd,
                   ownFd, stopRequested, ready, socketVars, processVars, loopFailed>>

\* Creating the socket or joining the multicast group throws.
SubscribeFails ==
    /\ caller = "subscribe" /\ caller' = "idle"
    /\ UNCHANGED <<then, copied, skipped, starts, memberVars, threadVars,
                   socketVars, processVars, loopFailed>>

\* Between the membership and the thread nothing reads the socket: the two
\* are one step.
Subscribe ==
    /\ caller = "subscribe" /\ caller' = "idle"
    /\ callback' = starts
    /\ joinable' = TRUE /\ stopToken' = FALSE
    /\ thread' = "setup" /\ stopRequested' = FALSE /\ ready' = {}
    /\ queue' = <<>> /\ overrun' = "no"
    /\ UNCHANGED <<then, copied, skipped, starts, stopFd, ownFd, sent, heard,
                   processVars, loopFailed>>

-----------------------------------------------------------------------------
(* The listener thread.  Leaving it drops the socket and what it holds.      *)

LeaveThread ==
    /\ thread' = "exited"
    /\ queue' = <<>> /\ overrun' = "no"

\* Descriptors are given out lowest first.
LowestFree(d) ==
    /\ owner[d] = "free"
    /\ \A e \in Descriptors : owner[e] = "free" => d <= e

\* Callback, non-blocking mode, epoll and the eventfd.
SetUp ==
    /\ thread = "setup"
    /\ \E d \in Descriptors :
         /\ LowestFree(d)
         /\ ownFd' = d
         /\ owner' = [owner EXCEPT ![d] = "eventfd"]
    /\ thread' = "register"
    /\ UNCHANGED <<callerVars, memberVars, stopRequested, ready, socketVars,
                   signalled, stray, loopFailed>>

SetUpFails ==
    /\ thread = "setup"
    /\ LeaveThread
    /\ UNCHANGED <<callerVars, memberVars, ownFd, stopRequested, ready, sent, heard,
                   processVars, loopFailed>>

Register ==
    /\ thread = "register" /\ thread' \in {"save", "close"}
    /\ UNCHANGED <<callerVars, memberVars, ownFd, stopRequested, ready, socketVars,
                   processVars, loopFailed>>

SaveStopFd ==
    /\ thread = "save" /\ thread' = "check"
    /\ stopFd' = ownFd
    /\ UNCHANGED <<callerVars, callback, joinable, stopToken, ownFd, stopRequested,
                   ready, socketVars, processVars, loopFailed>>

CheckStop ==
    /\ thread = "check"
    /\ thread' = IF stopToken \/ stopRequested THEN "close" ELSE "wait"
    /\ UNCHANGED <<callerVars, memberVars, ownFd, stopRequested, ready, socketVars,
                   processVars, loopFailed>>

\* (mutant) only the socket is registered with epoll
ReadyEventsSocketOnly ==
    {e \in {"socket"} : queue # <<>> \/ overrun = "pending"}

\* Level-triggered: the eventfd is never read, and stays ready.
ReadyEvents ==
    {e \in {"socket", "eventfd"} :
       \/ e = "socket" /\ (queue # <<>> \/ overrun = "pending")
       \/ e = "eventfd" /\ signalled}

Wait ==
    /\ thread = "wait" /\ ReadyEvents # {}
    /\ ready' = ReadyEvents /\ thread' = "handle"
    /\ UNCHANGED <<callerVars, memberVars, ownFd, stopRequested, socketVars,
                   processVars, loopFailed>>

WaitInterrupted ==
    /\ thread = "wait" /\ thread' = "check"
    /\ UNCHANGED <<callerVars, memberVars, ownFd, stopRequested, ready, socketVars,
                   processVars, loopFailed>>

WaitFails ==
    /\ thread = "wait" /\ thread' = "close"
    /\ loopFailed' = TRUE
    /\ UNCHANGED <<callerVars, memberVars, ownFd, stopRequested, ready, socketVars,
                   processVars>>

Handled(e) ==
    /\ thread = "handle" /\ e \in ready
    /\ ready' = ready \ {e}
    /\ thread' = IF ready = {e} THEN "check" ELSE "handle"

HandleEventFd ==
    /\ Handled("eventfd")
    /\ stopRequested' = TRUE
    /\ UNCHANGED <<callerVars, memberVars, ownFd, socketVars, processVars, loopFailed>>

\* The read after a loss fails with ENOBUFS; the messages before it stay.
HandleSocketError ==
    /\ Handled("socket")
    /\ overrun = "pending" /\ overrun' = "reported"
    /\ UNCHANGED <<callerVars, memberVars, ownFd, stopRequested, queue, sent, heard,
                   processVars, loopFailed>>

HandleSocketReady ==
    /\ Handled("socket")
    /\ overrun # "pending" /\ queue # <<>>
    /\ queue' = Tail(queue)
    /\ overrun' = IF Tail(queue) = <<>> THEN "no" ELSE overrun
    /\ heard' = Append(heard, <<callback, Head(queue)>>)
    /\ UNCHANGED <<callerVars, memberVars, ownFd, stopRequested, sent, processVars,
                   loopFailed>>

CloseStopFd ==
    /\ thread = "close" /\ thread' = "clear"
    /\ owner' = [owner EXCEPT ![ownFd] = "free"]
    /\ signalled' = FALSE
    /\ UNCHANGED <<callerVars, memberVars, ownFd, stopRequested, ready, socketVars,
                   stray, loopFailed>>

\* (mutant) the exit closes the eventfd and leaves its number in the member
ClearStopFdKept ==
    /\ thread = "clear"
    /\ LeaveThread
    /\ UNCHANGED <<callerVars, memberVars, ownFd, stopRequested, ready, sent, heard,
                   processVars, loopFailed>>

ClearStopFd ==
    /\ thread = "clear"
    /\ stopFd' = NoDescriptor
    /\ LeaveThread
    /\ UNCHANGED <<callerVars, callback, joinable, stopToken, ownFd, stopRequested,
                   ready, sent, heard, processVars, loopFailed>>

-----------------------------------------------------------------------------
(* The kernel and the rest of the process.                                   *)

\* A full buffer loses the message; after a loss every message is lost until
\* the socket has been drained.
Lossy == Len(queue) >= BufferSize \/ overrun # "no"

Multicast ==
    /\ sent < MaxMessages /\ sent' = sent + 1
    /\ \/ /\ thread \in Listening /\ ~Lossy
          /\ queue' = Append(queue, sent + 1)
          /\ UNCHANGED overrun
       \/ /\ thread \in Listening /\ Lossy
          /\ overrun' = IF overrun = "no" THEN "pending" ELSE overrun
          /\ UNCHANGED queue
       \/ /\ thread \notin Listening
          /\ UNCHANGED <<queue, overrun>>
    /\ UNCHANGED <<callerVars, memberVars, threadVars, heard, processVars, loopFailed>>

OpenOther ==
    /\ \E d \in Descriptors : LowestFree(d) /\ owner' = [owner EXCEPT ![d] = "other"]
    /\ UNCHANGED <<callerVars, memberVars, threadVars, socketVars, signalled, stray,
                   loopFailed>>

CloseOther ==
    /\ \E d \in Descriptors :
         owner[d] = "other" /\ owner' = [owner EXCEPT ![d] = "free"]
    /\ UNCHANGED <<callerVars, memberVars, threadVars, socketVars, signalled, stray,
                   loopFailed>>

-----------------------------------------------------------------------------
CallerStep == ReadStopFd \/ WriteStopFd \/ RequestStop \/ Join
              \/ SubscribeFails \/ Subscribe

ThreadStep == SetUp \/ SetUpFails \/ Register \/ SaveStopFd \/ CheckStop \/ Wait
              \/ HandleEventFd \/ HandleSocketError \/ HandleSocketReady
              \/ CloseStopFd \/ ClearStopFd

Next == Start \/ Stop \/ Destroy \/ CallerStep
        \/ ThreadStep \/ WaitInterrupted \/ WaitFails
        \/ Multicast \/ OpenOther \/ CloseOther

\* Both threads keep running: a call that has begun goes on, and so does the
\* loop.  Nothing is assumed of who calls, of messages, signals and errors.
Spec == Init /\ [][Next]_vars /\ WF_vars(CallerStep) /\ WF_vars(ThreadStep)

-----------------------------------------------------------------------------
(* Properties.                                                               *)

\* What the two threads hold about each other's state.
ThreadAndMember ==
    /\ joinable <=> thread # "none"
    /\ caller \in {"subscribe", "gone"} => ~joinable
    /\ caller \in {"request", "join"} => joinable
    /\ caller \in {"signal", "write"} => joinable \/ then = "signal again"
    /\ then = "signal again" => caller \in {"signal", "write"}
    /\ caller = "gone" => then = "destroy"
    /\ caller = "idle" => then \in {"return", "subscribe"}
    /\ caller = "subscribe" => then = "subscribe"
    /\ then = "destroy" => caller \in Stopping \cup {"gone"}
    /\ callback <= starts
    /\ then = "subscribe" /\ caller \in Stopping \cup {"subscribe"} => callback < starts
    /\ thread \in HasEventFd => ownFd \in Descriptors
    /\ \A d \in Descriptors : owner[d] = "eventfd" <=> thread \in HasEventFd /\ d = ownFd
    /\ stopFd # NoDescriptor =>
         stopFd = ownFd /\ thread \in InLoop \cup {"close", "clear"}
    /\ thread \in {"none", "setup", "clear", "exited"} => ~signalled
    /\ overrun # "no" => queue # <<>>
    /\ queue # <<>> => thread \in Listening

\* Nobody has asked a thread to stop before the first signal is written.
FirstSignal ==
    /\ thread # "none" /\ caller \in {"idle", "signal", "write", "request"}
         /\ then # "destroy" => ~stopToken
    /\ caller \in {"idle", "signal", "write"} /\ then # "destroy" =>
         ~signalled /\ (thread # "none" => ~stopRequested /\ "eventfd" \notin ready)
    /\ caller = "write" =>
         /\ copied = ownFd /\ copied \in Descriptors
         /\ thread \in InLoop \cup {"close", "clear", "exited"}
    /\ caller \in {"idle", "signal", "write"} /\ then # "destroy" /\ ~loopFailed
         /\ (caller = "write" \/ stopFd # NoDescriptor) => thread \in InLoop

\* A stop signal written to a descriptor that is no longer the listener's is
\* the second signal of the destructor, which calls Stop after signalling
\* itself, or follows a failed epoll_wait: Stop alone never writes to a
\* stranger's file.
StrayWritesExplained == stray => then = "destroy" \/ loopFailed

\* The member, the eventfd and the thread agree at every step, and only the
\* destructor's double signal can miss its target
\* (RequestNetlinkProcessingLoopStop against the loop's exit).
ListenerSafe == TypeOK /\ ThreadAndMember /\ FirstSignal /\ StrayWritesExplained

\* A Stop, or a Start that stops first, or the destructor, comes to its end;
\* it hangs only when it found no eventfd to signal because the thread had
\* not saved it, the thread had looked at the stop token before it was set,
\* and no message comes (Stop, and ProcessNetlinkMessagesThread up to its
\* first epoll_wait).
HangsInSilence ==
    /\ caller = "join" /\ skipped /\ ~signalled
    /\ thread = "wait" /\ queue = <<>>

StopGetsThrough ==
    (caller \in Stopping) ~> (caller \notin Stopping \/ HangsInSilence)

Listener == INSTANCE PresenceListener WITH
    state <- IF ~joinable THEN "off" ELSE IF thread = "exited" THEN "deaf" ELSE "on",
    session <- callback, pending <- queue

\* The threads implement the listener's contract: messages reach the callback
\* of the latest Start, in order and at most once, and none after Stop has
\* returned; only a backlog loses any (Start, Stop, HandleNetlinkSocketReady).
ImplementsListener == Listener!Contract
=============================================================================
