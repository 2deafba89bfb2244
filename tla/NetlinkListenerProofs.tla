------------------------ MODULE NetlinkListenerProofs ------------------------
(***************************************************************************)
(* For any descriptors, any buffer and any calls: the listener's threads,   *)
(* its eventfd and its member agree, a stop signal goes astray only in the  *)
(* two ways StrayWritesExplained names, and the threads implement the       *)
(* listener's contract.  ListenerSafe is inductive as it stands:            *)
(* ThreadAndMember says whose descriptor a number is, and FirstSignal that  *)
(* no thread leaves its loop before the first signal is written, which is   *)
(* why only a second signal can miss.                                       *)
(***************************************************************************)
EXTENDS NetlinkListener, TLAPS

USE DEF NoDescriptor

-----------------------------------------------------------------------------
(* Types.  The descriptor table is a function, and has a lemma of its own.   *)

Table == [Descriptors -> {"free", "eventfd", "other"}]

\* Where the threads are.
Places ==
    /\ caller \in {"idle", "subscribe", "gone"} \cup Stopping
    /\ then \in {"return", "subscribe", "signal again", "destroy"}
    /\ thread \in {"none", "exited"} \cup Listening
    /\ ready \subseteq {"socket", "eventfd"}
    /\ overrun \in {"no", "pending", "reported"}

\* Descriptors, numbers and flags.
Values ==
    /\ copied \in Descriptors \cup {NoDescriptor} /\ skipped \in BOOLEAN
    /\ stopFd \in Descriptors \cup {NoDescriptor}
    /\ ownFd \in Descriptors \cup {NoDescriptor}
    /\ starts \in Nat /\ callback \in Nat /\ sent \in Nat
    /\ joinable \in BOOLEAN /\ stopToken \in BOOLEAN
    /\ signalled \in BOOLEAN /\ stopRequested \in BOOLEAN
    /\ stray \in BOOLEAN /\ loopFailed \in BOOLEAN

Histories == queue \in Seq(Nat) /\ heard \in Seq(Nat \X Nat)

(* The types in four parts, each small enough for the solver. *)
LEMMA TypeParts == TypeOK <=> Places /\ Values /\ Histories /\ owner \in Table
BY DEF TypeOK, Places, Values, Histories, Table

(* A step changes at most one entry of the descriptor table.                 *)
LEMMA TableStep == ASSUME owner \in Table, [Next]_vars PROVE owner' \in Table
<1>1. \/ owner' = owner
      \/ \E d \in Descriptors : owner' = [owner EXCEPT ![d] = "eventfd"]
      \/ \E d \in Descriptors : owner' = [owner EXCEPT ![d] = "other"]
      \/ \E d \in Descriptors : owner' = [owner EXCEPT ![d] = "free"]
      \/ owner' = [owner EXCEPT ![ownFd] = "free"]
  <2> USE DEF callerVars, memberVars, threadVars, socketVars, processVars
  <2>1. CASE Start BY <2>1 DEF Start
  <2>2. CASE Stop BY <2>2 DEF Stop
  <2>3. CASE Destroy BY <2>3 DEF Destroy
  <2>4. CASE ReadStopFd BY <2>4 DEF ReadStopFd, SignalDone
  <2>5. CASE WriteStopFd BY <2>5 DEF WriteStopFd, SignalDone
  <2>6. CASE RequestStop BY <2>6 DEF RequestStop
  <2>7. CASE Join BY <2>7 DEF Join
  <2>8. CASE SubscribeFails BY <2>8 DEF SubscribeFails
  <2>9. CASE Subscribe BY <2>9 DEF Subscribe
  <2>10. CASE SetUp BY <2>10 DEF SetUp
  <2>11. CASE SetUpFails BY <2>11 DEF SetUpFails, LeaveThread
  <2>12. CASE Register BY <2>12 DEF Register
  <2>13. CASE SaveStopFd BY <2>13 DEF SaveStopFd
  <2>14. CASE CheckStop BY <2>14 DEF CheckStop
  <2>15. CASE Wait BY <2>15 DEF Wait, ReadyEvents
  <2>16. CASE HandleEventFd BY <2>16 DEF HandleEventFd, Handled
  <2>17. CASE HandleSocketError BY <2>17 DEF HandleSocketError, Handled
  <2>18. CASE HandleSocketReady BY <2>18 DEF HandleSocketReady, Handled
  <2>19. CASE CloseStopFd BY <2>19 DEF CloseStopFd
  <2>20. CASE ClearStopFd BY <2>20 DEF ClearStopFd, LeaveThread
  <2>21. CASE WaitInterrupted BY <2>21 DEF WaitInterrupted
  <2>22. CASE WaitFails BY <2>22 DEF WaitFails
  <2>23. CASE Multicast BY <2>23 DEF Multicast, Lossy
  <2>24. CASE OpenOther BY <2>24 DEF OpenOther, LowestFree
  <2>25. CASE CloseOther BY <2>25 DEF CloseOther
  <2>26. CASE UNCHANGED vars BY <2>26 DEF vars
  <2> QED BY <2>1, <2>2, <2>3, <2>4, <2>5, <2>6, <2>7, <2>8, <2>9, <2>10, <2>11,
             <2>12, <2>13, <2>14, <2>15, <2>16, <2>17, <2>18, <2>19, <2>20,
             <2>21, <2>22, <2>23, <2>24, <2>25, <2>26 DEF Next, CallerStep,
             ThreadStep
<1>2. QED
  BY <1>1 DEF Table

(* No step takes a thread to a place that is not one. *)
LEMMA PlacesStep ==
    ASSUME Places, [Next]_vars PROVE Places'
<1> USE DEF Places, Stopping, Listening, callerVars, memberVars, threadVars, socketVars, processVars
<1>1. CASE Start BY <1>1 DEF Start
<1>2. CASE Stop BY <1>2 DEF Stop
<1>3. CASE Destroy BY <1>3 DEF Destroy
<1>4. CASE ReadStopFd BY <1>4 DEF ReadStopFd, SignalDone
<1>5. CASE WriteStopFd BY <1>5 DEF WriteStopFd, SignalDone
<1>6. CASE RequestStop BY <1>6 DEF RequestStop
<1>7. CASE Join BY <1>7 DEF Join
<1>8. CASE SubscribeFails BY <1>8 DEF SubscribeFails
<1>9. CASE Subscribe BY <1>9 DEF Subscribe
<1>10. CASE SetUp BY <1>10 DEF SetUp
<1>11. CASE SetUpFails BY <1>11 DEF SetUpFails, LeaveThread
<1>12. CASE Register BY <1>12 DEF Register
<1>13. CASE SaveStopFd BY <1>13 DEF SaveStopFd
<1>14. CASE CheckStop BY <1>14 DEF CheckStop
<1>15. CASE Wait BY <1>15 DEF Wait, ReadyEvents
<1>16. CASE HandleEventFd BY <1>16 DEF HandleEventFd, Handled
<1>17. CASE HandleSocketError BY <1>17 DEF HandleSocketError, Handled
<1>18. CASE HandleSocketReady BY <1>18 DEF HandleSocketReady, Handled
<1>19. CASE CloseStopFd BY <1>19 DEF CloseStopFd
<1>20. CASE ClearStopFd BY <1>20 DEF ClearStopFd, LeaveThread
<1>21. CASE WaitInterrupted BY <1>21 DEF WaitInterrupted
<1>22. CASE WaitFails BY <1>22 DEF WaitFails
<1>23. CASE Multicast BY <1>23 DEF Multicast, Lossy
<1>24. CASE OpenOther BY <1>24 DEF OpenOther, LowestFree
<1>25. CASE CloseOther BY <1>25 DEF CloseOther
<1>26. CASE UNCHANGED vars BY <1>26 DEF vars
<1> QED BY <1>1, <1>2, <1>3, <1>4, <1>5, <1>6, <1>7, <1>8, <1>9, <1>10, <1>11,
           <1>12, <1>13, <1>14, <1>15, <1>16, <1>17, <1>18, <1>19, <1>20,
           <1>21, <1>22, <1>23, <1>24, <1>25, <1>26 DEF Next, CallerStep,
           ThreadStep

(* Descriptors stay descriptors, counters numbers and flags flags. *)
LEMMA ValuesStep ==
    ASSUME Values, Places, [Next]_vars PROVE Values'
<1> USE DEF Values, callerVars, memberVars, threadVars, socketVars, processVars
<1>1. CASE Start BY <1>1 DEF Start
<1>2. CASE Stop BY <1>2 DEF Stop
<1>3. CASE Destroy BY <1>3 DEF Destroy
<1>4. CASE ReadStopFd BY <1>4 DEF ReadStopFd, SignalDone
<1>5. CASE WriteStopFd BY <1>5 DEF WriteStopFd, SignalDone
<1>6. CASE RequestStop BY <1>6 DEF RequestStop
<1>7. CASE Join BY <1>7 DEF Join
<1>8. CASE SubscribeFails BY <1>8 DEF SubscribeFails
<1>9. CASE Subscribe BY <1>9 DEF Subscribe
<1>10. CASE SetUp BY <1>10 DEF SetUp
<1>11. CASE SetUpFails BY <1>11 DEF SetUpFails, LeaveThread
<1>12. CASE Register BY <1>12 DEF Register
<1>13. CASE SaveStopFd BY <1>13 DEF SaveStopFd
<1>14. CASE CheckStop BY <1>14 DEF CheckStop
<1>15. CASE Wait BY <1>15 DEF Wait, ReadyEvents
<1>16. CASE HandleEventFd BY <1>16 DEF HandleEventFd, Handled
<1>17. CASE HandleSocketError BY <1>17 DEF HandleSocketError, Handled
<1>18. CASE HandleSocketReady BY <1>18 DEF HandleSocketReady, Handled
<1>19. CASE CloseStopFd BY <1>19 DEF CloseStopFd
<1>20. CASE ClearStopFd BY <1>20 DEF ClearStopFd, LeaveThread
<1>21. CASE WaitInterrupted BY <1>21 DEF WaitInterrupted
<1>22. CASE WaitFails BY <1>22 DEF WaitFails
<1>23. CASE Multicast BY <1>23 DEF Multicast, Lossy
<1>24. CASE OpenOther BY <1>24 DEF OpenOther, LowestFree
<1>25. CASE CloseOther BY <1>25 DEF CloseOther
<1>26. CASE UNCHANGED vars BY <1>26 DEF vars
<1> QED BY <1>1, <1>2, <1>3, <1>4, <1>5, <1>6, <1>7, <1>8, <1>9, <1>10, <1>11,
           <1>12, <1>13, <1>14, <1>15, <1>16, <1>17, <1>18, <1>19, <1>20,
           <1>21, <1>22, <1>23, <1>24, <1>25, <1>26 DEF Next, CallerStep,
           ThreadStep

(* The socket's queue and what was heard stay sequences. *)
LEMMA HistoryStep ==
    ASSUME Values, Histories, [Next]_vars PROVE Histories'
<1> USE DEF Histories, callerVars, memberVars, threadVars, socketVars, processVars
<1>1. CASE Start BY <1>1 DEF Start
<1>2. CASE Stop BY <1>2 DEF Stop
<1>3. CASE Destroy BY <1>3 DEF Destroy
<1>4. CASE ReadStopFd BY <1>4 DEF ReadStopFd, SignalDone
<1>5. CASE WriteStopFd BY <1>5 DEF WriteStopFd, SignalDone
<1>6. CASE RequestStop BY <1>6 DEF RequestStop
<1>7. CASE Join BY <1>7 DEF Join
<1>8. CASE SubscribeFails BY <1>8 DEF SubscribeFails
<1>9. CASE Subscribe BY <1>9 DEF Subscribe
<1>10. CASE SetUp BY <1>10 DEF SetUp
<1>11. CASE SetUpFails BY <1>11 DEF SetUpFails, LeaveThread
<1>12. CASE Register BY <1>12 DEF Register
<1>13. CASE SaveStopFd BY <1>13 DEF SaveStopFd
<1>14. CASE CheckStop BY <1>14 DEF CheckStop
<1>15. CASE Wait BY <1>15 DEF Wait, ReadyEvents
<1>16. CASE HandleEventFd BY <1>16 DEF HandleEventFd, Handled
<1>17. CASE HandleSocketError BY <1>17 DEF HandleSocketError, Handled
<1>18. CASE HandleSocketReady
  <2>1. queue # <<>> /\ queue' = Tail(queue) /\ heard' = Append(heard, <<callback, Head(queue)>>)
    BY <1>18 DEF HandleSocketReady
  <2>2. Head(queue) \in Nat /\ Tail(queue) \in Seq(Nat)
    BY <2>1
  <2>3. callback \in Nat
    BY DEF Values
  <2>4. <<callback, Head(queue)>> \in Nat \X Nat
    BY <2>2, <2>3
  <2> QED BY <2>1, <2>2, <2>4
<1>19. CASE CloseStopFd BY <1>19 DEF CloseStopFd
<1>20. CASE ClearStopFd BY <1>20 DEF ClearStopFd, LeaveThread
<1>21. CASE WaitInterrupted BY <1>21 DEF WaitInterrupted
<1>22. CASE WaitFails BY <1>22 DEF WaitFails
<1>23. CASE Multicast
  <2>1. heard' = heard /\ (queue' = queue \/ queue' = Append(queue, sent + 1))
    BY <1>23 DEF Multicast
  <2>2. sent + 1 \in Nat
    BY DEF Values
  <2>3. Append(queue, sent + 1) \in Seq(Nat)
    BY <2>2
  <2>5. queue' \in Seq(Nat)
    BY <2>1, <2>3
  <2>4. heard' \in Seq(Nat \X Nat)
    BY <2>1
  <2> QED BY <2>4, <2>5
<1>24. CASE OpenOther BY <1>24 DEF OpenOther, LowestFree
<1>25. CASE CloseOther BY <1>25 DEF CloseOther
<1>26. CASE UNCHANGED vars BY <1>26 DEF vars
<1> QED BY <1>1, <1>2, <1>3, <1>4, <1>5, <1>6, <1>7, <1>8, <1>9, <1>10, <1>11,
           <1>12, <1>13, <1>14, <1>15, <1>16, <1>17, <1>18, <1>19, <1>20,
           <1>21, <1>22, <1>23, <1>24, <1>25, <1>26 DEF Next, CallerStep,
           ThreadStep

(* Every step keeps the declared types. *)
LEMMA TypeStep ==
    ASSUME TypeOK, [Next]_vars PROVE TypeOK'
<1>1. Places' /\ Values' /\ Histories' /\ owner' \in Table'
  BY TypeParts, PlacesStep, ValuesStep, HistoryStep, TableStep DEF Table
<1>2. QED
  BY <1>1 DEF TypeOK, Places, Values, Histories, Table

-----------------------------------------------------------------------------
(* What the threads hold about each other.                                   *)

\* The calling thread: its place, and whether there is a thread to join.
CallerInv ==
    /\ joinable <=> thread # "none"
    /\ caller \in {"subscribe", "gone"} => ~joinable
    /\ caller \in {"request", "join"} => joinable
    /\ caller \in {"signal", "write"} => joinable \/ then = "signal again"
    /\ then = "signal again" => caller \in {"signal", "write"}
    /\ caller = "gone" => then = "destroy"
    /\ caller = "idle" => then \in {"return", "subscribe"}
    /\ caller = "subscribe" => then = "subscribe"
    /\ then = "destroy" => caller \in Stopping \cup {"gone"}

\* The eventfd and its number.
EventFdInv ==
    /\ thread \in HasEventFd => ownFd \in Descriptors
    /\ \A d \in Descriptors : owner[d] = "eventfd" <=> thread \in HasEventFd /\ d = ownFd
    /\ stopFd # NoDescriptor =>
         stopFd = ownFd /\ thread \in InLoop \cup {"close", "clear"}
    /\ thread \in {"none", "setup", "clear", "exited"} => ~signalled

\* The socket and its buffer.
SocketInv ==
    /\ overrun # "no" => queue # <<>>
    /\ queue # <<>> => thread \in Listening

\* Which Start the callback is of.
CallbackInv ==
    /\ callback <= starts
    /\ then = "subscribe" /\ caller \in Stopping \cup {"subscribe"} => callback < starts

(* ThreadAndMember, part by part. *)
LEMMA MemberParts ==
    ThreadAndMember <=> CallerInv /\ CallbackInv /\ EventFdInv /\ SocketInv
BY DEF ThreadAndMember, CallerInv, CallbackInv, EventFdInv, SocketInv

(* The calls keep track of whether there is a thread to join. *)
LEMMA CallerStepInv ==
    ASSUME Places, Values, CallerInv, [Next]_vars PROVE CallerInv'
<1> USE DEF CallerInv, Places, Values, Stopping, Listening, callerVars,
        memberVars, threadVars, socketVars, processVars
<1>1. CASE Start BY <1>1 DEF Start
<1>2. CASE Stop BY <1>2 DEF Stop
<1>3. CASE Destroy BY <1>3 DEF Destroy
<1>4. CASE ReadStopFd BY <1>4 DEF ReadStopFd, SignalDone
<1>5. CASE WriteStopFd BY <1>5 DEF WriteStopFd, SignalDone
<1>6. CASE RequestStop BY <1>6 DEF RequestStop
<1>7. CASE Join BY <1>7 DEF Join
<1>8. CASE SubscribeFails BY <1>8 DEF SubscribeFails
<1>9. CASE Subscribe BY <1>9 DEF Subscribe
<1>10. CASE SetUp BY <1>10 DEF SetUp
<1>11. CASE SetUpFails BY <1>11 DEF SetUpFails, LeaveThread
<1>12. CASE Register BY <1>12 DEF Register
<1>13. CASE SaveStopFd BY <1>13 DEF SaveStopFd
<1>14. CASE CheckStop BY <1>14 DEF CheckStop
<1>15. CASE Wait BY <1>15 DEF Wait, ReadyEvents
<1>16. CASE HandleEventFd BY <1>16 DEF HandleEventFd, Handled
<1>17. CASE HandleSocketError BY <1>17 DEF HandleSocketError, Handled
<1>18. CASE HandleSocketReady BY <1>18 DEF HandleSocketReady, Handled
<1>19. CASE CloseStopFd BY <1>19 DEF CloseStopFd
<1>20. CASE ClearStopFd BY <1>20 DEF ClearStopFd, LeaveThread
<1>21. CASE WaitInterrupted BY <1>21 DEF WaitInterrupted
<1>22. CASE WaitFails BY <1>22 DEF WaitFails
<1>23. CASE Multicast BY <1>23 DEF Multicast, Lossy
<1>24. CASE OpenOther BY <1>24 DEF OpenOther, LowestFree
<1>25. CASE CloseOther BY <1>25 DEF CloseOther
<1>26. CASE UNCHANGED vars BY <1>26 DEF vars
<1> QED BY <1>1, <1>2, <1>3, <1>4, <1>5, <1>6, <1>7, <1>8, <1>9, <1>10, <1>11,
           <1>12, <1>13, <1>14, <1>15, <1>16, <1>17, <1>18, <1>19, <1>20,
           <1>21, <1>22, <1>23, <1>24, <1>25, <1>26 DEF Next, CallerStep,
           ThreadStep

(* A later number. *)
LEMMA Later ==
    \A a \in Nat, b \in Nat : b <= b /\ (a <= b => a < b + 1 /\ a <= b + 1)
OBVIOUS

(* A Start in progress is later than the one whose callback is set. *)
LEMMA CallbackStep ==
    ASSUME Places, Values, CallerInv, CallbackInv, [Next]_vars PROVE CallbackInv'
<1> USE DEF CallbackInv, CallerInv, Places, Stopping, callerVars, memberVars,
        threadVars, socketVars, processVars
<1>1. CASE Start
  <2>1. callback \in Nat /\ starts \in Nat
    BY DEF Values
  <2>2. callback' = callback /\ starts' = starts + 1 /\ callback <= starts
    BY <1>1 DEF Start
  <2>3. callback' < starts' /\ callback' <= starts'
    BY <2>1, <2>2, Later
  <2> QED BY <2>3
<1>2. CASE Stop BY <1>2 DEF Stop
<1>3. CASE Destroy BY <1>3 DEF Destroy
<1>4. CASE ReadStopFd BY <1>4 DEF ReadStopFd, SignalDone
<1>5. CASE WriteStopFd BY <1>5 DEF WriteStopFd, SignalDone
<1>6. CASE RequestStop BY <1>6 DEF RequestStop
<1>7. CASE Join BY <1>7 DEF Join
<1>8. CASE SubscribeFails BY <1>8 DEF SubscribeFails
<1>9. CASE Subscribe
  <2>1. starts \in Nat
    BY DEF Values
  <2>2. callback' = starts /\ starts' = starts /\ caller' = "idle"
    BY <1>9 DEF Subscribe
  <2>3. callback' <= starts'
    BY <2>1, <2>2, Later
  <2> QED BY <2>2, <2>3
<1>10. CASE SetUp BY <1>10 DEF SetUp
<1>11. CASE SetUpFails BY <1>11 DEF SetUpFails, LeaveThread
<1>12. CASE Register BY <1>12 DEF Register
<1>13. CASE SaveStopFd BY <1>13 DEF SaveStopFd
<1>14. CASE CheckStop BY <1>14 DEF CheckStop
<1>15. CASE Wait BY <1>15 DEF Wait, ReadyEvents
<1>16. CASE HandleEventFd BY <1>16 DEF HandleEventFd, Handled
<1>17. CASE HandleSocketError BY <1>17 DEF HandleSocketError, Handled
<1>18. CASE HandleSocketReady BY <1>18 DEF HandleSocketReady, Handled
<1>19. CASE CloseStopFd BY <1>19 DEF CloseStopFd
<1>20. CASE ClearStopFd BY <1>20 DEF ClearStopFd, LeaveThread
<1>21. CASE WaitInterrupted BY <1>21 DEF WaitInterrupted
<1>22. CASE WaitFails BY <1>22 DEF WaitFails
<1>23. CASE Multicast BY <1>23 DEF Multicast, Lossy
<1>24. CASE OpenOther BY <1>24 DEF OpenOther, LowestFree
<1>25. CASE CloseOther BY <1>25 DEF CloseOther
<1>26. CASE UNCHANGED vars BY <1>26 DEF vars
<1> QED BY <1>1, <1>2, <1>3, <1>4, <1>5, <1>6, <1>7, <1>8, <1>9, <1>10, <1>11,
           <1>12, <1>13, <1>14, <1>15, <1>16, <1>17, <1>18, <1>19, <1>20,
           <1>21, <1>22, <1>23, <1>24, <1>25, <1>26 DEF Next, CallerStep,
           ThreadStep

\* A full buffer, and one that has just received, holds something.
LEMMA NonEmpty ==
    ASSUME NEW q \in Seq(Nat), NEW n \in Nat
    PROVE  Append(q, n + 1) # <<>> /\ \A size \in Nat \ {0} : Len(q) >= size => q # <<>>
OBVIOUS

(* A loss leaves messages in the socket; a thread that ended leaves none. *)
LEMMA SocketStep ==
    ASSUME Places, Histories, SocketInv, CallerInv, Values, [Next]_vars
    PROVE  SocketInv'
<1> USE DEF SocketInv, Places, Listening, callerVars, memberVars, threadVars,
        socketVars, processVars
<1>1. CASE Start BY <1>1 DEF Start
<1>2. CASE Stop BY <1>2 DEF Stop
<1>3. CASE Destroy BY <1>3 DEF Destroy
<1>4. CASE ReadStopFd BY <1>4 DEF ReadStopFd, SignalDone
<1>5. CASE WriteStopFd BY <1>5 DEF WriteStopFd, SignalDone
<1>6. CASE RequestStop BY <1>6 DEF RequestStop
<1>7. CASE Join BY <1>7 DEF Join
<1>8. CASE SubscribeFails BY <1>8 DEF SubscribeFails
<1>9. CASE Subscribe BY <1>9 DEF Subscribe
<1>10. CASE SetUp BY <1>10 DEF SetUp
<1>11. CASE SetUpFails BY <1>11 DEF SetUpFails, LeaveThread
<1>12. CASE Register BY <1>12 DEF Register
<1>13. CASE SaveStopFd BY <1>13 DEF SaveStopFd
<1>14. CASE CheckStop BY <1>14 DEF CheckStop
<1>15. CASE Wait BY <1>15 DEF Wait, ReadyEvents
<1>16. CASE HandleEventFd BY <1>16 DEF HandleEventFd, Handled
<1>17. CASE HandleSocketError BY <1>17 DEF HandleSocketError, Handled
<1>18. CASE HandleSocketReady BY <1>18 DEF HandleSocketReady, Handled
<1>19. CASE CloseStopFd BY <1>19 DEF CloseStopFd
<1>20. CASE ClearStopFd BY <1>20 DEF ClearStopFd, LeaveThread
<1>21. CASE WaitInterrupted BY <1>21 DEF WaitInterrupted
<1>22. CASE WaitFails BY <1>22 DEF WaitFails
<1>23. CASE Multicast
  <2>1. queue \in Seq(Nat)
    BY DEF Histories
  <2>2. Len(queue) >= BufferSize => queue # <<>>
    BY <2>1, NonEmpty, ListenerAssumption DEF ListenerAssumption
  <2>3. sent \in Nat
    BY DEF Values
  <2>4. Append(queue, sent + 1) # <<>>
    BY <2>1, <2>3, NonEmpty
  <2> QED BY <1>23, <2>2, <2>4 DEF Multicast, Lossy
<1>24. CASE OpenOther BY <1>24 DEF OpenOther, LowestFree
<1>25. CASE CloseOther BY <1>25 DEF CloseOther
<1>26. CASE UNCHANGED vars BY <1>26 DEF vars
<1> QED BY <1>1, <1>2, <1>3, <1>4, <1>5, <1>6, <1>7, <1>8, <1>9, <1>10, <1>11,
           <1>12, <1>13, <1>14, <1>15, <1>16, <1>17, <1>18, <1>19, <1>20,
           <1>21, <1>22, <1>23, <1>24, <1>25, <1>26 DEF Next, CallerStep,
           ThreadStep

(* Only the running thread owns an eventfd, and the member names that one. *)
LEMMA EventFdStep ==
    ASSUME Places, Values, owner \in Table, EventFdInv, CallerInv, FirstSignal, [Next]_vars
    PROVE  EventFdInv'
<1> USE DEF EventFdInv, CallerInv, FirstSignal, Places, Listening, HasEventFd,
        InLoop, Table, callerVars, memberVars, threadVars, socketVars,
        processVars
<1>1. CASE Start BY <1>1 DEF Start
<1>2. CASE Stop BY <1>2 DEF Stop
<1>3. CASE Destroy BY <1>3 DEF Destroy
<1>4. CASE ReadStopFd BY <1>4 DEF ReadStopFd, SignalDone
<1>5. CASE WriteStopFd BY <1>5 DEF WriteStopFd, SignalDone
<1>6. CASE RequestStop BY <1>6 DEF RequestStop
<1>7. CASE Join BY <1>7 DEF Join
<1>8. CASE SubscribeFails BY <1>8 DEF SubscribeFails
<1>9. CASE Subscribe BY <1>9 DEF Subscribe
<1>10. CASE SetUp BY <1>10 DEF SetUp
<1>11. CASE SetUpFails BY <1>11 DEF SetUpFails, LeaveThread
<1>12. CASE Register BY <1>12 DEF Register
<1>13. CASE SaveStopFd BY <1>13 DEF SaveStopFd
<1>14. CASE CheckStop BY <1>14 DEF CheckStop
<1>15. CASE Wait BY <1>15 DEF Wait, ReadyEvents
<1>16. CASE HandleEventFd BY <1>16 DEF HandleEventFd, Handled
<1>17. CASE HandleSocketError BY <1>17 DEF HandleSocketError, Handled
<1>18. CASE HandleSocketReady BY <1>18 DEF HandleSocketReady, Handled
<1>19. CASE CloseStopFd BY <1>19 DEF CloseStopFd
<1>20. CASE ClearStopFd BY <1>20 DEF ClearStopFd, LeaveThread
<1>21. CASE WaitInterrupted BY <1>21 DEF WaitInterrupted
<1>22. CASE WaitFails BY <1>22 DEF WaitFails
<1>23. CASE Multicast BY <1>23 DEF Multicast, Lossy
<1>24. CASE OpenOther BY <1>24 DEF OpenOther, LowestFree
<1>25. CASE CloseOther BY <1>25 DEF CloseOther
<1>26. CASE UNCHANGED vars BY <1>26 DEF vars
<1> QED BY <1>1, <1>2, <1>3, <1>4, <1>5, <1>6, <1>7, <1>8, <1>9, <1>10, <1>11,
           <1>12, <1>13, <1>14, <1>15, <1>16, <1>17, <1>18, <1>19, <1>20,
           <1>21, <1>22, <1>23, <1>24, <1>25, <1>26 DEF Next, CallerStep,
           ThreadStep

(* A thread leaves its loop only once it was signalled, or failed. *)
LEMMA FirstSignalStep ==
    ASSUME Places, Values, EventFdInv, CallerInv, FirstSignal, [Next]_vars
    PROVE  FirstSignal'
<1> USE DEF FirstSignal, Places, Values, CallerInv, EventFdInv, InLoop,
        callerVars, memberVars, threadVars, socketVars, processVars
<1>1. CASE Start BY <1>1 DEF Start
<1>2. CASE Stop BY <1>2 DEF Stop
<1>3. CASE Destroy BY <1>3 DEF Destroy
<1>4. CASE ReadStopFd BY <1>4 DEF ReadStopFd, SignalDone
<1>5. CASE WriteStopFd BY <1>5 DEF WriteStopFd, SignalDone
<1>6. CASE RequestStop BY <1>6 DEF RequestStop
<1>7. CASE Join BY <1>7 DEF Join
<1>8. CASE SubscribeFails BY <1>8 DEF SubscribeFails
<1>9. CASE Subscribe BY <1>9 DEF Subscribe
<1>10. CASE SetUp BY <1>10 DEF SetUp
<1>11. CASE SetUpFails BY <1>11 DEF SetUpFails, LeaveThread
<1>12. CASE Register BY <1>12 DEF Register
<1>13. CASE SaveStopFd BY <1>13 DEF SaveStopFd
<1>14. CASE CheckStop BY <1>14 DEF CheckStop
<1>15. CASE Wait BY <1>15 DEF Wait, ReadyEvents
<1>16. CASE HandleEventFd BY <1>16 DEF HandleEventFd, Handled
<1>17. CASE HandleSocketError BY <1>17 DEF HandleSocketError, Handled
<1>18. CASE HandleSocketReady BY <1>18 DEF HandleSocketReady, Handled
<1>19. CASE CloseStopFd BY <1>19 DEF CloseStopFd
<1>20. CASE ClearStopFd BY <1>20 DEF ClearStopFd, LeaveThread
<1>21. CASE WaitInterrupted BY <1>21 DEF WaitInterrupted
<1>22. CASE WaitFails BY <1>22 DEF WaitFails
<1>23. CASE Multicast BY <1>23 DEF Multicast, Lossy
<1>24. CASE OpenOther BY <1>24 DEF OpenOther, LowestFree
<1>25. CASE CloseOther BY <1>25 DEF CloseOther
<1>26. CASE UNCHANGED vars BY <1>26 DEF vars
<1> QED BY <1>1, <1>2, <1>3, <1>4, <1>5, <1>6, <1>7, <1>8, <1>9, <1>10, <1>11,
           <1>12, <1>13, <1>14, <1>15, <1>16, <1>17, <1>18, <1>19, <1>20,
           <1>21, <1>22, <1>23, <1>24, <1>25, <1>26 DEF Next, CallerStep,
           ThreadStep

(* A signal goes astray only where StrayWritesExplained says. *)
LEMMA StrayStep ==
    ASSUME Places, Values, EventFdInv, CallerInv, FirstSignal, StrayWritesExplained,
           [Next]_vars
    PROVE  StrayWritesExplained'
<1> USE DEF StrayWritesExplained, Places, CallerInv, callerVars, memberVars,
        threadVars, socketVars, processVars
<1>1. CASE Start BY <1>1 DEF Start
<1>2. CASE Stop BY <1>2 DEF Stop
<1>3. CASE Destroy BY <1>3 DEF Destroy
<1>4. CASE ReadStopFd BY <1>4 DEF ReadStopFd, SignalDone
<1>5. CASE WriteStopFd
  BY <1>5 DEF WriteStopFd, SignalDone, FirstSignal, EventFdInv, InLoop, HasEventFd
<1>6. CASE RequestStop BY <1>6 DEF RequestStop
<1>7. CASE Join BY <1>7 DEF Join
<1>8. CASE SubscribeFails BY <1>8 DEF SubscribeFails
<1>9. CASE Subscribe BY <1>9 DEF Subscribe
<1>10. CASE SetUp BY <1>10 DEF SetUp
<1>11. CASE SetUpFails BY <1>11 DEF SetUpFails, LeaveThread
<1>12. CASE Register BY <1>12 DEF Register
<1>13. CASE SaveStopFd BY <1>13 DEF SaveStopFd
<1>14. CASE CheckStop BY <1>14 DEF CheckStop
<1>15. CASE Wait BY <1>15 DEF Wait, ReadyEvents
<1>16. CASE HandleEventFd BY <1>16 DEF HandleEventFd, Handled
<1>17. CASE HandleSocketError BY <1>17 DEF HandleSocketError, Handled
<1>18. CASE HandleSocketReady BY <1>18 DEF HandleSocketReady, Handled
<1>19. CASE CloseStopFd BY <1>19 DEF CloseStopFd
<1>20. CASE ClearStopFd BY <1>20 DEF ClearStopFd, LeaveThread
<1>21. CASE WaitInterrupted BY <1>21 DEF WaitInterrupted
<1>22. CASE WaitFails BY <1>22 DEF WaitFails
<1>23. CASE Multicast BY <1>23 DEF Multicast, Lossy
<1>24. CASE OpenOther BY <1>24 DEF OpenOther, LowestFree
<1>25. CASE CloseOther BY <1>25 DEF CloseOther
<1>26. CASE UNCHANGED vars BY <1>26 DEF vars
<1> QED BY <1>1, <1>2, <1>3, <1>4, <1>5, <1>6, <1>7, <1>8, <1>9, <1>10, <1>11,
           <1>12, <1>13, <1>14, <1>15, <1>16, <1>17, <1>18, <1>19, <1>20,
           <1>21, <1>22, <1>23, <1>24, <1>25, <1>26 DEF Next, CallerStep,
           ThreadStep

-----------------------------------------------------------------------------
(* A listener that was never started is safe. *)
LEMMA InitSafe == Init => ListenerSafe
<1> SUFFICES ASSUME Init PROVE ListenerSafe
  OBVIOUS
<1>1. Places /\ Values
  BY DEF Init, Places, Values, Stopping, Listening
<1>2. Histories
  BY DEF Init, Histories
<1>3. owner \in Table
  BY DEF Init, Table
<1>4. CallerInv
  BY DEF Init, CallerInv, Stopping
<1>4a. CallbackInv
  BY DEF Init, CallbackInv
<1>5. EventFdInv
  BY DEF Init, EventFdInv, HasEventFd
<1>6. SocketInv
  BY DEF Init, SocketInv
<1>7. FirstSignal
  BY DEF Init, FirstSignal
<1>8. StrayWritesExplained
  BY DEF Init, StrayWritesExplained
<1>9. QED
  BY <1>1, <1>2, <1>3, <1>4, <1>4a, <1>5, <1>6, <1>7, <1>8, TypeParts, MemberParts
  DEF ListenerSafe

(* The induction step, from its parts. *)
LEMMA SafeStep == ASSUME ListenerSafe, [Next]_vars PROVE ListenerSafe'
<1>1. Places /\ Values /\ Histories /\ owner \in Table
  BY TypeParts DEF ListenerSafe
<1>2. CallerInv /\ CallbackInv /\ EventFdInv /\ SocketInv
  BY MemberParts DEF ListenerSafe
<1>3. FirstSignal /\ StrayWritesExplained
  BY DEF ListenerSafe
<1>4. TypeOK'
  BY TypeStep DEF ListenerSafe
<1>5. CallerInv' /\ CallbackInv' /\ EventFdInv' /\ SocketInv'
  BY <1>1, <1>2, <1>3, CallerStepInv, CallbackStep, EventFdStep, SocketStep
<1>6. ThreadAndMember'
  BY <1>5 DEF ThreadAndMember, CallerInv, CallbackInv, EventFdInv, SocketInv
<1>7. FirstSignal' /\ StrayWritesExplained'
  BY <1>1, <1>2, <1>3, FirstSignalStep, StrayStep
<1>8. QED
  BY <1>4, <1>6, <1>7 DEF ListenerSafe

(* For any descriptors, buffer, calls and messages, the member, the eventfd   *)
(* and the two threads agree, and a stop signal misses its eventfd only when  *)
(* the destructor signals twice or epoll_wait has failed                      *)
(* (RequestNetlinkProcessingLoopStop).                                        *)
THEOREM ListenerIsSafe == Spec => []ListenerSafe
<1>1. Init => ListenerSafe
  BY InitSafe
<1>2. ListenerSafe /\ [Next]_vars => ListenerSafe'
  BY SafeStep
<1>3. QED
  BY <1>1, <1>2, PTL DEF Spec

-----------------------------------------------------------------------------
(* The contract.  Each step of the threads is a step of the listener, or one  *)
(* that its client cannot see.                                                *)
LEMMA InitImplements == Init => Listener!ContractInit
BY DEF Init, Listener!ContractInit

(* Every step is a step of the contract, or leaves it as it is. *)
LEMMA StepImplements ==
    ASSUME ListenerSafe, [Next]_vars
    PROVE  [Listener!ContractNext]_(Listener!contractVars)
<1>a. Places /\ Values /\ Histories /\ CallerInv /\ CallbackInv /\ SocketInv
  BY TypeParts, MemberParts DEF ListenerSafe
<1> USE DEF callerVars, memberVars, threadVars, socketVars, processVars, Listener!contractVars
<1>1. CASE Start
  BY <1>1, <1>a DEF Start
<1>2. CASE Stop
  BY <1>2, <1>a DEF Stop
<1>3. CASE Destroy
  BY <1>3, <1>a DEF Destroy
<1>4. CASE ReadStopFd
  BY <1>4, <1>a DEF ReadStopFd, SignalDone
<1>5. CASE WriteStopFd
  BY <1>5, <1>a DEF WriteStopFd, SignalDone
<1>6. CASE RequestStop
  BY <1>6, <1>a DEF RequestStop
<1>7. CASE Join
  <2>1. Listener!TurnOff BY <1>7, <1>a DEF Listener!TurnOff, CallerInv, Join, SocketInv, Listening
  <2> QED BY <2>1 DEF Listener!ContractNext
<1>8. CASE SubscribeFails
  BY <1>8, <1>a DEF SubscribeFails
<1>9. CASE Subscribe
  <2>1. callback < starts
    BY <1>9, <1>a DEF Subscribe, CallerInv, CallbackInv
  <2>2. callback \in Nat /\ starts \in Nat
    BY <1>a DEF Values
  <2>3. callback' > callback
    BY <1>9, <2>1, <2>2 DEF Subscribe
  <2>4. Listener!Listen
    BY <1>9, <1>a, <2>3 DEF Listener!Listen, CallerInv, Subscribe
  <2> QED BY <2>4 DEF Listener!ContractNext
<1>10. CASE SetUp
  BY <1>10, <1>a DEF SetUp
<1>11. CASE SetUpFails
  <2>1. Listener!GoDeaf BY <1>11, <1>a DEF Listener!GoDeaf, CallerInv, SetUpFails, LeaveThread
  <2> QED BY <2>1 DEF Listener!ContractNext
<1>12. CASE Register
  BY <1>12, <1>a DEF Register
<1>13. CASE SaveStopFd
  BY <1>13, <1>a DEF SaveStopFd
<1>14. CASE CheckStop
  BY <1>14, <1>a DEF CheckStop
<1>15. CASE Wait
  BY <1>15, <1>a DEF Wait, ReadyEvents
<1>16. CASE HandleEventFd
  BY <1>16, <1>a DEF HandleEventFd, Handled
<1>17. CASE HandleSocketError
  BY <1>17, <1>a DEF HandleSocketError, Handled
<1>18. CASE HandleSocketReady
  <2>1. Listener!Hear BY <1>18, <1>a DEF Listener!Hear, CallerInv, HandleSocketReady, Handled
  <2> QED BY <2>1 DEF Listener!ContractNext
<1>19. CASE CloseStopFd
  BY <1>19, <1>a DEF CloseStopFd
<1>20. CASE ClearStopFd
  <2>1. Listener!GoDeaf BY <1>20, <1>a DEF Listener!GoDeaf, CallerInv, ClearStopFd, LeaveThread
  <2> QED BY <2>1 DEF Listener!ContractNext
<1>21. CASE WaitInterrupted
  BY <1>21, <1>a DEF WaitInterrupted
<1>22. CASE WaitFails
  BY <1>22, <1>a DEF WaitFails
<1>23. CASE Multicast
  <2>1. queue \in Seq(Nat)
    BY <1>a DEF Histories
  <2>2. Lossy => queue # <<>>
    BY <1>a, <2>1, NonEmpty, ListenerAssumption DEF Lossy, SocketInv, ListenerAssumption
  <2>3. thread \notin Listening => ~joinable \/ thread = "exited"
    BY <1>a DEF Places, CallerInv
  <2>4. joinable <=> thread # "none"
    BY <1>a DEF CallerInv
  <2>5. Listener!Sent
    BY <1>23, <2>2, <2>3, <2>4 DEF Listener!Sent, Multicast, Listening
  <2> QED BY <2>5 DEF Listener!ContractNext
<1>24. CASE OpenOther
  BY <1>24, <1>a DEF OpenOther, LowestFree
<1>25. CASE CloseOther
  BY <1>25, <1>a DEF CloseOther
<1>26. CASE UNCHANGED vars BY <1>26, <1>a DEF vars
<1> QED BY <1>1, <1>2, <1>3, <1>4, <1>5, <1>6, <1>7, <1>8, <1>9, <1>10, <1>11,
           <1>12, <1>13, <1>14, <1>15, <1>16, <1>17, <1>18, <1>19, <1>20,
           <1>21, <1>22, <1>23, <1>24, <1>25, <1>26 DEF Next, CallerStep,
           ThreadStep

(* The threads implement the listener's contract: what the callback of the    *)
(* latest Start hears, hears once and in order, and nothing after Stop has    *)
(* returned (Start, Stop, HandleNetlinkSocketReady).                          *)
THEOREM Implementation == Spec => ImplementsListener
<1>1. Init => Listener!ContractInit
  BY InitImplements
<1>2. ListenerSafe /\ [Next]_vars => [Listener!ContractNext]_(Listener!contractVars)
  BY StepImplements
<1>3. QED
  BY <1>1, <1>2, ListenerIsSafe, PTL DEF Spec, ImplementsListener, Listener!Contract
=============================================================================
