------------------------ MODULE NetRemoteServerProofs ------------------------
(***************************************************************************)
(* What holds of the life of the server, for any signals and calls.          *)
(***************************************************************************)
EXTENDS NetRemoteServer, SequenceTheorems, TLAPS

\* Who has waited for the calls: main before it returns, Stop before it lets go
\* of the server, and nobody needs to where there was no server at all.
Waited ==
    /\ pc = "build" => grpc = "null"
    /\ grpc = "null" => Active = {}
    /\ pc \in {"drain", "stopWait"} => grpc = "shut"
    /\ pc \in {"return", "stop"} /\ grpc = "shut" => Active = {}
    /\ pc \in {"build", "register", "daemon"} \cup Serving \cup {"shutdown"} => grpc # "shut"
    /\ pc \in {"release", "exited"} => grpc = "null"

\* Each property with what makes it inductive: only a process of the background
\* daemonizes; a registration whose path is not known comes from a call that
\* failed; and after Stop the path is known only if the call failed.
IInv ==
    /\ pc = "daemon" => background
    /\ ForegroundServes
    /\ Waited
    /\ registered /\ ~path => dbusFailed
    /\ pc \in {"stop", "stopWait", "release", "exited"} /\ path => dbusFailed

\* The process starts with nothing registered.
LEMMA InvInit == Init => IInv
<1> SUFFICES ASSUME Init PROVE IInv
    OBVIOUS
<1>1. /\ pc = "build" /\ grpc = "null" /\ calls = [c \in Calls |-> "none"]
      /\ path = FALSE /\ registered = FALSE
    BY DEF Init
<1>2. Active = {}
    BY <1>1 DEF Active
<1> QED
    BY ONLY <1>1, <1>2 DEF IInv, ForegroundServes, Waited, Serving, Stopping

\* What main, the handlers and gRPC's threads do keeps the invariant.
LEMMA InvStep == IInv /\ [Next]_vars => IInv'
<1> SUFFICES ASSUME IInv, [Next]_vars PROVE IInv'
    OBVIOUS
<1> USE DEF IInv, ForegroundServes, Waited, Active,
            Serving, Stopping, Ended, MainGoes, serverVars, signalVars
<1>1. CASE BuildAndStart
    BY <1>1 DEF BuildAndStart
<1>2. CASE StartDiscovery
    BY <1>2 DEF StartDiscovery
<1>3. CASE Daemonize
    BY <1>3 DEF Daemonize
<1>4. CASE LockGate \/ FallAsleep \/ Awake
    BY <1>4 DEF LockGate, FallAsleep, Awake
<1>5. CASE TestRequested
    BY <1>5 DEF TestRequested
<1>6. CASE ShutdownServer
    BY <1>6 DEF ShutdownServer
<1>7. CASE Drained
    BY <1>7 DEF Drained
<1>8. CASE StopServer
    BY <1>8 DEF StopServer
<1>9. CASE StopShutdown \/ StopDrained \/ Release
    BY <1>9 DEF StopShutdown, StopDrained, Release
<1>10. ASSUME NEW s \in Signals, NEW th \in Threads, Delivered(s, th)
       PROVE  IInv'
    BY <1>10 DEF Delivered
<1>11. ASSUME NEW s \in Signals, HandlerLocks(s) \/ HandlerNotifies(s)
       PROVE  IInv'
  <2>1. UNCHANGED <<background, pc, serverVars, requested>>
    BY <1>11, Zenon DEF HandlerLocks, HandlerNotifies
  <2> QED
    BY <2>1
<1>12. ASSUME NEW s \in Signals, HandlerSets(s)
       PROVE  IInv'
    BY <1>12 DEF HandlerSets
<1>13. ASSUME NEW c \in Calls, CallStarts(c)
       PROVE  IInv'
    BY <1>13 DEF CallStarts
<1>14. ASSUME NEW c \in Calls, CallEnds(c)
       PROVE  IInv'
    BY <1>14 DEF CallEnds
<1>15. CASE UNCHANGED vars
    BY <1>15 DEF vars
<1> QED
    BY <1>1, <1>2, <1>3, <1>4, <1>5, <1>6, <1>7, <1>8, <1>9, <1>10, <1>11,
       <1>12, <1>13, <1>14, <1>15 DEF Next, Main, Handler

\* The life cycle's invariant, of every behaviour.
LEMMA InvHolds == Spec => []IInv
BY InvInit, InvStep, PTL DEF Spec

\* main: a server in the foreground stops only when a handler has asked it to.
THEOREM OnlyRequestsStop == Spec => []ForegroundServes
BY InvHolds, PTL DEF IInv

\* NetRemoteServer: no call is in progress when the services go, from main's wait
\* in the foreground, and from Stop's in the background, which has had no other.
THEOREM ServicesOutlive == Spec => []ServicesOutliveCalls
<1>1. IInv => ServicesOutliveCalls
    BY DEF IInv, Waited, ServicesOutliveCalls
<1> QED
    BY <1>1, InvHolds, PTL

\* NetRemoteServer::Stop: an orderly end leaves no advertisement behind, unless
\* systemd-resolved did not do, or answer, what it was asked.
THEOREM Unregistered == Spec => []NothingLeftRegistered
<1>1. IInv => NothingLeftRegistered
    BY DEF IInv, NothingLeftRegistered
<1> QED
    BY <1>1, InvHolds, PTL

-----------------------------------------------------------------------------
(* Types, and the gate between main and the handlers.                        *)

\* The types of all but the stacks and the gate.
SimpleTypes ==
    /\ background \in BOOLEAN
    /\ pc \in {"build", "register", "daemon"} \cup Serving \cup Stopping \cup Ended
    /\ grpc \in {"null", "listening", "shut"}
    /\ calls \in [Calls -> {"none", "active", "done"}]
    /\ path \in BOOLEAN /\ registered \in BOOLEAN /\ dbusFailed \in BOOLEAN
    /\ requested \in BOOLEAN /\ woken \in BOOLEAN
    /\ hpc \in [Signals -> {"none", "lock", "set", "notify", "done"}]

\* A handler is on one stack, once, and only while it runs.
StackInv ==
    /\ stack \in [Threads -> Seq(Signals)]
    /\ \A t \in Threads : \A i \in DOMAIN stack[t] :
         hpc[stack[t][i]] \in {"lock", "set", "notify"}
    /\ \A t, t2 \in Threads : \A i \in DOMAIN stack[t], j \in DOMAIN stack[t2] :
         stack[t][i] = stack[t2][j] => t = t2 /\ i = j

\* main holds the gate where it does, and a handler holds it while it sets the
\* flag, or has left it locked to a child that daemon() made without threads.
GateInv ==
    /\ gate \in {"free", "main"} \cup Signals
    /\ gate = "main" <=> pc \in {"test", "sleep"}
    /\ gate \in Signals => hpc[gate] = "set" \/ background
    /\ pc = "daemon" => background

TypeInv == SimpleTypes /\ StackInv /\ GateInv

\* A stack without its top, or as it is (the end of OnSignal).
LEMMA Below ==
    ASSUME NEW S, NEW s \in Seq(S), NEW n \in 0 .. Len(s)
    PROVE  /\ SubSeq(s, 1, n) \in Seq(S)
           /\ DOMAIN SubSeq(s, 1, n) = 1 .. n
           /\ \A i \in 1 .. n : i \in DOMAIN s /\ SubSeq(s, 1, n)[i] = s[i]
<1>1. /\ SubSeq(s, 1, n) \in Seq(S) /\ Len(SubSeq(s, 1, n)) = n
      /\ \A i \in 1 .. n : SubSeq(s, 1, n)[i] = s[i]
    BY SubSeqProperties
<1> QED
    BY <1>1

\* The process starts uninterrupted, with the gate free.
LEMMA TypesInit == Init => TypeInv
<1> SUFFICES ASSUME Init PROVE TypeInv
    OBVIOUS
<1> USE DEF Init
<1>1. SimpleTypes
    BY DEF SimpleTypes
<1>2. StackInv
    BY DEF StackInv
<1>3. GateInv
    BY ServerAssumption DEF GateInv
<1> QED
    BY <1>1, <1>2, <1>3 DEF TypeInv

\* Every step keeps the types.
LEMMA SimpleStep == TypeInv /\ [Next]_vars => SimpleTypes'
<1> SUFFICES ASSUME TypeInv, [Next]_vars PROVE SimpleTypes'
    OBVIOUS
<1> USE DEF TypeInv, SimpleTypes, Serving, Stopping, Ended, MainGoes, serverVars, signalVars
<1>1. CASE Main \/ Awake
  <2>1. CASE BuildAndStart \/ StartDiscovery
      BY <2>1 DEF BuildAndStart, StartDiscovery
  <2>2. CASE Daemonize
      BY <2>2 DEF Daemonize
  <2>3. CASE LockGate \/ TestRequested \/ FallAsleep \/ Awake
      BY <2>3 DEF LockGate, TestRequested, FallAsleep, Awake
  <2>4. CASE ShutdownServer \/ Drained
      BY <2>4 DEF ShutdownServer, Drained
  <2>5. CASE StopServer \/ StopShutdown \/ StopDrained \/ Release
      BY <2>5 DEF StopServer, StopShutdown, StopDrained, Release
  <2> QED
      BY <1>1, <2>1, <2>2, <2>3, <2>4, <2>5 DEF Main
<1>2. ASSUME NEW s \in Signals, NEW th \in Threads, Delivered(s, th)
      PROVE  SimpleTypes'
    BY <1>2 DEF Delivered
<1>3. ASSUME NEW s \in Signals, Handler(s)
      PROVE  SimpleTypes'
  <2>1. CASE HandlerLocks(s) \/ HandlerSets(s)
    <3>1. /\ UNCHANGED <<background, pc, serverVars, woken>>
          /\ requested' = requested \/ requested' = TRUE
          /\ hpc' = [hpc EXCEPT ![s] = "set"] \/ hpc' = [hpc EXCEPT ![s] = "notify"]
        BY <2>1, Zenon DEF HandlerLocks, HandlerSets
    <3>2. requested' \in BOOLEAN
        BY <3>1, Zenon
    <3> QED
        BY <3>1, <3>2
  <2>2. CASE HandlerNotifies(s)
    <3>1. /\ woken' = (woken \/ pc = "asleep") /\ hpc' = [hpc EXCEPT ![s] = "done"]
          /\ UNCHANGED <<background, pc, serverVars, requested>>
        BY <2>2 DEF HandlerNotifies
    <3>2. woken' \in BOOLEAN
        BY <3>1, Zenon
    <3> QED
        BY <3>1, <3>2
  <2> QED
      BY <1>3, <2>1, <2>2 DEF Handler
<1>4. ASSUME NEW c \in Calls, CallStarts(c) \/ CallEnds(c)
      PROVE  SimpleTypes'
    BY <1>4 DEF CallStarts, CallEnds
<1>5. CASE UNCHANGED vars
    BY <1>5 DEF vars
<1> QED
    BY <1>1, <1>2, <1>3, <1>4, <1>5 DEF Next

\* Delivery puts a handler that does not run on one stack, its end takes it off.
LEMMA StackStep == TypeInv /\ [Next]_vars => StackInv'
<1> SUFFICES ASSUME TypeInv, [Next]_vars PROVE StackInv'
    OBVIOUS
<1> USE DEF TypeInv, SimpleTypes, StackInv, MainGoes, serverVars, signalVars, Threads
<1>1. CASE UNCHANGED <<hpc, stack>>
    BY <1>1
<1>2. CASE Daemonize
    BY <1>2 DEF Daemonize
<1>3. ASSUME NEW s \in Signals, NEW th \in Threads, Delivered(s, th)
      PROVE  StackInv'
  <2>1. /\ hpc[s] = "none" /\ hpc' = [hpc EXCEPT ![s] = "lock"]
        /\ stack' = [stack EXCEPT ![th] = Append(stack[th], s)]
      BY <1>3 DEF Delivered
  <2>2. \A t \in Threads : \A i \in DOMAIN stack[t] : stack[t][i] \in Signals /\ stack[t][i] # s
      BY <2>1
  <2>3. stack' \in [Threads -> Seq(Signals)]
      BY <2>1
  <2>4. \A t \in Threads : \A i \in DOMAIN stack'[t] :
           \/ i \in DOMAIN stack[t] /\ stack'[t][i] = stack[t][i]
           \/ t = th /\ i = Len(stack[th]) + 1 /\ stack'[t][i] = s
      BY <2>1
  <2>5. \A t \in Threads : \A i \in DOMAIN stack'[t] :
           hpc'[stack'[t][i]] \in {"lock", "set", "notify"}
      BY <2>1, <2>2, <2>4
  <2>6. \A t, t2 \in Threads : \A i \in DOMAIN stack'[t], j \in DOMAIN stack'[t2] :
           stack'[t][i] = stack'[t2][j] => t = t2 /\ i = j
    <3> SUFFICES ASSUME NEW t \in Threads, NEW t2 \in Threads,
                        NEW i \in DOMAIN stack'[t], NEW j \in DOMAIN stack'[t2],
                        stack'[t][i] = stack'[t2][j]
                 PROVE  t = t2 /\ i = j
        OBVIOUS
    <3>1. CASE i \in DOMAIN stack[t] /\ stack'[t][i] = stack[t][i]
      <4>1. j \in DOMAIN stack[t2] /\ stack'[t2][j] = stack[t2][j]
        <5>1. stack'[t2][j] # s
            BY <3>1, <2>2
        <5> QED
            BY <5>1, <2>4
      <4>2. i \in DOMAIN stack[t] /\ stack[t][i] = stack[t2][j]
          BY <3>1, <4>1
      <4>3. \A i1 \in DOMAIN stack[t], j1 \in DOMAIN stack[t2] :
               stack[t][i1] = stack[t2][j1] => t = t2 /\ i1 = j1
          OBVIOUS
      <4> HIDE DEF StackInv, TypeInv
      <4> QED
          BY <4>1, <4>2, <4>3
    <3>2. CASE t = th /\ i = Len(stack[th]) + 1 /\ stack'[t][i] = s
      <4>1. t2 = th /\ j = Len(stack[th]) + 1
        <5>1. ~(j \in DOMAIN stack[t2] /\ stack'[t2][j] = stack[t2][j])
            BY <3>2, <2>2
        <5> QED
            BY <5>1, <2>4
      <4> QED
          BY <3>2, <4>1
    <3> QED
        BY <3>1, <3>2, <2>4
  <2> QED
      BY <2>3, <2>5, <2>6
<1>4. ASSUME NEW s \in Signals, HandlerLocks(s) \/ HandlerSets(s)
      PROVE  StackInv'
  <2>1. /\ UNCHANGED stack
        /\ hpc' = [hpc EXCEPT ![s] = "set"] \/ hpc' = [hpc EXCEPT ![s] = "notify"]
      BY <1>4 DEF HandlerLocks, HandlerSets
  <2>2. \A t \in Threads : \A i \in DOMAIN stack[t] :
           hpc'[stack[t][i]] \in {"lock", "set", "notify"}
      BY <2>1
  <2> QED
      BY <2>1, <2>2
<1>5. ASSUME NEW s \in Signals, HandlerNotifies(s)
      PROVE  StackInv'
  <2> DEFINE Rest(t) == Len(stack[t]) - IF OnTop(s, t) THEN 1 ELSE 0
  <2>1. /\ hpc' = [hpc EXCEPT ![s] = "done"]
        /\ stack' = [t \in Threads |-> SubSeq(stack[t], 1, Rest(t))]
        /\ \E t \in Threads : OnTop(s, t)
      BY <1>5 DEF HandlerNotifies, Runs
  <2>2. \A t \in Threads : Rest(t) \in 0 .. Len(stack[t])
    <3> SUFFICES ASSUME NEW t \in Threads PROVE Rest(t) \in 0 .. Len(stack[t])
        OBVIOUS
    <3>1. Len(stack[t]) \in Nat /\ (stack[t] # <<>> => Len(stack[t]) > 0)
        BY EmptySeq
    <3>2. CASE OnTop(s, t)
        BY <3>1, <3>2 DEF OnTop
    <3>3. CASE ~OnTop(s, t)
        BY <3>1, <3>3
    <3> QED
        BY <3>2, <3>3
  <2> HIDE DEF Rest
  <2>3. \A t \in Threads :
          /\ stack'[t] \in Seq(Signals) /\ DOMAIN stack'[t] = 1 .. Rest(t)
          /\ \A i \in 1 .. Rest(t) : i \in DOMAIN stack[t] /\ stack'[t][i] = stack[t][i]
      BY <2>1, <2>2, Below, SMTT(60)
  <2>10. \A t \in Threads : \A i \in DOMAIN stack'[t] :
          i \in DOMAIN stack[t] /\ stack'[t][i] = stack[t][i]
      BY <2>3
  <2>4. PICK top \in Threads : OnTop(s, top)
      BY <2>1
  <2>5. Len(stack[top]) \in DOMAIN stack[top] /\ stack[top][Len(stack[top])] = s
      BY <2>4 DEF OnTop
  <2>6. \A t \in Threads : \A i \in DOMAIN stack'[t] : stack'[t][i] # s
    <3> SUFFICES ASSUME NEW t \in Threads, NEW i \in DOMAIN stack'[t], stack'[t][i] = s
                 PROVE  FALSE
        OBVIOUS
    <3>1. i \in 1 .. Rest(t) /\ i \in DOMAIN stack[t] /\ stack[t][i] = s
        BY <2>3, <2>10
    <3>2. t = top /\ i = Len(stack[top])
        BY <3>1, <2>5
    <3>3. Rest(t) = Len(stack[t]) - 1
        BY <3>2, <2>4 DEF Rest
    <3>4. Len(stack[t]) \in Nat
        OBVIOUS
    <3> QED
        BY <3>1, <3>2, <3>3, <3>4
  <2>7. stack' \in [Threads -> Seq(Signals)]
      BY <2>1, <2>3
  <2>8. \A t \in Threads : \A i \in DOMAIN stack'[t] :
           hpc'[stack'[t][i]] \in {"lock", "set", "notify"}
    <3> SUFFICES ASSUME NEW t \in Threads, NEW i \in DOMAIN stack'[t]
                 PROVE  hpc'[stack'[t][i]] \in {"lock", "set", "notify"}
        OBVIOUS
    <3>1. i \in DOMAIN stack[t] /\ stack'[t][i] = stack[t][i] /\ stack'[t][i] # s
        BY <2>10, <2>6
    <3>2. stack[t][i] \in Signals /\ hpc[stack[t][i]] \in {"lock", "set", "notify"}
        BY <3>1
    <3> QED
        BY <3>1, <3>2, <2>1
  <2>9. \A t, t2 \in Threads : \A i \in DOMAIN stack'[t], j \in DOMAIN stack'[t2] :
           stack'[t][i] = stack'[t2][j] => t = t2 /\ i = j
      BY <2>10
  <2> QED
      BY <2>7, <2>8, <2>9
<1>6. CASE (Main /\ ~Daemonize) \/ Awake
    BY <1>6, <1>1 DEF Main, BuildAndStart, StartDiscovery, LockGate, TestRequested,
                      FallAsleep, Awake, ShutdownServer, Drained, StopServer,
                      StopShutdown, StopDrained, Release
<1>7. ASSUME NEW c \in Calls, CallStarts(c) \/ CallEnds(c)
      PROVE  StackInv'
    BY <1>7, <1>1 DEF CallStarts, CallEnds
<1>8. CASE UNCHANGED vars
    BY <1>8, <1>1 DEF vars
<1> QED
    BY <1>2, <1>3, <1>4, <1>5, <1>6, <1>7, <1>8 DEF Next, Handler

\* The gate goes to who finds it free and is given back by who has it.
LEMMA GateStep == TypeInv /\ [Next]_vars => GateInv'
<1> SUFFICES ASSUME TypeInv, [Next]_vars PROVE GateInv'
    OBVIOUS
<1> USE ServerAssumption
    DEF TypeInv, SimpleTypes, GateInv, Serving, Stopping, Ended, MainGoes, serverVars, signalVars
<1>1. CASE Main \/ Awake
  <2>1. CASE BuildAndStart \/ StartDiscovery
      BY <2>1 DEF BuildAndStart, StartDiscovery
  <2>2. CASE Daemonize
      BY <2>2 DEF Daemonize
  <2>3. CASE LockGate \/ TestRequested \/ FallAsleep \/ Awake
      BY <2>3 DEF LockGate, TestRequested, FallAsleep, Awake
  <2>4. CASE ShutdownServer \/ Drained
      BY <2>4 DEF ShutdownServer, Drained
  <2>5. CASE StopServer \/ StopShutdown \/ StopDrained \/ Release
      BY <2>5 DEF StopServer, StopShutdown, StopDrained, Release
  <2> QED
      BY <1>1, <2>1, <2>2, <2>3, <2>4, <2>5 DEF Main
<1>2. ASSUME NEW s \in Signals, NEW th \in Threads, Delivered(s, th)
      PROVE  GateInv'
    BY <1>2 DEF Delivered
<1>3. ASSUME NEW s \in Signals, Handler(s)
      PROVE  GateInv'
  <2>1. CASE HandlerLocks(s)
      BY <2>1 DEF HandlerLocks
  <2>2. CASE HandlerSets(s)
      BY <2>2 DEF HandlerSets
  <2>3. CASE HandlerNotifies(s)
    <3>1. hpc[s] = "notify" /\ hpc' = [hpc EXCEPT ![s] = "done"]
          /\ UNCHANGED <<background, pc, gate>>
        BY <2>3 DEF HandlerNotifies
    <3> QED
        BY <3>1
  <2> QED
      BY <1>3, <2>1, <2>2, <2>3 DEF Handler
<1>4. ASSUME NEW c \in Calls, CallStarts(c) \/ CallEnds(c)
      PROVE  GateInv'
    BY <1>4 DEF CallStarts, CallEnds
<1>5. CASE UNCHANGED vars
    BY <1>5 DEF vars
<1> QED
    BY <1>1, <1>2, <1>3, <1>4, <1>5 DEF Next

\* The process: types, and who holds the gate between main's test of the flag
\* and its wait, and in a handler (OnSignal, main).
THEOREM TypeCorrect == Spec => []TypeOK
<1>1. TypeInv => TypeOK
    BY DEF TypeInv, SimpleTypes, StackInv, GateInv, TypeOK
<1>2. Spec => []TypeInv
    BY TypesInit, SimpleStep, StackStep, GateStep, PTL DEF Spec, TypeInv
<1> QED
    BY <1>1, <1>2, PTL
=============================================================================
