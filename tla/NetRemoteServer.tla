--------------------------- MODULE NetRemoteServer ---------------------------
(***************************************************************************)
(* The life of the server process: main, the NetRemoteServer it owns, its    *)
(* registration with systemd-resolved, and SIGTERM and SIGINT, whose handler *)
(* runs on top of any thread, between any two of its steps.                  *)
(*                                                                          *)
(* main starts the discovery service once, so it never finds a registration  *)
(* to replace.                                                              *)
(***************************************************************************)
EXTENDS Naturals, Sequences

CONSTANTS
    Signals,        \* SIGTERM and SIGINT
    Calls           \* the RPCs clients make

ASSUME ServerAssumption == Signals \cap {"free", "main"} = {}

VARIABLES
    background,     \* RunInBackground
    pc,             \* what main does next
    grpc,           \* m_server: "null", "listening" or "shut" (no new calls)
    calls,          \* per RPC, "none", "active" or "done"
    path,           \* m_dbusServiceObjectPath is not empty
    registered,     \* systemd-resolved advertises the server
    dbusFailed,     \* history: a call to systemd-resolved had no good answer
    gate,           \* TerminateGate: "free", "main" or the handler that has it
    requested,      \* TerminateRequested
    woken,          \* main was notified in its wait
    hpc,            \* per signal, what its handler does next
    stack           \* per thread, the handlers that interrupt it, last on top

serverVars == <<grpc, calls, path, registered, dbusFailed>>
signalVars == <<gate, requested, woken, hpc, stack>>
vars == <<background, pc, serverVars, signalVars>>

Threads == {"main", "other"}

Serving == {"gate", "test", "sleep", "asleep"}
Stopping == {"shutdown", "drain", "return", "stop", "stopWait", "release"}
Ended == {"exited", "crashed", "aborted"}

TypeOK ==
    /\ background \in BOOLEAN
    /\ pc \in {"build", "register", "daemon"} \cup Serving \cup Stopping \cup Ended
    /\ grpc \in {"null", "listening", "shut"}
    /\ calls \in [Calls -> {"none", "active", "done"}]
    /\ path \in BOOLEAN /\ registered \in BOOLEAN /\ dbusFailed \in BOOLEAN
    /\ gate \in {"free", "main"} \cup Signals
    /\ requested \in BOOLEAN /\ woken \in BOOLEAN
    /\ hpc \in [Signals -> {"none", "lock", "set", "notify", "done"}]
    /\ \A th \in Threads : \A i \in DOMAIN stack[th] :
           hpc[stack[th][i]] \in {"lock", "set", "notify"}
    /\ gate = "main" <=> pc \in {"test", "sleep"}
    /\ gate \in Signals => hpc[gate] = "set" \/ background

Init ==
    /\ background \in BOOLEAN /\ pc = "build"
    /\ grpc = "null" /\ calls = [c \in Calls |-> "none"]
    /\ path = FALSE /\ registered = FALSE /\ dbusFailed = FALSE
    /\ gate = "free" /\ requested = FALSE /\ woken = FALSE
    /\ hpc = [s \in Signals |-> "none"] /\ stack = [th \in Threads |-> <<>>]

\* main goes from one step to another, unless a handler interrupts it.
MainGoes(from, to) == pc = from /\ stack["main"] = <<>> /\ pc' = to

Active == {c \in Calls : calls[c] = "active"}

-----------------------------------------------------------------------------
(* NetRemoteServer::Run and the start of discovery.                          *)

\* BuildAndStart gives no server when it cannot listen on the address; nobody
\* looks.
BuildAndStart ==
    /\ MainGoes("build", "register") /\ grpc' \in {"listening", "null"}
    /\ UNCHANGED <<background, calls, path, registered, dbusFailed, signalVars>>

\* RegisterService: answered, refused, or done and the answer too late.
StartDiscovery ==
    /\ MainGoes("register", IF background THEN "daemon" ELSE "gate")
    /\ \/ path' = TRUE /\ registered' = TRUE /\ UNCHANGED dbusFailed
       \/ path' = FALSE /\ registered' \in BOOLEAN /\ dbusFailed' = TRUE
    /\ UNCHANGED <<background, grpc, calls, signalVars>>

\* The child that daemon() leaves has no thread but this one, and returns from
\* main; when it fails, an exception nobody catches ends the process.
Daemonize ==
    /\ pc = "daemon" /\ stack["main"] = <<>>
    /\ \/ pc' = "return" /\ stack' = [stack EXCEPT !["other"] = <<>>]
          /\ hpc' = [s \in Signals |-> IF hpc[s] = "none" THEN "none" ELSE "done"]
          /\ UNCHANGED gate
       \/ pc' = "aborted" /\ UNCHANGED <<stack, hpc, gate>>
    /\ UNCHANGED <<background, serverVars, requested, woken>>

-----------------------------------------------------------------------------
(* The wait for a signal.                                                    *)

LockGate ==
    /\ MainGoes("gate", "test") /\ gate = "free" /\ gate' = "main"
    /\ UNCHANGED <<background, serverVars, requested, woken, hpc, stack>>

TestRequested ==
    /\ pc = "test" /\ stack["main"] = <<>>
    /\ IF requested THEN pc' = "shutdown" /\ gate' = "free"
       ELSE pc' = "sleep" /\ UNCHANGED gate
    /\ UNCHANGED <<background, serverVars, requested, woken, hpc, stack>>

FallAsleep ==
    /\ MainGoes("sleep", "asleep") /\ gate' = "free" /\ woken' = FALSE
    /\ UNCHANGED <<background, serverVars, requested, hpc, stack>>

\* (mutant) the wait is not for the flag: whatever wakes it ends it
AwakeForGood ==
    /\ MainGoes("asleep", "shutdown")
    /\ UNCHANGED <<background, serverVars, signalVars>>

\* The condition variable was notified, or wakes main for no reason.
Awake ==
    /\ MainGoes("asleep", "gate")
    /\ UNCHANGED <<background, serverVars, signalVars>>

-----------------------------------------------------------------------------
(* The end of main and of the server.                                        *)

\* grpcServer->Shutdown(), of what may be no server.
ShutdownServer ==
    /\ pc = "shutdown" /\ stack["main"] = <<>>
    /\ IF grpc = "null" THEN pc' = "crashed" /\ UNCHANGED grpc
       ELSE pc' = "drain" /\ grpc' = "shut"
    /\ UNCHANGED <<background, calls, path, registered, dbusFailed, signalVars>>

\* (mutant) Shutdown is left to a thread of its own, and main does not wait
DrainedUnwaited ==
    /\ MainGoes("drain", "return")
    /\ UNCHANGED <<background, serverVars, signalVars>>

\* Shutdown and Wait return when the last call has ended.
Drained ==
    /\ MainGoes("drain", "return") /\ Active = {}
    /\ UNCHANGED <<background, serverVars, signalVars>>

\* (mutant) Stop does nothing without a server
StopWithServer ==
    /\ MainGoes("return", "stop")
    /\ \/ grpc = "null" /\ UNCHANGED <<path, registered, dbusFailed>>
       \/ grpc # "null" /\ path /\ path' = FALSE /\ registered' = FALSE /\ UNCHANGED dbusFailed
       \/ grpc # "null" /\ path /\ dbusFailed' = TRUE /\ registered' \in BOOLEAN /\ UNCHANGED path
       \/ grpc # "null" /\ ~path /\ UNCHANGED <<path, registered, dbusFailed>>
    /\ UNCHANGED <<background, grpc, calls, signalVars>>

\* ~NetRemoteServer calls Stop, which first unregisters the service, if it knows
\* its path.  The path is kept when systemd-resolved does not answer.
StopServer ==
    /\ MainGoes("return", "stop")
    /\ \/ path /\ path' = FALSE /\ registered' = FALSE /\ UNCHANGED dbusFailed
       \/ path /\ dbusFailed' = TRUE /\ registered' \in BOOLEAN /\ UNCHANGED path
       \/ ~path /\ UNCHANGED <<path, registered, dbusFailed>>
    /\ UNCHANGED <<background, grpc, calls, signalVars>>

\* Then Stop shuts the server down, if there is one: a Shutdown that is not the
\* first waits for nothing, and the first one waits below.
StopShutdown ==
    /\ \/ MainGoes("stop", "release") /\ grpc \in {"null", "shut"} /\ grpc' = "null"
       \/ MainGoes("stop", "stopWait") /\ grpc = "listening" /\ grpc' = "shut"
    /\ UNCHANGED <<background, calls, path, registered, dbusFailed, signalVars>>

StopDrained ==
    /\ MainGoes("stopWait", "release") /\ Active = {} /\ grpc' = "null"
    /\ UNCHANGED <<background, calls, path, registered, dbusFailed, signalVars>>

\* The services are members: they go after Stop, whoever still uses them.
Release ==
    /\ MainGoes("release", "exited")
    /\ UNCHANGED <<background, serverVars, signalVars>>

-----------------------------------------------------------------------------
(* OnSignal, on any thread.                                                  *)

OnTop(s, th) == stack[th] # <<>> /\ stack[th][Len(stack[th])] = s

Runs(s) == \E th \in Threads : OnTop(s, th)

\* A second signal waits while the handler of the first of its kind runs, and a
\* later one of that kind finds the flag set; one of each is enough.
Delivered(s, th) ==
    /\ pc \notin Ended /\ hpc[s] = "none"
    /\ th = "other" => ~(background /\ pc \in Stopping)
    /\ hpc' = [hpc EXCEPT ![s] = "lock"] /\ stack' = [stack EXCEPT ![th] = Append(@, s)]
    /\ UNCHANGED <<background, pc, serverVars, gate, requested, woken>>

\* (mutant) the flag is set without the lock
HandlerLocksNot(s) ==
    /\ hpc[s] = "lock" /\ Runs(s) /\ pc \notin Ended
    /\ hpc' = [hpc EXCEPT ![s] = "set"]
    /\ UNCHANGED <<background, pc, serverVars, gate, requested, woken, stack>>

HandlerLocks(s) ==
    /\ hpc[s] = "lock" /\ Runs(s) /\ pc \notin Ended /\ gate = "free"
    /\ gate' = s /\ hpc' = [hpc EXCEPT ![s] = "set"]
    /\ UNCHANGED <<background, pc, serverVars, requested, woken, stack>>

\* (mutant) the handler notifies before it gives the gate back, and does not
HandlerSetsKeeping(s) ==
    /\ hpc[s] = "set" /\ Runs(s) /\ pc \notin Ended
    /\ requested' = TRUE /\ hpc' = [hpc EXCEPT ![s] = "notify"]
    /\ UNCHANGED <<background, pc, serverVars, gate, woken, stack>>

HandlerSets(s) ==
    /\ hpc[s] = "set" /\ Runs(s) /\ pc \notin Ended
    /\ requested' = TRUE /\ gate' = IF gate = s THEN "free" ELSE gate
    /\ hpc' = [hpc EXCEPT ![s] = "notify"]
    /\ UNCHANGED <<background, pc, serverVars, woken, stack>>

HandlerNotifies(s) ==
    /\ hpc[s] = "notify" /\ Runs(s) /\ pc \notin Ended
    /\ woken' = (woken \/ pc = "asleep") /\ hpc' = [hpc EXCEPT ![s] = "done"]
    /\ stack' = [th \in Threads |->
                    SubSeq(stack[th], 1, Len(stack[th]) - IF OnTop(s, th) THEN 1 ELSE 0)]
    /\ UNCHANGED <<background, pc, serverVars, gate, requested>>

-----------------------------------------------------------------------------
(* gRPC's threads.                                                           *)

CallStarts(c) ==
    /\ grpc = "listening" /\ calls[c] = "none" /\ pc \notin Ended
    /\ ~(background /\ pc \in Stopping)
    /\ calls' = [calls EXCEPT ![c] = "active"]
    /\ UNCHANGED <<background, pc, grpc, path, registered, dbusFailed, signalVars>>

CallEnds(c) ==
    /\ calls[c] = "active" /\ pc \notin Ended /\ ~(background /\ pc \in Stopping)
    /\ calls' = [calls EXCEPT ![c] = "done"]
    /\ UNCHANGED <<background, pc, grpc, path, registered, dbusFailed, signalVars>>

Main ==
    \/ BuildAndStart \/ StartDiscovery \/ Daemonize
    \/ LockGate \/ TestRequested \/ FallAsleep
    \/ ShutdownServer \/ Drained
    \/ StopServer \/ StopShutdown \/ StopDrained \/ Release

Handler(s) == HandlerLocks(s) \/ HandlerSets(s) \/ HandlerNotifies(s)

Next ==
    \/ Main \/ Awake
    \/ \E s \in Signals, th \in Threads : Delivered(s, th)
    \/ \E s \in Signals : Handler(s)
    \/ \E c \in Calls : CallStarts(c) \/ CallEnds(c)

Spec == Init /\ [][Next]_vars

\* The threads are scheduled, and a notified wait returns.  Nothing obliges a
\* signal to come, a call to end, a wait to return that was not notified, or
\* Shutdown to return where gRPC's threads are gone.
FairSpec ==
    /\ Spec /\ WF_vars(Main /\ ~(background /\ pc = "stopWait")) /\ WF_vars(woken /\ Awake)
    /\ \A s \in Signals : WF_vars(Handler(s))

-----------------------------------------------------------------------------
(* Properties                                                                *)

\* main: "Otherwise wait for the server to exit."  In the foreground, whatever
\* wakes main, the server goes on until a handler has asked it to stop.
ForegroundServes == pc \in Stopping => requested \/ background

\* The option: "Run the service as a daemon in the background".  A server
\* there does not go either before it is asked to.
BackgroundServes == pc \in Stopping => requested

\* NetRemoteServer: the services are members declared after the server, so they
\* go first; no RPC is in progress when they do.  The main of the foreground has
\* waited by then, and its Shutdown leaves Stop's nothing to wait for; the one of
\* the background has not, and there it is Stop that must.
ServicesOutliveCalls == pc \in {"release", "exited"} => Active = {}

\* NetRemoteServer::Stop: a process that ends in order leaves no advertisement
\* of itself, unless systemd-resolved did not do or answer what it was asked.
NothingLeftRegistered == pc = "exited" /\ registered => dbusFailed

\* A handler waits for a gate that what it interrupts holds.
SelfDeadlocked ==
    \E th \in Threads : \E i \in DOMAIN stack[th] :
        /\ hpc[stack[th][i]] = "lock" /\ gate # "free"
        /\ (th = "main" /\ gate = "main") \/ \E j \in 1 .. i - 1 : stack[th][j] = gate

\* OnSignal "Sets a flag to request termination of the server": once it is set
\* a process in the foreground ends, if the calls it waits for do, unless a
\* handler has interrupted the thread that holds the gate.
TerminationCompletes ==
    requested /\ ~background ~> pc \in Ended \/ SelfDeadlocked \/ Active # {}
=============================================================================
