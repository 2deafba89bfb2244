--------------------------- MODULE NetRemoteService ---------------------------
(***************************************************************************)
(* The Wi-Fi RPCs of the service that change an access point.  gRPC calls    *)
(* the handlers on its own threads and nothing orders them: each creates a   *)
(* controller of its own and sends its commands to the one hostapd of the    *)
(* interface, interleaved with the others'.                                  *)
(*                                                                          *)
(* What a request makes the service do is a plan, the sequence of its checks *)
(* and commands; a handler returns at the first that fails.  Before it does,  *)
(* the controller it created goes, and with it the listener of the events of  *)
(* hostapd, whose thread is told to stop and joined (WpaEventHandler has the  *)
(* thread in full).                                                          *)
(***************************************************************************)
EXTENDS HostapdProcess, SequencesExt

CONSTANTS
    Threads,       \* gRPC's threads, each of which handles one request
    Requests       \* per thread, the requests it may be given

Controller == INSTANCE AccessPointControllerLinux

VARIABLES
    request,       \* per thread, its request
    plan,          \* per thread, what is left to do of it
    conn,          \* per thread, the start of hostapd its command socket is of, or 0
    code,          \* per thread, the status it returns
    aborted,       \* std::terminate was called
    listener       \* per thread, where the listener of its controller is

threadVars == <<request, plan, conn, code>>
requestVars == <<hostapdVars, threadVars, aborted>>
vars == <<requestVars, listener>>

NoRequest == [api |-> "none"]

Codes == {"none", "running", "Succeeded", "InvalidParameter", "AccessPointInvalid",
          "OperationNotSupported", "InternalError", "Unknown"}

\* Where a listener is while its handler stops it: without its eventfd when that
\* was looked for, in its wait when it was asked to stop, or on its way out.
Ending == {"unready", "waiting", "leaving"}

Commands ==
    {"refuse", "controller", "capability", "set", "clear", "add", "reload", "read",
     "throw", "query", "switch", "confirm"}

TypeOK ==
    /\ up \in BOOLEAN /\ epoch \in 1 .. MaxRestarts + 1
    /\ state \in {"DISABLED", "STARTING", "ENABLED"}
    /\ \A p \in Properties : \A v \in staged[p] \cup running[p] :
           v = FileValue \/ v \in Threads \X Nat
    /\ aborted \in BOOLEAN
    /\ \A t \in Threads : request[t] \in Requests[t] \cup {NoRequest}
    /\ \A t \in Threads : \A i \in DOMAIN plan[t] : plan[t][i].cmd \in Commands
    /\ conn \in [Threads -> 0 .. epoch]
    /\ code \in [Threads -> Codes]
    /\ \A t \in Threads : plan[t] # <<>> <=> code[t] = "running"
    /\ listener \in [Threads -> {"none", "running", "joined"} \cup Ending]
    /\ \A t \in Threads : listener[t] \in Ending => code[t] \notin {"none", "running"}

-----------------------------------------------------------------------------
(* What a request makes the service do.                                      *)

Do(cmd, arg) == <<[cmd |-> cmd, prop |-> "", arg |-> arg]>>

Refuse == Do("refuse", 0)

\* WifiAccessPointSet...Impl, for an access point controller that exists.
SetPhyTypeImpl(item) ==
    Do("capability", item.supported) \o Controller!SetPhyType(item.type)

SetFrequencyBandsImpl(item) ==
    Do("capability", item.supported) \o Controller!SetFrequencyBands(item.sixGHz)

\* Address and shared secret of all servers are checked; their types are not.
SetAuthenticationDot1xImpl(item) ==
    IF item.complete THEN Controller!SetRadiusConfiguration(item.servers) ELSE Refuse

SetAuthenticationAlgorithmsImpl(item) ==
    Controller!SetAuthenticationAlgorithms(item.known)
SetAuthenticationDataImpl(item) == Controller!SetAuthenticationData(item.psk, item.sae)
SetAkmSuitesImpl(item) == Controller!SetAkmSuites(item.akms)
SetPairwiseCipherSuitesImpl(item) == Controller!SetPairwiseCipherSuites(item.suites)
SetSsidImpl == Controller!SetSsid
SetNetworkBridgeImpl == Controller!SetNetworkBridge

\* What an item of a configuration makes the service do; an item whose
\* parameters are not valid is refused before anything is sent.
ItemPlan(item) ==
    IF ~item.valid THEN Refuse ELSE
    CASE item.kind = "phyType" -> SetPhyTypeImpl(item)
      [] item.kind = "dot1x" -> SetAuthenticationDot1xImpl(item)
      [] item.kind = "algorithms" -> SetAuthenticationAlgorithmsImpl(item)
      [] item.kind = "data" -> SetAuthenticationDataImpl(item)
      [] item.kind = "akmSuites" -> SetAkmSuitesImpl(item)
      [] item.kind = "ciphers" -> SetPairwiseCipherSuitesImpl(item)
      [] item.kind = "ssid" -> SetSsidImpl
      [] item.kind = "bands" -> SetFrequencyBandsImpl(item)
      [] item.kind = "bridge" -> SetNetworkBridgeImpl

\* The operational state is looked at, and changed if it is another.
SetOperationalState(target) == Do("query", target) \o Do("switch", target)

\* What is present of a request's items is applied in the order below.
Applied(items, kind) ==
    LET those == {i \in items : i.kind = kind}
    IN  IF those = {} THEN <<>> ELSE ItemPlan(CHOOSE i \in those : TRUE)

Configure(items) ==
    Applied(items, "phyType") \o Applied(items, "dot1x") \o Applied(items, "algorithms")
    \o Applied(items, "data") \o Applied(items, "akmSuites") \o Applied(items, "ciphers")
    \o Applied(items, "ssid") \o Applied(items, "bands")

\* (mutant) the interface is enabled first and configured then
SwitchedOnFirst(items) ==
    Do("controller", 0) \o SetOperationalState("ENABLED") \o Configure(items)

EnablePlan(items) ==
    Do("controller", 0) \o Configure(items) \o SetOperationalState("ENABLED")

\* A request for one item is checked before the controller is created.
Plan(r) ==
    CASE r.api = "Enable" -> EnablePlan(r.items)
      [] r.api = "Disable" -> Do("controller", 0) \o SetOperationalState("DISABLED")
      [] r.api = "Set" /\ r.item.valid -> Do("controller", 0) \o ItemPlan(r.item)
      [] r.api = "Set" /\ ~r.item.valid -> Refuse

\* What the messages of a request may say, as far as the service looks at it.
IsItem(item) ==
    /\ item.kind \in {"phyType", "dot1x", "algorithms", "data", "akmSuites", "ciphers", "ssid",
                      "bands", "bridge"}
    /\ item.valid \in BOOLEAN
    /\ item.kind \in {"phyType", "bands"} => item.supported \in BOOLEAN
    /\ item.kind = "phyType" => item.type \in {"B", "G", "A", "N", "AC", "AX"}
    /\ item.kind = "bands" => item.sixGHz \in BOOLEAN
    /\ item.kind = "dot1x" =>
           /\ item.complete \in BOOLEAN
           /\ item.servers \in Seq({"auth_server", "acct_server", "unknown"})
    /\ item.kind = "algorithms" => item.known \in BOOLEAN
    /\ item.kind = "data" => item.psk \in BOOLEAN /\ item.sae \in Nat
    /\ item.kind = "akmSuites" => item.akms \subseteq {"unknown", "ft", "8021x", "other"}
    /\ item.kind = "ciphers" =>
           item.suites \in Seq([prop : {"wpa_pairwise", "rsn_pairwise"}, ciphers : BOOLEAN])

ASSUME RequestAssumption ==
    \A t \in Threads : \A r \in Requests[t] :
        /\ r.api \in {"Enable", "Disable", "Set"}
        /\ r.api = "Enable" => \A item \in r.items : IsItem(item)
        /\ r.api = "Set" => IsItem(r.item)

\* What requests set is told apart from what hostapd's file has.
ASSUME ValueAssumption == FileValue \notin Threads \X Nat

Init ==
    /\ HostapdInit /\ aborted = FALSE
    /\ request = [t \in Threads |-> NoRequest] /\ plan = [t \in Threads |-> <<>>]
    /\ conn = [t \in Threads |-> 0] /\ code = [t \in Threads |-> "none"]
    /\ listener = [t \in Threads |-> "none"]

-----------------------------------------------------------------------------
(* The handler on thread t.                                                  *)

Handles(t, r) ==
    /\ ~aborted /\ code[t] = "none"
    /\ request' = [request EXCEPT ![t] = r]
    /\ plan' = [plan EXCEPT ![t] = Plan(r)]
    /\ code' = [code EXCEPT ![t] = "running"]
    /\ UNCHANGED <<hostapdVars, conn, aborted, listener>>

At(t, cmds) == ~aborted /\ plan[t] # <<>> /\ Head(plan[t]).cmd \in cmds

\* (mutant) the handler goes on after a failure
GoesOnAfterFailure(t, c) ==
    /\ plan' = [plan EXCEPT ![t] = Tail(@)] /\ code' = [code EXCEPT ![t] = c]
    /\ UNCHANGED request

Return(t, c) ==
    /\ plan' = [plan EXCEPT ![t] = <<>>] /\ code' = [code EXCEPT ![t] = c]
    /\ UNCHANGED request

GoOn(t) ==
    /\ plan' = [plan EXCEPT ![t] = Tail(@)]
    /\ code' = [code EXCEPT ![t] = IF Len(plan[t]) = 1 THEN "Succeeded" ELSE @]
    /\ UNCHANGED request

Refused(t) ==
    /\ At(t, {"refuse"}) /\ Return(t, "InvalidParameter")
    /\ UNCHANGED <<hostapdVars, conn, aborted, listener>>

\* TryGetAccessPointController.  The manager has the access point or not.  The
\* factory tests for hostapd's socket, then the Hostapd constructor connects its
\* event handler to it and starts its listener, or throws before.
CreateController(t) ==
    /\ At(t, {"controller"})
    /\ \/ Return(t, "AccessPointInvalid")
       \/ ~up /\ Return(t, "InternalError")
       \/ up /\ Return(t, "Unknown")
       \/ up /\ GoOn(t)
    /\ listener' = [listener EXCEPT ![t] = IF plan'[t] = <<>> THEN "none" ELSE "running"]
    /\ UNCHANGED <<hostapdVars, conn, aborted>>

\* GetCapabilities asks nl80211, and the request is compared with the answer.
CheckCapability(t) ==
    /\ At(t, {"capability"})
    /\ \/ Return(t, "AccessPointInvalid")
       \/ Head(plan[t]).arg /\ GoOn(t)
       \/ ~Head(plan[t]).arg /\ Return(t, "OperationNotSupported")
    /\ UNCHANGED <<hostapdVars, conn, aborted, listener>>

ThrowCaught(t) ==
    /\ At(t, {"throw"}) /\ Return(t, "InternalError")
    /\ UNCHANGED <<hostapdVars, conn, aborted, listener>>

\* The command socket is connected by the first command and then kept.
Connect(t) == conn' = [conn EXCEPT ![t] = IF @ = 0 /\ up THEN epoch ELSE @]

\* (mutant) a socket that hostapd has closed is connected again
Reconnected(t) == up

\* The commands of a handler reach the start of hostapd it has connected to.
Connected(t) == up /\ conn[t] \in {0, epoch}

\* What hostapd does about a command that changes its configuration.
Apply(t, step) ==
    \/ step.cmd = "set" /\ Put(step.prop, {<<t, step.arg>>})
    \/ step.cmd = "clear" /\ Put(step.prop, {})
    \/ step.cmd = "add" /\ Put(step.prop, staged[step.prop] \cup {<<t, step.arg>>})
    \/ step.cmd = "reload" /\ ReloadConfiguration

\* Hostapd::SetProperty and Reload: hostapd does what is asked and says so,
\* does it and the answer is lost, or does not.  The last two are exceptions,
\* which the controller catches.
Change(t) ==
    /\ At(t, {"set", "clear", "add", "reload"}) /\ Connect(t)
    /\ \/ Connected(t) /\ Apply(t, Head(plan[t])) /\ (GoOn(t) \/ Return(t, "InternalError"))
       \/ Return(t, "InternalError") /\ UNCHANGED hostapdVars
    /\ UNCHANGED <<aborted, listener>>

\* The check of a change.  What is read is only logged.
ReadBack(t) ==
    /\ At(t, {"read"}) /\ Connect(t)
    /\ \/ Connected(t) /\ GoOn(t) /\ UNCHANGED aborted
       \/ aborted' = TRUE /\ UNCHANGED <<request, plan, code>>
    /\ UNCHANGED <<hostapdVars, listener>>

\* GetOperationalState knows two states: what is not ENABLED is disabled, and
\* so is an interface without hostapd.
SeenState == IF up /\ state = "ENABLED" THEN "ENABLED" ELSE "DISABLED"

QueryState(t) ==
    LET target == Head(plan[t]).arg IN
    /\ At(t, {"query"}) /\ IF up THEN Connect(t) ELSE UNCHANGED conn
    /\ \/ /\ ~up \/ Connected(t)
          /\ IF SeenState = target THEN Return(t, "Succeeded") ELSE GoOn(t)
       \/ up /\ Return(t, "InternalError")
    /\ UNCHANGED <<hostapdVars, aborted, listener>>

\* ENABLE or DISABLE; when hostapd says no, its state is asked for.
SwitchState(t) ==
    LET target == Head(plan[t]).arg IN
    /\ At(t, {"switch"}) /\ Connect(t)
    /\ \/ /\ Connected(t)
          /\ IF target = "ENABLED" THEN EnableInterface ELSE DisableInterface
          /\ GoOn(t) \/ Return(t, "InternalError")
       \/ /\ Connected(t) /\ plan' = [plan EXCEPT ![t] = Do("confirm", target)]
          /\ UNCHANGED <<hostapdVars, request, code>>
       \/ Return(t, "InternalError") /\ UNCHANGED hostapdVars
    /\ UNCHANGED <<aborted, listener>>

\* (mutant) the state is asked for again until it is the one wanted
ConfirmUntil(t) ==
    LET target == Head(plan[t]).arg IN
    /\ At(t, {"confirm"}) /\ Connected(t) /\ Operational = (target = "ENABLED")
    /\ GoOn(t) /\ UNCHANGED <<hostapdVars, conn, aborted, listener>>

\* Hostapd::Enable and Disable take a state they find for their success.
ConfirmState(t) ==
    LET target == Head(plan[t]).arg IN
    /\ At(t, {"confirm"})
    /\ \/ Connected(t) /\ Operational = (target = "ENABLED") /\ GoOn(t)
       \/ Return(t, "InternalError")
    /\ UNCHANGED <<hostapdVars, conn, aborted, listener>>

Handler(t) ==
    \/ Refused(t) \/ CreateController(t) \/ CheckCapability(t) \/ ThrowCaught(t)
    \/ Change(t) \/ ReadBack(t) \/ QueryState(t) \/ SwitchState(t) \/ ConfirmState(t)

-----------------------------------------------------------------------------
(* The end of the handler on thread t: ~Hostapd, and the StopListening of     *)
(* ~WpaEventHandler, against the listener thread.  What that thread does is   *)
(* seen by nobody before, so where it is is chosen when it matters.          *)

ListenerGoes(t, from, to) ==
    /\ ~aborted /\ code[t] \notin {"none", "running"} /\ listener[t] \in from
    /\ \E place \in to : listener' = [listener EXCEPT ![t] = place]

\* A listener that has saved its eventfd, or has ended, is signalled and leaves;
\* one that has not is not signalled.
SignalListener(t) ==
    /\ ListenerGoes(t, {"running"}, {"leaving", "unready"})
    /\ UNCHANGED requestVars

\* request_stop.  It sees that at the top of its loop, if it still comes there.
RequestStop(t) ==
    /\ ListenerGoes(t, {"unready"}, {"leaving", "waiting"})
    /\ UNCHANGED requestVars

\* An event of hostapd, of which there need be none, or a system call interrupted.
ListenerWoken(t) ==
    /\ ListenerGoes(t, {"waiting"}, {"leaving"})
    /\ UNCHANGED requestVars

\* The listener ends and join returns; the controller is gone, and the request
\* is answered.
JoinListener(t) ==
    /\ ListenerGoes(t, {"leaving"}, {"joined"})
    /\ UNCHANGED requestVars

DestroyController(t) == SignalListener(t) \/ RequestStop(t) \/ JoinListener(t)

-----------------------------------------------------------------------------
HostapdMoves ==
    /\ ~aborted
    /\ StartingEnds \/ RadarDetected \/ Stops \/ Starts
    /\ UNCHANGED <<threadVars, aborted, listener>>

Next ==
    \/ \E t \in Threads : \E r \in Requests[t] : Handles(t, r)
    \/ \E t \in Threads : Handler(t)
    \/ \E t \in Threads : DestroyController(t) \/ ListenerWoken(t)
    \/ HostapdMoves

Spec == Init /\ [][Next]_vars

\* A command is answered or times out, so a handler goes on, to the join at its
\* end, and a listener that leaves ends; its wait may last for ever.
FairSpec ==
    Spec /\ \A t \in Threads :
        WF_vars(Handler(t)) /\ WF_vars(DestroyController(t))

-----------------------------------------------------------------------------
(* Properties                                                                *)

\* The values a sequence of steps of thread t gives property p, and those its
\* request gives it.
Assigns(t, steps, p) ==
    {<<t, s.arg>> : s \in {x \in Range(steps) : x.cmd \in {"set", "add"} /\ x.prop = p}}

Sets(t, p) == Assigns(t, Plan(request[t]), p)

\* Another request sets p too; which of them ends up in effect is open.
Contended(t, p) ==
    \E u \in Threads \ {t} : request[u] # NoRequest /\ Sets(u, p) # {}

\* SetProperty, Reload: a request that succeeds has put everything it sets into
\* effect, whatever other requests reload meanwhile.  The exception is the
\* management frame protection of a 6 GHz band, which is left staged.
SuccessIsApplied ==
    [][\A t \in Threads : code[t] = "running" /\ code'[t] = "Succeeded" =>
          \A p \in Properties \ {"ieee80211w"} :
              Sets(t, p) = {} \/ Contended(t, p) \/ running'[p] = Sets(t, p)]_vars

\* WifiAccessPointEnable: an interface that its ENABLE brings up comes up with
\* all of the configuration of the request, nothing skipped or half done.
EnabledAsConfigured ==
    [][\A t \in Threads :
          At(t, {"switch"}) /\ plan'[t] # plan[t] /\ state = "DISABLED" /\ state' # "DISABLED" =>
              \A p \in Properties :
                  Sets(t, p) = {} \/ Contended(t, p) \/ running'[p] = Sets(t, p)]_vars

\* noexcept: the one exception that is not caught is that of a check, at a time
\* when no change of the request is left staged: everything done is in effect.
AbortsOnlyAfterApplying ==
    [][\A t \in Threads : At(t, {"read"}) /\ aborted' =>
          \A p \in Properties : Contended(t, p) \/ staged[p] = running[p]]_vars

\* A request for one item that is refused, not supported or not for an access
\* point there is has not touched hostapd's configuration.
RejectedLeavesNoTrace ==
    \A t \in Threads :
        /\ request[t] # NoRequest /\ request[t].api = "Set"
        /\ code[t] \in {"InvalidParameter", "OperationNotSupported", "AccessPointInvalid"}
        => \A p \in Properties : \A v \in staged[p] : v = FileValue \/ v[1] # t

\* SetSaePasswords clears the passwords before it adds its own.  No password a
\* request has set ever works beside one of hostapd's file, however requests,
\* their failures and restarts of hostapd (a new start has the file's again, and
\* a connection does not outlive the start it was made to) follow each other.
OldPasswordsGone ==
    FileValue \in running["sae_password"] => running["sae_password"] = {FileValue}

\* StopListening: the listener had not saved its eventfd when it was looked for;
\* it was asked to stop after it last looked, and waits for an event of hostapd.
JoinsInSilence(t) == listener[t] = "waiting"

\* The handler has returned: it has a result, and no controller any more.
Answered(t) == code[t] \notin {"none", "running"} /\ listener[t] \in {"none", "joined"}

\* Every request is answered, unless the server is terminated, or the handler
\* joins a listener that nothing wakes.
RequestsReturn ==
    \A t \in Threads : code[t] = "running" ~> aborted \/ Answered(t) \/ JoinsInSilence(t)

\* WifiAccessPointDisable: "Disable the access point if it's not already
\* disabled."  When it says so, the interface neither is nor is coming up.
DisabledWhenItSucceeds ==
    [][\A t \in Threads :
          /\ request[t] # NoRequest /\ request[t].api = "Disable"
          /\ code[t] = "running" /\ code'[t] = "Succeeded"
          => ~Operational']_vars
=============================================================================
