# netremote in TLA+

netremote is a gRPC server that lets a client manage the Wi-Fi access points of
a Linux host. This directory holds TLA+ models of its concurrent core and of the
path a configuration takes from a client to hostapd and back, the TLC
configurations that check them on small instances, and proofs of the properties
that matter most for instances of any size. `PROJECT.json` is the index: it maps
each definition to the source lines it models, and lists the runs, the mutants
that show each property can fail, the hazards, the findings and the theorems.

Paths below leave out the leading `src/src/`.

## The system

| Component | State | Operations | Talks to |
|---|---|---|---|
| Server life cycle: `linux/server/Main.cxx`, `common/server/NetRemoteServer.cxx`, `linux/server/*Dnssd.cxx` | gRPC server, object path of the DNS-SD registration, termination flag under a mutex | start, register, daemonize or wait, signal handler, shut down, destroy | gRPC, systemd-resolved, signals |
| Wi-Fi service: `common/service/NetRemoteService.cxx` | none of its own | Enable, Disable, nine Set RPCs, Enumerate, GetAttributes, each on a gRPC thread | access point manager, controllers |
| Access point controller: `linux/net/wifi/core/AccessPointControllerLinux.cxx` | one Hostapd object, made for one request | a setter per property, operational state, capabilities | Hostapd, nl80211 |
| Hostapd: `linux/net/wifi/wpa-controller/Hostapd.cxx`, `WpaController.cxx` | a command connection made on first use, an event handler | SET/RELOAD/ENABLE/DISABLE/STATUS commands, deferred or enforced | the hostapd process |
| WPA event handler: `.../WpaEventHandler.cxx` | registry of weak listeners, an eventfd, a listener thread | register, unregister, start, stop, dispatch | hostapd's event socket, listeners |
| Access point manager and discovery: `common/net/wifi/apmanager/*.cxx` | list of access points, list of agents | probe, add, remove, presence callbacks, shutdown | the netlink listener, hostapd |
| Netlink listener: `linux/net/wifi/apmanager/AccessPointDiscoveryAgentOperationsNetlink.cxx` | callback, a thread, the eventfd that stops it | Start, Stop, probe, the thread's loop | nl80211 multicast |
| Data streaming: `common/service/NetRemoteDataStreamingReactors.cxx` | per RPC a reactor with counters and flags | reactions to a read, a write, cancellation and the end of the call | gRPC callback threads |
| Adapters: `common/net/**/adapter`, `linux/net/wifi/core/*Adapters.cxx`, `linux/libnl-helpers/*Adapters.cxx` | none | conversions among the API's, IEEE 802.11's, nl80211's and hostapd's vocabularies | |
| hostapd protocol and parsers: `ProtocolHostapd.*`, `WpaResponseParser.cxx`, `WpaCommand*.cxx` | none | texts of properties and answers | |
| nl80211 and rtnetlink helpers: `linux/libnl-helpers` | none | dumps of radios, interfaces, links, addresses | the kernel |
| Network manager: `common/net/network-manager`, `linux/net/core` | none | enumerate interfaces, local addresses | rtnetlink |
| Command line client: `common/tools/cli` | one parsed command | options to requests, answers to text | the server |

How they interact. `main` creates the manager, the discovery agent with its
netlink thread and the network manager, then the server with its two services.
gRPC calls the handlers on its own threads. A Wi-Fi handler asks the manager for
an access point, creates a controller, which creates a Hostapd with a command
connection and an event handler thread, sends its commands and destroys all of
it. The netlink thread calls the agent and the manager through weak references.

What is hard, and what makes each part correct:

- **Wi-Fi service.** Nothing serialises requests, and all of them write to one
  hostapd, whose changes take effect at a reload of anybody. hostapd restarts,
  and an answer may be lost. Correct means: success implies effect; an interface
  comes up with the whole configuration asked for; a refusal leaves no trace; an
  old password does not survive beside a new one; every request is answered.
- **Configuration path.** A value crosses four vocabularies, and some have no
  counterpart in the next. Correct means: what is acknowledged is in force under
  the client's own name for it; a part is not written before those it depends
  on; what is advertised is accepted; what is shown is what there is.
- **Discovery.** Main and the netlink thread both add and remove, kernel messages
  are handled late, and whoever drops the last reference runs the destructors.
  Correct means: one entry per interface, what is there is tracked, what is gone
  is not, and the thread never runs on objects that are gone.
- **Netlink listener.** Two threads share the number of an eventfd that one of
  them closes, calls fail, and the socket's buffer fills. Correct means: a stop
  reaches the thread and nobody else, Stop returns, and the callback of the
  latest Start hears messages in order and none after Stop.
- **WPA events.** Expired listeners, callbacks on a copied registry, and a stop
  that goes through an eventfd the thread itself creates and closes. Correct
  means: no callback on a destroyed owner, no live registration lost, stop ends.
- **Streaming.** Read, write and cancellation reactions run on different threads,
  and gRPC's contract has to be kept by all of them together. Correct means:
  exact results, blocks in order, no call outside the contract, the RPC ends.
- **Server.** Signal handlers take a lock on top of any thread. Correct means:
  the server goes only when asked to, a request to go is not lost, calls never
  outlive services, and the advertisement does not outlive the server.

## Modules

| Module | Models | State and actions |
|---|---|---|
| `WpaEventHandler` | the event handler and the part of Hostapd that owns it | A program counter per caller and for the listener thread; the registry; the eventfd's counter and descriptor; the two epoll slots. A critical section that does not block is one action; `StopListening`, which keeps the lock over a join, is split into its steps (`StopLock`, `StopWrite`, `StopRequest`, `StopJoin`). |
| `AccessPointDiscovery` | manager, agent, netlink message handling, their references and destructors, the kernel | Each step between two lock acquisitions or promotions of a weak pointer is an action of main or of the netlink thread (`Probe`, `AddFound`, `InsertFound`, `Receive`, `LockAgent`, `LockManager`, ...). Reference counts are sets of holders. A stop is split like Stop is (`Signal`, `RequestStop`, `Joined`): the thread sees it by the eventfd it had saved by then, or at the top of its loop. An access point made to see whether hostapd answers is destroyed at once (`CloseFound`, `CloseArrived`), which may take for ever (`silent`). |
| `PresenceListener` | the abstract specification: what a listener for presence messages promises | off, on or deaf; the messages pending and who heard what |
| `NetlinkListener` | Start, Stop, destructor and loop of the netlink thread | A program counter for the caller and one for the thread; the member both touch; who owns each descriptor number of the process; the socket's queue and its overrun. Implements `PresenceListener`. |
| `ServerStream` | gRPC's callback API as a reactor sees it (external) | outstanding reads and writes, calls of Finish, the client's moves |
| `StreamContract` | the abstract specification: what a reactor owes gRPC | |
| `DataStreamReader`, `DataStreamWriter`, `DataStreamReaderWriter` | the three reactor classes | one action per step of a reaction between two accesses to what threads share |
| `NetRemoteDataStreamingService` | the composition: an RPC of one of the three kinds | instances of the reactors; implements `StreamContract` |
| `HostapdProcess` | the hostapd process (external) | per property the values staged and the values in effect; starts and stops |
| `Hostapd`, `AccessPointControllerLinux` | the two classes as the command sequences their methods send | operators without state |
| `NetRemoteService` | the RPC handlers | a request is a plan, the sequence of its checks and commands; each step of a plan is one action, and a failing step returns. At the handler's end its controller goes, and with it the Hostapd and its listener thread (`SignalListener`, `RequestStop`, `JoinListener`), before the client has its answer. |
| `MCNetRemoteService` | requests for TLC | |
| `NetRemoteServer` | the process: main, server, registration, signals | main's program counter, the gate, per thread the stack of handlers that interrupt it; main's Shutdown and the one of Stop are separate actions |
| `Ieee80211` | the server's own vocabulary | enumerators as strings, suites with their selectors |
| `Dot11Adapters`, `ServiceApiAdapters` | the API's vocabulary, both directions | functions over enumerators and records |
| `ProtocolHostapd`, `WpaAdapters`, `WpaResponses` | hostapd's vocabulary and its texts; the parser of STATUS | functions |
| `Nl80211Wiphy`, `NetworkInterfaces` | what the kernel answers, parsed into radios, interfaces, links and addresses | functions of the host, with failed exchanges and attributes that are missing |
| `AccessPointSettings` | the commands of one request with the values they carry | `Run` folds them over hostapd's configuration, up to the first that is not answered |
| `ServiceRequests` | the checks and conversions of the RPCs | a request to its commands, or to its refusal |
| `NetRemoteCli` | the command line client | a line to a request, an answer to what is shown |
| `ConfigurationPath` | the composition: clients, service, hostapd, the kernel | the host, hostapd's configuration, the access points probed; a change is one step, an enumeration of interfaces several |
| `ConfigurationProperties` | what it must do, said of both ends | |
| `MCConfigurationPath` | hosts, command lines and requests for TLC, and the round trips of the conversions | |
| `*Proofs` | theorems, see below | |

The service is modelled twice, for two questions. `NetRemoteService` interleaves
requests command by command and abstracts the values to whose they are;
`ConfigurationPath` has the values and takes a request at a time. Both send the
same commands in the same order.

Histories (`missed`, `skipped`, `late`, `delivered`, `outcome`, `dbusFailed`, `heard`,
`stray`, `loopFailed`, `last`, `told`, `phyAsked`, `seen`) are marked as such
where they are declared; no guard reads them.

Definitions commented `(mutant)` are not part of the models. Each is a variant
of the definition after it, with a mistake somebody could make in that code; put
in its place, it makes the property named in `PROJECT.json` fail.

## Runs and bounds

| Run | Distinct states | What it asks |
|---|---|---|
| `wpa_events` | 424,832 | registration, expiry, dispatch and stop in every interleaving |
| `wpa_stop_before_eventfd` | finding | does a stop during the thread's setup return? |
| `ap_discovery` | 93,572 | probe, presence, unplugging, shutdown |
| `ap_probe_race` | finding | does what is gone go from the list? |
| `netlink_listener` | 463,948 | start, stop, destruction, errors, lost messages, foreign descriptors; the contract of a listener |
| `data_streaming` | 20,192 | the three APIs against gRPC's contract |
| `ds_finish_once` | finding | is an RPC finished once? |
| `wifi_service` | 492,288 | two requests on one hostapd that restarts |
| `wifi_disable_starting` | finding | is an interface disabled when Disable says so? |
| `configuration_path` | 319,295 | values from a client to hostapd and from the kernel to a client |
| `server_lifecycle` | 23,357 | start, signals, calls, end |
| `server_background` | finding | does a background server serve? |

Bounds, and why they are enough:

- `wpa_events`: the owner, two further threads that call StopListening once each,
  the proxy and two clients' listeners, one of which may expire; three tokens, two events. Two
  registrations beside the proxy's are what it takes to reuse a token or to have
  one expire while another lives; two events are one in the queue behind one
  being dispatched. Two further stops are what it takes for
  stops to overlap. The violation has one listener and no second stop.
- `ap_discovery`: two interfaces, one with an adapter that can be unplugged and
  one that hostapd may not manage; three changes, so that an interface can go,
  come back and go while the probe's result is being added. `WeakCas` lets the
  agent's `compare_exchange_weak` fail although nobody has changed the flag, as
  the instruction may.
- `netlink_listener`: two descriptor numbers, one for the eventfd and one for a
  stranger who may take it over; two starts, so that a start can stop the one
  before; a buffer of two and four messages, so that it fills, loses one,
  reports the loss, is drained and listens again.
- `data_streaming`: three blocks; fixed downloads of none, one and three.
- `wifi_service`: two threads with one request each, one restart. One thread has
  the long plans (Enable with PHY type, two passwords and a 6 GHz band; Enable
  with algorithms, AKM suites and a cipher suite hostapd cannot express), the
  other each of the remaining ones. A third request would interleave with the two
  as they do with each other.
- `configuration_path`: two calls, the first any of the lines and requests of
  `MCConfigurationPath` (every enumerator of the API, both ends of each length
  the code tests), the second an enumeration of interfaces or one of those that a
  first can disturb; one change
  of the host or restart of hostapd; one call that hostapd leaves off at any
  command. Hosts: a full one, one whose radio reports less and has a band that
  cannot be parsed, one with a P2P device, one whose rtnetlink socket cannot be
  opened, one without radios whose links change names. Two calls are what it
  takes to be told of something and ask for it, or to leave something behind for
  the next. The module's assumption `ConversionsAgree`, which TLC evaluates, says
  that the conversions in both directions undo each other over all values.
- `server_lifecycle`: SIGTERM and SIGINT once each, on main or on another thread,
  and two calls. Two kinds of signals are what it takes for one handler to
  interrupt the other; one signal of a kind is blocked while its handler runs.

All runs but `netlink_listener` switch deadlock checking off: each system may
stop (a client sends nothing more, the process ends, every bounded change has
happened). What has to go on is stated as a liveness property. The listener's
process always has a descriptor to open or close.

### Fairness

Weak fairness for threads the code runs: the listener thread and the callers
inside StopListening; main and the netlink thread; a call of Start, Stop or the
destructor that has begun, and the listener's loop; gRPC's reactions, OnCancel
and OnDone once due; a handler, since a command is answered or times out, and
its destruction of the controller (`DestroyController`), but for a join that has
nothing to return for; main and signal handlers of the server. Never for clients,
the kernel, hostapd, the operator, systemd-resolved, messages, or a wait that
nobody notified: in particular hostapd need not send the event that ends a
listener which missed its stop (`HostapdSpeaks`, `ListenerWoken`), nor the kernel
the message that ends a netlink thread which missed it (`WaitInterrupted` and the
arrivals). In the daemonized child gRPC's threads are gone, so nothing is assumed
of a Shutdown there, neither main's nor that of Stop. `configuration_path` has no liveness property and no fairness.

## Refinements

- `StreamContract` (`data_streaming`): an RPC is a series of reads and writes,
  one of each outstanding at most, and one Finish, after which nothing is
  started. The mapping is the identity on what gRPC sees; the reactors' flags and
  counters are what it hides. The contract is weakened where the code breaks it
  (see below).
- `PresenceListener` (`netlink_listener`): the listener is off when no thread is
  joinable, deaf when the thread has left its loop by itself, else on; what is
  pending is the socket's queue. Descriptors, epoll and the stop token are hidden.

Both are checked by TLC as properties of the detailed specifications, and both
are proved for any values of the constants.

## What the code does differently from what it says

Each has a run with a counterexample and an entry under `findings`:

1. A Hostapd destroyed before its listener thread has created the eventfd waits
   for the thread for ever (`WpaEventHandler.cxx:73`). Everything that destroys one
   can wait with it: a handler that destroys its controller before its answer is
   sent (`RequestsReturn` excepts `JoinsInSilence`), and main or the netlink thread
   when they have made a controller to see whether an interface is managed
   (`ArrivalTracked` excepts a netlink thread that is held there, `Deaf`).
2. An interface that goes between the probe and its insertion stays in the list
   (`AccessPointManager.cxx:182`).
3. A cancelled upload is finished twice (`NetRemoteDataStreamingReactors.cxx:97`).
4. Disable of an interface that is coming up answers Succeeded and sends nothing
   (`AccessPointControllerLinux.cxx:107`).
5. With `-d` the server has no threads after `daemon()` and main returns
   (`Main.cxx:173`).

Met while modelling, present in the models, without a run of their own. In what
runs concurrently:

- StopListening joins under the shared gate, and a thread with an expired
  listener needs it exclusively (`SignalledStopReturns` allows for it by name).
- The gate "protects" the thread (`WpaEventHandler.hxx:91`), but StopListening,
  which joins and resets it, takes the gate shared, so calls can overlap: the
  second join throws (`StopJoinRefused`), a stop value may go to a closed
  descriptor, and two that arrive together are read as 2, which is not the stop
  value: the thread goes back to waiting, and the join with it. The program itself
  stops a handler only in its destructor.
- The departure of an interface whose whole adapter is gone is dropped, because
  the live query no longer finds the adapter (`missed`).
- The netlink thread can be the last owner of the manager or agent and then joins
  itself (`SelfJoinExplained` says when), and an exception while an arrival is
  handled crosses a `noexcept` callback.
- `Start` of the agent marks it started before it starts its operations, so one
  that throws leaves it started with no thread.
- A Stop right after a Start can find no eventfd to signal and then waits for the
  next nl80211 message (`HangsInSilence`, which `StopGetsThrough` of the listener
  and `ShutdownCompletes` of the discovery except by that name). The destructor signals twice, and the
  second signal may go to a file that has taken over the number
  (`StrayWritesExplained`). After a full socket buffer nothing probes again.
- The writer and the bidirectional reactor can also call Finish twice or start
  one write after Finish; the bidirectional reactor may report a failure twice.
  `StreamContract` is weakened for a call that has died accordingly.
- GetStatus and GetConfiguration throw through `noexcept` setters and end the
  server when hostapd goes away (`aborted`); the frame protection of 6 GHz is
  staged and not reloaded. What they read is logged and not compared: a change
  is acknowledged whatever they say.
- A server that cannot listen on its address is advertised and crashes at
  shutdown; a signal that interrupts main while it holds the gate deadlocks
  (`SelfDeadlocked`); an open stream holds the shutdown up for ever.

In conversions and parsing:

- A PSK given as a value is copied the wrong way round: hostapd gets zeros, and
  refuses them. Sixty-four characters that are not hexadecimal become an empty
  passphrase.
- A vendor-specific authentication algorithm is written as `auth_algs=0`. The list
  of fast-transition key managements has plain 802.1X in it.
- The lists of servers only grow;
  `ieee8021x=1`, `ieee80211w=2` and the properties of greater PHY types are never
  taken back.
- The comparison of AKM suites at `AccessPointControllerLinux.cxx:456` may read
  past the shorter list, and `wpa` in the parser of GET_CONFIG is read
  uninitialised. The response parser never enforces the properties it calls
  required, keeps one of the entries of a repeated key and cuts a value at `=`;
  STATUS without an index for a BSS throws.
- `genlmsg_valid_hdr() < 0` is never true. An nl80211 interface without a name
  (a P2P device) is read all the same and ends the probe; a netlink failure in
  EnumerateNetworkInterfaces, which is `noexcept`, ends the server.
- 60 GHz is taken for 6 GHz, and 6 GHz is not known; A, AX and BE are never among
  the PHY types advertised and are therefore always refused; no interface is of
  kind Wifi.
- The address for DNS-SD is matched as a prefix of text (10.0.0.1 for 10.0.0.10),
  and one that is given with a prefix length never matches.
- The command line client exits with 0 on failure, swaps SSID and identifier in
  a message, and binds its RADIUS options through an optional before that has a
  value.

What a client asks for and does not get, although its change is acknowledged.
`AskedIsGiven` and `PrefixApplied` are about everything else: `LostOfLine` and
`LostOfRequest` name the parts they leave out, `Misnamed` the suite, and removing
any of them makes `configuration_path` fail.

- Authentication algorithms and AKM suites of a command line: the options are
  declared, "The AKM suites of the access point to enable"
  (`NetRemoteCli.cxx:326-329`), and the callback makes its request without them
  (178-212).
- RADIUS servers, when one to fall back on is for accounting. The help says "An
  802.1X RADIUS authentication or accounting fallback server" (593) and the
  comment "If the type is not specified, it defaults to 'auth'" (429); the type
  that is specified is skipped (444) and every such server is one for
  authentication (524).
- A pre-shared key or passwords of a command line one of whose peers has an
  address that cannot be read, and passwords of a request whose peer has an
  address of other than six octets.
- RADIUS servers with a port that does not fit 16 bits: it is taken modulo 2^16.
- AKM suite FT-FILS-SHA384, which hostapd has a name for, is written as
  FILS-SHA384 (`Ieee80211WpaAdapters.cxx:137-138`).

## Proofs

All are checked by TLAPS, for any values of the constants that satisfy the
modules' assumptions (`HandlerAssumption`, `DiscoveryAssumption`,
`ListenerAssumption`, `StreamAssumption`, `ServiceAssumption`,
`ServerAssumption`, `ProcessAssumption`, `RequestAssumption`, `ValueAssumption`,
`PathAssumption`, `HostAssumption`).
TLC evaluates all of them in the passing runs.

- `WpaEventHandlerProofs`: `TypeCorrect`, `ThreadJoined`, `ErasesOnlyDead`,
  `StopWritesReach`. The inductive invariant adds to the types: the thread exists
  only between start and join (`ThreadInv`), which gives
  `NoThreadAfterDestruction`; the thread's copy agrees with the registry on tokens
  that are still registered, and expired tokens name dead listeners
  (`RegistryInv`), which gives the action property; and the position among the
  epoll slots (`SlotInv`). `RegistryInv` rests on tokens not being handed out
  twice. `StopWritesReach` (`StopWriteReachesThread`) rests on `StopInv`: who holds
  the gate, that the eventfd is open while the thread runs, that an attached
  thread leaves only on a stop request, and that behind a request there is a
  caller between its write and its join, or a thread that has been joined. The
  condition that callers do not overlap is needed: the property without it holds
  for one caller at a time and for two it does not.
- `AccessPointDiscoveryProofs`: `TypeCorrect`, `OneEntryPerInterface`,
  `ThreadOutlived`. One entry per interface is inductive with the types, as the
  insertion looks for the name under the lock it inserts under. For the third,
  `RefInv` says which thread holds which reference at which point, and
  `KeptAlive` that a thread that outlives main holds what it uses.
  The second half of the module has `PresentTracked`, `AllPhantomsExplained` and
  `SelfJoinsExplained`. The argument: of the messages about an interface, the one
  being handled and those in the queue, the last says what the interface is now
  (`OrderInv`), so what has to be shown is that handling it leaves the list in
  agreement. `PlaceInv` says where each thread can be, `JoinInv` which references
  keep the manager alive meanwhile and what a thread that joins itself held, and
  `TrackInv` that the list differs from the kernel's only where a message that
  says so is underway, main still has the interface from the probe, its departure
  was missed or hostapd does not manage it. `FollowsInv` is all of them together.
- `NetRemoteServerProofs`: `TypeCorrect`, `OnlyRequestsStop`, `ServicesOutlive`,
  `Unregistered`. The types need the gate: who holds it, and that the handlers
  stacked on a thread are of different signals. `ServicesOutlive` rests on two
  waits (`Waited`): in the foreground main has shut the server down and waited
  before it returns, so that the Shutdown of Stop waits for nothing; in the
  background the first Shutdown is that of Stop, and its wait is what the
  services outlive. For the others the invariant says
  that only a background process daemonizes, that a registration without a known
  path comes from a failed call, and that after Stop a path is left only by a
  failed call.
- `NetlinkListenerProofs`: `ListenerIsSafe`, `Implementation`. `ThreadAndMember`
  ties the member, the descriptor table and both program counters together.
  `FirstSignal` is what makes a plain Stop safe: before the first signal nothing
  has asked the thread to leave, so an eventfd that was read from the member is
  still open when it is written to; only the destructor's second signal and a
  failed epoll_wait are outside it. Each step is then shown to be a step of
  `PresenceListener` or to leave its variables alone.
- `NetRemoteDataStreamingProofs`: `TypeCorrect`, `UploadIsExact`, `Ordered`,
  `DownloadComplete`, `OneLateWrite`, `Implementation`. One invariant per reactor
  (`UploadInv`, `DownloadInv`, `BidirectionalInv`) relates its counters to what
  gRPC has taken and its flags to the one outstanding call; an RPC keeps that of
  its own reactor while the other two stay as they are.
- `NetRemoteServiceProofs`, its first part: `PlansInOrder`, about the plan of any request that
  `RequestAssumption` admits, with any items and any number of passwords and
  RADIUS servers: the checks of a request for one item come before its changes
  (`ChecksFirst`), passwords are cleared once and before they are added
  (`ReplacesPasswords`), every change is reloaded before anything is read back
  (`ReadsAfterReload`), what needs a reload gets one (`ReloadsAfter`), the state
  is switched at the end (`SwitchesLast`), and a plan that changes anything asks
  for ENABLED if for any state (`Enables`). The proof puts a plan together from
  the command sequences of the setters, each of which settles what it changes
  (`Settles`), so that none leaves anything to the next; the two steps that do
  not settle, those of a band, set properties that no reload need follow
  (`Held`). The second half of the module says what of this is kept by the rest
  of a plan when its first step is taken. In the model the lists of a request
  are turned into commands by functions over the positions of the list, since
  what a fold makes of lists of any length is beyond this prover.
- `NetRemoteServiceProofs`, the rest: `TypeCorrect`, `PasswordsReplaced`,
  `RejectionsTraceless`, `SuccessApplied`, `EnabledConfigured`,
  `AbortsAfterApplying`: no other request, failure or restart between two steps
  of a plan undoes what its order is for. The types say where the listener of a
  request's controller is: none before the controller, and on its way out only
  when the result is there. The next three rest on: a thread with
  passwords to add has a clear still to come, or has done it on the connection it
  uses, whose hostapd does not have the file's passwords (`PasswordsInv`); a
  request for one item has changed nothing yet, or has nothing left that could
  refuse it (`TraceInv`). The others are about what is set and what is in effect.
  `PlansInv`: what is left of a plan is in order and touches only what its
  request sets. `AppliedInv`, per thread and property that no other request
  sets: the thread has all of it still to set (`Before`), or has begun on a
  connection of its own, and as long as the hostapd of that connection runs, what
  is staged and what is left to assign make up what the request sets, and what is
  staged is in effect or a reload is still to come (`Since`). A reload by another
  request in the middle of this is what `Since` has to survive; a restart makes
  the connection stale, and the next command on it fails the request. `StagedInv`:
  what is staged and not in effect is of a request that reloads before it reads,
  which makes the abort of a check late enough.
- `ConfigurationPathProofs`: `ShownAsTheyAre` (`InterfacesReported`), for any
  hosts of which `HostAssumption` asks what the kernel keeps: links have names and
  indexes of their own, no index is zero, the kinds named are those of virtual
  links. Between the dump of the links, the lookup of an index and the dump of the
  addresses the host may become any other. The invariant ties the enumeration to
  the hosts seen since it began: the interfaces still to do and those done are of
  a host there was, and include each that all of them had (`ListInv`); the index
  in hand is what the name had on one of them (`IndexInv`); so are the addresses
  of each interface that is done, and none is missing that it had on all of them
  (`AddressInv`); until the first change there is one host, and what was published
  at the start is of it (`HostInv`). The lemmas before that are about the
  conversions between the kernel's, the server's and the API's vocabulary. An
  enumeration that begins discards the answer of the one before: the property
  relates an answer to the hosts of its own enumeration.

  The second half of the module has `ShownIsAccepted` (`AdvertisedIsAccepted`),
  which is about whole requests and what hostapd's answers make of them. A request
  is a sequence of commands that `Run` takes in order; the first part of the
  argument is what that does to a sequence that is put together of others
  (`ExecConcatenation`, `Outcome`), by induction over its length: an answer that
  is missing and a value that is refused end the request with a status of their
  own. `Harmless` are the commands that cannot end it as not supported: all that
  the setters, the conversions and the parsers make, whatever they are given.
  `Decides` is what is left, the two checks against the capabilities, and
  `Faithful` that the parser hands each word of a command line to that check. What
  a radio reports is the same for the enumeration and for the check, as long as
  the host is (`SupportedAgrees`). The inductive invariant (`AcceptInv`) is that
  what a client was told is what its host reports (`ToldInv`) and that the last
  change on that host was decided by it (`Decided`). `RequestAssumption` says what
  reaches the server at all: options of a command line that are given once or are
  lists, and messages of the API with the fields and enumerators they declare.

- `ConfigurationGivenProofs`: `GivenAsAsked` (`AskedIsGiven`) and `AppliedInOrder`
  (`PrefixApplied`), for any command lines, requests and radios, any history of
  earlier requests and any command that hostapd leaves unanswered. The argument
  goes from hostapd to the client. First each setter: what its commands leave in
  the configuration is its part of the request, which is at the end of
  `ConfigurationPathProofs` but for the RADIUS servers, where every entry but its
  last value is found by its place at the end of a list (`ServersAdded`,
  `RadiusServers`). Then what is given stays given: a part writes its own
  properties (`PartsApart`), a greater PHY type amends what the smaller one wrote
  (`PhyKept`), and a list of servers only grows. So a request that asks for one
  thing gives it (`SetterServes`), and an Enable gives all of its parts, or those
  before the one it failed in and nothing of those after (`EnablePrefix`). Last the
  client's side: what a command line says in its own words is what its request
  asks for in the API's (`LineEnables`, `RadiusAsks`, `ParsedAsks`). The text of a
  server that does not have the form the help gives for it is taken to ask for
  nothing in particular (`Documented`); the two ends need not agree on what its
  tokens were to be.

  What the client named is said in its own words, and the code loses some of it
  (`Kept` names what it does not). The argument up to the client's side is about
  what the server and its conversions hear of a request (`Heard`); the last step
  is that what is heard is what was asked, in every part that is kept
  (`LineKept`, `RequestKept`, `KeptIsHeard`), and that hostapd's configuration is
  then judged alike by both (`GivenAlike`, `AppliedAlike`).

  The inductive invariant (`GivenInv`) adds to what the last call asked for
  (`Fulfilled`) the form of hostapd's record, that its servers are lists, and that
  a property a PHY type brings is on only if such a type was asked for since
  hostapd started (`PhyNeeded`). The last two are needed because no request takes
  them back: what a request is to leave depends on all before it.

Induction over data is done by the members of a set of numbers: the library's
theorems take the formula to prove as an operator, which this prover cannot
instantiate, and `Induction` takes the set of the numbers for which it holds. A
sequence that is built step by step is therefore a recursive function in the
models (`Run`), and a fold of the community modules is unfolded once, in
`FlattenSteps`.

Only model-checked: every liveness property (TLAPS has neither ENABLED nor
fairness): `SignalledStopReturns`, `ArrivalTracked`, `ShutdownCompletes`,
`RpcEnds`, `RequestsReturn`, `TerminationCompletes`, `StopGetsThrough`; and the
round trips of the conversions that `configuration_path` evaluates. Every other
property of the passing runs is a theorem.

## Not modelled

- A late answer on a kept command connection that is taken for the next command's
  (`WpaController.cxx:114`). An answer carries nothing that says which command it
  belongs to, and a handler returns at the first command without one, so within a
  request only reads that are logged would get it.
- Two threads that create one controller's connection at once: every request has
  a controller of its own, and nothing in the program shares one.
- What GET_CONFIG is parsed into, Ping, GetProperty, Terminate and
  SetWpaSecurityProtocols of Hostapd: not used, or only for a log entry.
- A capability query that throws (a netlink socket that cannot be allocated or
  connected) and so ends the server in `GetCapabilities`, which is `noexcept`
  (`AccessPointControllerLinux.cxx:52-57`): `NetRemoteService` has it answer or
  fail. Other owners of an event handler than its Hostapd, which
  `Hostapd::GetEventHandler` would allow; nothing calls it.
- The text of commands and events beyond a property's value, the parsing library
  of the command line, the layout of what is shown.
- DataStreamPing and the random content of blocks: no state, and blocks are told
  apart by their number.
- Server configuration (options and a JSON file read before anything runs), the
  monitor example, logging (which a signal handler also does and which has locks
  of its own), string and scope helpers (their effects are in the actions), the
  generated API, the .NET client, the Windows server, the build.

The components in `PROJECT.json` give the reason for each.

## Plan

The order was: most important behaviour first. Done are the event handler,
discovery, streaming, the Wi-Fi service and the server's life cycle; the netlink
listener and its contract; the configuration path with the adapters, hostapd's
vocabulary, the kernel's answers, the network manager and the command line
client; and the proofs above.

Left, in this order:

1. Composition of `NetlinkListener` with `AccessPointDiscovery`, through
   `PresenceListener`: the discovery model takes messages one at a time already,
   what it lacks is a restart of the agent and lost messages.
2. GET_CONFIG's answer, once the program uses it.
