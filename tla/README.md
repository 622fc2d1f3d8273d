# A TLA+ model of WhispersAbyss

WhispersAbyss is a relay: games connect to it over TCP, and for each of them it
opens a connection to a server over Valve's GameNetworkingSockets ("GNS") and
carries messages both ways. Nearly everything that is hard about it lies in its
threads: every module starts and stops asynchronously, on detached threads, and
five kinds of workers move messages and objects between each other.

This directory models that: the life cycle all modules share, the TCP and the GNS
endpoint and the factories that own them, the bridge that relays between two
endpoints, the factory that owns the bridges and takes the program down, and
ShadowWalker, the Python client that comes with the relay.
TLC checks the models on small instances; TLAPS proves the safety of the life cycle,
the instances, the factories, the bridge and ShadowWalker for every value of their
bounds.

Line numbers refer to `src/WhispersAbyss/` unless a path is given.

## 1. The system

### Components, their state and their operations

| Component | State | Operations and threads |
|---|---|---|
| `StateMachine` (state_machine.hpp) | `mState` in Ready, Running, Stopped; `mIsInTransition`; two run-once flags; `mRefCounter`; one mutex | `TransitionInitializing`, `TransitionStopping` (constructor waits for its turn and decides, destructor commits), `StateMachineReporter` (`IsInState`, `SpinUntil`, `GetStatus`) |
| `TcpInstance` | socket, `mRecvMsg`, `mSendMsg`, `mOrderedUrl`, each with a mutex | constructor thread, `Stop` thread, `RecvWorker`, `SendWorker`; `Send`, `Recv`, `GetOrderedUrl` for the bridge |
| `GnsInstance` | connection handle, `mRecvMsg`, `mSendMsg` | constructor thread (resolves and connects), `Stop` thread, `CtxWorker`; `Send`, `Recv`; the status callback |
| `TcpFactory` | `mConnections`, index list, disposal queue | constructor thread, `Stop` thread, io_context thread (`AcceptorWorker`), disposal thread; `GetConnections`, `ReturnConnections` |
| `GnsFactory` | router map from handles to instances, socket interface, disposal queue | constructor thread, `Stop` thread, poll thread (runs the library's callbacks), disposal thread; `GetConnections`, `ReturnConnections`, `GetGnsSockets`, `RegisterClient`, `UnregisterClient` |
| `DisposalHelper`, `IndexDistributor` (others_helper.hpp) | `mDequeDisposal`; returned indices | `Start`, `Stop`, `Move`, `DisposalWorker`; `Get`, `Return` |
| `BridgeInstance` | pointers to its TCP and GNS instance, four counters, two lists inside its worker | constructor thread (waits for the URL, asks for the GNS instance), `Stop` thread, `CtxWorker` (relays); `ReportStatus` |
| `BridgeFactory` | both factories, `mInstances`, disposal queue | constructor thread (waits for the factories), `Stop` thread, `CtxWorker` (makes bridges, retires stopped ones), disposal thread; `ReportStatus` |
| `main` | two flags set by keys | `MainWorker` polls them, builds and stops the `BridgeFactory` |
| `CommonMessage`, `OutputHelper`, `CountDownTimer` | bytes; console; a time | value types and console |
| ShadowWalker (`src/ShadowWalker/`, Python) | a client of the relay: state machine, queues, user table | `BmmoClient` (two workers), `BmmoContext` (session with the game server), `BmmoUserManager`, console |

### How they interact

`BridgeFactory` takes accepted `TcpInstance`s from `TcpFactory`, builds one
`BridgeInstance` on each, and moves stopped bridges into its disposal. A bridge
waits until its TCP peer has sent a command message with a URL, gets a
`GnsInstance` for it, and then polls: `Recv` on one side, `Send` on the other. When
it stops it stops both instances, waits for them, and returns them to their
factories, whose disposal threads delete them. Any `Stop()` only starts a detached
thread; everybody who needs the result spins on `IsInState(Stopped)`. The shutdown
order is bridges, TCP factory, GNS factory.

### What is hard

- **Interleaving**: every module has at least four threads that touch its state.
- **Asynchronous stop**: a stop can be asked for before, during and after
  initialization, several times, and by the module's own workers.
- **Joining**: a stop joins threads that block in reads or wait for Running.
- **Ownership**: raw pointers pass from the accept handler over a queue, a bridge
  and a disposal queue to a `delete`.
- **Partial failure**: either side can stop, crash or refuse messages at any time.

There is no persistence and no retry, so crash recovery and duplicated messages are
not concerns. `PROJECT.json` lists every hazard at its line, with the properties
that cover it or the reason why none does yet.

### What makes each component correct

- *StateMachine*: transitions exclude each other and run once; Stopped is final; an
  accepted stop stops; no thread that was counted in time outlives the object.
- *TcpInstance, GnsInstance*: two streams in order, without loss except at the end;
  a stop always completes, leaves no worker behind, and nothing is sent after it.
- *Factories*: each instance is in one pair of hands, and is finally deleted.
- *BridgeInstance*: relays in order, never uses a returned instance, comes down when
  either side does, returns both instances once and stopped.
- *BridgeFactory*: nothing is called out of time while everything shuts down.

## 2. The modules

| Module | Models | How |
|---|---|---|
| `StateMachine` | the state word and its transitions | operators over a record, used by all other modules |
| `Lifecycle` | what a module promises | abstract: one variable, `phase` |
| `ModuleLifetime` | state machine, its threads, reference counter, the owner that disposes | one action per critical section of state_machine.hpp |
| `ModuleLifetime_proofs` | | theorems about `ModuleLifetime` |
| `MCModuleLifetime` | | gives `ModuleLifetime` its threads for TLC |
| `Endpoint` | what an instance promises its bridge | abstract: four histories, `arrived`, `taken`, `given`, `sent` |
| `TcpInstance` | tcp_instance.cpp | all threads, with program locations |
| `TcpInstance_proofs` | | theorems about `TcpInstance` |
| `GnsInstance` | gns_instance.cpp, and the router and callbacks of gns_factory.cpp for one instance | all threads; the library is a connection and a queue of status changes |
| `GnsFactory` | the rest of gns_factory.cpp, around one `GnsInstance` | all threads of both; the library is down, up or killed |
| `GnsFactory_proofs` | | theorems about `GnsInstance` and `GnsFactory` |
| `DisposalHelper` | the queue and thread of that class | actions only; a factory instantiates and composes them |
| `TcpFactory` | tcp_factory.cpp, `IndexDistributor` | all threads; instances are reduced to life cycle and index |
| `TcpFactory_proofs` | | theorems about `TcpFactory` |
| `Queues` | | what is said of queues: elements, duplicates, numbers in order |
| `SequenceLemmas` | | lemmas about queues, for all proof modules but `ModuleLifetime_proofs` |
| `BridgeLife` | what a bridge promises its factory | abstract: where each bridge is, whether it was told to stop, what it holds |
| `BridgeInstance` | bridge_instance.cpp | bridge in full, its two instances as `Endpoint` and `Lifecycle` |
| `BridgeReport` | ReportStatus of bridge_instance.cpp, on MainWorker's thread | one action per load, test and use, beside all steps of `BridgeInstance` |
| `BridgeInstance_proofs` | | theorems about `BridgeInstance` and `BridgeReport` |
| `BridgeFactory` | bridge_factory.cpp, MainWorker of main.cpp | all threads; the two factories as `Lifecycle`, the bridges as `BridgeLife` |
| `BridgeFactory_proofs` | | theorems about `BridgeFactory` |
| `BmmoClient` | ShadowWalker's BmmoClient.py and the state machine of CppHelper.py | all threads, as actions that `BmmoContext` composes |
| `BmmoContext` | ShadowWalker's BmmoContext.py, and the main loop of ShadowWalker.py | all threads and the table of users; the game server is what it may send |
| `BmmoContext_proofs` | | theorems about `BmmoContext` and `BmmoClient` |
| `MCBmmoContext` | | gives `BmmoContext` its ids and names for TLC |

How the modules fit together: `ModuleLifetime` shows that the code's threads and
flags implement `Lifecycle`; from it the others take that at most one `Stop()` is
granted, and keep one stopping thread each (`stopOrdered` remembers that at least
one `Stop()` was called). `TcpInstance` and `GnsInstance` implement `Endpoint`
(property `ImplementsEndpoint`) and their stop completes (`StopCompletes` of
`TcpInstance`, `EveryStopCompletes` of `GnsFactory`, which composes `GnsInstance` in
full detail); `BridgeInstance` uses `Endpoint` and `Lifecycle` in their place,
`TcpFactory` only the life cycle. In the same way a bridge implements `BridgeLife`
(`ImplementsBridgeLife`), and instances and factories implement `Lifecycle`
(`ImplementsLifecycle`); `BridgeFactory` is built on `BridgeLife` and on the `Lifecycle`
of the two factories. What these leave open, that a stop completes, is `StopCompletes`
of `BridgeInstance` and `TcpFactory` and `EveryStopCompletes` of `GnsFactory`. So each
module uses its neighbour as another module, and in its safety a proof, shows it to be.
ShadowWalker is a program of its own and meets the relay only over TCP.

A thread is a program location (`initPc`, `stopPc`, `recvPc`, ...), a step is one
critical section, one call into another module, or one blocking call. A spin loop is
a location that is left only when its condition holds. A call that blocks (a read, a
write, a join) is left only by the event that wakes it. `\* Slip:` definitions are
plausible mistakes in the definition that follows them; the modules do not use them,
and each property is shown to fail when one takes its original's place (`"mutants"`
in PROJECT.json).

### Abstractions

- A message is its position in its stream; a frame is read, and a message written,
  in one step. `CommonMessage` and the byte layout are left out.
- Frames are well formed as far as lengths inside a command frame go; other
  malformed frames are the same as a failed read (both call `Stop()` and return).
- Timers: a timeout may happen at any time at which its loop runs.
- `TcpInstance`: closing a socket wakes a blocked read, as it does on Windows, the
  system the project builds for. A closed socket is closed for writes at once.
- Reading `mOrderedUrl` while it is written is a data race; the model lets the reader
  see the string before, after, or between its resize and its copy ("torn").
- `ModuleLifetime`: the destructor of the state machine tests the counter under its
  mutex and unlocks it (`LeaveSpin`); the memory goes a step later (`Free`). A thread
  whose next step is on freed memory (undefined) does nothing more ("dangling"); that
  one gets there at all is what `NoThreadOutlivesObject` excludes.
- `BridgeInstance`: a call that tested Running may still be served while the
  instance stops (`Serves`, `Declines`). Each `Recv` or `Send` and the `fetch_add` that
  counts it are two steps, with the list's size before it (`count`) kept in between. A
  returned instance and its cleared pointer are one step; `BridgeReport` shows the race
  that is there already without the moment between the two.
- `GnsInstance`: "sent" means handed to the library while the connection is not
  closed; whether the library delivers a message is not asked. Of the status changes,
  a loss and everything that is only logged are told apart.
- `GnsFactory`: one instance; that routes do not mix up instances is left out, as
  connections are distinct keys of a map. Its user returns the instance stopped
  (`ReturnsEachStopped` of `BridgeInstance`) and stops the factory after that, which is
  what `bridge_factory` is about. A failure of `GameNetworkingSockets_Init` ends the
  process.
- `TcpFactory`: its user, `BridgeFactory`, calls it only while it runs. The order of
  `BridgeFactory::InternalStop` is part of the guards of `OrderStop` and
  `GetConnections`, so the `FatalError` branches are unreachable there; the module
  `BridgeFactory` has them. The failed accept (error code ignored) is not told apart
  from an accept.
- `BridgeFactory`: a bridge that has not got its GNS instance yet is "starting"; a
  bridge may lose a side, or a URL fail to come, at any time. `FatalError` stops
  everything. Indices and the text of the report are left out.
- ShadowWalker: a user is an id and a name. A message that is only printed, filtered
  out or malformed changes nothing and is left out. Closing a socket wakes the thread
  that reads from it. A connection that ends still delivers
  what is on its way; what it loses might as well not have been sent. The
  server tells a client that is logged in of every change, in order; it may let two
  users share a name and use an id again, and `uniqueNames` remembers whether it did.
  The granted `Stop` of client and of context is one thread each, as above.

## 3. The runs

| Run | Question | Result |
|---|---|---|
| `lifetime` | Do the threads, flags and counter of state_machine.hpp implement the life cycle, and is the object freed safely? | holds, 4,088 states |
| `lifetime_outlive` | DESIGN.md:10: does no thread outlive the object? | violated |
| `tcp_instance` | Streams in order, no loss, no worker left, every stop completes; does a peer that reads get everything? | holds, 153,000 states |
| `tcp_url` | tcp_instance.hpp:45: is the ordered URL whole? | violated |
| `tcp_factory` | One owner per instance, exclusive indices, disposal complete up to Stop? | holds, 90,000 states |
| `gns_factory` | The same as `tcp_instance` for the GNS side, with callbacks at any time; is the library used only while it is up, and does every stop complete? | holds, 188,000 states |
| `gns_callback` | DESIGN.md:16: does every callback find its client? | violated |
| `bridge` | Relay order, counters, ownership, coming down? | holds, 134,000 states |
| `bridge_report_use` | src/README.md:17: can `p` show a connection at any time? | violated |
| `bridge_factory` | Ownership and disposal of bridges, and the shutdown order? | holds, 32,000 states |
| `bridge_factory_fatal` | tcp_factory.cpp:83: is no factory called out of its work time? | violated |
| `shadow` | Does the table follow the server, do messages leave in order, does the context come down? | holds, 268,000 states |

### Properties

*ModuleLifetime*: `Inv` (the inductive invariant, from which `Exclusive`, `RunOnce` and
`QuiescentTeardown` follow), `CountedInTimeIsSafe` (what the reference counter does
guarantee), `ImplementsLifecycle` (refinement of `Lifecycle` with its liveness),
`DisposeEnds`; `StoppedIsFinal`, nearly what `ImplementsLifecycle` says of a stopped
module, is proved only.

*TcpInstance*: `ImplementsEndpoint` (refinement), `ImplementsLifecycle` (one transition
at a time, no start after a stop), `StoppedIsQuiescent`, `ComesDown` (that is
`StopCompletes`, also for a full queue, and `PeerCloseStops`), `GivenIsSent` (with a peer
that keeps reading).

*TcpFactory*: `OwnedOnce` (each instance in one pair of hands, none in those of a
stopped factory; what the disposal left behind stays in its line), `IndexIsExclusive`
(until the index is given back, which is one step before the `delete`), `NothingLost`
(an action property over queue, cache and destroyed instances), `ReturnedIsDestroyed`,
`StopCompletes`. That it is a `Lifecycle` (`ImplementsLifecycle`) is proved only, as it
has the threads of an instance.

*GnsFactory* with *GnsInstance*: `ImplementsEndpoint` (refinement), `StoppedIsQuiescent`
(no worker, callback, route or open connection of the instance is left),
`LibraryInWorkTime` (poll thread and instance call the library only between its start
and its kill), `ImplementsLifecycle` (of both the instance and the factory; a failing
start is part of it), `HeardLossStops`, `EveryStopCompletes`.

*BridgeInstance*: `RelayInOrder` (end to end), `CountersTrail` (no counter is ever
ahead, and each is behind only until its `fetch_add`), `CtxUsesOwnInstances`,
`ReturnsEachStopped`, `ImplementsBridgeLife` (refinement: what it holds, in which order
it gets and returns it, and that it says Stopped last), `ComesDown` (that is
`EitherSideStops` and `StopCompletes`).

*BridgeReport*: `ReportUsesOwnInstances`, which does not hold, and `ProfileIsPlausible`,
which is proved only. A profile is not a snapshot: it is loaded counter by
counter while `CtxWorker` receives, sends and counts. What it shows as sent to TCP it
shows as received from GNS; that rests on the order of its loads against the order of the
additions. The other way the loads go with the flow, and a profile may well show more
sent to GNS than received from TCP; there it holds that nothing is shown that had not
been taken.

*BridgeFactory*: `OwnedOnce`, `ReportsLiveBridges` (what mInstancesMutex is for),
`FatalOnlyFromLeftBehind` (the shutdown order is right but for one race),
`StoppedIsRetired`, `StopCompletes`.

*BmmoContext* with *BmmoClient*: `UsersFollowServer` (the two tables agree as far as the
server keeps names apart, and together with the messages on their way are the
server's), `SendsInOrder` (an action property over two lists and the wire), `ComesDown`.

### Bounds, and why they are enough

- `ModuleLifetime`: three Stop threads (the owner's and two others): a granted one, a
  waiting one and a late one. The proofs need no bound.
- `TcpInstance`: `NukeCapacity = 2`, two frames, one command frame, two messages
  given. Two messages are enough to be reordered, to split a batch, and to fill a
  queue, from one side in one call or in two. A command frame before, between or
  after data frames drives the move of held frames.
- `TcpFactory`: four connections: one being accepted, one in the factory, one with a
  bridge, one in disposal; an index is reused while another is live.
- `GnsFactory`: `NukeCapacity = 2`, two messages each way, for the same reasons.
- `BmmoContext`: two ids, two names, a server that is empty at first or has two users
  of one name, and `MaxInputs = 2` steps of users or keyboard: a name is used again, an
  id is used again, two users share a name, two messages are in each queue. The login
  and the list of mods come on top.
- `BridgeInstance`: two messages in each direction. `BridgeReport`: one towards GNS
  and two towards TCP.
- `BridgeFactory`: two bridges: one in disposal or being retired while the other is
  made, relays, or loses a side.

### Fairness, and why the code justifies it

Threads that can run are scheduled again (weak fairness of each thread's steps); a
granted transition's work ends; a blocked read or write returns when its socket is
closed or its stream has ended, and not otherwise: a peer that stays and does not read
may block a write for ever. `GivenIsSent` alone assumes a peer that reads, and has weak
fairness of `SendWrite` as its premise. In `BmmoContext` likewise a write of `SendWorker`
need not return. Nobody is assumed to call
`Stop()`, to connect, to send, to take connections or to dispose. In `TcpFactory` and
`BridgeInstance` an instance that was told to stop stops: this is `StopCompletes` of
`TcpInstance` and `EveryStopCompletes` of `GnsFactory`. In `BridgeFactory` the same
holds for bridges and both factories; and `CtxWorker` gets mInstancesMutex in the end
(strong fairness of `CtxLock`), because `MainWorker` sleeps half a second between two
reports. In `GnsFactory` and `BmmoContext` threads that take finitely many steps share
one condition: as long as one of them can move, one of them does, and so each ends.
A worker that only spins or polls is modelled without a step for a turn that
changes nothing.

### Disagreements between the code and its documents

1. **A thread can outlive its object** (`lifetime_outlive`). A thread of `Stop()` counts
   itself in the Transition constructor; until it gets there the destructor does not
   know of it. Nor does it help to count itself late: the mutex is unlocked
   (state_machine.hpp:78) before the memory goes. Two `Stop()` calls are normal: a
   worker calls one when its connection breaks, the bridge another
   (bridge_instance.cpp:79, gns_instance.cpp:208). The comment in
   state_machine.hpp:11-26 knows of it; DESIGN.md:10 promises otherwise. What the
   counter does guarantee is `CountedInTimeIsSafe`: who counted itself before the
   destructor's test has left before the memory goes.
2. **The URL can be read half written** (`tcp_url`), tcp_instance.cpp:90.
3. **A bridge left behind ends the process** (`bridge_factory_fatal`): the disposal
   worker copies its queue, and leaves when the copy is empty and a stop is requested
   (others_helper.hpp:158-167); what is moved in, and a stop requested, between the two
   stays in `mDequeDisposal`. A bridge left there is still alive when the factories are
   stopped (bridge_factory.cpp:78-85); when it stops it returns its connection, and
   tcp_factory.cpp:83 calls `FatalError`. `FatalOnlyFromLeftBehind` says that nothing
   else can do that, `NothingLost` and `OwnedOnce` of `TcpFactory`, which has the same
   race in its disposal, how far the damage goes.
4. **A callback can come before its client** (`gns_callback`), gns_instance.cpp:256-263:
   the poll thread looks the connection up before `RegisterClient` has added it. If the
   callback reports a loss, the instance runs on with a dead connection until the
   other side of its bridge goes away; `HeardLossStops` is what remains true.
5. **A report can use an instance that was returned** (`bridge_report_use`):
   `ReportStatus` tests `mTcpInstance` and `mGnsInstance` and uses them afterwards
   without a lock (bridge_instance.cpp:115-125), while `InternalStop` returns and clears
   them (81-82, 87-88) and the factory deletes what they point to.

Two more have no run of their own. tcp_instance.hpp:37 says that `mIsReliable != 0` asks
for unreliable mode, while the code treats it as reliable (messages.cpp:24-27). And the
stop of ShadowWalker's client looks for its workers under other names than its start
(BmmoClient.py:63-66, 79-86), so it neither asks nor joins them: the model has no such
step in `CloseThreads`, and the client comes to say Stopped while both may run.
`RecvWorker` finds the closed socket and leaves; `SendWorker` may be at its test for
Running, which never holds again, and stays there until the process ends. It does not
keep the process alive: it was created on a daemon thread (CppHelper.py:83-84) and so is
one itself. `ComesDown` is what remains true: the context and the client stop.

## 4. The proofs

`ModuleLifetime_proofs` proves, for every finite set of `Stop()` threads (assumption
`ThreadsAssumption`: finite, contains the owner's own, excludes the constructor's):

- `Invariance`: `Spec => []Inv`. `Inv` is inductive. Exclusion alone is not: that a
  second grant is impossible needs that `mIsInTransition` is set exactly while a thread
  works (`TransitionsOK`); that Stopped is final needs what each run-once flag still
  owes to the state (`StateOK`); that the destructor finds no working thread needs both
  with `OwnerOK`; and that memory is not released under a thread that counted itself in
  time (`InTimeOK`) needs the exact equation `mRefCounter = |attached threads| +
  reporters` (`ReferencesOK`), whose steps rest on two lemmas about the cardinality of
  the attached threads. There is one lemma per conjunct and, inside, one step per
  action.
- `ExclusiveHolds` (one transition works at a time), `RunOnceHolds`,
  `QuiescentTeardownHolds` (no transition works on an object that is torn down),
  `CountedInTimeIsSafeHolds`: consequences of `Inv`; `TypeCorrect` is its first part.
- `StoppedIsFinalHolds`: the action property, step by step under `Inv`.
- `LifecycleSafety`: every step of the threads is a step of `Lifecycle` or a stutter.

`TcpFactory_proofs` proves, for every number of connections `MaxInstances`, `TypeCorrect`,
`OwnedOnceHolds`, `IndexIsExclusiveHolds` (the invariants of the run `tcp_factory`) and
`NothingLostHolds` (its action property). `Inv` there has six parts, and each is needed
by the next: that the destroying lambda never sees an empty cache needs `DisposalOK`;
that a stopped factory holds nothing needs `ThreadsOK`, where each thread is when a stop
has come to a certain point; `PlacesOK` says of the four sequences, the bridges' set and
the accept handler one by one what `OwnedOnce` says of them together, and rests on
lemmas about the elements of a concatenation and on the invariant that only an instance
not yet created is accepted; `StatusOK` relates "deleted" to the disposal's history; and
`IndexOK` adds to exclusion that all indices are below `mCurrentIndex` and that none is
on the returned list twice, without which exclusion is not inductive. That only a
created, not yet destroyed instance is in the cache (`PlacesOK`, `StatusOK`) is what
makes the lambda's unguarded `Return(mIndex)` safe. `NothingLostHolds` follows from
`LineGrows`: each step leaves the line of the disposed as it is or extends it.
`LifecycleHolds` is `Spec => ImplementsLifecycle`: by `ThreadsOK` the flag
`mIsInTransition` stands for one of the two threads, so `Lifecycle` can tell which
transition works from `stopPc`.

`TcpInstance_proofs` proves, from `BoundsAssumption` alone, so for every `NukeCapacity`
and any number of frames, command frames and messages:

- `TypeCorrect` and `StoppedIsQuiescentHolds`, the invariants of the run;
- `EndpointHolds`, that is `Spec => ImplementsEndpoint`: `Endpoint` states no fairness, so
  this is the whole refinement, and `BridgeInstance`, which uses `Endpoint` in place of
  its instances, rests on it for the TCP side;
- `LifecycleHolds`, as for the factory.

`Inv` there is `TypeOK`, `ThreadsOK` (where each worker and the stopping thread can be,
given the socket, the state and the transition flag), `ReceivedOK` and `GivenOK`. The
last two say that what arrived is what the bridge took, what waits in `mRecvMsg` and what
the receiver holds, in this order, and that what was given is what was sent, what the
sender holds and what waits in `mSendMsg`. Both are equations only until the worker
leaves; afterwards, when its local queue is gone, only the fronts remain (`\E rest`), and
this is where the code loses messages. A frame that is being read or written excludes
Stopped by `ThreadsOK`: hence the silence that `Endpoint` promises.

`BridgeInstance_proofs` proves the five invariants of the run `bridge`, its refinement and,
of `BridgeReport`, what a profile shows, for any `MaxTcp` and `MaxGns`: `TypeCorrect`,
`CtxUsesOwnInstancesHolds`, `ReturnsEachStoppedHolds`, `RelayInOrderHolds`,
`CountersTrailHolds`, `BridgeLifeHolds` and `ProfileIsPlausibleHolds`. `ThreadsOK` says
that `InternalStop` runs in the one transition that works, the constructor's own or a
stop's; `OwnedOK` says between which of its locations `CtxWorker` lives, which pointers are
set there, and exactly what `returned` is; with them the two properties of the instances
follow. `ToGns` and `ToTcp` say of either direction, by the one predicate `Relay`, that
what was taken is a front of what arrived, that it is what was given followed by what
`CtxWorker` holds, and that what was sent is a front of what was given. There is one
lemma per thing that can happen to a direction (a message arrives, is taken, is given,
is sent), proved once and used for both; order
from end to end is the transitivity of fronts. `CountersOK` says that each counter is
exact but for what `CtxWorker` still has to add at its location. From this
(`CountersAreBehind`) and from the fact that no counter shrinks it follows that the loaded
part of a profile stays behind the counters and, once `mRecvGns` is loaded, has
`mSendTcp` below it (`ProfileOK`); a behaviour of `ReportSpec` is one of `Spec`, so the
bridge's invariant is there already. `BridgeLifeHolds`, that is
`Spec => ImplementsBridgeLife`, is what `BridgeFactory` rests on. `PhaseMeans` says from
`ThreadsOK` and `OwnedOK` what the threads' locations and the two pointers mean for the
abstract bridge, and `LifeSteps` reduces each of its actions to those: a failing start
and a granted stop are the same `Stop` there, and the one `TeardownEnd` of either is the
same `End`.

`GnsFactory_proofs` proves the three invariants and the refinement of the run
`gns_factory`, for every `NukeCapacity` and any number of messages:
`FactoryTypeCorrect`, `StoppedIsQuiescentHolds`, `LibraryInWorkTimeHolds` and
`EndpointHolds` (`FactorySpec => ImplementsEndpoint`), so that both instances which
`BridgeInstance` takes to be `Endpoint`s are proved to be that. `Inv` is about the
instance alone and is kept by every step of `GnsInstance`, whoever takes it: `ThreadsOK`
and, as in `TcpInstance_proofs`, `ReceivedOK` and `GivenOK`, and `ConnectionOK`, which
says who knows the connection at each point of a teardown. There it matters that
`UnregisterClient` waits for the callback under way: without it, "in the handler implies
registered" is not inductive. `InstanceStep` shows that each step of the factory is one
of the instance or leaves it alone, so nothing about the instance is proved twice.
`FactoryInv` adds where the instance is (`PlaceOK`: whoever calls the library belongs to
an instance a bridge still has, and while a bridge has it the factory runs), where the
factory's two threads are (`FactoryOK`: they never work at once) and what is up meanwhile
(`LibraryOK`); `LibraryInWorkTimeHolds` needs all three. `LifecycleHolds` is about both:
`InternalStop` of the instance runs in a stop or, when the start fails, in the
initialization, and `ThreadsOK` tells which.

`BridgeFactory_proofs` proves the four invariants of the run `bridge_factory` for any
number of connections `MaxBridges`: `TypeCorrect`, `OwnedOnceHolds`,
`ReportsLiveBridgesHolds` and `FatalOnlyFromLeftBehindHolds`. `ThreadsOK` says where
`CtxWorker` and the disposal thread are at each point of `InternalStop`; `FactoriesOK`,
that both factories run from the moment the constructor's thread has seen it to that
where `InternalStop` stops them; `ListsOK`, which lists are empty meanwhile; `PlacesOK`
is `OwnedOnce` of the five sequences one by one; `BridgesOK` relates a bridge's life
cycle to its place. `FatalOnlyFromLeftBehind` is kept by these (`WorksAfterAll`): if a
bridge is alive when a factory no longer runs, `InternalStop` is past both joins; so
`mInstances` and the worker's list are empty and the disposal thread has gone with its
cache empty, and `mDequeDisposal` is the one place left.

`BmmoContext_proofs` proves the two invariants and the action property of the run
`shadow`, for any ids and names, any number of inputs and so queues of any length:
`TypeCorrect`, `UsersFollowServerHolds` and `SendsInOrderHolds`. `ThreadsOK` and `SendOK`
say where the context's threads and `SendWorker` are. `LoginOK` says that nobody has
logged in before the context's worker exists; without it a worker might start on a table
that lags behind a session. `ServerOK` says what can be under way before the login is
accepted: nothing, or its denial. `FollowsOK` is the last part of `UsersFollowServer`
without its condition that the connection stands, which no step needs, and with one
thing more: if the server has kept names apart, then so does every table on the way from
the context's to the server's (`Path`), and not only the first and the last. `NamesOK`
is not inductive without this: that a user who joins takes no one's name needs it of the
very next table. `NamesOK` is the rest of `UsersFollowServer`. `Tables` is a recursive
function over the queue. What it computes when the queue grows at its end (`TablesGrow`)
or is handled from its front (`TablesShrink`) is proved by induction over numbers, which
`UpTo` puts in the form of a statement about a set and derives from the least number
principle, as the library's induction theorems are stated for operators.
`SendsInOrderHolds` needs that regrouping a line of three queues changes nothing
(`Regrouping`, `HeadMovesOn`), and that `SendWorker` holds messages only once the URL is
out.

Only model-checked: all liveness properties, as TLAPS has no rules for fairness and
ENABLED here (`StopCompletes`, `DisposeEnds`, `ComesDown`, ..., and the fairness part of
`ImplementsLifecycle` of `ModuleLifetime`). Every invariant, every action property and
the safety of every refinement that a passing run checks is proved.

## 5. Not modelled

Left out for good: console input and output, formatting, argument parsing
(`main.cpp`, `OutputHelper`, `GetchHelper.py`), message layout (`messages.cpp`,
`MessagePatcher.py`, `bmmo.bp`), and the libraries (ASIO, GameNetworkingSockets)
beyond the calls made to them.
