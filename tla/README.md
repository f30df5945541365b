# A TLA+ development of NRI

NRI (Node Resource Interface) lets plugins follow, and interfere with, what a
container runtime does to pods and containers. This directory models the
program in `src/`: TLA+ modules, TLC configurations that check them on small
instances, and TLAPS proofs for every value of the constants. `PROJECT.json`
maps definitions to source lines and lists runs, mutants (plausible bugs that
each property must catch), findings, hazards and theorems.

Contents: [Inventory](#inventory) · [Modules](#modules) · [Runs](#runs) ·
[Fairness](#fairness) · [Proofs](#proofs) · [Findings](#findings) ·
[Not modelled](#not-modelled) · [Plan](#plan)

## Inventory

### The system

```
   CRI request threads            one goroutine per plugin connection
          |                                     |
  BlockPluginSync ... Unblock             UpdateContainers
          |                                     |
   +------v-------------------------------------v------+      +-----------------+
   |  Adaptation  (pkg/adaptation/adaptation.go)       |<-----| accept goroutine|
   |  lock: plugins, validators    syncLock: RWMutex   |      +-----------------+
   +------+--------------------------------------------+
          | one after another, in index order; validators all at once
   +------v------+   +----------+   +-------+   +-------------------+
   | plugin.go   |-->| ttrpc    |-->| mux   |-->| stub.go, handlers |
   | timeouts    |   | (extern) |   |       |   | of the plugin     |
   |             |   +----------+   +-------+   +-------------------+
   |             |   +------------------------+   +-----------------+
   |             |-->| api_host.pb.go, codec, |-->| api_plugin.pb.go|
   |             |   | memory of the module   |   | WebAssembly     |
   +------+------+   +------------------------+   +-----------------+
          | replies
   +------v--------------------+      +----------------------------------+
   | result.go, owners.go      |----->| generate.go: adjust the OCI Spec |
   | merge, detect conflicts   |      | (called by the runtime)          |
   +---------------------------+      +----------------------------------+
```

| Component | State | Operations | What makes it correct |
|---|---|---|---|
| **Adaptation** `pkg/adaptation/adaptation.go` | `plugins`, `validators` under the mutex; `syncLock` | `Start`, `Stop`, accept loop, one relay per CRI request, `StateChange`, `updateContainers`, `validateContainerAdjustment`, `BlockPluginSync`/`Unblock`, `removeClosedPlugins`, `sortPlugins` | a registered plugin's picture of containers agrees with the runtime's; requests go by index; creation fails unless every validator accepts; no plugin can stop the runtime |
| **plugin session** `pkg/adaptation/plugin.go` | `idx`, `base`, `events`, `closed`, `regC`, `closeC` | `connect`, `start`, `RegisterPlugin`, `configure`, `synchronize`, one method per request, `close`, `stop` | one registration, each call bounded by a timeout, a fatal error closes the plugin and nothing else does |
| **synchronization** `plugin.synchronize`, `stub.collectSync`, `deliverSync` | counts per message, slices left, `stub.syncReq` | send, rescale on a rejected message, collect, deliver | the plugin gets the whole state once, or nothing; retries end |
| **results** `pkg/adaptation/result.go`, `pkg/api/owners.go` | the container shown to plugins, the reply, updates, owners of fields | `apply`, `adjust*`, `update*`, claim and clear | no silent override; the two copies agree; what is accepted takes effect; ignored failures are harmless |
| **OCI generator** `pkg/runtime-tools/generate` | the OCI Spec | `Adjust` and one method per collection | the Spec is what the last plugin asked for |
| **mux** `pkg/net/multiplex/mux.go` | connection table, queue and close channel per connection, first error | `Open`, `Listen`, `Read`, `Write`, reader goroutine, `Close` | each connection is a FIFO channel; everybody learns of the end |
| **stub** `pkg/stub/stub.go` | `started`, `conn`, server and client, `doneC`, `srvErrC`, `cfgErrC` | `Start`, `Run`, `Stop`, `Wait`, `connClosed`, the request handlers | Start returns; a plugin can be started again after a lost connection |
| **default validator** `plugins/default-validator` | configuration | one check per restricted field, required plugins | rejects exactly adjustments of restricted fields |
| **events** `pkg/api/event.go`, `setupHandlers`, `Configure`, `StateChange` | `stub.events`, `plugin.events` | parse a mask, subscribe, dispatch | an event asked for reaches its handler and no other does |
| **helpers** `pkg/api` | none | conversions, `Strip`, `Optional` | conversions are inverse to each other |
| **WebAssembly plugins** `pkg/api/api_host.pb.go`, `api_plugin.pb.go`, `wasm-enabled.go` | the module's memory | one method per request, on either side; `Log` the other way | a reply is the handler's; both sides free what they allocate; the time-out ends the module |
| **codec** `pkg/api/api_vtproto.pb.go` | none | `SizeVT`, `MarshalVT`, `UnmarshalVT` of 65 messages | what is written is read, also in part, also by an older peer |
| **builtin plugins** `plugin_type.go`, `builtin/plugin.go` | none | dispatch | same interface as ttrpc plugins |
| sample plugins, v0.1.0 client, generated code, sockets, logging | | | see `PROJECT.json`, components |

### How they interact

* A runtime thread brackets creation and removal of a container with
  `BlockPluginSync` (a read lock of `syncLock`) and `Unblock`. Inside it calls,
  say, `CreateContainer`, which holds the Adaptation lock while it calls the
  plugins one after another and merges each reply before the next call.
* The accept goroutine takes external connections one at a time: registration
  and configuration without a lock, then `syncLock` for writing, `syncFn` (the
  runtime's callback that calls `plugin.synchronize` with its pods and
  containers), the append to the registry under the Adaptation lock, unlock.
* Plugins call back: `UpdateContainers` takes the Adaptation lock, also when the
  plugin is just handling a request that holds it.
* ttrpc callbacks set `plugin.closed` at any moment. Closed plugins leave the
  registry when the next relayed request ends or the next plugin is admitted.

### What is hard

Interleavings of threads, admissions, lost connections and callbacks under two
locks; timeouts that race with answers and are all that keeps a hanging plugin
from stopping the node; state kept twice and edited by separate code (the
container shown to plugins and the reply; the runtime's notion of what it sent
and the stub's of what it got); records of ownership that outlive what they
record; arithmetic on message sizes. `PROJECT.json` lists the hazards at their
lines, with the properties that cover each of them or why none does yet.

## Modules

| Module | Models | Extended by |
|---|---|---|
| `Adaptation` | registry, relaying, admission, validation, unsolicited updates | `MCAdaptation`, `AdaptationProofs`, and from there `AdaptationRelayProofs` |
| `Following` | abstract: what plugins know of containers as these come and go, what `Adaptation` promises | instance in `Adaptation` |
| `SyncSplit` | synchronization of one plugin, both ends | `MCSyncSplit` (and from there `MCProtocol`), `ProtocolProofs` |
| `Delivery` | abstract: the whole state at most once, and success only after it, what `SyncSplit` promises | instance in `SyncSplit` |
| `PluginSession` | the runtime's end of one connection, from `connect` to nothing left | `MCPlugins`, `PluginProofs` |
| `Adjustment` | merging of adjustments, owners, the generator | `DefaultValidator`, `MCAdjustment` |
| `Ownership` | abstract: wishes about items granted or refused in turn, what `Adjustment` promises | instance in `Adjustment` |
| `DefaultValidator` | the default validator on top of `Adjustment`, effective annotations | `MCDefaultValidator`, `DefaultValidatorProofs` |
| `Update` | collecting container updates | `MCUpdate`, `UpdateProofs` |
| `StubLifecycle` | sessions of a plugin's stub | `MCStubLifecycle`, `StubLifecycleProofs` |
| `Handshake` | abstract: the sessions of either end, one after another, what `StubLifecycle` and `PluginSession` promise | instance in both |
| `Mux` | the multiplexers at both ends of a connection | `MCMux`, `MuxProofs` |
| `Channels` | abstract: FIFO channels, what `Mux` promises | instance in `Mux` |
| `ApiTypes`, `ApiTables` | the fields of all messages, their numbers and encodings | `Codec` |
| `Wire` | numbers and strings as the generated codec writes, reads and skips them | `Codec`, `ProtocolProofs` |
| `Codec` | the generated codec of whole messages, as operators | `MessageTransfer`, `MCPlugins` |
| `MessageTransfer` | one message through the codec, cut short or read by an older peer | `MCMessageTransfer`, and from there `MCProtocol` |
| `EventDispatch` | event masks, subscription, the handlers an event ends up at | `MCProtocol`, `PluginProofs` |
| `WasmPlugin` | calls to a WebAssembly plugin, both ends | `MCPlugins`, `PluginProofs` |
| `RemoteCall` | abstract: calls to a plugin of any kind, what `WasmPlugin` promises | instance in `WasmPlugin` |

They meet at interfaces that are one action of `Adaptation`: `Synchronize` and
`SynchronizeFails` stand for a complete behaviour of `SyncSplit`, proved to be one
of `Delivery`: `Synchronize` is its call and its success, `SynchronizeFails` its
failure, before or after a call (the plugin is closed, so that what it was shown no
longer matters to any property of `Adaptation`); `CallPlugin` to `CallSucceeds`,
`CallFails` or `CallIsFatal` are a call as `RemoteCall` has it, and `WasmPlugin` is
proved to make such calls; `CallSucceeds` and `CallFails` include the merging that `Adjustment` and
`Update` model (a conflict is one of the reasons of `CallFails`). `AcceptConnection` to
`Configure` are the runtime's half of what `StubLifecycle` does from `Connect`
to `Configured`, and the calls of both travel over a `Mux`, which they take for
the reliable channel that it is shown to be. `PluginSession` is the detail of
`AcceptConnection`, `Register`, `Configure`, `StartPluginFails`, `CallIsFatal`
and `ConnectionClosed` for one connection: that it ends with `closed` set and
nothing left open is what lets `Adaptation` forget a closed plugin.
`DefaultValidator` extends `Adjustment` and composes its steps with the
validator's; `MCPlugins` composes `PluginSession` and `WasmPlugin`, since a plugin
is one or the other; `MCProtocol` checks side by side, in one behaviour at a time,
the three things both ends of a connection must agree on. `EventDispatch` is the detail
of `Adaptation!Subscription` and of which calls `CallPlugin` makes. The codec is a
parameter of `WasmPlugin` (`Encode`, `Decode`, `Meant`), which needs of it that it keeps
messages; `MCPlugins` makes it the one of `Codec`, and the run evaluates that
assumption for its messages.

Each module also has the definitions marked `Mutant:`, next to the definitions
they are variants of; no specification uses them.

### Adaptation

Variables keep the names of the code where it has one: `plugins`, `validators`,
`closed`, `events`; `lock`, `readers`, `writer` are the two locks; `acc` and
`cand` are the program counter and the plugin of the accept goroutine; `pc`,
`req`, `pos`, `asked`, `pending`, `approved`, `ok` belong to a runtime thread.
`store`, `view` and `aborted` are the containers the runtime has, those each
plugin knows of, and those whose creation or removal a failing plugin cut short.

| Code | Actions |
|---|---|
| `Start`, `startPlugins` | `Start`, `StartFails` |
| `Stop` | `Stop` |
| accept loop, `plugin.start`, `configure` | `AcceptConnection`, `Register`, `Configure`, `StartPluginFails` |
| `requestPluginSync` ... `finishedPluginSync` | `RequestPluginSync`, `Synchronize`, `SynchronizeFails`, `Admit`, `FinishedPluginSync` |
| `BlockPluginSync`, `Unblock` | `BlockPluginSync`, `Unblock` |
| every relayed request | `LockAdaptation`, `SkipPlugin`, `CallPlugin`, `CallSucceeds`, `CallFails`, `CallIsFatal`, `RelayDone`, `Return` |
| `validateContainerAdjustment` | `ValidatorAccepts`, `ValidatorRejects`, `ValidatorIsFatal`, `ValidationDone` |
| `updateContainers` | `RequestUpdate`, `UpdateContainers` |
| ttrpc callbacks, plugin processes | `ConnectionClosed`, `PluginGone` |

Assumptions about what lies outside `src/`: the runtime serves requests only
after `Start` has returned, works on a container in one thread at a time, takes
one block per request and only for creation and removal, and changes its store
while it holds the block, which is what `BlockPluginSync` is for;
builtin handlers return; a plugin registers once per connection, and a
reconnecting plugin is another member of `Plugin`. `Start` is one step, because
it holds the lock from beginning to end and nothing else runs before it. Kinds
of requests that are relayed alike share the kind "update".

### SyncSplit

A pod or container is its position in the runtime's list, with its marshalled
size. `perMsg` and `sent` are `podsPerMsg`, `ctrsPerMsg` and how far
`podsToSend`, `ctrsToSend` have moved; `collected` is `stub.syncReq`;
`delivered` is what the plugin's handler was called with; `flight` tells whether a
message is on its way, or dealt with and its reply is. `Oversized` is a
rejected message with `recalcObjsPerSyncMsg`, `GiveUp` its refusal, `SendMessage`
one that is accepted. `Synchronize` is the stub's side of it: it collects a part, or
calls the handler. `PartAcknowledged` and `LastAcknowledged` are the runtime's side
of the answer; `RequestFails` and `DeadlineExceeded` may come before or after
`Synchronize`, so that a handler may have been called (and failed, or its reply was
lost or late), or a part collected, that the runtime knows nothing of, and what is on
its way may still reach the stub afterwards. `PartNotSupported` is a plugin that takes
a part for the whole, `SliceOutOfRange` the
expression `podsToSend[:podsPerMsg]` beyond the slice. The factor of the code is a float64; the model
scales exactly, which for counts below 2^26 differs by rounding at most where
`n * max / length` is an integer. A message's size is the sum of its objects'.

### Adjustment

A behaviour follows the items of one collection (`kind`) through all plugins;
items of different collections meet only in that a conflict in one fails all.
For each key: `owner` (free, owned by a plugin, or cleared by one, which the code
writes as the plugin's name with a removal mark), the entries in `reply`, and
the setting in `request`, the container that the next plugins are shown. One operator per `adjust*` method
says what becomes of an item. `Generate` applies the reply to the Spec the way
the generator does: lists in order, maps in any order. A response sets a key at
most once (twice always conflicts), and plugin names, the owners' identity, are
distinct. Where the collections differ from one another: all hooks have one owner;
references to CDI devices are not shown to later plugins; the fields of an RDT class
are removed together; the first plugin to set a sysctl takes the way of `Panic`;
the plain resources, limits, seccomp policy and the like can only be set. Of memory
resources the generator applies a limit other than zero, and sets swap to the same; the
others are merged, claimed and shown to plugins alike, but `Dropped` (kind `"memory"`).

### Update

`request` is the resources of the update request as shown to plugins, `updates`
what is collected per container, `reply` the order of the response, `owner` the
claims, `log` a history of what was asked and what became of it. `Merge`,
`Ignore` and `Fail` are the outcomes of one `ContainerUpdate`: claims are made
in a fixed order up to the first conflict, and stay. An update that lists a hugepage
size twice conflicts with itself (`again`). If nobody asked to update the container to
update, the response ends with a nil. The pids limit is treated
as the code does it: the value in an update is not looked at, the one in the request is.

### DefaultValidator

`config` is the validator's configuration, `pod` the two annotations it reads, each
a function from the scopes that are there to values, and `verdict` its answer.
`Validate` comes when all responses are merged and before `Generate`; one
operator per check of the code. What a check asks of the owners is asked of the
owners `Adjustment` recorded, so that a record that is a mere mark of who
cleared an item counts, as it does in the code. A rejection ends the creation.

### PluginSession

`start` is where the thread in `plugin.start` is; `peer`, `process` are the other end;
`mux`, `rpcc`, `rpcs` are the connection's multiplexer, the client, and the
server with its listener; `closed`, `closeC` and `regC` have the code's names,
`onClose` is the client's callback and `register` the goroutines that serve
`RegisterPlugin`. `Close` is `plugin.close`, which takes effect once and is called by the
callback, the serving goroutine, a time-out or a failed configuration, in any
order. `ConnectFails` is the one way in which `connect` can fail, in making the
server: there is no session then, but there may be a process, which nobody kills, and there
is the callback of the client, which finds no `p.impl` and panics (`OnClosePanics`). A
refused registration closes nothing: the session of that plugin goes on until the
plugin hangs up. The pod and container requests are represented by
`CallTimesOut`, the way they can end a session.

### Codec, MessageTransfer

All 65 messages are encoded and decoded by generated code of one scheme; `ApiTables`
gives what differs (the number, the kind and the constants of each field as
the *generated code* has them, tags as the bytes written, which the properties
compare with what the reader expects), and `Codec` the scheme, on top of `Wire` for numbers and strings. A byte is an integer;
a number is the sequence of its seven-bit groups, at most ten of them, and `Narrow` is what is left
of it in a field of 1, 32 or 64 bits. `MarshalVT` writes from the end of a buffer
whose size another piece of generated code, `SizeVT`, has computed; if they
disagree, the result is the panic or the shifted bytes the code would produce.
`ReadOne` is one round of the loop in `UnmarshalVT` and one step of
`MessageTransfer`; when it fails within a number, the digits that were there stay in
the field (`Remnant`), in a message that the caller drops. Not modelled: what a
malformed nested message leaves behind, nil elements of slices, groups, lengths
beyond 2^28, and the codec that ttrpc uses, which is that of the protobuf
library: the generated one carries the calls to WebAssembly plugins only.

### WasmPlugin

`heap` is the module's memory, block by block; `dataPtr`, `logPtr` and `response` are the
addresses that each side hands over. A call goes through `Calls`,
`AllocateRequest`, `PluginCalled`, one of the handler's actions, and
`MethodReturns`; `TimeOut` may come between any two. Assumed of the library that
runs the module: once the context of a call has expired the module is closed,
calls to a closed module fail, and that error counts as
`context.DeadlineExceeded`; a module that the plugin has left (`HandlerExits`) is
closed, too, and fails all later calls with the error of its exit
(`ModuleHasExited`), which does not. Assumed of the plugin: `malloc` does not return 0
(neither side looks), and `malloc(0)` makes no block: a request or a log entry that is
empty takes none, nor does the host's empty response to a log entry, which nobody
frees. How messages
are encoded is a parameter, in the run the operators of `Codec`. `RemoteCall` is
what remains to the runtime of all this: request, handler's reply, outcome.

### EventDispatch

One plugin with a stub, a builtin one, or one of another make, and the tables
written by hand on the way of an event: `ParseEventMask` (the names and groups in the text a plugin asks with, not
its letters), `SetupHandlers` and `StubConfigure` (`stub.events`, and what may be
asked for with it), `BuiltinConfigure`, `Subscribed` (`plugin.events`, where no event stands for all), `Relay` and
`Dispatched` (the requests with a method of their own), and the cases of two methods
`StateChange`. A mask is the set of events whose bits are set; `handlers` is which methods the
plugin has, `called` which of them the last event reached. What the handlers do is up to the
plugin and the subject of the other modules.

### StubLifecycle

Every `Start` that finds the stub stopped is a session, numbered by `starts`.
The stub's fields are variables: `lock`, `started`, `conn`, and, as sessions,
`doneC`, `errC` (`srvErrC` and `cfgErrC`, always made together) and `rpc`
(`rpcm`, `rpcl`, `rpcs`, `rpcc`). What belongs to a session and outlives the
fields is a function of it: its serving goroutine, its client with the callback,
the contents of its channels, the runtime's view of it. `pc` is where a thread of
the plugin is.

| Code | Actions |
|---|---|
| `Start` | `Call`, `StartBegins`, `AlreadyStarted`, `Connect`, `ConnectFails`, `Registered`, `RegisterFails`, `Configured`, `ConfigureFailed`, `StartReturns`; the deferred functions are `FailStart` |
| `Run`, `Wait` | `RunWaits`, `RunReturns`; `WaitChecks`, `WaitWaits`, `WaitReturns` |
| `Stop`, `close` | `StopBegins`, `NothingToStop`, `StopReturns` |
| `connClosed` and the client that calls it | `ClientCloses`, `ConnClosed`, `ConnClosedReturns` |
| serving goroutine | `ServeReturns`, `ServerDone` |
| `Configure` | `RuntimeConfigures`, `ConfigureReturns` |

Steps are cut where another goroutine can see a difference: at the lock, at each
channel, and between reading a field and waiting on the channel found in it
(`Run` and `Wait` do so without the lock). `Connect` includes the set-up of the
session, as nothing of it runs before its end. The runtime may do anything
permitted: accept or not, configure at once, break the connection.

### Mux

Two multiplexers and the trunk. `wire[e]` holds headers and payloads on the way
to end `e`; `table`, `conn`, `readC`, `muxClosed` (`doneC`) and `writeLock` are
the fields of `mux` and `conn`; `writing` is where each connection's `Write` is,
`reader` and `hdr` where the reader goroutine is. A write of a header or payload to the
trunk is one step, so writers interleave wherever the lock lets them. The
runtime's end is made `WithBlockedRead` and speaks after it has heard from the
plugin, the plugin's after it opened its connections (`Speaks`, from
`plugin.start` and `stub.Start`). What is left out: the
error that `Read` reports, and buffers smaller than a frame.

## Runs

Every passing run has a mutant for each of its properties.

| Run | Shows | Bounds, and why they are enough |
|---|---|---|
| `adaptation_sync` | `NoMissedContainer`, `EventsFitView`, `ImplementsFollowing`, `IndexOrder`, `FailClosed`, `StableRegistry` | 2 threads, 2 containers, a builtin and an external plugin, each following creation and removal only or everything and validating too. A race about a container needs one thread creating or removing it, perhaps a second holding the lock, and one plugin being admitted meanwhile; a second plugin fails calls and provides validators. The external one has the smaller index, so that it must be sorted in before the other. Threads and containers are symmetric. 2.0 million states. |
| `adaptation_live` | `RequestsReturn`, `AcceptReturns`, `UpdatesPerformed` | a launched and an external plugin, the latter requesting updates; one thread. 48 thousand states; no symmetry. |
| `protocol` | `ImplementsDelivery`, `RetriesShrink`; `RoundTrip`, `NothingInvented`, `OlderPeerLosesNothing`; `StubEventsArrive` | Splitting: 0 to 12 pods and 0 to 30 containers, one of them perhaps three times the size of the others, limits of 1 to 20: below, at and above what `minObjsPerMsg` objects need, so that states are split once, many times or not at all, and refused. `Budget` 60 is more messages than any of the loads needs. Messages: each of them empty, with all fields (nested three deep in fields of its own), and each field alone with its limits (zero, negative, the largest, a string longer than one byte of length, an empty message, repeated and map fields with empty elements). Encodings up to 30 bytes (`Longest`) are also cut at every position; both orders of a map's keys. A cut within a field must be an error: what is read without one is written in the bytes that arrived. Events: handlers for all events, all but one, one, a group, none; texts with each name, each group, an unknown name, blanks, and several at once; every event, relayed to each. 95 thousand states. |
| `sync_split_panic` | violation, see Findings | the smallest loads with the defect |
| `plugins` | WebAssembly: `ImplementsRemoteCall`, `NothingLeaks`, `TimedOutModuleIsDropped`, `CallsReturn`; process: `NoOrphans`, `SessionEnds`, `OneRegistrationReturns` | 3 blocks of memory, one more than are in use at once; all methods, with an empty and a full message of each type; any number of calls. 3 calls of `RegisterPlugin`: one is taken, one fills `regC`, one waits. 5.0 thousand states. |
| `builtin_dispatch` | violation, see Findings | the same |
| `adjustment` | `OwnersMatchReply`, `ImplementsOwnership`, `OrderedLastWordWins`, `PluginsSeeOutcome`, `RestrictedIsUntouched`, `RequiredPluginsTookPart` | 3 plugins, so that one comes between two others; 2 keys, so that one item can conflict and the other not; all 13 collections, with and without a setting of the runtime's; a validator that rejects all it can or nothing, with required plugins present and absent, and annotations in every combination of scopes with values, opposite values and garbage. 935 thousand states. |
| `adjustment_sysctl` | violation, see Findings | the same, sysctls only, no validator |
| `update` | `MergedUpdatesTakeEffect`, `RequestKept`, `MandatoryStaysMandatory`, `RespondedOnce` | 3 plugins, 2 containers, 2 resources, one of which may be listed twice, and the pids limit, at most 3 updates in all (`MaxUpdates`): one to claim, one to fail and be ignored, one to meet what it left. 2.0 million states. |
| `stub_lifecycle` | `ImplementsHandshake`, `NothingLeaks`, `StopComesBack`, `LossStops` | 2 threads, 2 sessions (`MaxStarts`): what an earlier session left running meets the fields of the next one, and the second thread stops or waits for what the first has started; dialled connections and a given one. 30 thousand states. |
| `stub_hang` | violation, see Findings | the same |
| `mux` | `ImplementsChannels`, `NothingDropped`, `LossIsNoticed`, `NobodyHoldsUp` | NRI's two connections; queues of one frame and up to two frames over a connection (`QueueLength`, `MaxFrames`), so that a queue overflows and a message of several frames is interleaved with others; both ends may close anything at any time. 331 thousand states. |

`CHECK_DEADLOCK FALSE` is set where a behaviour ends: `SyncSplit`, `Adjustment`,
`Update` and `MessageTransfer` model one synchronization, request or message; a
plugin of `EventDispatch` may fail to be configured; a
closed `Mux` and an ended session or dropped module of `MCPlugins` have nothing
more to do; and a `Start` may hang, which is the finding of `stub_hang`. `Adaptation` must not
deadlock and is checked for it.

Properties are explained where they are defined. Two exceptions are part of
the truth about the code. A plugin that returns an error aborts a creation that
other plugins were already told of, and nobody tells them that it failed:
`EventsFitView` and `NoStaleContainer` except containers in `aborted`, which are the `doubtful` ones of
`Following`. And
`LastWordWins` holds of mounts, arguments, namespaces and plain resources
(`OrderedLastWordWins`), not of `Dropped` memory resources nor of removals among environment, devices, RDT,
annotations and network devices.

## Fairness

`Adaptation!Fairness` assumes no more than the Go runtime gives:

* Goroutines that can go on do: weak fairness of the accept goroutine's and the
  threads' own steps, and of `ConnectionClosed`.
* Every call to a plugin is made under `context.WithTimeout`, registration
  under a timer. So `CallIsFatal`, `ValidatorIsFatal`, `StartPluginFails` and
  `SynchronizeFails` are always possible and weakly fair. No fairness for
  answers: a plugin may hang for ever.
* `sync.Mutex` goes into starvation mode after a millisecond and then hands
  itself to the first waiter. Whoever waits for it gets it although others keep
  taking it: strong fairness of `LockAdaptation`, `Admit`, `UpdateContainers`.
* `sync.RWMutex` keeps new readers out while a writer waits: `BlockPluginSync`
  requires `writer = "none"`. This, not fairness, makes `AcceptReturns` true.
* The runtime's `syncFn`, `updateFn` and its work inside a block are assumed to
  end. Nothing makes plugins connect or die, the runtime issue requests, or
  anybody call `Stop`.

`StubLifecycle!FairSpec`: threads and goroutines that can go on do (weak
fairness of `Proceeds`, `Serves`, `ClientCloses`, `ConnClosedReturns`); whoever
waits for the mutex gets it (strong fairness of `TakesLock`, `ConnClosed`).
`RegisterFails` is part of `Starts`, since registration has a time-out;
receiving from `cfgErrC` has none. The runtime need not accept or configure, and
`ConfigureReturns`, the plugin's handler, need not return.

`WasmPlugin!Fairness`: time passes (`TimeOut`), and the host and the library that
runs the module go on (`ModuleIsClosed`, `ModuleHasExited`, `MethodReturns`). Nothing is assumed of the plugin's handlers,
which may compute for ever.

`PluginSession!SessionFairness`: every goroutine of the runtime goes on, and the timer
of the registration and the time-out of the configuration pass. A connection
that the plugin has left is read to its end. Of several goroutines that wait to send to `regC` any
may be served, so that only a lone one can count on it. The plugin owes nothing:
it need not register, answer, or hang up.

`Mux!FairSpec`: the reader goroutines keep running. Nobody has to read, write,
close or unblock.

## Proofs

`tlapm` checks each of these for every value of the constants.

| Theorem | Statement | Assumptions |
|---|---|---|
| `AdaptationProofs!TypeCorrect` | `Spec => []TypeOK` | `AdaptationAssumption` (finitely many plugins; kinds of plugins disjoint) |
| `AdaptationProofs!ViewInvariant` | `Spec => []ViewInv` | same |
| `AdaptationProofs!NoContainerIsMissed`, `NobodyWaitsInACircle` | `Spec => []NoMissedContainer`, `[]NoCircularWait` | same |
| `AdaptationRelayProofs!RelayInvariant` | `Spec => []RelayInv` | same |
| `AdaptationRelayProofs!CreationFailsClosed`, `RequestsGoByIndex`, `RegistryIsStable` | `Spec => []FailClosed`, `[]IndexOrder`, `StableRegistry` | same |
| `AdaptationRelayProofs!ExactInvariant` | `Spec => []ExactInv` | same |
| `AdaptationRelayProofs!NoContainerGoesStale`, `EventsFitWhatIsKnown` | `Spec => []NoStaleContainer`, `EventsFitView` | same |
| `AdaptationRelayProofs!AdaptationImplementsFollowing` | `Spec => ImplementsFollowing` | same |
| `MuxProofs!MuxInvariant` | `Spec => []MuxInv` | `MuxAssumption` (two ends, one of which starts blocked) |
| `MuxProofs!NoFrameIsTooEarly`, `MuxImplementsChannels` | `Spec => []NothingDropped`, `ImplementsChannels` | same |
| `PluginProofs!NoPluginIsOrphaned` | `SessionSpec => []NoOrphans` | `ProcessAssumption` (to have no process is neither "running" nor "killed") |
| `PluginProofs!ClosedPluginsHoldNothing`, `StartedPluginsHaveRegistered` | `SessionSpec => []ClosedHoldsNothing`, `[]StartedHasRegistered` | same |
| `PluginProofs!RuntimeImplementsHandshake` | `SessionSpec => ImplementsHandshake` | same |
| `PluginProofs!CallsLeaveNothing`, `RepliesAreGenuine`, `TimedOutModulesAreDropped` | `Spec => []NothingLeaks`, `[]RepliesAreTheHandlers`, `[]TimedOutModuleIsDropped` | `CodecAssumption` (a message that is encoded is decoded to what is meant by it), `AddressAssumption` (0 is not an address), `TypesAssumption` (there are messages of all types), `NoMessageAssumption` (none is not an empty one) |
| `PluginProofs!WasmImplementsRemoteCall` | `Spec => ImplementsRemoteCall` | same |
| `PluginProofs!WantedEventsArrive`, `BuiltinEventsArriveButOne` | `DispatchSpec => []StubEventsArrive`, `[]OtherBuiltinEventsArrive` | `HandlersAssumption` (handlers are for events there are) |
| `ProtocolProofs!SyncTypeCorrect`, `SyncPartsMatch`, `SyncWholeOrNothing`, `SyncOverrunsAtFloor` | `Spec => []...` | `LoadsAssumption` (sizes of prefixes ascend; limits are positive) |
| `ProtocolProofs!SyncRetriesShrink`, `SyncImplementsDelivery` | `Spec => RetriesShrink`, `ImplementsDelivery` | same |
| `ProtocolProofs!NumbersRoundTrip`, `StringsRoundTrip` | what `encodeVarint` and `Delimited` write is what `ReadVarint` with `Narrow`, and `ReadBytes`, read at any position of any buffer; `Failure` if the buffer ends within it | the number fits its field; the string has less than 2^28 bytes |
| `ProtocolProofs!ReadingAdvances` | what is read of any bytes ends behind its beginning and within the buffer | none |
| `ProtocolProofs!UnknownFieldIsKept` | `Skip` takes a field of wire type 0 or 2 as it stands | the field's number fits in a tag |
| `DefaultValidatorProofs!MergingIsTyped`, `ConflictsAreDetected` | `Spec => []TypeOK`, `[]NoSilentOverride` | `Adjustment!ConstantsAssumption` (plugins, the runtime and nobody are told apart) |
| `DefaultValidatorProofs!OwnersAreRight`, `ShownIsOutcome`, `LastSettingWins` | `Spec => []OwnersMatchReply`, `[]PluginsSeeOutcome`, `[]OrderedLastWordWins` | same |
| `DefaultValidatorProofs!MergingImplementsOwnership` | `Spec => ImplementsOwnership` | same |
| `DefaultValidatorProofs!ValidationIsMerging`, `ValidatedMerging` | `ValidatedSpec => Spec`, and of it the five properties above | same |
| `DefaultValidatorProofs!RestrictedStaysUntouched`, `RequiredPluginsAreThere` | `ValidatedSpec => []RestrictedIsUntouched`, `[]RequiredPluginsTookPart` | that and `ValidatorAssumption` (the options are those there are; an absent plugin is absent) |
| `UpdateProofs!MergedUpdatesStay`, `RequestsAreKept`, `MandatoryUpdatesStay`, `EachIsRespondedOnce` | `Spec => []...` of the four properties of `update` | `Update!ConstantsAssumption` (likewise, and an update is not nothing) |
| `StubLifecycleProofs!StubInvariant` | `Spec => []StubInv` | `StubAssumption` (finitely many threads, told apart from sessions) |
| `StubLifecycleProofs!StartedWasConfigured`, `NothingIsLeaked` | `Spec => []StartedIsConfigured`, `[]NothingLeaks` | same |
| `StubLifecycleProofs!StubImplementsHandshake` | `Spec => ImplementsHandshake` | same |

**No container is missed.** `NoMissedContainer` speaks of states in which
nothing needs to be under way, so it is not inductive. `ViewInv` adds what the
code's argument rests on:

1. `Locks`: the lock is held by the thread that is relaying; who creates or
   removes a container is a reader of `syncLock`; from synchronization to
   admission the accept goroutine is its writer and there is no reader.
2. `Idle`, `Newcomer`, `Exclusive`, `Loop`: nothing happens before `Start`; the
   plugin being admitted is not registered; threads work on distinct containers
   and create those that are not there; where a thread is in its loop.
3. `Announced`: as long as its request has not failed, a thread that creates a
   container has told it to every open subscriber it has passed, also after
   the loop and after the lock is given back. This survives because the
   registry cannot change while the lock is held, and later cannot gain a
   member, by 1.
4. `SyncedView`: the plugin about to be admitted knows all containers of the
   store. This survives because the store changes only in `Unblock` of a
   reader, by 1.

When a thread stores its new container, 3 gives that registered plugins know
it; when a plugin is admitted, 4 gives that it knows all. Each conjunct has a lemma that every
step preserves it, from the conjuncts it needs.

**Whole or nothing.** `ProtocolProofs!IInv` is `TypeOK`, `SentWithin` (what was sent
is within the lists), `Collection` and `Handed`, which give what the stub has
collected and what the handler was called with for each stage of a message
(acknowledged, on its way, dealt with), failed or not. The lemma
`SlicesJoin` says that two adjacent slices join to one, so that no object is
lost or repeated at the seam whatever the counts per message. `OverrunIsPart` is
needed for the last message: one that asks for more than is left is always followed by
more, so that what the handler is called with has no empty objects at its end.
`WholeOrNothing` and `PartsMatch` follow.

**What is written is read.** A number is its groups of seven bits without zeros at
the end (`Varint`). `EncodedHas` says what bytes these become, with the bit that
says that there are more on all but the last; so the first byte without it that
`ReadVarint` looks for is the last one, and the groups come back (`VarintIsRead`),
zero as one group of zero. `NarrowKeeps` then takes each width: nothing that fits is
shifted away, and the sign of a negative int32 is extended to the very groups that
were on the wire. A length is at most four groups (`FourDigits`, `NumberKeeps`). A
buffer that ends within a number has no such byte (`CutVarintFails`), one that ends
within a string does so within its length or after it (`CutInTurn`). These are the
parts of the codec that do not recur; what it makes of whole messages stays with
TLC.

**Synchronization is one delivery.** Seen through `FullState`, `delivered` and
`status`, a part, a rejection or a retry is a stutter of `Delivery`, the stub dealing
with the last part is `Deliver`, even when the runtime has given up meanwhile, its
acknowledgement is `Succeed` and each other way out is `Fail`. `Handed` is what makes
that last part deliver all, and once. `OnlyFloorOverruns` pins down the finding of `sync_split_panic`: a
rescale that asks for more than is left is the floor of four and four
(`RecalcBelow`), for all sizes and limits. `RetriesShrink` is arithmetic about the same
rescale: the factor is below one, since the message was over the limit, so that
truncation lowers each count unless it is zero (`ScaleBelow`, from
`QuotientBelow` and `ProductMonotone`). The floor is eight
objects in all, and a message of no more than that is not rescaled but refused
(`RecalcShrinks`).

**Conflicts are detected.** `OwnerInv` adds to `NoSilentOverride` that only
plugins that had their turn have asked for something or are on record as owners (`Turns`), and
that an item that some plugin has set is never without a record again (`Recorded`).
A later setting then succeeds only if the record says that its own plugin
cleared it, which only a response that also removes the item does.

**Merging grants wishes in turn.** `Ownership` knows no records, replies or marks: a
plugin wishes to keep, set, remove or replace each item, a setting is lost only to a
later wish to remove it, and nobody is refused but over an item that was wished
something about before. The holder of an item is who the record names, as long as
the reply has an entry for the item (`Holder`). That a refusal is justified needs
every record to go back to a wish (`Blamed`), and that settings and removals move
the holder as wished needs to know how the reply of a map ends (`MapEnds`);
`OwnedInv` is these with `OwnerInv` and `OutcomeInv`, which has that only the owner
of an item has an entry in the reply. `AdjustHolds` is the argument for one item,
`ApplyHolds` for a response. The mapping states what the code does differently from
what one would expect (`Wish`): hooks are never anybody's; removing a map entry
leaves the earlier setting in the reply, beside the mark; and a namespace both
removed and set is claimed twice, so that the plugin conflicts with itself.

**What is shown is what is created.** The record of owners, the reply and the
container shown to plugins are edited by separate code, and three of the
properties relate two of them. `OutcomeInv` relates each to what plugins asked for:
the last plugin to touch an item asked for `w` (`Heard`), and the shown copy is
`w`, and so is the last entry of the reply where the generator goes by order
(`Agreed`); only the owner of an item has an entry in the reply (`EntriesOwned`). The
plugins come by index, so that whoever is merged is the last to touch the item.
What makes the step hold for replies of any length is that settings taken back leave
marks only (`MarksAreMarks`), and that removal and setting are each one entry at
the end. A container that is created is the outcome of `Generate`, by
the last conjunct.

**Validating is merging.** With the default validator, each step is a step of
`Adjustment` or, when it accepts, a stutter, and a rejection ends the creation as a
conflict would; so all that holds of merging holds of it.

**Creation fails closed, requests go by index.** `RelayInv` adds to `ViewInv` that
the registry is sorted by index and every registered plugin that validates is
among the validators (`Sorted`, `EveryValidator`); and of each thread, that
of the plugins up to its position all that subscribed were asked and no other
plugin was (`Reached`), and that every validator has approved or is still being waited for
(`Judged`). Members and positions mean the same from one step of a request to
the next because the registry cannot change under the lock, which is lemma
`RegistryHeld` and half of `StableRegistry`.

**No container goes stale, events fit.** The converse of the first: what a plugin knows
is there. `ExactInv` says of each thread that its request is news to the
plugins it has yet to reach (`Unheard`), and that a container being removed was taken
from all it has passed (`Withdrawn`). That a plugin is in one place only
(`Distinct`) makes what a call does to one view leave the others alone; `ExactView`
starts a new plugin with no container but the runtime's. A builtin plugin has
no connection that could be found closed, so that its calls go through until the
registry drops it; `BuiltinsOpen` says that only the request that closed it
can come between.

**The Adaptation lets plugins follow.** `Following` has no locks, threads, queues or
connections: plugins come in with the containers there are while none is being
created or removed; each hears of a new container after those of smaller index; a
container is there when every follower knows it, and gone when none does. The
containers being created and removed are those of the threads between
`BlockPluginSync` and `Unblock`, the followers are the open registered plugins that
subscribed to both events. `FollowInv` is `ExactInv` with `Sorted`, which gives the
order in which they hear, and `Unfailed`: a thread still relaying has not failed, so
that a plugin is told only of what everybody before it was told. A call that gets
through is `Learn` or `Forget`, a lost connection or a plugin dropped `Leave`, an
admission `Join` with everybody admitted at once (before `Start`: all, later: one),
the runtime's own steps `Begin`, `Create`, `Remove` and `Abandon`, and the rest
stutters. `NoMissedContainer` and `NoStaleContainer` are what `Create` and `Remove`
say of followers, at every step.

**The multiplexers are channels.** A step of `Mux` is a step of `Channels` if what
`Read` takes from a queue is the next message that was sent. `MuxInv` follows
a message on its way there:

1. `LockHeld`, `Framed`: whoever has written a header holds the lock, so that
   headers and payloads alternate and each payload follows the header that
   names its connection. A header that lacks its payload is that of the current writer,
   until the trunk is closed.
2. `Numbered`, `Underway`: what was sent over a connection is numbered; received and
   queued is a prefix, and as long as the connection is being read the rest is on
   the wire, in order (`Carries`). A payload that the reader queues is
   therefore the next one. Once a connection is closed its payloads are dropped, and
   nothing is queued for it any more.
3. `InTurn`, `TableOpen`: nobody speaks before its connections are all open. The end
   that starts blocked is unblocked when all of its own are, and speaks after it has
   received something, which the other end cannot have sent before its own were open. Hence
   a payload that finds no connection in the table finds it closed, not yet to be
   opened, and is not missing from the middle of what is received.

With no blocked end, both could speak into connections yet to be opened; that one is
blocked is part of `MuxAssumption`.

**No plugin is orphaned.** Once connected, a launched plugin goes on running after a failed start
only if `start` took the way out that kills nobody, that of a lost connection. The invariant
`BreakHasCause` is that, while `start` is at it, whatever closes any part of the
connection was the plugin's own end or its killing; `RefusedIsExternal` excludes
the other way out that kills nobody.

**A closed plugin holds nothing.** `close` takes effect once, whoever comes first. `SessionInv`
says that it then took all there was: nothing is opened after `connect`, and
the fields are there before anybody can close (`NothingYet`). That a started plugin has registered
goes by what is in `regC` and where `start` is (`Acknowledged`); an answered
registration stays answered (`AnswersStay`), however many follow it.

**Nobody waits in a circle.** `Locks` of `ViewInv` with one more conjunct, on who has a
claim on `syncLock` (`ClaimsNext`): the order of the two locks is the same everywhere,
and nobody who holds either waits for a plugin without a time-out.

**A call through memory is a call.** `WasmInv` says of every point of a call what the
memory holds: `MemoryInUse` that, in a live module, it is the blocks handed over and not freed
yet, and between calls none; `Handed` that each block has the bytes of the message the
other side is to read, which by `CodecAssumption` is then read as meant; `Alive`
that only a live module gets beyond the allocation, and that a call which found it closed
by a time-out ends with the plugin dropped. `Untouched` adds that the handler has neither been called
before the request is read nor replied before it returns. With these, each step
is a step of `RemoteCall` or a stutter: the allocations, time-outs and log lines are
stutters, a call whose decoding fails returns without a handler, and an answer is
taken over as given, or not at all.

**Events arrive.** The tables are finite, the sets of handlers and the texts a plugin
asks with are not. `DispatchInv` follows the mask from the text to the subscription:
what a stub has replied is what it wants and has handlers for, what the runtime keeps is that
reply, and where it is empty for a builtin plugin everything (`BuiltinMask`). Then every
event is one of finitely many cases, of which `BuiltinEventsArriveButOne` excepts the one of the
finding of `builtin_dispatch`.

**What the validator rejects.** The checks look at records of owners, the
container is made from the reply. `ValidatorInv` connects the two: where the
validator has a check, an item with anything in the reply has some record, if only
the mark of who cleared it (`EntriesClaimed`), and there is no reply at all for
sysctls. Required plugins follow from lemma `EffectiveIsClosest`, which says of the loop
over three keys that it finds the annotation of the closest scope.

**Updates.** `UpdateInv` adds to three of the properties that claims and requests leave an
entry, and nothing else does (`ClaimsHaveEntries`, `AskedHaveEntries`, `EntriesAsked`), and that what was merged is claimed
(`MergedAreClaimed`): claims are never given up, so that no later update attempts it
and is merged. An update that
fails, with whatever claims it made on the way, changes neither of the two copies that
the last merge left equal. `ReplyInv` says which
containers are in the reply, and that none is twice.

**A started stub was configured in this session.** `stub.Configure` reports to the
channel that the fields have by then, so the handler of an earlier session, still
running when that session failed, reports to the next one. `StubInv` says why that
does no harm: a session that was asked to configure and has not answered
either is the one being started, or has failed, and then its connection is closed and
is the one the stub keeps in `stub.conn` (`Earlier`). The next session therefore
runs over a closed connection, is never registered, and its `Start` does not come as far as
the channel (`Answered`). The argument rests on `FailStart` leaving `stub.conn`
alone; `FailStartForgetsConn`, the mutant that tidies up, breaks the property.

**Both ends shake hands.** `Handshake` is one promise of two components. An end
opens its sessions one after another, takes one for up only when the other end has
done its part (to the stub: configured it; to the runtime: registered), and a
session that was closed stays closed, whatever is still heard in it. For the stub,
`StubInv` gives nearly all of it: `Current` that what is served is the session of
the fields, `Answered` that `Start` receives its own session's answer, `Closing`
that `started` is reset when nothing is served any more. `Spoken` adds that the
runtime speaks in sessions only that were served. For the runtime, whose connection
is one session, `SessionInv` is enough: `Acknowledged` and `ClosedHoldsNothing`, as
`Configure` needs a client that is open. That the two ends agree in time is not part
of it, and not so: the stub may be up when the runtime has given up on it, until it
notices.

**The stub leaks nothing.** Who holds the lock is the one who is starting or closing
(`LockHeld`). Only the session of the fields is served, by a started stub or
one in the middle of `Start` (`Current`), and what is open belongs to a session
being served (`Clients`, `Links`). `Room` and `Fresh` bound the sessions and say that
nothing is there yet of the next one.

**Theorems without a run of their own.** `WholeOrNothing` is part of what
`ImplementsDelivery` says, `NoStaleContainer` of `ImplementsFollowing`, `NoSilentOverride`
of `ImplementsOwnership`, `RepliesAreTheHandlers` of `ImplementsRemoteCall` and, but for
which session the fields refer to, `StartedIsConfigured` of `ImplementsHandshake`; the runs
check the refinements. `OnlyFloorOverruns`, `OtherBuiltinEventsArrive`, `ClosedHoldsNothing`,
`StartedHasRegistered`, `ImplementsHandshake` of `PluginSession` and `NoCircularWait`
hold in the configurations of `protocol`, `plugins` and `adaptation_sync` when added there.

**Model-checked only.** Liveness (outside TLAPS's reach here), and `RoundTrip`,
`NothingInvented` and `OlderPeerLosesNothing` of `MessageTransfer`: the codec is
recursive in the nesting of messages, and what it computes for all of them takes an
induction over data, which the installed provers cannot be given; of its numbers,
strings and unknown fields the theorems about `Wire` hold for every value. `CodecAssumption` is
the interface between the two: the run `protocol` checks it of the
codec, the proofs about WebAssembly calls start from it.

## Findings

Each has a run that ends in the violation.

| Run | Defect |
|---|---|
| `sync_split_panic` | the floor of four pods and four containers per message exceeds what is left, and slicing panics (`plugin.go:592`) |
| `adjustment_sysctl` | setting a sysctl writes to a map nobody made, and panics (`result.go:492`) |
| `builtin_dispatch` | a builtin plugin is subscribed to `PostUpdatePodSandbox`, but its `StateChange` has no case for that event, so its handler is never called (`builtin/plugin.go:161`) |
| `stub_hang` | a connection that is lost between registration and configuration leaves `Start` waiting for ever, with the lock that `connClosed` and `Stop` need (`stub.go:449`) |

The modules also reproduce these, for which no run is kept; the property named
fails when it is added to the configuration named:

* A count per message that is scaled down to zero stays zero; the rest is never
  sent, and a plugin that answers everything is timed out (`plugin.go:588`):
  `AnsweringPluginNotTimedOut` in `Protocol.cfg`.
* Claims of an update that failed and was ignored stay (`result.go:1086`):
  `IgnoredFailuresHarmless` in `Update.cfg`, with `Requests <- NoPids`.
* If the only updates of the container to update set nothing, or failed and were
  ignored, their entry is empty and goes into the response in the place of what the
  runtime asked for (`result.go:1162`): `RequestNeverLost` in `Update.cfg`.
* The removal of an environment variable or a device is not passed on to the
  runtime (`result.go:622`): `LastWordWins` in `AdjustmentSysctl.cfg`, with
  `Kinds = {"env"}`.
* Of the memory resources that plugins set, only a limit other than zero reaches the Spec,
  and replaces swap there; a reservation, swap, swappiness and the like are claimed, shown to the
  plugins to come and then dropped (`generate.go:326`): `LastWordWins` in
  `AdjustmentSysctl.cfg`, with `Kinds = {"memory"}`.
* A WebAssembly plugin that exits leaves a closed module whose errors are no
  time-outs (`plugin.go:732`): the plugin is never dropped, and every request relayed to it
  fails: `DeadModuleIsDropped` in `Plugins.cfg`.
* A `connect` that fails, because of server options that the runtime has asked for, leaves a
  launched process running (`plugin.go:162`, `265`): `NoOrphansAtAll` in
  `Plugins.cfg`; and the callback of the client that it closes ends the runtime, as
  `close` looks into `p.impl`, which is nil (`plugin.go:361`): `NoPanic`.
* The reply may hold both an annotation and its removal mark, and the generator
  applies them in the random order of a Go map (`generate.go:259`); network
  devices are collected alike: the same, with `Kinds = {"netdevices"}`.
* A response that removes the RDT class and sets one of its fields, or one that
  sets a field of the class another plugin removed, leaves the other fields as the
  runtime asked for them: the same, with `Kinds = {"rdt"}`.

And these can be read off the modules:

* A builtin plugin whose `Configure` handler fails without a reply panics in the
  runtime (`builtin/plugin.go:69`, `BuiltinPanics`). One that asks for events it
  has no handler for is not refused, as one with a stub is.
* In a text with event names only single names may be padded with blanks: "pod" and
  "all" may not (`ItemMask`).
* Removing a mount does not clear the owner who removed it before
  (`result.go:339`), so that a plugin that removes a mount prior to setting it
  may conflict, against `adjustment.go:58`.
* The removal of a sysctl puts its mark among the annotations (`adjustSysctl`).
* After a second plugin has injected hooks, the record of their owner is only the
  mark of who cleared it (`ClaimHooks`): the conflict of "first,second" with that
  mark is dropped. The validator is not misled, since it counts marks.
* A third `RegisterPlugin` call blocks a goroutine of the server for ever; a second
  one changes the index and name of a plugin that is sorted in already.
* A registration that is refused leaves the connection open until the plugin
  hangs up. A launched plugin that closes its connection while it is being
  started is neither killed nor waited for (`NoOrphans` excepts it, and does not speak
  of plugins that could not be connected).
* The WebAssembly runtime of a plugin that was closed, or could not be loaded, is
  never released (`dropped` has no further step), and `Shutdown` is never called
  in it. If decoding a request fails on the plugin's side, it returns 0, which the
  host takes for an empty reply (`PluginCalled`).
* After a failed `Start` the stub keeps `conn`, closed, and the next `Start`
  uses it (`stub.go:549`, `close` returns at once at `stub.go:482`); the comment at
  `stub.go:159` says that the plugin can be restarted.
* The callback for the connection of an earlier session closes whatever session
  runs by then (`stub.go:600`).

Read but not modelled: `NamespaceOwner` looks among the owners of devices
(`owners.go:735`); nothing in `src/` calls it.

## Not modelled

* Event masks as strings of characters: letter case and printing.
* Conversions between OCI and NRI messages, `Strip`, file discovery and plugin
  configuration, processes and sockets: sequential code or I/O with no state
  that the properties depend on.
* In the OCI generator, resolving block I/O and RDT classes and CDI devices by
  callbacks of the runtime, mount sorting and propagation.
* Accessors, service registration and the reflection codec of the generated
  code; the libraries that run ttrpc and WebAssembly modules, whose assumed
  behaviour is stated above.
* Sample plugins, the deprecated v0.1.0 client and adapter, logging, deployment
  files.

## Plan

Done, in this order, the behaviour that most depends on interleaving first:

1. `Adaptation` with the proof that no container is missed.
2. `SyncSplit`, the detail behind `Adaptation!Synchronize`.
3. `Adjustment`, `Update`: what `CallSucceeds` merges.
4. `StubLifecycle`: sessions one after another, and threads that start, stop and
   wait for them.
5. `Mux`, refining `Channels`.
6. `PluginSession`: `regC`, `closeC`, timer and close callbacks, repeated
   registration.
7. The remaining collections of `Adjustment`; `DefaultValidator` on top of its
   owners.
8. `Codec` with `MessageTransfer`; `WasmPlugin`.
9. Theorems about all of the above: types, every safety property the runs check but
   those of whole messages, the refinements of `Channels`, `Delivery`,
   `RemoteCall`, `Following`, `Ownership`, `Handshake` and, for the validator, `Adjustment`, and the
   round trip of numbers and strings.
10. `EventDispatch`, the events from a subscription to a handler, with its theorems.

Left: the conversions of `pkg/api` as pure operators, checked against reference
definitions.
