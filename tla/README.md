# A TLA+ verification of node-i3x

node-i3x serves the i3X REST API over an OPC UA server: it browses the server's
address space into an object model, serves values, history and types, and lets
clients subscribe to assets by long poll (`/sync`) or server-sent events
(`/stream`). An MCP server explores such a model for
language models. This directory holds a formal model of its core, the TLC runs
that check it on small instances, and TLAPS proofs of what matters most for
instances of any size. Paths below are relative to `src/packages/`.

## The system

The server is one JavaScript thread. Code between two `await`s is atomic;
everything that can go wrong between concurrent requests goes wrong at an
`await`, at a timer or at a callback. The models follow that: **one action is the
code between two awaits**, with everything it calls.

| part | source | state | operations | hard behaviour |
|---|---|---|---|---|
| subscription delivery | `core/src/services/subscription-service.ts`, `subscription-streams.ts`, `rest-server/src/routes/subscriptions.ts` | update queue, sequence numbers, waiters, the active stream | flush, sync, acknowledge, stream, delete | a stream blocked while an update is queued, two streams, broken connections, a full queue |
| subscription monitoring | `subscription-service.ts`, `subscription-polling.ts` | monitored assets, reverse lookup, runtime, mode, debounce timers, polling loops | register, unregister, delete, data change, timer, poll | calls overlapping at five awaits, a port that fails at any call, shared sources, fallback and promotion |
| model and type caches | `model-service.ts`, `type-service.ts`, `app/src/server.ts` | cached result, build promise | get or build, preload, invalidate | concurrent builds, a build that rejects, a build that awaits another service's build |
| address space browse | `opcua-connector/src/opcua-client.ts`, `pseudo-session-connector/src/pseudo-session-adapter.ts` | the wave, visited and mapped nodes | browse a wave, map its references | cycles, shared children, a graph that changes between two answers, filter and depth limit |
| data source subscriptions | `opcua-connector/src/opcua-client.ts`, `pseudo-session-connector/src/address-space-subscription.ts`, `polling-subscription.ts` | monitored items, listeners, polled values, the callback | addItems, removeItems, close, publish, poll | an answer after `removeItems` or `close`, overlapping polls, items created in part |
| model construction | `core/src/services/model-service.ts` `_build`, `mapper.ts` | none | nodes to assets, properties, ids, roots | pure; folders, orphans, names that clean to one id |
| object types | `getObjectTypes` of both adapters, `schema-builder.ts`, `buildTypeIdMap` | none | members of a type, type ids, schemas | one of several service calls fails; inherited and overridden members |
| values and history | `value-service.ts`, `history-service.ts`, `rest-server/src/routes/objects.ts`, `data-type-coercer.ts` | none | depth-limited composite reads, bulk writes | values that change between the reads, reads that fail, results matched by position |
| REST server | `rest-server/src` | none of its own | routes, authentication, errors | part of the actions of the other models |
| application | `app/src`, `opcua-connector/src/endpoint-discovery.ts` | the phase of start-up, the fields of the client | resolve options, negotiate security, connect, preload, listen, shut down | failures and signals at every await, two shutdowns at once |
| MCP server | `mcp/src` | the connected binding, the tree of a walk | connect, explore the hierarchy | a switch of servers during a walk, batches that overtake each other or fail, cycles, a node budget |

Components interact by direct calls: routes call the services, the services
call the port `IDataSourcePort`, whose runtime calls back `onDataChange`; the
subscription service wakes stream handlers through the waiters of a
subscription; the type service awaits the model service.

`PROJECT.json` lists each component with its status, and every hazard at the
line where it bites, with the properties that would catch it.

## The modules

| module | models |
|---|---|
| `SubscriptionStream` | one subscription seen from its clients |
| `SubscriptionMonitor` | one subscription seen from its sources |
| `MonitoredPort` | the abstract specification of `IMonitoredSubscription`: what the subscription service may rely on |
| `SourceSubscription` | the three implementations of that port, which refine it |
| `ServiceCaches` | the caches every request reads |
| `BrowseTree` | the browse that turns the address space into a tree |
| `ObjectModel` | the object model built from such a tree, as functions |
| `TypeCatalog` | object types, their ids and schemas, as functions |
| `HierarchyWalk` | the MCP server walking an object model; extends `ObjectModel` |
| `ServedModel` | `HierarchyWalk` and `TypeCatalog` on the same servers |
| `ObjectRequests` | one value, history or write request on an object model |
| `ServerLifecycle` | the process from its options to its exit |
| `…Proofs` | theorems and proofs about the module of that name; `ServedModelProofs` also about the three it is composed of |
| `MC…` | constants for TLC, nothing else |

`SubscriptionMonitor` calls a data source that may do what `MonitoredPort` allows
and reject any call; `SubscriptionStream` begins where its flush ends;
`ObjectModel` begins where `BrowseTree` ends.

An operator named `Bug_…` is a variant of the definition that follows it with one
plausible mistake (a dropped guard, a missing reset). No specification uses
one: each property is checked to fail when its variant takes the place of the
definition, which shows that the property depends on that piece of code.

### SubscriptionStream

An update is its sequence number: a number is taken and pushed in one
synchronous step, so the array `updates` is ordered by it and is a set here.
Every `POST /stream` request is a process with the program counter of its
handler (`hijack`, the blocked `waitForUpdates`, a resolved promise); `waiters`,
`activeStream`, `updates`, `nextSequence` are the fields of `SubState`. `Flush`
is the last part of `_flushAsset`; `Sync`, `OpenStream`, `Deliver`, `Delete` are
the routes with the service calls they make; `Timeout` is the 15 s timer;
`BreakConnection` and `CloseEvent` separate the loss of a connection from the
moment the server hears of it, which may be never. Four history variables record
what was written, what was written to a broken connection, what a client
acknowledged and what was dropped on purpose.

Checked: no handler is blocked while it is owed an update (`NoLostWakeup`), the
waiter list is exactly the blocked handlers (`WaitersAreBlocked`), one open loop
at a time and `activeStreamClose` is its own (`SingleStream`), the stream it replaces is
woken and does not sit out its timer (`ReplacedAreWoken`), every number ever
issued is accounted for (`Accounted`), no update is written twice and each
stream is in order (`AtMostOnce`), a response is left open only after a delete
(`HungOnlyAfterDelete`), and, under fairness, an open stream is sent what is
queued (`StreamDelivers`) and a closed one ends (`ClosedStreamsEnd`).

Bounds: two streams (one replacing the other; a third one repeats the second),
three updates and a cap of two sliced to one, so the cap is hit with a stream
behind it. Clients may acknowledge numbers that were never issued
(`HonestClients = FALSE`), as the route accepts any integer.

Fairness: weak fairness of a handler's own continuations and of its timer. The
event loop runs every queued continuation and every due timer; nothing is
assumed of clients, of flushes, or of the `close` event.

### SubscriptionMonitor

A request is one call of `register`, `unregister` or `deleteSubscriptions`. Its
program counter is the await it is in: the model, the creation of a runtime,
`addItems`, the seed read, `removeItems`, the close of a runtime. A register
creates at most one monitor state per element, one runtime and one polling
loop, so the request names all three; the monitor state `<<r, e>>` is the
`AssetMonitorState` register `r` made for `e`, and `assets[e]` says which one is
current. Timers and dirty flags belong to monitor states and not to elements,
because the code's timer closes over the object. A data change is a set of
sources; values are left out. Which sources an element maps to at which depth
is the constant `SourcesAt`.

What the data source may do is a constant too: whether creating a runtime can
succeed or reject (`Adapters`), and whether its other calls can reject
(`PortFailures`). `Serial` restricts the client to one call at a time, which is
what the properties about the state *between* calls are about.

Checked with three overlapping calls and a port that may fail everywhere:
`monitoredObjects`, the monitor states and the reverse lookup agree
(`BooksAgree`), a dirty asset has a timer (`DirtyIsScheduled`), a subscription in polling mode polls
(`FallbackPolls`), and only a replaced monitor state keeps a timer after it is
gone (`OnlyReplacedLinger`). Checked with four serial calls: the sources of every
registered asset are watched (`RegisteredIsMonitored`) and a subscription that
monitors nothing has nothing open (`NothingLeftOpen`). Two assets that share a
sensor are enough for every path of the shared-source code; three calls are the
shortest sequence in which two calls overlap a third one's changes.

### ServiceCaches

A build is identified by the call that started it and its result by the version
of the address space it started to read. When a build settles, the
continuations of all who await it run before anything else (they are
microtasks), so `ModelBuilt` answers every caller and completes the type builds
that wait for the model in one step. `deployed` chooses between the server as
`startServer` runs it (a preload, before anything else, or none, and no
invalidation) and the services with every public method in use.

Checked: one shared model build (`ModelSingleFlight`), nobody waits for a build
that is over (`WaitersHaveABuild`), a failed build leaves nothing behind
(`ModelFailureIsFresh`), what the deployed server serves is never replaced
(`ServedIsStable`), and every call is answered (`EveryCallIsAnswered`) if the
data source answers or rejects every read (weak fairness of `Settle`).

### BrowseTree

The browse proceeds in waves. All nodes of a wave are browsed concurrently, each
is answered from the references the server holds at that time (`Answer`), and the
code between the last answer and the next requests is one action (`EndWave`);
one rejection ends it all (`Reject`). A wave is a sequence, because the first
item of a wave that refers to a node becomes its parent; the order in which a
server lists the references of one node is left open. A Bad result is no rejection:
`_browseSingleNode` and the adapter's loop take `references ?? []` of it and look at no
status, so a node with a Bad result is childless, one with a Bad `browseNext` lacks the
rest, and the browse goes on. A node is browsed once, so the references that the results
of one browse withhold (`withheld`, any of `Losses`) are chosen when it begins; `Told`
is what is left. `_bfsBrowse` counts the
depth of an item upwards; `left` is what `browseMaxDepth` leaves, which keeps the
model of a browse without a limit finite. The callbacks of `browseTree` are
`Passes`, `EffectiveParent` and `MayRecurse`. A node is its identity, its class
(`Branches`) and whether the filter lets it pass at the top level.

Checked while the address space changes under the browse: a node is one entry
(`MappedOnce`), climbing from parent to parent ends (`NoParentCycle`;
`findParentAsset` climbs without a bound), a parent is an entry or was rejected by
the filter (`ParentIsKnown`), and the browse ends (`Terminates`). Checked when it
does not change, against a definition by distances over what the results named: the
tree holds exactly what the depth limit and the filter leave of it (`Complete`), on
shortest paths (`ShortestPath`, item 4 of `doc/adr/002-browse-strategy-bfs.md`). A Bad
result thus costs what only its missing references lead to, and may move the rest to
longer paths; nothing of the address space is missed when no result is Bad. The caller
cannot tell the two apart: such a browse ends well.

Bounds: all 1024 graphs with some of ten references between the Objects folder, three
objects and a method. They contain a cycle through the Objects folder, one
between two objects, a node with two parents of different depth and of the same
depth, and a leaf with two parents. One reference appears or disappears during the
browse. No result is Bad, or the whole result of an object is, or the rest of that of
the Objects folder. Fairness: the session settles every request (with a timeout at the
latest), and the event loop runs the continuation.

### MonitoredPort and SourceSubscription

`MonitoredPort` states what `SubscriptionService` relies on: the callback reports
only sources that were passed to `addItems`, only values they really had, and
nothing once `close()` has taken effect; a monitored source that changes is
reported until the last report is its value. It allows what the service
tolerates: late and repeated reports, and values that were skipped.

`SourceSubscription` has the constant `Impls` choose among the three
implementations. A call is numbered, and what it creates for a source is the item
`<<call, source, "kept">>`, so that an item that outlives its booking can be told from
the one that replaced it. Two elements of one `register` may have a source in common
(`Shared`), which the service then names twice in one `addItems`
(subscription-service.ts:218, 582). The OPC UA wrapper leaves out only ids that are
monitored already, and makes an item for each time: the first of the two is the
`"spare"`, which the second replaces on the books. `book` is the map of the code (`monitored`,
`_listeners`, `_nodeIds`), `live` and `wired` say which items exist at the source
and which have a handler. The OPC UA calls have an answer of their own
(`AddOk`, `AddFails`, `Removed`, `Terminated`); polls are started, answered and
rejected in any order.

Checked: every implementation implements the port, its safety part (`PortSafe`)
and its liveness part (`PortLive`), with calls, polls and close overlapping; and
a caller that awaits each call has exactly the items it asked for and leaves
nothing running (`ItemsMatch`). `ItemsMatch` is promised to such callers only: the
OPC UA wrapper looks up its books before the await and writes them after it, so
an `addItems` that overlaps a `removeItems` or another `addItems` of the same
source leaves an item that nobody can remove before `close()`. Even for such callers it
excepts the spare items, which `removeItems` cannot reach: `Spares` says that nothing
else is left over, and that `close()` ends them too.

Bounds: two sources, three calls, one change, two polls in flight, one rejected
poll; one of the sources may be named twice (`Shared`). Two polls are the shortest
overtaking, and one change between them is enough for the older answer to be the wrong one;
three calls are an add, a remove and an add again, or a close, around them. Fairness: the server publishes what
an item has queued, the interval timer fires, each read is answered or rejected
(and only `MaxErrors` are rejected).

### ServerLifecycle

`startServer` is a process whose program counter is the await it is in; each
signal starts a `shutdown` with a program counter of its own, and all share the
fields of `OpcUaClient`. `config` is resolved by the translated functions from a
file, an environment and a command line; `security` is what endpoint selection
chooses from the list the server answers with, once the discovery client has disconnected
(`Discovered`, `Selected`); `fallback` remembers that a failed discovery chose. The HTTP server is external: it
takes no request once `app.close()` is called, and its promise waits for the
requests in work.

Checked: a connection never uses less security than was asked for, and of the
endpoints that are left none is better than the one used (`NoDowngrade`); a server
that was ready when it was told to stop exits with 0, with everything released and
no request cut off (`CleanExit`); a signal ends the process (`ShutdownEnds`).

What the properties except is part of the result. A discovery that fails, with no
filter given, falls back to mode and policy None (`discoverBestEndpoint` says so
in its log), which `NoDowngrade` allows when nothing was asked for; the same happens when
the list was answered and only the disconnect of the discovery client failed
(`AutoIsSecured` is what the options document, and does not hold). A signal
during start-up may exit while a session is being opened, so `CleanExit` speaks of
signals after `ready`. `app.close()` is awaited before the subscriptions are
closed, so a client that keeps its event stream keeps the process from ending:
`ShutdownEnds` allows that the stream stays open for ever.

Bounds: 4 files, 4 environments and 5 command lines (with an empty, an unknown and a
forbidden value), six endpoint lists (none, insecure only, an insecure one with
the highest level, ties in level and policy, a policy without a rank), two signals. Two
shutdowns side by side are the only concurrency between signals. Fairness:
whatever is awaited settles; nothing makes a client end its stream, nor a signal arrive.

### ObjectRequests

One request at a time, because requests share no state: what it meets is a plant that
changes. A request names up to three elements and a depth; each read in
flight is a record `[item, at, d, of]`. A read of values is answered with those of the
moment. A history is answered with any of the values the source has ever held, or none:
the request's window and the server's storage decide which, and neither is modelled
(`Past`, `EverHeld`). `CollectSources` is `_collectSourceMappings` of the subscription
service, over the same model, and `Watched` is what `register` makes of it: where the
depth reaches no property, it searches again without a limit
(`subscription-service.ts:173-179`).

A write on OPC UA unpacks a value that is given with its quality and time, reads the type
of the variable and converts to it. The result of that read is not looked at, so a
bad one leaves the type `Null` and the value goes out unconverted, in the type inferred from
it; only a rejection ends the write. An address space is given the value as it came
(`pseudo-session-adapter.ts:379-404`). A rejected write may have taken place.

Checked: a read reports exactly the properties a subscription at the same depth
would watch (`ReadsWhatIsWatched`); every answer is one of its own source, a current
value one that was held since the request, in the form the API asks for, and a write
answered with success took place with its own value (`AnswersAreOwn`).

Three differences between the services show in the properties. At depth 1 a
subscription watches the element's own properties, a value read answers no component
at all. Where the depth reaches no property, only the subscription looks further down. In a
history request each property fails alone; in a value request one
rejected read of an asset rejects the whole bulk request (`value-service.ts:158` has
no `catch`, only the batch of leaves has).

Bounds: five instances, three properties, depths 0 to 3: an asset with a property, below it
two without one, and at the end of that chain a motor with two, so that depths 2 and 3 reach
properties from some elements and none from others; a childless asset, an unknown id;
pairs and triples that put them between each other; a value from before the request; a plain
and a wrapped value to write; one change while a request
runs. Conversion covers Boolean, Int32 and String. Of the others, Int64 is worth knowing:
`data-type-coercer.ts:34` puts the whole number into the low word, so negative values and
values above 32 bits do not survive.

### ObjectModel, HierarchyWalk, TypeCatalog, ServedModel

`ObjectModel` translates `_build` as functions of a space, the sequence `browseTree`
returns. A hash is injective, so an id is the kind and path it is a hash of; property
ids are joined from cleaned words, so they are sequences of words. Folders vanish and
give their children to the node above. `TypeCatalog` does the same for object types:
what each failed service call leaves of the members, ids in the three
formats, and schemas merged along the lineage. `HierarchyWalk` is the
breadth-first exploration with its batches in flight, its node budget, and
`i3x_connect` calls that replace the binding meanwhile. `ServedModel` runs them on
the same servers.

Checked: the model is closed and mirrors the space wherever no two nodes share an
id, roots are exactly the parentless instances, and instances share an id only if siblings
share a name (`ModelMirrorsSpace`); one failed call costs no type but its own and its
heirs' members (`TypesAreSound`); a finished walk is a faithful cut of the model of
the server it was started on, says what it cut, and ends (`WalkShowsTheModel`).

Known to a reader of the code, and left open by the properties: property names that
clean to the same words share an id, the model then holds the node that came last where
the first one stood; a name without letters or digits cleans to nothing, so that a
property below another may become its own child, and the walk has to survive a cycle; top-level
variables, methods and event sources are never roots, so an exploration without a
root does not show them; ids of orphans come from the server's own node ids. The type ids of the
formats `name` and `prefixed-name` put the namespace of the browse name in the place of the
node id's (`model-service.ts:633-640`) and the name in lower case: `ns=2;i=1001` and
`ns=3;i=1001` with one browse name have the same id, which `TypesAreSound` allows only where a
type's name is in another namespace than its node id. On an address space the members
of types are listed as types of their own (`pseudo-session-adapter.ts:241`). A data type
known by its id alone is matched by its last digits (`schema-builder.ts:85`), so
`ns=2;i=11` counts as Double. `getPrefix` and `buildTypeIdMap` climb without a seen-set and
rely on a browse whose parents have no cycle, which is `NoParentCycle`.

Bounds: all spaces of up to three nodes with any parent, five sorts and two names; four
larger ones (nested folders, colliding ids, a cycle, more nodes than the budget) walked with
batches of one element, two in flight, budgets of 1, 4 and 9, two connects; some 6,900
catalogs of three types in every tree with at most one fault, two in a chain. One
element per batch and two batches are enough for every overtaking; the larger space
varies in either its nodes or its types, which have nothing in common but the server.

## Disagreements between the code and what it says

Each of these is a run that TLC must find violated.

| run | what happens |
|---|---|
| `stream_trim` | The stream route trims a batch from the queue before it writes it. If the connection is gone the batch is lost, although `acknowledge` is documented to trim what "has been delivered". |
| `monitor_fallback` | After a polling fallback, a later register that gets a runtime adds only its own sources and ends the polling: the earlier assets are watched by nothing. |

Other limits of the code have a definition or a comment in a module and no run:

* With `Auto`, documented to "discover endpoints and pick the strongest" combination
  (`opcua-types.ts:13`), a discovery client that cannot be disconnected after the endpoints
  were answered makes the connection an unsecured one: one catch covers both
  (`endpoint-discovery.ts:228`, 263-288; `AutoIsSecured` in `ServerLifecycle`).
* Registering an element again replaces its monitor state and not its timer; after an
  unregister the old timer still pushes an update (`NoStrayUpdate` in
  `SubscriptionMonitor`; `OnlyReplacedLinger` is what holds).
* Registering an element again at a smaller depth leaves reverse lookups behind, so
  the runtime is never closed. `NothingLeftOpen` is checked with one depth.
* Calls that overlap may leave a runtime open that no book names: two registers that both
  find none (`subscription-service.ts:560`), a register that awaits its runtime while the
  subscription is deleted (428); an unregister that closes the runtime may do so under a
  register that adds to it, and forgets whichever is there afterwards (318). A register whose
  `addItems` is rejected fails, and its elements stay on the books (582).
  `SubscriptionMonitor` has all of these steps; `BooksAgree` is what
  holds under overlap, `RegisteredIsMonitored` and `NothingLeftOpen` speak of callers that
  await each call.
* Two elements of one register that share a source name it twice in one `addItems`
  (`subscription-service.ts:218`, 582). The OPC UA wrapper drops only what was monitored
  before (`opcua-client.ts:1102`), creates both items and books the second over the first
  (1140-1149), which then reports until `close()` (`Spares` in `SourceSubscription`).
* A rejected type build is cached: every later type query fails after the data
  source has recovered (`TypeFailureIsFresh` in `ServiceCaches`).
* A top-level node that the filter rejects is marked as mapped, so it is never
  published, also when another node refers to it; there it is browsed, and its
  children are published below a parent that does not exist (`EveryEntryHasAPath` in
  `BrowseTree`; `ParentIsKnown` is what holds). `ObjectModel` takes them as `Lost`.
* `invalidateCache` does not stop a build that is under way, which may then replace a
  newer result. The server never calls it; `ServedIsStable` is about the server.

## What is proved

TLAPS proves, for every number of streams, requests, elements, sources, any
queue cap and any bound:

* `SubscriptionStreamProofs`: `Spec => []IInv`, and from it all
  safety invariants of the delivery side (`ReplacedAreWoken` beside it). `SingleStream`, `NoLostWakeup`, `Accounted` and
  `AtMostOnce` are not inductive. The strengthening says that a handler's cursor
  is either a number a client acknowledged or the end of a batch, with nothing
  at or below it left in the queue (`CursorBehindQueue`), that a resolved batch
  has no gap (`BatchHasNoGap`), that what was written has left the queue and is in
  no other batch (`SentIsGone`), and that a handler that has not started owns
  nothing (`ClosedAfterStart`).
* `SubscriptionMonitorProofs`: `Spec => []IInv` under any interleaving and any
  failure of the port, and from it `BooksAgree`, `DirtyIsScheduled`,
  `FallbackPolls` and `OnlyReplacedLinger`, and that a runtime the books name was never
  closed (`RuntimeIsOpen`). The strengthening says
  that a monitor state is current, dirty or timed only if a register made it
  (`StatesWereMade`). Two theorems are about clients that await each call and a source
  whose calls do not fail (`Awaited`): every registered asset is watched
  (`RegisteredStayMonitored`), and, if an element is always registered at one depth
  (`SameAtAnyDepth`), nothing is open when nothing is monitored (`NothingStaysOpen`).
  What makes them inductive (`AwaitedInv`, `ClosingInv`) is a statement about the call in
  flight at each of its awaits: what it has booked and not yet added, or added and not yet
  let go.
* `ServiceCachesProofs`: `Spec => []IInv`, and from it the safety invariants of
  the caches and the action property `ServedIsStable`. The strengthening says that
  whoever started a build awaits it and that only a type build awaits a model on
  behalf of others (`OwnersWait`); in the deployed server, that a filled cache has
  no build under way (`DeployedAlone`), which holds because the preloads of
  `startServer` run alone (`DeployedPreload`). That is why nothing served is ever
  replaced: the build that would do it would have to be pending beside the cache.
* `BrowseTreeProofs`: `Spec => []IInv`, and from it `MappedOnce`, `NoParentCycle` and
  `ParentIsKnown`, for any address space however it changes. None of the three is
  inductive: the strengthening says that whatever is browsed was mapped before, or
  is the Objects folder (`BrowsedWasMapped`), and that entries are mapped nodes
  below browsed ones (`EntriesAreMapped`). A wave maps only nodes that were never
  mapped, so a new entry hangs below an older one. `NoParentCycle` is stated over
  sets (every set of entries has a member whose parent is outside), which needs no
  induction on the length of a climb. For a space that does not change, `StillInv` says
  of a browse in its k-th wave that it has met the nodes within k references of the
  results, whichever of them are Bad, and those
  only (`AtWave`), that its wave is what was met last, and that it ends when nothing
  is left to meet (`EndedAt`); from it `Complete` and `ShortestPath`. The distances
  are a recursive function, unfolded once (`WithinUnfolds`, by iteration of its step).
* `SourceSubscriptionProofs`: `Spec => []IInv`, and from it the refinement
  `Spec => PortSafe`: each initial state maps to one of `MonitoredPort`, and each step to a
  step of it or a stutter. The invariant says that whatever an implementation holds,
  has under way or reads was asked for (`HeldWasAsked`), that what it may report was a
  value (`ValuesWereSeen`), that a booking belongs to a call that has resolved
  (`BookingsAreDone`), that each mechanism is used by its own implementation only
  (`OwnMechanism`), and why each is silent after `close()`: no item is left, or no
  callback (`SilentWhenGone`). `ItemsMatch` speaks of callers that await each call, so its
  invariant (`ItemsInv`) says for each of them what is booked, live and wired when no call is in
  flight, and what the one call in flight has still to do; whatever is live beside that is
  a spare item.
* `ServerLifecycleProofs`: `Spec => []IInv`, and from it `CleanExit`. Two shutdowns may run
  side by side over the same fields, so the invariant says of every stage what any
  shutdown that has reached it has ensured for good (`StagesKeep`); with it, a ready server listens
  (`ReadyListens`), a session needs its client (`OpenHasClient`) and an exit code is given at
  one place only (`ExitIsEarned`). `NoDowngrade` rests on `SecurityInv`: before the endpoints
  are known and the discovery client is gone nothing is decided (`Undecided`), and a policy comes with its mode
  (`PolicyGiven`). That the sort of `selectBestEndpoint` has a first element is proved for
  any list: `Precedes` is a strict total order of its positions, so a candidate with the
  fewest candidates before it has none before it (`SomeComesFirst`).
* `ObjectRequestsProofs`: two inductive invariants. `AnswersInv` (what a source holds is part
  of what it held, an answer is one of these or of its past, a write that knows its type has
  read it) gives `AnswersAreOwn`; that the batch of leaves is matched by position is the
  lemma `PlacesAreOwn`. `WatchedInv` gives `ReadsWhatIsWatched`: what is to be reported of an
  element is reported, or a read in flight will report it or lead to it (`ReadsCover`).
  It needs that two reads of one asset agree on its level, since the sub-assets are read
  after the last of them (`ReadsArePlaced`). `CollectSources` is unfolded once: the
  least function closed under its recursion satisfies it, whatever the model.

* `ServedModelProofs`: first, `_build` itself. The recursive functions of `ObjectModel` (paths,
  children through folders, nearest asset, nearest parent) are shown to exist and to satisfy
  their own equations, by induction on how far down a node is; from these, a model refers to
  nothing outside it (`ModelIsClosed`) and mirrors its space (`ModelMirrors`): what hangs below
  a node through folders is what is shown of it (`HangingIsShown`, `ShownHangs`), a node without a
  parent in the model is one that no node lists, every node is met within as many steps as
  the space has nodes, and two nodes have one path only if, somewhere, siblings share a
  name (`PathsDiffer`). Then `Spec => []IInv` for the walk, and from it `ModelMirrorsSpace` and `WalkShowsTheModel`, with any batch size,
  concurrency, budget, failures and order of answers. `IInv` says of a
  tree (`Sound`) that nothing hangs below its last level, that every entry above shows its children or has a reason not to (`Reason`), that the roots
  are cut where `truncated` says, and that an entry of level k is within k steps of the
  roots (`Levelled`); of a level in flight (`InLevel`), that each batch was answered as a whole with
  what the asked server holds, so that an empty queue means that every element was answered. The
  walk ends because each level expands an id that was not expanded before, and the
  ids are finite. Merging a level is a recursion over its entries, unfolded in `MergeGrows`.
  The types come last: for any list of types, adapter and set of failing calls the catalog is
  sound (`CatalogsAreSound`), and hence `TypesAreSound` on any run of `ServedModel`. A type declares
  after its parent (`DeclaredUnfolds`), so the last declaration of a name along a lineage is
  one of the nearest type that declares it (`DeclaredTells`, by induction from the root).
  What is read of a lineage that can be browsed corresponds to what it has, element by
  element (`DeclaredIsRead`): with no fault it is the same, and with failing rules it has
  the same names and schemas. Two types with the same names up to the root are the
  same unless siblings share a name (`NamesDiffer`).

The assumptions are those the modules name (the slice is not larger than the
cap, the bounds are naturals, `None` is not a stream, and so on); each is
evaluated by TLC on every run. The later proofs have added these: each layer of
options is a function of the options it defines (`LayerAssumption`), the model of
`ObjectRequests` is a finite forest (`LevelAssumption`), a source has the quality of a
status code and no answer is `None` (`DataAssumption`); `None` and `Lost` are no positions
(`ParentAssumption`); in the spaces that the MCP server's servers browsed every parent is a node of
the space, `None` or `Lost`, no node is above itself (`IsSpace` in `WalkAssumption`), which is what `NoParentCycle`
proves of the browse, and no id is `None`; a server may have no nodes, and types come after
their parents, members with the fields of `Member` (`IsCatalog` in `ServedAssumption`).

Model-checked only:

* liveness (`StreamDelivers`, `ClosedStreamsEnd`, `PortLive`, `ShutdownEnds`,
  `EveryCallIsAnswered`, `Terminates`): the prover has no support for fairness.

Every invariant that a run checks is stated by a theorem.

## What is not modelled

* Asset values in the subscription modules: whether the answer of the seed read may overwrite a
  newer notification (`subscription-service.ts:233`). A change there is the set of
  sources that changed.
* Time: a source that changes faster than the debounce keeps its asset from being
  flushed (`subscription-service.ts:630`). Without a clock that cannot be told from a
  source that changes once.
* Engineering units, display names and the registration of data types in the adapters and in
  `_build`: metadata that no other step reads.
* The inspect, query, monitor and discover tools of the MCP server, which pass one
  request on; suggestions and the limit on the size of an answer.
* Authentication, health and error routes, creation and listing of subscriptions: request
  and response, without state that changes afterwards.
* Certificate files, sockets, JSON formatting, the banner, the demos: I/O of node-opcua and
  Fastify, or examples.
