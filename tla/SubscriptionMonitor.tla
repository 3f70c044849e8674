------------------------- MODULE SubscriptionMonitor -------------------------
(***************************************************************************)
(* One subscription of SubscriptionService seen from its source side: the  *)
(* monitored assets, the reverse lookup, the runtime subscription of the   *)
(* data source or the polling loops that replace it, and the debounce      *)
(* timers that turn source changes into updates.                           *)
(*                                                                         *)
(*   core/src/services/subscription-service.ts  register, unregister,      *)
(*                          deleteSubscriptions, _ensureRuntime,           *)
(*                          _onDataChange, _flushAsset                     *)
(*   core/src/services/subscription-polling.ts  startPollingLoop           *)
(*                                                                         *)
(* A request is one call of register, unregister or delete; each runs its  *)
(* code between two awaits as one action.  A register creates at most one  *)
(* monitor state per element, at most one runtime and at most one polling  *)
(* loop, so the request is the identity of all three: the monitor state    *)
(* <<r, e>> is the AssetMonitorState register r made for element e.        *)
(* Values are left out: a change is the set of sources that changed.       *)
(***************************************************************************)
EXTENDS Integers, FiniteSets

CONSTANTS
  Requests,      \* calls of register, unregister and delete
  Elements,      \* element ids known to the model
  Sources,       \* source node ids
  Depths,        \* values of maxDepth
  SourcesAt,     \* SourcesAt[e][d]: the sources register finds for e
  Adapters,      \* for each kind of data source, what creating a runtime may do
  PortFailures,  \* TRUE: the other calls of the data source may reject too
  Serial,        \* TRUE: the client awaits each answer before its next call
  None

ASSUME MappingAssumption ==
  SourcesAt \in [Elements -> [Depths -> SUBSET Sources]]

ASSUME EnvironmentAssumption ==
  /\ Adapters \subseteq SUBSET {"native", "rejects"}
  /\ PortFailures \in BOOLEAN
  /\ Serial \in BOOLEAN

ASSUME NoneAssumption == None \notin Requests

VARIABLES
  adapter,        \* the data source at hand, a member of Adapters
  known,          \* this._subs.has(subscriptionId)
  mode,           \* sub.mode
  runtime,        \* sub.runtime
  assets,         \* sub.assets: the register whose monitor state is current
  listed,         \* sub.monitoredObjects
  sourceToAsset,  \* sub.sourceToAsset; {} for a missing key
  dirty,          \* monitor states whose dirty flag is set
  timers,         \* monitor states whose debounce timer is pending
  stray,          \* history: an update was pushed for an element that is
                  \* not monitored
  pc,             \* where each request is
  elems,          \* the elementIds of a register
  depth,          \* the maxDepth of a register
  rt,             \* the runtime its pending port call was made on
  arg,            \* the sources addItems will monitor when it resolves
  open,           \* data source: runtimes created and not closed
  items,          \* data source: the sources each runtime monitors
  loop,           \* polling loops
  polled          \* the source ids a loop's pending read was called with

bookVars    == <<assets, listed, sourceToAsset>>
debounceVars == <<dirty, timers, stray>>
callVars    == <<pc, elems, depth, rt, arg>>
portVars    == <<open, items>>
loopVars    == <<loop, polled>>
vars == <<adapter, known, mode, runtime, bookVars, debounceVars, callVars,
          portVars, loopVars>>

(***************************************************************************)
(* A request has not been made; awaits the model, the creation of a        *)
(* runtime, addItems, the seed read, removeItems, or the close of a        *)
(* runtime in unregister or in delete; was answered; or was answered with  *)
(* an error after it had begun to change the subscription.                 *)
(***************************************************************************)
PCs == {"new", "model", "create", "add", "seed", "remove", "close", "delete",
        "done", "failed"}

Finished(r) == pc[r] \in {"new", "done", "failed"}

Idle == \A r \in Requests : Finished(r)

States == Requests \X Elements

\* The sources of the monitor state register r made for e.
Srcs(r, e) == SourcesAt[e][depth[r]]

\* allSourceNodeIds of register r
Ids(r) == UNION {Srcs(r, e) : e \in elems[r]}

Monitored == {e \in Elements : assets[e] # None}

Current == {<<assets[e], e>> : e \in Monitored}

Init ==
  /\ adapter \in Adapters
  /\ known = TRUE
  /\ mode = "polling"
  /\ runtime = None
  /\ assets = [e \in Elements |-> None]
  /\ listed = {}
  /\ sourceToAsset = [s \in Sources |-> {}]
  /\ dirty = {} /\ timers = {} /\ stray = FALSE
  /\ pc = [r \in Requests |-> "new"]
  /\ elems = [r \in Requests |-> {}]
  /\ depth = [r \in Requests |-> None]
  /\ rt = [r \in Requests |-> None]
  /\ arg = [r \in Requests |-> {}]
  /\ open = {}
  /\ items = [r \in Requests |-> {}]
  /\ loop = [r \in Requests |-> "off"]
  /\ polled = [r \in Requests |-> {}]

Go(r, label) == pc' = [pc EXCEPT ![r] = label]

(***************************************************************************)
(* Changes and updates                                                     *)
(***************************************************************************)
\* Bug variant: the fan-out does not skip elements without a monitor state.
Bug_TouchedKeepsStale(S) ==
  {<<assets[e], e>> : e \in UNION {sourceToAsset[s] : s \in S}}

(* The monitor states _onDataChange reaches for a change of the sources S: *)
(* it fans out through the reverse lookup and skips elements that are not  *)
(* monitored, or whose monitor state does not map that source.             *)
Touched(S) ==
  {<<assets[e], e>> : e \in {f \in Monitored :
     \E s \in S : f \in sourceToAsset[s] /\ s \in Srcs(assets[f], f)}}

\* Bug variant: a pending timer is cleared and not started again.
Bug_OnDataChangeClearsTimer(S) ==
  /\ dirty' = dirty \cup Touched(S)
  /\ timers' = (timers \ Touched(S)) \cup (Touched(S) \ timers)
  /\ UNCHANGED stray

(* _onDataChange for a batch of sources: mark dirty, (re)start the timer. *)
OnDataChange(S) ==
  /\ dirty' = dirty \cup Touched(S)
  /\ timers' = timers \cup Touched(S)
  /\ UNCHANGED stray

(* A debounce timer fires: _flushAsset pushes an update when the state is  *)
(* dirty.  The timer holds the state and the subscription as objects, so   *)
(* it fires after the subscription or the asset is gone, too.              *)
TimerFires(o) ==
  /\ o \in timers
  /\ timers' = timers \ {o}
  /\ dirty' = dirty \ {o}
  /\ stray' = (stray \/ (known /\ o \in dirty /\ o[2] \notin Monitored))
  /\ UNCHANGED <<adapter, known, mode, runtime, bookVars, callVars, portVars,
                 loopVars>>

(* The runtime calls back for a source that changed. *)
Notify(x, s) ==
  /\ x \in open
  /\ s \in items[x]
  /\ OnDataChange({s})
  /\ UNCHANGED <<adapter, known, mode, runtime, bookVars, callVars, portVars,
                 loopVars>>

(***************************************************************************)
(* Polling loops                                                           *)
(***************************************************************************)
Keys == {s \in Sources : sourceToAsset[s] # {}}

\* A loop at its head, with mode m: stop, read the keys, or sleep.
LoopHead(r, m) ==
  /\ loop' = [loop EXCEPT ![r] = IF ~(known /\ m = "polling") THEN "stopped"
                                 ELSE IF Keys # {} THEN "reading"
                                 ELSE "sleeping"]
  /\ polled' = [polled EXCEPT ![r] = IF known /\ m = "polling" THEN Keys ELSE {}]

(* The read of a loop is answered: report every value it asked for. *)
PollAnswer(r) ==
  /\ loop[r] = "reading"
  /\ loop' = [loop EXCEPT ![r] = "sleeping"]
  /\ polled' = [polled EXCEPT ![r] = {}]
  /\ OnDataChange(polled[r])
  /\ UNCHANGED <<adapter, known, mode, runtime, bookVars, callVars, portVars>>

(* The read of a loop rejects: log it and sleep. *)
PollError(r) ==
  /\ PortFailures
  /\ loop[r] = "reading"
  /\ loop' = [loop EXCEPT ![r] = "sleeping"]
  /\ polled' = [polled EXCEPT ![r] = {}]
  /\ UNCHANGED <<adapter, known, mode, runtime, bookVars, debounceVars,
                 callVars, portVars>>

(* The interval has passed: `while (isAlive())`. *)
PollWake(r) ==
  /\ loop[r] = "sleeping"
  /\ LoopHead(r, mode)
  /\ UNCHANGED <<adapter, known, mode, runtime, bookVars, debounceVars,
                 callVars, portVars>>

(***************************************************************************)
(* register                                                                *)
(***************************************************************************)
MayCall(r) == known /\ pc[r] = "new" /\ (Serial => Idle)

(* register is called, up to `await getOrBuildModel()`.  The route has     *)
(* answered 404 for an unknown subscription.                               *)
Register(r) ==
  /\ MayCall(r)
  /\ \E E \in (SUBSET Elements) \ {{}}, d \in Depths :
       /\ elems' = [elems EXCEPT ![r] = E]
       /\ depth' = [depth EXCEPT ![r] = d]
  /\ Go(r, "model")
  /\ UNCHANGED <<adapter, known, mode, runtime, bookVars, debounceVars, rt, arg,
                 portVars, loopVars>>

(* The model cannot be built: the call is answered with an error. *)
RegisterFails(r) ==
  /\ PortFailures
  /\ pc[r] = "model"
  /\ Go(r, "failed")
  /\ UNCHANGED <<adapter, known, mode, runtime, bookVars, debounceVars, elems,
                 depth, rt, arg, portVars, loopVars>>

\* What register does once sub.runtime is x: addItems, else the seed, else end.
AddOrFinish(r, x) ==
  /\ Go(r, IF Ids(r) # {} THEN "add" ELSE "done")
  /\ rt' = [rt EXCEPT ![r] = IF Ids(r) # {} THEN x ELSE None]
  /\ arg' = [arg EXCEPT ![r] = IF Ids(r) # {} THEN Ids(r) \ items[x] ELSE {}]

(* The model is there: record a monitor state for every element (a state   *)
(* that is replaced keeps its timer and its reverse lookups), then         *)
(* _ensureRuntime up to its first await.                                   *)
RegisterAssets(r) ==
  /\ pc[r] = "model"
  /\ assets' = [e \in Elements |-> IF e \in elems[r] THEN r ELSE assets[e]]
  /\ listed' = listed \cup ({r} \X elems[r])
  /\ sourceToAsset' = [s \in Sources |-> sourceToAsset[s] \cup
                         {e \in elems[r] : s \in Srcs(r, e)}]
  /\ IF runtime = None
     THEN Go(r, "create") /\ UNCHANGED <<rt, arg>>
     ELSE AddOrFinish(r, runtime)
  /\ UNCHANGED <<adapter, known, mode, runtime, debounceVars, elems, depth,
                 portVars, loopVars>>

(* createMonitoredSubscription resolves: keep the runtime, call addItems. *)
CreateOk(r) ==
  /\ pc[r] = "create"
  /\ "native" \in adapter
  /\ open' = open \cup {r}
  /\ runtime' = r
  /\ mode' = "native"
  /\ AddOrFinish(r, r)
  /\ UNCHANGED <<adapter, known, bookVars, debounceVars, elems, depth, items,
                 loopVars>>

\* Bug variant: the fallback starts a loop only for a subscription that
\* never had one.
Bug_CreateFailsOnce(r) ==
  /\ pc[r] = "create"
  /\ "rejects" \in adapter
  /\ mode' = "polling"
  /\ IF \A x \in Requests : loop[x] = "off"
     THEN LoopHead(r, "polling") ELSE UNCHANGED loopVars
  /\ Go(r, IF Ids(r) # {} THEN "seed" ELSE "done")
  /\ UNCHANGED <<adapter, known, runtime, bookVars, debounceVars, elems, depth,
                 rt, arg, portVars>>

(* createMonitoredSubscription rejects: fall back to a polling loop. *)
CreateFails(r) ==
  /\ pc[r] = "create"
  /\ "rejects" \in adapter
  /\ mode' = "polling"
  /\ LoopHead(r, "polling")
  /\ Go(r, IF Ids(r) # {} THEN "seed" ELSE "done")
  /\ UNCHANGED <<adapter, known, runtime, bookVars, debounceVars, elems, depth,
                 rt, arg, portVars>>

(* addItems resolves; on a runtime closed meanwhile it monitors nothing. *)
AddOk(r) ==
  /\ pc[r] = "add"
  /\ items' = IF rt[r] \in open
              THEN [items EXCEPT ![rt[r]] = @ \cup arg[r]] ELSE items
  /\ Go(r, "seed")
  /\ rt' = [rt EXCEPT ![r] = None]
  /\ arg' = [arg EXCEPT ![r] = {}]
  /\ UNCHANGED <<adapter, known, mode, runtime, bookVars, debounceVars, elems,
                 depth, open, loopVars>>

(* addItems rejects and with it the call; the assets stay recorded. *)
AddFails(r) ==
  /\ PortFailures
  /\ pc[r] = "add"
  /\ Go(r, "failed")
  /\ rt' = [rt EXCEPT ![r] = None]
  /\ arg' = [arg EXCEPT ![r] = {}]
  /\ UNCHANGED <<adapter, known, mode, runtime, bookVars, debounceVars, elems,
                 depth, portVars, loopVars>>

\* Bug variant: every pending timer is cancelled, but only the elements of
\* this call are flushed.
Bug_SeedOkFlushesOwn(r) ==
  /\ pc[r] = "seed"
  /\ dirty' = (dirty \cup Touched(Ids(r))) \ {<<r, e>> : e \in elems[r]}
  /\ timers' = (timers \cup Touched(Ids(r))) \ Current
  /\ Go(r, "done")
  /\ UNCHANGED <<adapter, known, mode, runtime, bookVars, stray, elems, depth,
                 rt, arg, portVars, loopVars>>

(* The seed read is answered: report the values, then flush every dirty    *)
(* asset of the subscription at once, cancelling its timer.                *)
SeedOk(r) ==
  /\ pc[r] = "seed"
  /\ dirty' = (dirty \cup Touched(Ids(r))) \ Current
  /\ timers' = (timers \cup Touched(Ids(r))) \
                 (Current \cap (dirty \cup Touched(Ids(r))))
  /\ Go(r, "done")
  /\ UNCHANGED <<adapter, known, mode, runtime, bookVars, stray, elems, depth,
                 rt, arg, portVars, loopVars>>

(* The seed read rejects: log it; the call succeeds. *)
SeedFails(r) ==
  /\ PortFailures
  /\ pc[r] = "seed"
  /\ Go(r, "done")
  /\ UNCHANGED <<adapter, known, mode, runtime, bookVars, debounceVars, elems,
                 depth, rt, arg, portVars, loopVars>>

(***************************************************************************)
(* unregister                                                              *)
(***************************************************************************)
\* Bug variant: the whole entry of a removed element's source is dropped.
Bug_WithoutShared(E) ==
  [s \in Sources |-> IF \E e \in E : s \in Srcs(assets[e], e) THEN {}
                     ELSE sourceToAsset[s]]

\* The reverse lookup without the monitor states of the elements E.
Without(E) ==
  [s \in Sources |-> sourceToAsset[s] \ {e \in E : s \in Srcs(assets[e], e)}]

\* Bug variant: every source of a removed element is given up.
Bug_EmptiedShared(E) ==
  {s \in Sources : \E e \in E : s \in Srcs(assets[e], e)}

\* sourceIdsToRemove: the sources no remaining element uses
Emptied(E) == {s \in Sources : sourceToAsset[s] # {} /\ Without(E)[s] = {}}

\* After removeItems, with the reverse lookup m: close an idle runtime, or end.
CloseOrFinish(r, m) ==
  IF runtime # None /\ \A s \in Sources : m[s] = {}
  THEN Go(r, "close") /\ rt' = [rt EXCEPT ![r] = runtime]
  ELSE Go(r, "done") /\ rt' = [rt EXCEPT ![r] = None]

\* Bug variant: unregister leaves the debounce timers running.
Bug_ForgetKeepsTimers(gone) ==
  /\ assets' = [e \in Elements |-> IF e \in gone THEN None ELSE assets[e]]
  /\ listed' = {l \in listed : l[2] \notin gone}
  /\ sourceToAsset' = Without(gone)
  /\ UNCHANGED timers

\* The loop of unregister: forget the elements it found, with their timers.
Forget(gone) ==
  /\ assets' = [e \in Elements |-> IF e \in gone THEN None ELSE assets[e]]
  /\ listed' = {l \in listed : l[2] \notin gone}
  /\ sourceToAsset' = Without(gone)
  /\ timers' = timers \ {<<assets[e], e>> : e \in gone}

(* removeItems is called on the runtime; the adapters drop the items then, *)
(* a port may also fail to.                                                *)
RemoveItems(r, S) ==
  /\ Go(r, "remove")
  /\ rt' = [rt EXCEPT ![r] = runtime]
  /\ \/ items' = [items EXCEPT ![runtime] = @ \ S]
     \/ PortFailures /\ UNCHANGED items

(* unregister is called, up to its first await. *)
Unregister(r) ==
  /\ MayCall(r)
  /\ \E E \in (SUBSET Elements) \ {{}} :
       LET gone == E \cap Monitored IN
       /\ Forget(gone)
       /\ IF runtime # None /\ Emptied(gone) # {}
          THEN RemoveItems(r, Emptied(gone))
          ELSE CloseOrFinish(r, Without(gone)) /\ UNCHANGED items
  /\ UNCHANGED <<adapter, known, mode, runtime, dirty, stray, elems, depth, arg,
                 open, loopVars>>

\* Bug variant: unregister ends when its items are removed.
Bug_RemovedNeverCloses(r) ==
  /\ pc[r] = "remove"
  /\ Go(r, "done")
  /\ rt' = [rt EXCEPT ![r] = None]
  /\ UNCHANGED <<adapter, known, mode, runtime, bookVars, debounceVars, elems,
                 depth, arg, portVars, loopVars>>

(* removeItems settles (a rejection is swallowed): is the runtime idle? *)
Removed(r) ==
  /\ pc[r] = "remove"
  /\ CloseOrFinish(r, sourceToAsset)
  /\ UNCHANGED <<adapter, known, mode, runtime, bookVars, debounceVars, elems,
                 depth, arg, portVars, loopVars>>

(* The close resolves: whatever runtime the subscription has now is        *)
(* forgotten.                                                              *)
Closed(r) ==
  /\ pc[r] = "close"
  /\ open' = open \ {rt[r]}
  /\ items' = [items EXCEPT ![rt[r]] = {}]
  /\ runtime' = None
  /\ Go(r, "done")
  /\ rt' = [rt EXCEPT ![r] = None]
  /\ UNCHANGED <<adapter, known, mode, bookVars, debounceVars, elems, depth,
                 arg, loopVars>>

(* The close rejects, and with it the call. *)
CloseFails(r) ==
  /\ PortFailures
  /\ pc[r] = "close"
  /\ Go(r, "failed")
  /\ rt' = [rt EXCEPT ![r] = None]
  /\ UNCHANGED <<adapter, known, mode, runtime, bookVars, debounceVars, elems,
                 depth, arg, portVars, loopVars>>

(***************************************************************************)
(* deleteSubscriptions                                                     *)
(***************************************************************************)
(* delete is called: clear the timers, close the runtime if there is one. *)
Delete(r) ==
  /\ MayCall(r)
  /\ timers' = timers \ Current
  /\ IF runtime # None
     THEN /\ Go(r, "delete")
          /\ rt' = [rt EXCEPT ![r] = runtime]
          /\ UNCHANGED known
     ELSE /\ Go(r, "done")
          /\ known' = FALSE
          /\ UNCHANGED rt
  /\ UNCHANGED <<adapter, mode, runtime, bookVars, dirty, stray, elems, depth,
                 arg, portVars, loopVars>>

(* The close settles (a rejection is swallowed): drop the subscription. *)
Deleted(r) ==
  /\ pc[r] = "delete"
  /\ known' = FALSE
  /\ \/ /\ open' = open \ {rt[r]}
        /\ items' = [items EXCEPT ![rt[r]] = {}]
     \/ PortFailures /\ UNCHANGED portVars
  /\ Go(r, "done")
  /\ rt' = [rt EXCEPT ![r] = None]
  /\ UNCHANGED <<adapter, mode, runtime, bookVars, debounceVars, elems, depth,
                 arg, loopVars>>

Handler(r) ==
  \/ Register(r) \/ RegisterFails(r) \/ RegisterAssets(r)
  \/ CreateOk(r) \/ CreateFails(r) \/ AddOk(r) \/ AddFails(r)
  \/ SeedOk(r) \/ SeedFails(r)
  \/ Unregister(r) \/ Removed(r) \/ Closed(r) \/ CloseFails(r)
  \/ Delete(r) \/ Deleted(r)

Poll(r) == PollAnswer(r) \/ PollError(r) \/ PollWake(r)

Next ==
  \/ \E r \in Requests : Handler(r) \/ Poll(r)
  \/ \E r \in Requests, s \in Sources : Notify(r, s)
  \/ \E o \in States : TimerFires(o)

Spec == Init /\ [][Next]_vars

-----------------------------------------------------------------------------
(* The values of the variables (subscription-service.ts:36-80); a monitor  *)
(* state that is current, dirty or timed was made by a register for one of *)
(* its elements.                                                           *)
TypeOK ==
  /\ adapter \in Adapters
  /\ known \in BOOLEAN
  /\ mode \in {"polling", "native"}
  /\ runtime \in Requests \cup {None}
  /\ assets \in [Elements -> Requests \cup {None}]
  /\ listed \in SUBSET States
  /\ sourceToAsset \in [Sources -> SUBSET Elements]
  /\ dirty \in SUBSET States
  /\ timers \in SUBSET States
  /\ stray \in BOOLEAN
  /\ pc \in [Requests -> PCs]
  /\ elems \in [Requests -> SUBSET Elements]
  /\ depth \in [Requests -> Depths \cup {None}]
  /\ \A r \in Requests : elems[r] # {} => depth[r] \in Depths
  /\ rt \in [Requests -> Requests \cup {None}]
  /\ arg \in [Requests -> SUBSET Sources]
  /\ open \in SUBSET Requests
  /\ items \in [Requests -> SUBSET Sources]
  /\ loop \in [Requests -> {"off", "reading", "sleeping", "stopped"}]
  /\ polled \in [Requests -> SUBSET Sources]

(* The three books register and unregister keep of what is monitored agree *)
(* after any interleaving of calls: sub.monitoredObjects lists exactly the *)
(* elements that have a monitor state, and the reverse lookup of a source  *)
(* has every asset that maps it, so a change reaches all of them.          *)
BooksAgree ==
  /\ {l[2] : l \in listed} = Monitored
  /\ \A e \in Monitored : \A s \in Srcs(assets[e], e) : e \in sourceToAsset[s]

(* A change is never forgotten: an asset that is dirty has a debounce      *)
(* timer that will flush it, unless a delete is under way or has been.     *)
DirtyIsScheduled ==
  (known /\ \A r \in Requests : pc[r] # "delete") =>
    Current \cap dirty \subseteq timers

(* A subscription that fell back to polling has a loop that still polls:   *)
(* `isAlive` does not stop the last one while the mode is 'polling'.       *)
FallbackPolls ==
  (known /\ mode = "polling" /\ \E r \in Requests : loop[r] # "off") =>
    \E r \in Requests : loop[r] \in {"reading", "sleeping"}

(* The timer of an element that unregister removed is cleared: a state     *)
(* with a pending timer is current, or a later register replaced it.       *)
OnlyReplacedLinger ==
  known => \A o \in timers \ Current :
             \E r \in Requests \ {o[1]} :
               o[2] \in elems[r] /\ pc[r] \notin {"new", "model"}

SourcesWatched ==
  (UNION {items[x] : x \in open}) \cup
    (IF mode = "polling" /\ \E r \in Requests : loop[r] \in {"reading", "sleeping"}
     THEN Keys ELSE {})

(* "Ensures the underlying native OPC UA monitored subscription runtime is *)
(* created and registers the monitored items. If native subscriptions      *)
(* fail, it falls back to software-based polling."                         *)
(* (subscription-service.ts:551-554): between calls, the sources of every  *)
(* registered asset are monitored or polled.                               *)
RegisteredIsMonitored ==
  (known /\ Idle) =>
    \A e \in Monitored : Srcs(assets[e], e) \subseteq SourcesWatched

(* "unregister() removes items and cleans up"                              *)
(* (core/tests/subscription-service.test.ts:545): between calls, a         *)
(* subscription that monitors nothing, or was deleted, has no runtime left *)
(* open at the data source.                                                *)
NothingLeftOpen ==
  (Idle /\ (~known \/ Monitored = {})) => open = {}

(* No update should be pushed for an element that is not monitored.  The   *)
(* code breaks this, and no run checks it: the timer of a replaced state   *)
(* (subscription-service.ts:220) outlives the element's unregister.  What  *)
(* holds is OnlyReplacedLinger.                                            *)
NoStrayUpdate == ~stray

-----------------------------------------------------------------------------
(***************************************************************************)
(* What makes the invariants above inductive.                              *)
(***************************************************************************)
(* A monitor state is current, dirty or timed only after the register that *)
(* made it has passed `await getOrBuildModel()`.                           *)
Recorded(r) == pc[r] \notin {"new", "model"}

StatesWereMade ==
  /\ \A e \in Monitored : Recorded(assets[e]) /\ e \in elems[assets[e]]
  /\ \A o \in dirty \cup timers : Recorded(o[1])

(* sub.runtime is never a runtime that was closed, whatever closes it and  *)
(* whoever is waiting to add items to it.                                  *)
RuntimeIsOpen == known => runtime \in open \cup {None}

Safe ==
  /\ BooksAgree /\ DirtyIsScheduled /\ RuntimeIsOpen /\ FallbackPolls
  /\ OnlyReplacedLinger /\ StatesWereMade

IInv == TypeOK /\ Safe

=============================================================================
