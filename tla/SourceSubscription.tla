------------------------- MODULE SourceSubscription -------------------------
(***************************************************************************)
(* The three implementations of IMonitoredSubscription, each with the      *)
(* source it watches and a domain service that calls it:                   *)
(*                                                                         *)
(*   "opcua"    opcua-connector/src/opcua-client.ts                        *)
(*              createMonitoredSubscription: items on the server, every    *)
(*              call but onDataChange awaits the server                    *)
(*   "events"   pseudo-session-connector/src/address-space-subscription.ts *)
(*              listeners on variables of the same process                 *)
(*   "polling"  pseudo-session-connector/src/polling-subscription.ts       *)
(*              a timer that reads; a read may outlive a later one, a      *)
(*              removeItems or the close                                   *)
(*                                                                         *)
(* Calls are numbered in the order they are made; the item call c makes    *)
(* for source s (a ClientMonitoredItem, a listener) is <<c, s, "kept">>.   *)
(* Two elements of one register may have a source in common, which it then *)
(* names twice (subscription-service.ts:218, 582).  The OPC UA wrapper     *)
(* makes an item for each time: the first one is <<c, s, "spare">>, since  *)
(* the last one takes its place on the books.  The other two note an id    *)
(* once.  The callback is set as soon as the subscription exists           *)
(* (subscription-service.ts:567), so it is set from the start.             *)
(***************************************************************************)
EXTENDS Naturals, FiniteSets

CONSTANTS
  Sources,     \* source node ids, all of them variables
  Shared,      \* those that several elements have in common
  Values,      \* what a variable may hold
  Initial,     \* what each variable holds at first
  None,
  Impls,       \* the implementations to consider
  MaxCalls,    \* bound on addItems, removeItems and close
  MaxChanges,  \* bound on changes of the sources
  MaxReads,    \* bound on reads in flight of the polling implementation
  MaxErrors    \* bound on rejected polls

ASSUME ImplAssumption ==
  Impls \subseteq {"opcua", "events", "polling"}

ASSUME SharedAssumption == Shared \subseteq Sources

ASSUME ValueAssumption == Initial \in [Sources -> Values]

ASSUME NoneAssumption == None \notin Values /\ None \notin 1 .. MaxCalls

ASSUME BoundAssumption ==
  /\ MaxCalls \in Nat /\ MaxReads \in Nat
  /\ MaxChanges \in Nat /\ MaxErrors \in Nat

Calls == 1 .. MaxCalls
Slots == 1 .. MaxReads
Items == Calls \X Sources \X {"kept", "spare"}

VARIABLES
  impl,                  \* the implementation
  overlapped,            \* history: a call was made while one was pending
  value, seen, changes,  \* the sources: value, history of values, changes
  op, arg, st,           \* each call, its sources, and how far it is
  twice,                 \* those of them it makes two items for
  work,                  \* the items a pending call creates or terminates
  book,                  \* monitored, _listeners, _nodeIds: for each source the
                         \* call whose item is on the books
  live, wired,           \* items at the source; items with a handler
  due,                   \* items with a value that was not published yet
  cb,                    \* the callback is set
  timer, last, read,     \* polling: _timer, _lastValues, reads in flight
  errors,                \* polling: rejected reads
  moved,                 \* history: the booking under which a source changed
  told                   \* history: the last report for each source

sourceVars == <<value, seen, changes, moved>>
callVars == <<op, arg, twice, st, work>>
itemVars == <<book, live, wired, due>>
pollVars == <<timer, last, read, errors>>
vars == <<impl, sourceVars, overlapped, callVars, itemVars, cb, pollVars, told>>

NoAnswer == [s \in Sources |-> None]

Init ==
  /\ impl \in Impls /\ overlapped = FALSE
  /\ value = Initial
  /\ seen = [s \in Sources |-> {value[s]}]
  /\ changes = 0
  /\ op = [c \in Calls |-> "none"]
  /\ arg = [c \in Calls |-> {}] /\ twice = [c \in Calls |-> {}]
  /\ st = [c \in Calls |-> "new"]
  /\ work = [c \in Calls |-> {}]
  /\ book = [s \in Sources |-> None]
  /\ live = {} /\ wired = {} /\ due = {}
  /\ cb = TRUE
  /\ timer = FALSE /\ last = NoAnswer /\ errors = 0
  /\ read = [k \in Slots |-> NoAnswer]
  /\ moved = [s \in Sources |-> None]
  /\ told = NoAnswer

Booked == {s \in Sources : book[s] # None}
Asked == {s \in Sources : \E c \in Calls : op[c] = "add" /\ s \in arg[c]}
Closed == \E c \in Calls : op[c] = "close" /\ st[c] \in {"done", "failed"}
Gone == \E c \in Calls : op[c] = "close" /\ st[c] = "done"
ItemsOf(S) == {<<book[s], s, "kept">> : s \in S}

(***************************************************************************)
(* The sources                                                             *)
(***************************************************************************)
\* The items that hear of a change of source s.
Hearing(s) == {i \in live \cap wired : i[2] = s}

(* A variable changes.  The server queues the value for its monitored      *)
(* items; a listener in the same process reports it at once.               *)
Change(s, v) ==
  /\ changes < MaxChanges
  /\ v # value[s]
  /\ changes' = changes + 1
  /\ value' = [value EXCEPT ![s] = v]
  /\ seen' = [seen EXCEPT ![s] = @ \cup {v}]
  /\ moved' = [moved EXCEPT ![s] = book[s]]
  /\ due' = IF impl = "opcua" THEN due \cup Hearing(s) ELSE due
  /\ told' = IF impl = "events" /\ cb /\ Hearing(s) # {}
             THEN [told EXCEPT ![s] = v] ELSE told
  /\ UNCHANGED <<impl, overlapped, callVars, book, live, wired, cb, pollVars>>

(* The server publishes what an item has queued: the item's handler calls  *)
(* the callback.                                                           *)
Publish(i) ==
  /\ i \in due \cap live
  /\ due' = due \ {i}
  /\ told' = [told EXCEPT ![i[2]] = value[i[2]]]
  /\ UNCHANGED <<impl, sourceVars, overlapped, callVars, book, live, wired, cb,
                 pollVars>>

(***************************************************************************)
(* Calls.  Those of "events" and "polling" run to their end at once: their *)
(* promise is resolved when they return.  close leaves it to a later step  *)
(* to see that, since a call made meanwhile still finds the subscription.  *)
(***************************************************************************)
\* The next call is c, and is op o with sources S.
MayCall(c) ==
  /\ st[c] = "new"
  /\ \A d \in Calls : d < c => st[d] # "new"
  /\ ~Closed

\* It makes two items for those of T.
Enter(c, o, S, T, status, items) ==
  /\ overlapped' = (overlapped \/ \E d \in Calls : st[d] = "pending")
  /\ op' = [op EXCEPT ![c] = o]
  /\ arg' = [arg EXCEPT ![c] = S]
  /\ twice' = [twice EXCEPT ![c] = T]
  /\ st' = [st EXCEPT ![c] = status]
  /\ work' = [work EXCEPT ![c] = items]

Settle(c, status) ==
  /\ st' = [st EXCEPT ![c] = status]
  /\ work' = [work EXCEPT ![c] = {}]
  /\ UNCHANGED <<overlapped, op, arg, twice>>

BookAs(c, S) == book' = [s \in Sources |-> IF s \in S THEN c ELSE book[s]]
Unbook(S) == book' = [s \in Sources |-> IF s \in S THEN None ELSE book[s]]

\* The items call c makes for the sources of S, some of them named twice.
KeptFor(c, S) == {c} \X S \X {"kept"}

ItemsFor(c, S, T) == KeptFor(c, S) \cup ({c} \X (S \cap T) \X {"spare"})

(* addItems of the OPC UA wrapper: the ids that are not monitored yet are  *)
(* sent to the server, each as often as it is named.                       *)
AddItemsOpcua(c, S, T) ==
  /\ impl = "opcua" /\ MayCall(c)
  /\ Enter(c, "add", S, T \ Booked, IF S \subseteq Booked THEN "done" ELSE "pending",
           ItemsFor(c, S \ Booked, T))
  /\ UNCHANGED <<impl, sourceVars, itemVars, cb, pollVars, told>>

(* The server has created the items: a handler for each, whatever the      *)
(* books say by now.  A new item publishes its value first.  Of two items  *)
(* for one source the books keep the last.                                 *)
AddOk(c) ==
  /\ op[c] = "add" /\ st[c] = "pending" /\ ~Gone
  /\ live' = live \cup work[c]
  /\ wired' = wired \cup work[c]
  /\ due' = due \cup work[c]
  /\ BookAs(c, {i[2] : i \in work[c]})
  /\ Settle(c, "done")
  /\ UNCHANGED <<impl, sourceVars, cb, pollVars, told>>

(* One of the items could not be created, and the call rejects; the others *)
(* exist on the server, without a handler.                                 *)
AddFails(c) ==
  /\ op[c] = "add" /\ st[c] = "pending"
  /\ \E made \in SUBSET work[c] :
       /\ made # work[c]
       /\ Gone => made = {}
       /\ live' = live \cup made
  /\ Settle(c, "failed")
  /\ UNCHANGED <<impl, sourceVars, book, wired, due, cb, pollVars, told>>

(* addItems on an address space: a listener for each new id. *)
AddItemsEvents(c, S) ==
  /\ impl = "events" /\ MayCall(c)
  /\ Enter(c, "add", S, {}, "done", {})
  /\ BookAs(c, S \ Booked)
  /\ live' = live \cup KeptFor(c, S \ Booked)
  /\ wired' = wired \cup KeptFor(c, S \ Booked)
  /\ UNCHANGED <<impl, sourceVars, due, cb, pollVars, told>>

(* addItems when polling: note the ids, start the timer if it is off. *)
AddItemsPolling(c, S) ==
  /\ impl = "polling" /\ MayCall(c)
  /\ Enter(c, "add", S, {}, "done", {})
  /\ BookAs(c, S \ Booked)
  /\ timer' = TRUE
  /\ UNCHANGED <<impl, sourceVars, live, wired, due, cb, last, read,
                 errors, told>>

(* removeItems of the OPC UA wrapper: the books forget the items at once,  *)
(* the server when it has terminated them.                                 *)
RemoveItemsOpcua(c, S) ==
  /\ impl = "opcua" /\ MayCall(c)
  /\ Enter(c, "remove", S, {}, IF S \cap Booked = {} THEN "done" ELSE "pending",
           ItemsOf(S \cap Booked))
  /\ Unbook(S)
  /\ UNCHANGED <<impl, sourceVars, live, wired, due, cb, pollVars, told>>

(* Every terminate has settled; "failed" stands for a rejection that was   *)
(* swallowed: the item is still there.                                     *)
Removed(c) ==
  /\ op[c] = "remove" /\ st[c] = "pending"
  /\ \/ live' = live \ work[c] /\ due' = due \ work[c] /\ Settle(c, "done")
     \/ Settle(c, "failed") /\ UNCHANGED <<live, due>>
  /\ UNCHANGED <<impl, sourceVars, book, wired, cb, pollVars, told>>

\* Bug variant: the listeners of removed ids stay.
Bug_RemoveItemsEvents(c, S) ==
  /\ impl = "events" /\ MayCall(c)
  /\ Enter(c, "remove", S, {}, "done", {})
  /\ Unbook(S)
  /\ UNCHANGED <<impl, sourceVars, live, wired, due, cb, pollVars, told>>

RemoveItemsEvents(c, S) ==
  /\ impl = "events" /\ MayCall(c)
  /\ Enter(c, "remove", S, {}, "done", {})
  /\ Unbook(S)
  /\ live' = live \ ItemsOf(S \cap Booked)
  /\ UNCHANGED <<impl, sourceVars, wired, due, cb, pollVars, told>>

(* removeItems when polling: forget ids and values; no id left, no timer. *)
RemoveItemsPolling(c, S) ==
  /\ impl = "polling" /\ MayCall(c)
  /\ Enter(c, "remove", S, {}, "done", {})
  /\ Unbook(S)
  /\ last' = [s \in Sources |-> IF s \in S THEN None ELSE last[s]]
  /\ timer' = (timer /\ ~(Booked \subseteq S))
  /\ UNCHANGED <<impl, sourceVars, live, wired, due, cb, read, errors,
                 told>>

(* close of the OPC UA wrapper: terminate the subscription, clear the map  *)
(* in any case.  The callback stays set: a subscription that could not be  *)
(* terminated goes on reporting.                                           *)
CloseOpcua(c) ==
  /\ impl = "opcua" /\ MayCall(c)
  /\ Enter(c, "close", {}, {}, "pending", {})
  /\ UNCHANGED <<impl, sourceVars, itemVars, cb, pollVars, told>>

Terminated(c) ==
  /\ impl = "opcua" /\ op[c] = "close" /\ st[c] = "pending"
  /\ \/ live' = {} /\ due' = {} /\ Settle(c, "done")
     \/ Settle(c, "failed") /\ UNCHANGED <<live, due>>
  /\ Unbook(Sources)
  /\ UNCHANGED <<impl, sourceVars, wired, cb, pollVars, told>>

CloseEvents(c) ==
  /\ impl = "events" /\ MayCall(c)
  /\ Enter(c, "close", {}, {}, "pending", {})
  /\ Unbook(Sources)
  /\ live' = live \ ItemsOf(Booked)
  /\ cb' = FALSE
  /\ UNCHANGED <<impl, sourceVars, wired, due, pollVars, told>>

\* Bug variant: the callback survives the close.
Bug_ClosePolling(c) ==
  /\ impl = "polling" /\ MayCall(c)
  /\ Enter(c, "close", {}, {}, "pending", {})
  /\ Unbook(Sources)
  /\ timer' = FALSE
  /\ last' = NoAnswer
  /\ UNCHANGED <<impl, sourceVars, live, wired, due, cb, read, errors,
                 told>>

ClosePolling(c) ==
  /\ impl = "polling" /\ MayCall(c)
  /\ Enter(c, "close", {}, {}, "pending", {})
  /\ Unbook(Sources)
  /\ timer' = FALSE
  /\ last' = NoAnswer
  /\ cb' = FALSE
  /\ UNCHANGED <<impl, sourceVars, live, wired, due, read, errors, told>>

(* The caller of close sees that it has resolved. *)
CloseSeen(c) ==
  /\ impl # "opcua" /\ op[c] = "close" /\ st[c] = "pending"
  /\ Settle(c, "done")
  /\ UNCHANGED <<impl, sourceVars, itemVars, cb, pollVars, told>>

(***************************************************************************)
(* Polls                                                                   *)
(***************************************************************************)
(* The interval has passed: read every id on the books. *)
PollStart(k) ==
  /\ timer /\ cb
  /\ Booked # {}
  /\ read[k] = NoAnswer
  /\ read' = [read EXCEPT ![k] =
                [s \in Sources |-> IF s \in Booked THEN value[s] ELSE None]]
  /\ UNCHANGED <<impl, sourceVars, overlapped, callVars, itemVars, cb, timer, last,
                 errors, told>>

(* The session takes its time: the values are those of a later moment. *)
PollSample(k) ==
  /\ read[k] # NoAnswer
  /\ read' = [read EXCEPT ![k] =
                [s \in Sources |-> IF @[s] # None THEN value[s] ELSE None]]
  /\ UNCHANGED <<impl, sourceVars, overlapped, callVars, itemVars, cb, timer, last,
                 errors, told>>

\* The ids whose answer differs from the last one.
Differs(k) == {s \in Sources : read[k][s] # None /\ read[k][s] # last[s]}

\* Bug variant: the first value of an id is noted and not reported.
Bug_PollAnswerKeepsLast(k) ==
  /\ read[k] # NoAnswer
  /\ last' = [s \in Sources |-> IF read[k][s] # None THEN read[k][s] ELSE last[s]]
  /\ told' = IF cb THEN [s \in Sources |-> IF s \in Differs(k) /\ last[s] # None
                                           THEN read[k][s] ELSE told[s]]
             ELSE told
  /\ read' = [read EXCEPT ![k] = NoAnswer]
  /\ UNCHANGED <<impl, sourceVars, overlapped, callVars, itemVars, cb, timer, errors>>

(* The answer: report what differs.  A poll that outlives the close finds  *)
(* no callback: it notes the value of the first id that differs, and the   *)
(* call of null ends it.                                                   *)
PollAnswer(k) ==
  /\ read[k] # NoAnswer
  /\ IF cb
     THEN /\ last' = [s \in Sources |-> IF s \in Differs(k) THEN read[k][s]
                                        ELSE last[s]]
          /\ told' = [s \in Sources |-> IF s \in Differs(k) THEN read[k][s]
                                        ELSE told[s]]
     ELSE /\ \/ Differs(k) = {} /\ UNCHANGED last
             \/ \E s \in Differs(k) : last' = [last EXCEPT ![s] = read[k][s]]
          /\ UNCHANGED told
  /\ read' = [read EXCEPT ![k] = NoAnswer]
  /\ UNCHANGED <<impl, sourceVars, overlapped, callVars, itemVars, cb, timer, errors>>

(* The read rejects, and is logged. *)
PollFails(k) ==
  /\ read[k] # NoAnswer
  /\ errors < MaxErrors
  /\ errors' = errors + 1
  /\ read' = [read EXCEPT ![k] = NoAnswer]
  /\ UNCHANGED <<impl, sourceVars, overlapped, callVars, itemVars, cb, timer, last,
                 told>>

Call(c) ==
  \/ \E S \in (SUBSET Sources) \ {{}} :
       \/ \E T \in SUBSET (S \cap Shared) : AddItemsOpcua(c, S, T)
       \/ AddItemsEvents(c, S) \/ AddItemsPolling(c, S)
       \/ RemoveItemsOpcua(c, S) \/ RemoveItemsEvents(c, S)
       \/ RemoveItemsPolling(c, S)
  \/ CloseOpcua(c) \/ CloseEvents(c) \/ ClosePolling(c)

Answer(c) ==
  AddOk(c) \/ AddFails(c) \/ Removed(c) \/ Terminated(c) \/ CloseSeen(c)

Poll(k) == PollStart(k) \/ PollSample(k) \/ PollAnswer(k) \/ PollFails(k)

Next ==
  \/ \E s \in Sources, v \in Values : Change(s, v)
  \/ \E i \in Items : Publish(i)
  \/ \E c \in Calls : Call(c) \/ Answer(c)
  \/ \E k \in Slots : Poll(k)

(* The server publishes what it has queued, the interval timer fires, and  *)
(* every read is answered or rejected.                                     *)
Fairness ==
  /\ \A i \in Items : WF_vars(Publish(i))
  /\ \A k \in Slots : WF_vars(PollStart(k))
  /\ \A k \in Slots : WF_vars(PollAnswer(k) \/ PollFails(k))

Spec == Init /\ [][Next]_vars /\ Fairness

-----------------------------------------------------------------------------
\* The sources on the books; nothing is promised once close() was called.
Covered == IF \E c \in Calls : op[c] = "close" THEN {} ELSE Booked

\* Those that changed under the booking that is on the books.
Moved == {s \in Covered : moved[s] = book[s]}

Port == INSTANCE MonitoredPort WITH
  asked <- Asked, covered <- Covered, moved <- Moved, ended <- Gone

(* Each implementation keeps the port's promise, with calls overlapping    *)
(* each other and its own reads: its callback reports only values that     *)
(* sources passed to addItems have had, and nothing once close() has taken *)
(* effect, although a poll may still be in flight.                         *)
PortSafe == Port!Safety

(* A source that changes while it is on the books is reported, whatever    *)
(* else is added and removed, and although reads may overtake each other   *)
(* and be rejected: what was reported last is its value again and again.   *)
PortLive == Port!Liveness

\* Calls that were answered, each before the next, and did what they say.
Orderly ==
  ~overlapped /\ \A c \in Calls : st[c] \in {"new", "done"}

\* The sources a client that awaits every answer wants monitored.
Wanted ==
  {s \in Sources : \E c \in Calls :
     /\ op[c] = "add" /\ s \in arg[c]
     /\ \A d \in Calls : d > c =>
          op[d] # "close" /\ (op[d] = "remove" => s \notin arg[d])}

\* The items beside the booked ones that calls have made for sources they
\* named twice; none once the subscription is closed.
Spares ==
  {i \in Items : i[3] = "spare" /\ i[2] \in twice[i[1]] /\ ~Gone}

(* A service that awaits every call has exactly the items it asked for,    *)
(* one for each source, and when it asked for none nothing is left running *)
(* at the source: no item, no listener, no timer.  Only the first of two   *)
(* items for a source that one call named twice may be left: no            *)
(* removeItems reaches it, and it lives until close.                       *)
ItemsMatch ==
  Orderly =>
    /\ Booked = Wanted
    /\ impl # "polling" => /\ ItemsOf(Booked) \subseteq live
                           /\ live \ ItemsOf(Booked) \subseteq Spares
    /\ impl = "polling" => (timer <=> Booked # {})

=============================================================================
