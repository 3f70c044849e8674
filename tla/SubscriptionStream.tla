------------------------- MODULE SubscriptionStream -------------------------
(***************************************************************************)
(* One subscription of SubscriptionService seen from its delivery side:    *)
(* the update queue, the waiters, the single active SSE stream, and the    *)
(* REST handlers that empty the queue (stream, sync, delete).              *)
(*                                                                         *)
(*   core/src/services/subscription-service.ts   sync, acknowledge,        *)
(*                                               _flushAsset, delete       *)
(*   core/src/services/subscription-streams.ts   waiters, active stream    *)
(*   rest-server/src/routes/subscriptions.ts     sync, stream, delete      *)
(*                                                                         *)
(* An update is its sequence number.  A number is taken and pushed in one  *)
(* synchronous step, so the array `updates` is ordered by it and is        *)
(* modelled by the set of numbers it holds.                                *)
(*                                                                         *)
(* The server is one JavaScript thread: an action is the code between two  *)
(* awaits.  A stream handler awaits twice: reply.hijack(), and the promise *)
(* of waitForUpdates in its loop.                                          *)
(***************************************************************************)
EXTENDS Integers, FiniteSets, FiniteSetsExt

CONSTANTS
  Streams,        \* the POST /stream requests; each is one SSE response
  MaxQueue,       \* MAX_QUEUE_SIZE
  SliceQueue,     \* SLICE_QUEUE_SIZE
  MaxSeq,         \* bound: number of updates flushed in a behaviour
  HonestClients,  \* TRUE: a client acknowledges only numbers already issued
  None            \* activeStreamClose === null

ASSUME QueueAssumption ==
  /\ SliceQueue \in Nat \ {0}
  /\ MaxQueue \in Nat
  /\ SliceQueue <= MaxQueue

ASSUME BoundAssumption == MaxSeq \in Nat /\ HonestClients \in BOOLEAN

ASSUME NoneAssumption == None \notin Streams

VARIABLES
  known,         \* this._subs.has(subscriptionId)
  updates,       \* sub.updates
  nextSequence,  \* sub.nextSequence
  waiters,       \* sub.waiters: the loops blocked in waitForUpdates
  activeStream,  \* sub.activeStreamClose
  pc,            \* where each stream handler is
  lastSequence,  \* the handler's local lastSequence
  result,        \* what the handler's waitForUpdates promise resolved to
  closed,        \* the handler's local closed
  conn,          \* the client's side of the connection
  sent,          \* history: numbers written to each response
  lost,          \* history: numbers written to a connection already gone
  ackedTo,       \* history: largest lastSequenceNumber a client passed
  discarded      \* history: numbers cleared by sync(-1) or sliced off
                 \* a full queue

handlerVars == <<pc, lastSequence, result, closed>>
historyVars == <<sent, lost, ackedTo, discarded>>
vars == <<known, updates, nextSequence, waiters, activeStream,
          handlerVars, conn, historyVars>>

(***************************************************************************)
(* A handler has not been called; was refused with 404; awaits hijack; is  *)
(* blocked in waitForUpdates; has a resolved promise; ended its response;  *)
(* or returned with the response neither ended nor owned by anyone.        *)
(***************************************************************************)
PCs == {"new", "refused", "hijack", "waiting", "resumed", "ended", "hung"}

InLoop(s) == pc[s] \in {"waiting", "resumed"}

\* The values a request may carry as lastSequenceNumber (any JSON integer).
AckValues == -1 .. (IF HonestClients THEN nextSequence - 1 ELSE MaxSeq + 1)

Issued == 1 .. (nextSequence - 1)

\* The updates written to some response so far.
Written == UNION {sent[s] : s \in Streams}

Init ==
  /\ known = TRUE
  /\ updates = {}
  /\ nextSequence = 1
  /\ waiters = {}
  /\ activeStream = None
  /\ pc = [s \in Streams |-> "new"]
  /\ lastSequence = [s \in Streams |-> 0]
  /\ result = [s \in Streams |-> {}]
  /\ closed = [s \in Streams |-> FALSE]
  /\ conn = [s \in Streams |-> "up"]
  /\ sent = [s \in Streams |-> {}]
  /\ lost = {}
  /\ ackedTo = 0
  /\ discarded = {}

(***************************************************************************)
(* Helpers                                                                 *)
(***************************************************************************)
Larger(a, b) == IF a >= b THEN a ELSE b

\* Bug variant: the comparison is off by one and trims an update too many.
Bug_AfterOffByOne(q, n) == {u \in q : u > n + 1}

\* updates.filter((u) => u.sequenceNumber > n)
After(q, n) == {u \in q : u > n}

\* updates.slice(-n): the n newest
Newest(q, n) == {u \in q : Cardinality({v \in q : v > u}) < n}

\* The cap applied after a push.
Capped(q) == IF Cardinality(q) > MaxQueue THEN Newest(q, SliceQueue) ELSE q

\* acknowledge(): a no-op for a subscription that is gone
Acknowledged(n) == IF known THEN After(updates, n) ELSE updates

\* Bug variant: the loop always blocks, without looking at the queue first.
Bug_AwaitIgnoresQueue(s, last, q, p, r, w) ==
  /\ pc' = [p EXCEPT ![s] = IF ~known THEN "hung" ELSE "waiting"]
  /\ result' = [r EXCEPT ![s] = {}]
  /\ waiters' = IF known THEN w \cup {s} ELSE w

(***************************************************************************)
(* The head of the stream loop, `while (!closed) await waitForUpdates`,    *)
(* for a handler that is not closed: an unknown subscription throws and    *)
(* the catch block swallows it; queued updates resolve the promise at      *)
(* once; otherwise the handler becomes a waiter.  p and w are the pc and   *)
(* the waiters the handler has produced so far in this step.               *)
(***************************************************************************)
Await(s, last, q, p, r, w) ==
  LET pending == After(q, last) IN
  /\ pc' = [p EXCEPT ![s] = IF ~known THEN "hung"
                            ELSE IF pending # {} THEN "resumed" ELSE "waiting"]
  /\ result' = [r EXCEPT ![s] = IF known THEN pending ELSE {}]
  /\ waiters' = IF known /\ pending = {} THEN w \cup {s} ELSE w

(***************************************************************************)
(* Actions                                                                 *)
(***************************************************************************)
\* Bug variant: the push uses nextSequence without advancing it.
Bug_FlushKeepsSequence ==
  /\ nextSequence <= MaxSeq
  /\ updates' = Capped(updates \cup {nextSequence})
  /\ waiters' = {}
  /\ pc' = [s \in Streams |-> IF s \in waiters THEN "resumed" ELSE pc[s]]
  /\ result' = [s \in Streams |->
                  IF s \in waiters THEN {nextSequence} ELSE result[s]]
  /\ UNCHANGED <<known, nextSequence, activeStream, lastSequence, closed, conn,
                 historyVars>>

(* A debounce timer fires on a dirty asset.  The timer holds the SubState  *)
(* object, so it fires whether or not the subscription is still known.     *)
Flush ==
  LET q == updates \cup {nextSequence} IN
  /\ nextSequence <= MaxSeq
  /\ nextSequence' = nextSequence + 1
  /\ updates' = Capped(q)
  /\ discarded' = discarded \cup (q \ Capped(q))
  /\ waiters' = {}
  /\ pc' = [s \in Streams |-> IF s \in waiters THEN "resumed" ELSE pc[s]]
  /\ result' = [s \in Streams |->
                  IF s \in waiters THEN {nextSequence} ELSE result[s]]
  /\ UNCHANGED <<known, activeStream, lastSequence, closed, conn,
                 sent, lost, ackedTo>>

(* POST /sync with lastSequenceNumber = n (404 when unknown). *)
Sync(n) ==
  /\ known
  /\ n \in AckValues
  /\ IF n = -1
     THEN /\ updates' = {}
          /\ discarded' = discarded \cup updates
          /\ UNCHANGED ackedTo
     ELSE /\ updates' = After(updates, n)
          /\ ackedTo' = Larger(ackedTo, n)
          /\ UNCHANGED discarded
  /\ UNCHANGED <<known, nextSequence, waiters, activeStream, handlerVars,
                 conn, sent, lost>>

(* POST /stream with lastSequenceNumber = n, up to `await reply.hijack()`. *)
OpenStream(s, n) ==
  /\ pc[s] = "new"
  /\ n \in AckValues
  /\ IF known
     THEN /\ pc' = [pc EXCEPT ![s] = "hijack"]
          /\ updates' = Acknowledged(n)
          /\ lastSequence' = [lastSequence EXCEPT ![s] = n]
          /\ ackedTo' = Larger(ackedTo, n)
     ELSE /\ pc' = [pc EXCEPT ![s] = "refused"]
          /\ UNCHANGED <<updates, lastSequence, ackedTo>>
  /\ UNCHANGED <<known, nextSequence, waiters, activeStream, result, closed,
                 conn, sent, lost, discarded>>

\* Bug variant: the previous stream is closed, and nobody is woken.
Bug_StartStreamWakesNone(s) ==
  /\ pc[s] = "hijack"
  /\ activeStream' = IF known THEN s ELSE activeStream
  /\ closed' = [t \in Streams |-> closed[t] \/ (known /\ t = activeStream)]
  /\ Await(s, lastSequence[s], updates, pc, result, waiters)
  /\ UNCHANGED <<known, updates, nextSequence, lastSequence, conn, historyVars>>

(* The rest of the handler's prologue: registerActiveStream closes the     *)
(* previous stream and wakes every waiter with [], then the loop starts.   *)
StartStream(s) ==
  LET replaced == known /\ activeStream # None
      woken    == IF replaced THEN waiters ELSE {}
  IN
  /\ pc[s] = "hijack"
  /\ activeStream' = IF known THEN s ELSE activeStream
  /\ closed' = [t \in Streams |-> closed[t] \/ (replaced /\ t = activeStream)]
  /\ Await(s, lastSequence[s], updates,
           [t \in Streams |-> IF t \in woken THEN "resumed" ELSE pc[t]],
           [t \in Streams |-> IF t \in woken THEN {} ELSE result[t]],
           waiters \ woken)
  /\ UNCHANGED <<known, updates, nextSequence, lastSequence, conn, historyVars>>

\* Bug variant: settling does not take the waiter off the list.
Bug_TimeoutLeaksWaiter(s) ==
  /\ s \in waiters
  /\ pc' = [pc EXCEPT ![s] = "resumed"]
  /\ result' = [result EXCEPT ![s] = {}]
  /\ UNCHANGED <<known, updates, nextSequence, waiters, activeStream,
                 lastSequence, closed, conn, historyVars>>

\* Bug variant: the timer rejects the promise, and the route swallows that.
Bug_TimeoutRejects(s) ==
  /\ s \in waiters
  /\ waiters' = waiters \ {s}
  /\ pc' = [pc EXCEPT ![s] = "hung"]
  /\ UNCHANGED <<known, updates, nextSequence, activeStream, lastSequence,
                 result, closed, conn, historyVars>>

(* The 15 s timer of a blocked waitForUpdates settles it with []. *)
Timeout(s) ==
  /\ s \in waiters
  /\ waiters' = waiters \ {s}
  /\ pc' = [pc EXCEPT ![s] = "resumed"]
  /\ result' = [result EXCEPT ![s] = {}]
  /\ UNCHANGED <<known, updates, nextSequence, activeStream, lastSequence,
                 closed, conn, historyVars>>

\* Bug variant: `closed` is looked at only when a batch arrived.
Bug_EndStreamOnBatch(s) ==
  /\ pc[s] = "resumed"
  /\ closed[s]
  /\ IF result[s] # {}
     THEN pc' = [pc EXCEPT ![s] = "ended"] /\ UNCHANGED waiters
     ELSE pc' = [pc EXCEPT ![s] = "waiting"] /\ waiters' = waiters \cup {s}
  /\ result' = [result EXCEPT ![s] = {}]
  /\ UNCHANGED <<known, updates, nextSequence, activeStream,
                 lastSequence, closed, conn, historyVars>>

(* The continuation of the loop finds its stream closed, drops what it     *)
(* got and ends the response.                                              *)
EndStream(s) ==
  /\ pc[s] = "resumed"
  /\ closed[s]
  /\ pc' = [pc EXCEPT ![s] = "ended"]
  /\ result' = [result EXCEPT ![s] = {}]
  /\ UNCHANGED <<known, updates, nextSequence, waiters, activeStream,
                 lastSequence, closed, conn, historyVars>>

(* The continuation of the loop got nothing: keepalive, wait again. *)
Keepalive(s) ==
  /\ pc[s] = "resumed"
  /\ ~closed[s]
  /\ result[s] = {}
  /\ Await(s, lastSequence[s], updates, pc, result, waiters)
  /\ UNCHANGED <<known, updates, nextSequence, activeStream, lastSequence,
                 closed, conn, historyVars>>

\* Bug variant: the batch is written and never acknowledged.
Bug_DeliverWithoutAck(s) ==
  /\ pc[s] = "resumed"
  /\ ~closed[s]
  /\ result[s] # {}
  /\ lastSequence' = [lastSequence EXCEPT ![s] = Max(result[s])]
  /\ sent' = [sent EXCEPT ![s] = @ \cup result[s]]
  /\ Await(s, Max(result[s]), updates, pc, result, waiters)
  /\ UNCHANGED <<known, updates, nextSequence, activeStream, closed, conn,
                 lost, ackedTo, discarded>>

(* The continuation of the loop got updates: acknowledge them, write them  *)
(* and wait again.  A write to a connection that broke reaches nobody.     *)
Deliver(s) ==
  LET last == Max(result[s]) IN
  /\ pc[s] = "resumed"
  /\ ~closed[s]
  /\ result[s] # {}
  /\ lastSequence' = [lastSequence EXCEPT ![s] = last]
  /\ updates' = Acknowledged(last)
  /\ sent' = [sent EXCEPT ![s] = @ \cup result[s]]
  /\ lost' = IF conn[s] = "up" THEN lost ELSE lost \cup result[s]
  /\ Await(s, last, Acknowledged(last), pc, result, waiters)
  /\ UNCHANGED <<known, nextSequence, activeStream, closed, conn,
                 ackedTo, discarded>>

(* The client's side of the connection goes away. *)
BreakConnection(s) ==
  /\ InLoop(s)
  /\ conn[s] = "up"
  /\ conn' = [conn EXCEPT ![s] = "broken"]
  /\ UNCHANGED <<known, updates, nextSequence, waiters, activeStream,
                 handlerVars, historyVars>>

\* Bug variant: clearActiveStream without the check for a stale clear.
Bug_CloseEventStaleClear(s) ==
  /\ pc[s] \in {"waiting", "resumed", "hung"}
  /\ conn[s] = "broken"
  /\ closed' = [closed EXCEPT ![s] = TRUE]
  /\ activeStream' = IF known THEN None ELSE activeStream
  /\ UNCHANGED <<known, updates, nextSequence, waiters, pc, lastSequence,
                 result, conn, historyVars>>

(* Later, or never, the server hears of it: the request's 'close' event,   *)
(* whose listener exists once the handler has passed hijack.               *)
CloseEvent(s) ==
  /\ pc[s] \in {"waiting", "resumed", "hung"}
  /\ conn[s] = "broken"
  /\ ~closed[s]
  /\ closed' = [closed EXCEPT ![s] = TRUE]
  /\ activeStream' = IF known /\ activeStream = s THEN None ELSE activeStream
  /\ UNCHANGED <<known, updates, nextSequence, waiters, pc, lastSequence,
                 result, conn, historyVars>>

(* POST /delete: the last step of deleteSubscriptions.  It neither closes  *)
(* the active stream nor wakes the waiters.                                *)
Delete ==
  /\ known
  /\ known' = FALSE
  /\ UNCHANGED <<updates, nextSequence, waiters, activeStream, handlerVars,
                 conn, historyVars>>

Step(s) ==
  \/ \E n \in AckValues : OpenStream(s, n)
  \/ StartStream(s)
  \/ Timeout(s)
  \/ EndStream(s)
  \/ Keepalive(s)
  \/ Deliver(s)
  \/ BreakConnection(s)
  \/ CloseEvent(s)

Next ==
  \/ Flush
  \/ \E n \in AckValues : Sync(n)
  \/ Delete
  \/ \E s \in Streams : Step(s)

Spec == Init /\ [][Next]_vars

(***************************************************************************)
(* The event loop runs every queued continuation and every due timer, so   *)
(* a handler that can continue does; clients and flushes owe nothing.      *)
(***************************************************************************)
Fairness ==
  \A s \in Streams :
    /\ WF_vars(StartStream(s))
    /\ WF_vars(Timeout(s))
    /\ WF_vars(EndStream(s) \/ Keepalive(s) \/ Deliver(s))

FairSpec == Spec /\ Fairness

-----------------------------------------------------------------------------
(* The values of the variables (subscription-service.ts:58-80). *)
TypeOK ==
  /\ known \in BOOLEAN
  /\ nextSequence \in 1 .. (MaxSeq + 1)
  /\ updates \in SUBSET Issued
  /\ waiters \in SUBSET Streams
  /\ activeStream \in Streams \cup {None}
  /\ pc \in [Streams -> PCs]
  /\ lastSequence \in [Streams -> -1 .. (MaxSeq + 1)]
  /\ result \in [Streams -> SUBSET Issued]
  /\ closed \in [Streams -> BOOLEAN]
  /\ conn \in [Streams -> {"up", "broken"}]
  /\ sent \in [Streams -> SUBSET Issued]
  /\ lost \in SUBSET Issued
  /\ ackedTo \in 0 .. (MaxSeq + 1)
  /\ discarded \in SUBSET Issued

(* waitForUpdates checks the queue and registers its waiter without an     *)
(* await in between, and every flush wakes every waiter: no handler is     *)
(* blocked while an update it has not seen is in the queue.  An update at  *)
(* or below a number some client acknowledged is not one it is owed.       *)
NoLostWakeup ==
  \A s \in waiters : \A u \in updates : u <= lastSequence[s] /\ u <= ackedTo

(* A settled waiter is out of sub.waiters and a blocked one is in it: the  *)
(* list neither leaks settled promises nor forgets a blocked handler.      *)
WaitersAreBlocked == waiters = {s \in Streams : pc[s] = "waiting"}

(* registerActiveStream and clearActiveStream: at most one stream loop is  *)
(* open at any time, and it is the one activeStreamClose belongs to.       *)
SingleStream == \A s \in Streams : InLoop(s) /\ ~closed[s] => activeStream = s

(* registerActiveStream wakes the stream it closes, so that it exits at    *)
(* once and does not sit out its timer: of the closed streams only one     *)
(* that lost its own connection may still be blocked, whatever closed,     *)
(* replaced or settled it first.                                           *)
ReplacedAreWoken == \A s \in waiters : closed[s] => conn[s] = "broken"

(* No update disappears silently: each number ever issued is still queued, *)
(* or was written to a stream, acknowledged by a client's                  *)
(* lastSequenceNumber, cleared by sync(-1), or sliced off a full queue.    *)
Accounted ==
  Issued \subseteq updates \cup Written \cup (1 .. ackedTo) \cup discarded

(* A stream whose handler gave up with its response still open (the catch  *)
(* of the stream route after headersSent) has lost its subscription: no    *)
(* other path leaves a response open with nobody to end it.                *)
HungOnlyAfterDelete == \A s \in Streams : pc[s] = "hung" => ~known

(* A loop delivers in order and never twice on its response, and no two    *)
(* responses of the subscription are ever sent the same update: the next   *)
(* batch lies beyond all that was sent before it on this stream and is     *)
(* disjoint from what other streams were sent.                             *)
AtMostOnce ==
  /\ \A s \in Streams : pc[s] = "resumed" /\ ~closed[s] =>
       \A n \in result[s], m \in sent[s] : m < n
  /\ \A s, t \in Streams : s # t => sent[s] \cap sent[t] = {}

(* While its subscription lives and its client stays, an open stream is    *)
(* sent every queued update it has not acknowledged, unless another client *)
(* request or the cap removes that update first.                           *)
StreamDelivers ==
  \A s \in Streams : \A n \in 1 .. MaxSeq :
    (n \in updates /\ InLoop(s) /\ n > lastSequence[s] /\ known /\ ~closed[s])
      ~> (n \notin updates \/ ~known \/ closed[s])

(* A stream that was replaced, or whose client was seen to leave, ends:    *)
(* its loop does not stay blocked in waitForUpdates.                       *)
ClosedStreamsEnd ==
  \A s \in Streams : (InLoop(s) /\ closed[s]) ~> pc[s] = "ended"

(* "Trim updates that have been delivered to the client.  Call after       *)
(* stream/sync" (subscription-service.ts:351-354): what the stream route   *)
(* trims has reached a client.                                             *)
TrimmedWereDelivered == lost = {}

-----------------------------------------------------------------------------
(***************************************************************************)
(* What makes SingleStream, NoLostWakeup, Accounted and AtMostOnce         *)
(* inductive.                                                              *)
(***************************************************************************)
(* A handler's lastSequence is either a number a client acknowledged, or   *)
(* the end of a batch it delivered, and then everything up to it has been  *)
(* trimmed from the queue.                                                 *)
CursorBehindQueue ==
  \A s \in Streams : pc[s] = "hijack" \/ InLoop(s) =>
    \/ lastSequence[s] <= ackedTo
    \/ /\ lastSequence[s] < nextSequence
       /\ \A u \in updates : u > lastSequence[s]

(* A batch waiting for its handler has no gap: what is still queued at or  *)
(* below its newest number is in the batch or was acknowledged.            *)
BatchHasNoGap ==
  \A s \in Streams : pc[s] = "resumed" =>
    \A n \in result[s], u \in updates : u <= n => u \in result[s] \/ u <= ackedTo

(* What was written to a stream has left the queue, lies at or below that  *)
(* stream's cursor, and is not in any batch still to be written.           *)
SentIsGone ==
  /\ known => \A s \in Streams : sent[s] \cap updates = {}
  /\ \A s \in Streams : pc[s] \in {"new", "refused", "hijack"} => sent[s] = {}
  /\ \A s \in Streams : InLoop(s) => \A m \in sent[s] : m <= lastSequence[s]
  /\ \A s, t \in Streams : pc[s] = "resumed" /\ ~closed[s] =>
       result[s] \cap sent[t] = {}

(* A response is closed by its handler's own prologue or later only. *)
ClosedAfterStart ==
  \A s \in Streams : pc[s] \in {"new", "refused", "hijack"} =>
    ~closed[s] /\ activeStream # s

Safe ==
  /\ WaitersAreBlocked /\ SingleStream /\ HungOnlyAfterDelete
  /\ NoLostWakeup /\ Accounted /\ AtMostOnce
  /\ CursorBehindQueue /\ BatchHasNoGap /\ SentIsGone /\ ClosedAfterStart

IInv == TypeOK /\ Safe

=============================================================================
