---------------------- MODULE SubscriptionStreamProofs ----------------------
(***************************************************************************)
(* Proofs about SubscriptionStream for any set of requests, any cap and    *)
(* slice, any number of updates and any numbers the clients acknowledge.   *)
(***************************************************************************)
EXTENDS SubscriptionStream, WellFoundedInduction, TLAPS

(* The newest number of a batch exists: Max of a non-empty set of numbers  *)
(* with an upper bound is one of its elements and bounds the others.       *)
LEMMA MaxOfBatch ==
  ASSUME NEW N \in Nat, NEW q \in SUBSET (1 .. N), q # {}
  PROVE  Max(q) \in q /\ \A u \in q : u <= Max(q)
<1> DEFINE mirror == {N - u : u \in q}
           R == OpToRel(<, Nat)
<1>1. mirror \subseteq Nat
  OBVIOUS
<1>2. mirror # {}
  OBVIOUS
<1>3. IsWellFoundedOn(R, Nat)
  BY NatLessThanWellFounded
<1>4. \E d \in mirror : \A e \in mirror : ~ (<<e, d>> \in R)
  <2> HIDE DEF mirror, R
  <2>. QED  BY <1>1, <1>2, <1>3, WFMin
<1>5. PICK d \in mirror : \A e \in mirror : ~ (e < d)
  BY <1>1, <1>4 DEF OpToRel
<1>6. PICK u \in q : d = N - u
  BY <1>5
<1>7. \A v \in q : v <= u
  <2> TAKE v \in q
  <2>1. N - v \in mirror
    OBVIOUS
  <2>2. ~ (N - v < N - u)
    BY <2>1, <1>5, <1>6
  <2>. QED  BY <2>2
<1>8. \E x \in q : \A y \in q : x >= y
  BY <1>7
<1>. QED
  BY <1>8 DEF Max

-----------------------------------------------------------------------------
(***************************************************************************)
(* Every step preserves TypeOK.                                            *)
(***************************************************************************)
LEMMA CappedIsPart == ASSUME NEW q PROVE Capped(q) \subseteq q
  BY DEF Capped, Newest

(* waitForUpdates as a sub-step: what Await makes of the pc, the result    *)
(* and the waiters is well typed when what it is given is.                 *)
LEMMA AwaitType ==
  ASSUME NEW s \in Streams, NEW last \in Int, NEW q \in SUBSET Issued,
         NEW p \in [Streams -> PCs], NEW r \in [Streams -> SUBSET Issued],
         NEW w \in SUBSET Streams, Await(s, last, q, p, r, w)
  PROVE  /\ pc' \in [Streams -> PCs]
         /\ result' \in [Streams -> SUBSET Issued]
         /\ waiters' \in SUBSET Streams
  BY DEF Await, After, PCs

(* The numbers a request may carry are bounded integers. *)
LEMMA AckBounds ==
  ASSUME TypeOK, NEW n \in AckValues
  PROVE  n \in -1 .. (MaxSeq + 1)
  BY BoundAssumption DEF AckValues, TypeOK, BoundAssumption

LEMMA SameIssued == nextSequence' = nextSequence => Issued' = Issued
  BY DEF Issued

LEMMA AfterIsPart ==
  ASSUME NEW q, NEW n PROVE After(q, n) \subseteq q
  BY DEF After

(* TypeOK holds of every reachable state. *)
THEOREM TypeCorrect == Spec => []TypeOK
<1> USE BoundAssumption DEF BoundAssumption
<1>1. Init => TypeOK
  BY DEF Init, TypeOK, PCs, Issued
<1>2. TypeOK /\ [Next]_vars => TypeOK'
  <2> SUFFICES ASSUME TypeOK, [Next]_vars PROVE TypeOK'
    OBVIOUS
  <2>1. CASE Flush
    <3>1. Capped(updates \cup {nextSequence}) \subseteq updates \cup {nextSequence}
      BY CappedIsPart
    <3>2. nextSequence \in Nat /\ nextSequence' = nextSequence + 1
      BY <2>1 DEF Flush, TypeOK
    <3>3. Issued' = Issued \cup {nextSequence} /\ nextSequence' \in 1 .. (MaxSeq + 1)
      BY <2>1, <3>2 DEF Flush, Issued, TypeOK
    <3>. QED  BY <2>1, <3>1, <3>3 DEF Flush, TypeOK, PCs
  <2>2. ASSUME NEW n \in AckValues, Sync(n) PROVE TypeOK'
    <3>1. Issued' = Issued
      BY <2>2, SameIssued DEF Sync
    <3>2. ackedTo' \in 0 .. (MaxSeq + 1)
      BY <2>2, AckBounds DEF Sync, TypeOK, Larger
    <3>3. updates' \subseteq updates /\ discarded' \subseteq discarded \cup updates
      BY <2>2 DEF Sync, After
    <3>. QED  BY <2>2, <3>1, <3>2, <3>3 DEF Sync, TypeOK, handlerVars
  <2>3. CASE Delete
    BY <2>3, SameIssued DEF Delete, TypeOK, handlerVars, historyVars
  <2>4. ASSUME NEW s \in Streams, Step(s) PROVE TypeOK'
    <3>0. Issued' = Issued
      BY <2>4, SameIssued DEF Step, OpenStream, StartStream, Timeout, EndStream,
         Keepalive, Deliver, BreakConnection, CloseEvent
    <3>1. ASSUME NEW n \in AckValues, OpenStream(s, n) PROVE TypeOK'
      <4>1. /\ ackedTo' \in 0 .. (MaxSeq + 1)
            /\ lastSequence' \in [Streams -> -1 .. (MaxSeq + 1)]
        BY <3>1, AckBounds DEF OpenStream, TypeOK, Larger
      <4>2. updates' \subseteq updates
        BY <3>1, AfterIsPart DEF OpenStream, Acknowledged
      <4>3. pc' \in [Streams -> PCs]
        BY <3>1 DEF OpenStream, TypeOK, PCs
      <4>. QED  BY <3>0, <3>1, <4>1, <4>2, <4>3 DEF OpenStream, TypeOK
    <3>2. CASE StartStream(s)
      <4> DEFINE woken == IF known /\ activeStream # None THEN waiters ELSE {}
                 p == [t \in Streams |-> IF t \in woken THEN "resumed" ELSE pc[t]]
                 r == [t \in Streams |-> IF t \in woken THEN {} ELSE result[t]]
      <4>1. p \in [Streams -> PCs] /\ r \in [Streams -> SUBSET Issued]
        BY DEF TypeOK, PCs
      <4>2. Await(s, lastSequence[s], updates, p, r, waiters \ woken)
        BY <3>2 DEF StartStream
      <4>3. /\ pc' \in [Streams -> PCs] /\ result' \in [Streams -> SUBSET Issued]
            /\ waiters' \in SUBSET Streams
        <5> HIDE DEF p, r, woken
        <5>1. lastSequence[s] \in Int /\ waiters \ woken \in SUBSET Streams
              /\ updates \in SUBSET Issued
          BY DEF TypeOK
        <5>. QED  BY <4>1, <4>2, <5>1, AwaitType
      <4>4. closed' \in [Streams -> BOOLEAN] /\ activeStream' \in Streams \cup {None}
        BY <3>2 DEF StartStream, TypeOK
      <4>. QED  BY <3>0, <3>2, <4>3, <4>4 DEF StartStream, TypeOK, historyVars
    <3>3. CASE Timeout(s)
      BY <3>0, <3>3 DEF Timeout, TypeOK, PCs, historyVars
    <3>4. CASE EndStream(s)
      BY <3>0, <3>4 DEF EndStream, TypeOK, PCs, historyVars
    <3>5. CASE Keepalive(s)
      <4>1. /\ pc' \in [Streams -> PCs] /\ result' \in [Streams -> SUBSET Issued]
            /\ waiters' \in SUBSET Streams
        <5>1. lastSequence[s] \in Int
          BY DEF TypeOK
        <5>. QED  BY <3>5, <5>1, AwaitType DEF Keepalive, TypeOK
      <4>. QED  BY <3>0, <3>5, <4>1 DEF Keepalive, TypeOK, historyVars
    <3>6. CASE Deliver(s)
      <4> DEFINE last == Max(result[s])
      <4>1. result[s] \in SUBSET (1 .. MaxSeq) /\ result[s] # {}
        BY <3>6 DEF Deliver, TypeOK, Issued
      <4>2. last \in result[s] /\ last \in -1 .. (MaxSeq + 1) /\ last \in Int
        <5>1. Max(result[s]) \in result[s]
          BY <4>1, MaxOfBatch
        <5>2. last \in 1 .. MaxSeq
          BY <4>1, <5>1
        <5>. QED  BY <5>1, <5>2
      <4>3. Acknowledged(last) \in SUBSET Issued
        BY AfterIsPart DEF Acknowledged, TypeOK
      <4>4. Await(s, last, Acknowledged(last), pc, result, waiters)
        BY <3>6 DEF Deliver
      <4>5. /\ updates' = Acknowledged(last)
            /\ lastSequence' = [lastSequence EXCEPT ![s] = last]
            /\ sent' = [sent EXCEPT ![s] = @ \cup result[s]]
            /\ lost' \in {lost, lost \cup result[s]}
            /\ UNCHANGED <<known, nextSequence, activeStream, closed, conn,
                           ackedTo, discarded>>
        BY <3>6 DEF Deliver
      <4> HIDE DEF last
      <4>6. /\ pc' \in [Streams -> PCs] /\ result' \in [Streams -> SUBSET Issued]
            /\ waiters' \in SUBSET Streams
        <5>1. /\ pc \in [Streams -> PCs] /\ result \in [Streams -> SUBSET Issued]
              /\ waiters \in SUBSET Streams
          BY DEF TypeOK
        <5>. QED  BY <4>2, <4>3, <4>4, <5>1, AwaitType
      <4>7. result[s] \in SUBSET Issued
        BY DEF TypeOK
      <4>. QED  BY <3>0, <4>2, <4>3, <4>5, <4>6, <4>7 DEF TypeOK
    <3>7. CASE BreakConnection(s)
      BY <3>0, <3>7 DEF BreakConnection, TypeOK, handlerVars, historyVars
    <3>8. CASE CloseEvent(s)
      BY <3>0, <3>8 DEF CloseEvent, TypeOK, historyVars
    <3>. QED
      BY <2>4, <3>1, <3>2, <3>3, <3>4, <3>5, <3>6, <3>7, <3>8 DEF Step
  <2>5. CASE UNCHANGED vars
    BY <2>5, SameIssued DEF vars, TypeOK, handlerVars, historyVars
  <2>. QED
    BY <2>1, <2>2, <2>3, <2>4, <2>5 DEF Next
<1>. QED
  BY <1>1, <1>2, PTL DEF Spec

-----------------------------------------------------------------------------
(***************************************************************************)
(* Every step preserves Safe.  One lemma per action, one step per conjunct *)
(* the action can disturb.                                                 *)
(***************************************************************************)
(* What a flush leaves in the queue is what was there and the new number,  *)
(* and whatever it slices off is recorded as discarded.                    *)
LEMMA FlushSafe ==
  ASSUME TypeOK, TypeOK', Safe, Flush
  PROVE  Safe'
<1>1. /\ updates' \subseteq updates \cup {nextSequence}
      /\ updates \cup {nextSequence} \subseteq updates' \cup discarded'
      /\ discarded \subseteq discarded'
  BY CappedIsPart DEF Flush
<1>2. /\ nextSequence \in Nat /\ nextSequence' = nextSequence + 1
      /\ Issued' = Issued \cup {nextSequence}
      /\ \A n \in Issued : n \in Nat /\ n < nextSequence
  BY DEF Flush, TypeOK, Issued
<1>3. /\ waiters' = {}
      /\ \A s \in waiters : pc'[s] = "resumed" /\ result'[s] = {nextSequence}
      /\ \A s \in Streams \ waiters : pc'[s] = pc[s] /\ result'[s] = result[s]
      /\ UNCHANGED <<known, activeStream, lastSequence, closed, conn, sent, lost,
                     ackedTo>>
  BY DEF Flush, TypeOK
<1>4. waiters = {s \in Streams : pc[s] = "waiting"}
  BY DEF Safe, WaitersAreBlocked
<1>5. WaitersAreBlocked' /\ SingleStream' /\ HungOnlyAfterDelete' /\ ClosedAfterStart'
  BY <1>3, <1>4 DEF Safe, WaitersAreBlocked, SingleStream, HungOnlyAfterDelete,
     ClosedAfterStart, InLoop, TypeOK
<1>6. NoLostWakeup'
  BY <1>3 DEF NoLostWakeup
<1>7. Accounted'
  <2>1. Written' = Written
    BY <1>3 DEF Written
  <2>. QED  BY <1>1, <1>2, <1>3, <2>1 DEF Safe, Accounted
<1>8. CursorBehindQueue'
  BY <1>1, <1>2, <1>3, <1>4 DEF Safe, CursorBehindQueue, InLoop, TypeOK
<1>9. BatchHasNoGap'
  BY <1>1, <1>2, <1>3, <1>4 DEF Safe, BatchHasNoGap, NoLostWakeup, CursorBehindQueue,
     InLoop, TypeOK
<1>10. SentIsGone'
  <2>1. \A t \in Streams : sent[t] \subseteq Issued /\ nextSequence \notin sent[t]
    BY <1>2 DEF TypeOK
  <2>2. (known => \A s \in Streams : sent[s] \cap updates = {})'
    BY <1>1, <1>3, <2>1 DEF Safe, SentIsGone
  <2>3. (\A s, t \in Streams : pc[s] = "resumed" /\ ~closed[s] =>
          result[s] \cap sent[t] = {})'
    BY <1>3, <2>1 DEF Safe, SentIsGone
  <2>4. (\A s \in Streams : InLoop(s) => \A m \in sent[s] : m <= lastSequence[s])'
    BY <1>3, <1>4 DEF Safe, SentIsGone, InLoop
  <2>5. (\A s \in Streams : pc[s] \in {"new", "refused", "hijack"} => sent[s] = {})'
    BY <1>3, <1>4 DEF Safe, SentIsGone
  <2>. QED  BY <2>2, <2>3, <2>4, <2>5 DEF SentIsGone
<1>11. AtMostOnce'
  BY <1>1, <1>2, <1>3, <1>4 DEF Safe, AtMostOnce, TypeOK
<1>. QED
  BY <1>5, <1>6, <1>7, <1>8, <1>9, <1>10, <1>11 DEF Safe

(* A client's sync only shrinks the queue, and records why. *)
LEMMA SyncSafe ==
  ASSUME TypeOK, TypeOK', Safe, NEW n \in AckValues, Sync(n)
  PROVE  Safe'
<1>1. /\ updates' \subseteq updates
      /\ discarded \subseteq discarded'
      /\ ackedTo <= ackedTo'
      /\ ackedTo \in Int /\ ackedTo' \in Int
      /\ UNCHANGED <<known, nextSequence, waiters, activeStream, pc, lastSequence,
                     result, closed, conn, sent, lost>>
  BY AckBounds DEF Sync, After, Larger, TypeOK, handlerVars
<1>2. updates \subseteq updates' \cup discarded' \cup (1 .. ackedTo')
  BY AckBounds DEF Sync, After, Larger, TypeOK, Issued
<1>3. \A s \in Streams : lastSequence[s] \in Int
  BY DEF TypeOK
<1>4. updates \subseteq Int /\ \A s \in Streams : result[s] \subseteq Int
  BY DEF TypeOK, Issued
<1>5. WaitersAreBlocked' /\ SingleStream' /\ HungOnlyAfterDelete' /\ ClosedAfterStart'
      /\ AtMostOnce'
  BY <1>1 DEF Safe, WaitersAreBlocked, SingleStream, HungOnlyAfterDelete,
     ClosedAfterStart, InLoop, AtMostOnce
<1>6. NoLostWakeup'
  BY <1>1, <1>4, TypeOK DEF Safe, NoLostWakeup, TypeOK
<1>7. Accounted'
  <2>1. Written' = Written /\ Issued' = Issued
    BY <1>1 DEF Written, Issued
  <2>2. 1 .. ackedTo \subseteq 1 .. ackedTo'
    BY <1>1
  <2>. QED  BY <1>1, <1>2, <2>1, <2>2 DEF Safe, Accounted
<1>8. CursorBehindQueue'
  BY <1>1, <1>3 DEF Safe, CursorBehindQueue, InLoop
<1>9. BatchHasNoGap'
  BY <1>1, <1>4 DEF Safe, BatchHasNoGap
<1>10. SentIsGone'
  BY <1>1 DEF Safe, SentIsGone, InLoop
<1>. QED
  BY <1>5, <1>6, <1>7, <1>8, <1>9, <1>10 DEF Safe

(* Opening a stream acknowledges, and starts with nothing sent. *)
LEMMA OpenStreamSafe ==
  ASSUME TypeOK, TypeOK', Safe, NEW s \in Streams, NEW n \in AckValues,
         OpenStream(s, n)
  PROVE  Safe'
<1>1. /\ updates' \subseteq updates
      /\ ackedTo <= ackedTo'
      /\ ackedTo \in Int /\ ackedTo' \in Int
      /\ UNCHANGED <<known, nextSequence, waiters, activeStream, result, closed,
                     conn, sent, lost, discarded>>
  BY AckBounds DEF OpenStream, Acknowledged, After, Larger, TypeOK
<1>2. updates \subseteq updates' \cup (1 .. ackedTo')
  BY AckBounds DEF OpenStream, Acknowledged, After, Larger, TypeOK, Issued
<1>3. /\ pc[s] = "new"
      /\ pc'[s] \in {"hijack", "refused"}
      /\ pc'[s] = "hijack" => lastSequence'[s] <= ackedTo'
      /\ \A t \in Streams \ {s} : pc'[t] = pc[t] /\ lastSequence'[t] = lastSequence[t]
  BY AckBounds DEF OpenStream, Larger, TypeOK
<1>4. updates \subseteq Int /\ \A t \in Streams : result[t] \subseteq Int
  BY DEF TypeOK, Issued
<1>5. WaitersAreBlocked' /\ SingleStream' /\ HungOnlyAfterDelete' /\ ClosedAfterStart'
  BY <1>1, <1>3 DEF Safe, WaitersAreBlocked, SingleStream, HungOnlyAfterDelete,
     ClosedAfterStart, InLoop
<1>6. NoLostWakeup'
  <2>1. \A t \in waiters : pc[t] = "waiting" /\ t \in Streams /\ t # s
    BY <1>3 DEF Safe, WaitersAreBlocked
  <2>. QED  BY <1>1, <1>3, <1>4, <2>1 DEF Safe, NoLostWakeup
<1>7. Accounted'
  <2>1. Written' = Written /\ Issued' = Issued
    BY <1>1 DEF Written, Issued
  <2>2. 1 .. ackedTo \subseteq 1 .. ackedTo'
    BY <1>1
  <2>. QED  BY <1>1, <1>2, <2>1, <2>2 DEF Safe, Accounted
<1>8. CursorBehindQueue'
  <2>1. \A t \in Streams : lastSequence[t] \in Int
    BY DEF TypeOK
  <2>. QED  BY <1>1, <1>3, <2>1 DEF Safe, CursorBehindQueue, InLoop
<1>9. BatchHasNoGap'
  BY <1>1, <1>3, <1>4 DEF Safe, BatchHasNoGap
<1>10. SentIsGone'
  BY <1>1, <1>3 DEF Safe, SentIsGone, InLoop
<1>11. AtMostOnce'
  BY <1>1, <1>3 DEF Safe, AtMostOnce
<1>. QED
  BY <1>5, <1>6, <1>7, <1>8, <1>9, <1>10, <1>11 DEF Safe

(* The 15 s timer: the handler leaves the list with an empty batch. *)
LEMMA TimeoutSafe ==
  ASSUME TypeOK, TypeOK', Safe, NEW s \in Streams, Timeout(s)
  PROVE  Safe'
<1>1. /\ pc[s] = "waiting" /\ pc'[s] = "resumed" /\ result'[s] = {}
      /\ waiters' = waiters \ {s}
      /\ \A t \in Streams \ {s} : pc'[t] = pc[t] /\ result'[t] = result[t]
      /\ UNCHANGED <<known, updates, nextSequence, activeStream, lastSequence,
                     closed, conn, sent, lost, ackedTo, discarded>>
  BY DEF Timeout, Safe, WaitersAreBlocked, TypeOK, historyVars
<1>2. WaitersAreBlocked' /\ SingleStream' /\ HungOnlyAfterDelete' /\ ClosedAfterStart'
  BY <1>1 DEF Safe, WaitersAreBlocked, SingleStream, HungOnlyAfterDelete,
     ClosedAfterStart, InLoop
<1>3. NoLostWakeup' /\ CursorBehindQueue'
  BY <1>1 DEF Safe, NoLostWakeup, CursorBehindQueue, InLoop
<1>4. Accounted'
  BY <1>1 DEF Safe, Accounted, Written, Issued
<1>5. BatchHasNoGap' /\ SentIsGone' /\ AtMostOnce'
  BY <1>1 DEF Safe, BatchHasNoGap, SentIsGone, AtMostOnce, InLoop
<1>. QED
  BY <1>2, <1>3, <1>4, <1>5 DEF Safe

(* A closed stream ends. *)
LEMMA EndStreamSafe ==
  ASSUME TypeOK, TypeOK', Safe, NEW s \in Streams, EndStream(s)
  PROVE  Safe'
<1>1. /\ pc[s] = "resumed" /\ pc'[s] = "ended" /\ result'[s] = {}
      /\ \A t \in Streams \ {s} : pc'[t] = pc[t] /\ result'[t] = result[t]
      /\ UNCHANGED <<known, updates, nextSequence, waiters, activeStream,
                     lastSequence, closed, conn, sent, lost, ackedTo, discarded>>
  BY DEF EndStream, TypeOK, historyVars
<1>2. WaitersAreBlocked' /\ SingleStream' /\ HungOnlyAfterDelete' /\ ClosedAfterStart'
  BY <1>1 DEF Safe, WaitersAreBlocked, SingleStream, HungOnlyAfterDelete,
     ClosedAfterStart, InLoop
<1>3. NoLostWakeup' /\ CursorBehindQueue'
  BY <1>1 DEF Safe, NoLostWakeup, CursorBehindQueue, InLoop
<1>4. Accounted'
  BY <1>1 DEF Safe, Accounted, Written, Issued
<1>5. BatchHasNoGap' /\ SentIsGone' /\ AtMostOnce'
  BY <1>1 DEF Safe, BatchHasNoGap, SentIsGone, AtMostOnce, InLoop
<1>. QED
  BY <1>2, <1>3, <1>4, <1>5 DEF Safe

(* The connection breaks: no part of Safe is about conn. *)
LEMMA BreakConnectionSafe ==
  ASSUME Safe, NEW s \in Streams, BreakConnection(s)
  PROVE  Safe'
  BY DEF BreakConnection, handlerVars, historyVars, Safe, WaitersAreBlocked,
     SingleStream, HungOnlyAfterDelete, ClosedAfterStart, NoLostWakeup,
     CursorBehindQueue, Accounted, Written, Issued, BatchHasNoGap, SentIsGone,
     AtMostOnce, InLoop

(* The close event: the stream is closed before it stops being the active  *)
(* one.                                                                    *)
LEMMA CloseEventSafe ==
  ASSUME TypeOK, TypeOK', Safe, NEW s \in Streams, CloseEvent(s)
  PROVE  Safe'
<1>1. /\ pc[s] \in {"waiting", "resumed", "hung"} /\ closed'[s]
      /\ \A t \in Streams \ {s} : closed'[t] = closed[t]
      /\ activeStream' = activeStream \/ (activeStream = s /\ activeStream' = None)
      /\ UNCHANGED <<known, updates, nextSequence, waiters, pc, lastSequence,
                     result, conn, sent, lost, ackedTo, discarded>>
  BY DEF CloseEvent, TypeOK, historyVars
<1>2. WaitersAreBlocked' /\ SingleStream' /\ HungOnlyAfterDelete'
  BY <1>1 DEF Safe, WaitersAreBlocked, SingleStream, HungOnlyAfterDelete, InLoop
<1>3. ClosedAfterStart'
  BY <1>1, NoneAssumption DEF Safe, ClosedAfterStart, NoneAssumption
<1>4. NoLostWakeup' /\ CursorBehindQueue'
  BY <1>1 DEF Safe, NoLostWakeup, CursorBehindQueue, InLoop
<1>5. Accounted'
  BY <1>1 DEF Safe, Accounted, Written, Issued
<1>6. BatchHasNoGap' /\ SentIsGone' /\ AtMostOnce'
  BY <1>1 DEF Safe, BatchHasNoGap, SentIsGone, AtMostOnce, InLoop
<1>. QED
  BY <1>2, <1>3, <1>4, <1>5, <1>6 DEF Safe

(* Deletion leaves the queue, the waiters and the handlers as they are. *)
LEMMA DeleteSafe ==
  ASSUME Safe, Delete
  PROVE  Safe'
  BY DEF Delete, handlerVars, historyVars, Safe, WaitersAreBlocked,
     SingleStream, HungOnlyAfterDelete, ClosedAfterStart, NoLostWakeup,
     CursorBehindQueue, Accounted, Written, Issued, BatchHasNoGap, SentIsGone,
     AtMostOnce, InLoop

(* The three outcomes of waitForUpdates for the handler that calls it, and *)
(* nothing for the others.                                                 *)
LEMMA AwaitOutcome ==
  ASSUME NEW s \in Streams, NEW last, NEW q,
         NEW p, DOMAIN p = Streams, NEW r, DOMAIN r = Streams,
         NEW w, Await(s, last, q, p, r, w)
  PROVE  /\ \A t \in Streams \ {s} : pc'[t] = p[t] /\ result'[t] = r[t]
         /\ \/ /\ ~known /\ pc'[s] = "hung" /\ result'[s] = {} /\ waiters' = w
            \/ /\ known /\ pc'[s] = "resumed" /\ waiters' = w
               /\ result'[s] = After(q, last)
            \/ /\ known /\ pc'[s] = "waiting" /\ waiters' = w \cup {s}
               /\ result'[s] = {} /\ After(q, last) = {}
<1>1. /\ pc' = [p EXCEPT ![s] = IF ~known THEN "hung"
                                ELSE IF After(q, last) # {} THEN "resumed" ELSE "waiting"]
      /\ result' = [r EXCEPT ![s] = IF known THEN After(q, last) ELSE {}]
      /\ waiters' = IF known /\ After(q, last) = {} THEN w \cup {s} ELSE w
  BY DEF Await
<1>. QED
  BY <1>1

(* A keepalive keeps the cursor; the batch it may find is what the queue   *)
(* holds beyond it.                                                        *)
LEMMA KeepaliveSafe ==
  ASSUME TypeOK, TypeOK', Safe, NEW s \in Streams, Keepalive(s)
  PROVE  Safe'
<1> DEFINE pending == After(updates, lastSequence[s])
<1>1. /\ \A t \in Streams \ {s} : pc'[t] = pc[t] /\ result'[t] = result[t]
      /\ \/ ~known /\ pc'[s] = "hung" /\ result'[s] = {} /\ waiters' = waiters
         \/ known /\ pc'[s] = "resumed" /\ waiters' = waiters /\ result'[s] = pending
         \/ /\ known /\ pc'[s] = "waiting" /\ waiters' = waiters \cup {s}
            /\ result'[s] = {} /\ pending = {}
  <2>1. DOMAIN pc = Streams /\ DOMAIN result = Streams
    BY DEF TypeOK
  <2>2. Await(s, lastSequence[s], updates, pc, result, waiters)
    BY DEF Keepalive
  <2>. QED  BY <2>1, <2>2, AwaitOutcome
<1>2. /\ pc[s] = "resumed" /\ ~closed[s]
      /\ UNCHANGED <<known, updates, nextSequence, activeStream, lastSequence,
                     closed, conn, sent, lost, ackedTo, discarded>>
  BY DEF Keepalive, historyVars
<1>3. pending = {u \in updates : u > lastSequence[s]}
  BY DEF After
<1>4. updates \subseteq Int /\ \A t \in Streams : lastSequence[t] \in Int
  BY DEF TypeOK, Issued
<1> HIDE DEF pending
<1>5. WaitersAreBlocked' /\ SingleStream' /\ HungOnlyAfterDelete' /\ ClosedAfterStart'
  BY <1>1, <1>2 DEF Safe, WaitersAreBlocked, SingleStream, HungOnlyAfterDelete,
     ClosedAfterStart, InLoop
<1>6. CursorBehindQueue'
  BY <1>1, <1>2 DEF Safe, CursorBehindQueue, InLoop
<1>7. NoLostWakeup'
  <2>1. ASSUME pending = {} PROVE \A u \in updates : u <= lastSequence[s] /\ u <= ackedTo
    <3>1. \A u \in updates : u <= lastSequence[s]
      BY <2>1, <1>3, <1>4
    <3>2. lastSequence[s] <= ackedTo \/ updates = {}
      BY <1>2, <1>4, <3>1 DEF Safe, CursorBehindQueue, InLoop
    <3>3. ackedTo \in Int
      BY DEF TypeOK
    <3>. QED  BY <1>4, <3>1, <3>2, <3>3
  <2>. QED  BY <1>1, <1>2, <2>1 DEF Safe, NoLostWakeup
<1>8. BatchHasNoGap'
  <2>1. \A n \in pending, u \in updates : u <= n => u \in pending \/ u <= ackedTo
    <3>1. \A u \in updates : u \in pending \/ u <= lastSequence[s]
      BY <1>3, <1>4
    <3>2. \A u \in updates : u <= lastSequence[s] => u <= ackedTo
      <4>1. ackedTo \in Int
        BY DEF TypeOK
      <4>2. \/ lastSequence[s] <= ackedTo
            \/ \A u \in updates : u > lastSequence[s]
        BY <1>2 DEF Safe, CursorBehindQueue, InLoop
      <4>. QED  BY <1>4, <4>1, <4>2
    <3>. QED  BY <3>1, <3>2
  <2>. QED  BY <1>1, <1>2, <2>1 DEF Safe, BatchHasNoGap
<1>9. SentIsGone'
  <2>1. known => \A t \in Streams : pending \cap sent[t] = {}
    BY <1>3 DEF Safe, SentIsGone
  <2>. QED  BY <1>1, <1>2, <2>1 DEF Safe, SentIsGone, InLoop
<1>10. AtMostOnce'
  <2>1. \A n \in pending, m \in sent[s] : m < n
    <3>1. \A m \in sent[s] : m <= lastSequence[s] /\ m \in Int
      BY <1>2 DEF Safe, SentIsGone, InLoop, TypeOK, Issued
    <3>. QED  BY <1>3, <1>4, <3>1
  <2>. QED  BY <1>1, <1>2, <2>1 DEF Safe, AtMostOnce
<1>11. Accounted'
  BY <1>2 DEF Safe, Accounted, Written, Issued
<1>. QED
  BY <1>5, <1>6, <1>7, <1>8, <1>9, <1>10, <1>11 DEF Safe

(* Starting a stream closes the one that was active and wakes every        *)
(* waiter, so the new loop is the only open one.                           *)
LEMMA StartStreamSafe ==
  ASSUME TypeOK, TypeOK', Safe, NEW s \in Streams, StartStream(s)
  PROVE  Safe'
<1> DEFINE replaced == known /\ activeStream # None
           woken == IF replaced THEN waiters ELSE {}
           p == [t \in Streams |-> IF t \in woken THEN "resumed" ELSE pc[t]]
           r == [t \in Streams |-> IF t \in woken THEN {} ELSE result[t]]
           pending == After(updates, lastSequence[s])
<1>1. /\ \A t \in Streams \ {s} : pc'[t] = p[t] /\ result'[t] = r[t]
      /\ \/ ~known /\ pc'[s] = "hung" /\ result'[s] = {} /\ waiters' = waiters \ woken
         \/ /\ known /\ pc'[s] = "resumed" /\ waiters' = waiters \ woken
            /\ result'[s] = pending
         \/ /\ known /\ pc'[s] = "waiting" /\ waiters' = (waiters \ woken) \cup {s}
            /\ result'[s] = {} /\ pending = {}
  <2>1. DOMAIN p = Streams /\ DOMAIN r = Streams
    OBVIOUS
  <2>2. Await(s, lastSequence[s], updates, p, r, waiters \ woken)
    BY DEF StartStream
  <2> HIDE DEF p, r, woken
  <2>. QED  BY <2>1, <2>2, AwaitOutcome
<1>2. /\ pc[s] = "hijack"
      /\ activeStream' = IF known THEN s ELSE activeStream
      /\ \A t \in Streams : closed'[t] = (closed[t] \/ (replaced /\ t = activeStream))
      /\ UNCHANGED <<known, updates, nextSequence, lastSequence, conn, sent, lost,
                     ackedTo, discarded>>
  BY DEF StartStream, historyVars
<1>3. pending = {u \in updates : u > lastSequence[s]}
  BY DEF After
<1>4. updates \subseteq Int /\ ackedTo \in Int /\ \A t \in Streams : lastSequence[t] \in Int
  BY DEF TypeOK, Issued
<1>5. waiters = {t \in Streams : pc[t] = "waiting"}
  BY DEF Safe, WaitersAreBlocked
<1>6. \A t \in Streams \ {s} :
        \/ pc'[t] = pc[t] /\ result'[t] = result[t] /\ t \notin woken
        \/ /\ t \in woken /\ pc[t] = "waiting" /\ pc'[t] = "resumed" /\ result'[t] = {}
  BY <1>1, <1>5
<1>7. /\ sent[s] = {} /\ ~closed[s] /\ activeStream # s
  BY <1>2 DEF Safe, SentIsGone, ClosedAfterStart
<1>8. known => \A t \in Streams \ {s} : InLoop(t) /\ ~closed[t] => closed'[t]
  BY <1>2, NoneAssumption DEF Safe, SingleStream, NoneAssumption
<1> HIDE DEF pending, p, r
<1>9. WaitersAreBlocked'
  BY <1>1, <1>2, <1>5, <1>6 DEF WaitersAreBlocked
<1>10. SingleStream'
  <2>1. CASE known
    <3>1. ASSUME NEW t \in Streams \ {s}, InLoop(t)', ~closed'[t] PROVE FALSE
      BY <2>1, <3>1, <1>2, <1>6, <1>8 DEF InLoop
    <3>. QED  BY <2>1, <3>1, <1>2 DEF SingleStream
  <2>2. CASE ~known
    BY <2>2, <1>1, <1>2, <1>6 DEF Safe, SingleStream, InLoop
  <2>. QED  BY <2>1, <2>2
<1>11. HungOnlyAfterDelete' /\ ClosedAfterStart'
  BY <1>1, <1>2, <1>6 DEF Safe, HungOnlyAfterDelete, ClosedAfterStart
<1>12. CursorBehindQueue'
  BY <1>1, <1>2, <1>6 DEF Safe, CursorBehindQueue, InLoop
<1>13. \/ lastSequence[s] <= ackedTo
       \/ \A u \in updates : u > lastSequence[s]
  BY <1>2 DEF Safe, CursorBehindQueue
<1>14. NoLostWakeup'
  <2>1. ASSUME pending = {} PROVE \A u \in updates : u <= lastSequence[s] /\ u <= ackedTo
    <3>1. \A u \in updates : u <= lastSequence[s]
      BY <2>1, <1>3, <1>4
    <3>. QED  BY <1>4, <1>13, <3>1
  <2>. QED  BY <1>1, <1>2, <2>1 DEF Safe, NoLostWakeup
<1>15. BatchHasNoGap'
  <2>1. \A u \in updates : u \in pending \/ u <= ackedTo
    BY <1>3, <1>4, <1>13
  <2>. QED  BY <1>1, <1>2, <1>6, <2>1 DEF Safe, BatchHasNoGap
<1>16. SentIsGone'
  <2>1. known => \A t \in Streams : pending \cap sent[t] = {}
    BY <1>3 DEF Safe, SentIsGone
  <2>2. (known => \A t \in Streams : sent[t] \cap updates = {})'
    BY <1>2 DEF Safe, SentIsGone
  <2>3. (\A t \in Streams : pc[t] \in {"new", "refused", "hijack"} => sent[t] = {})'
    BY <1>1, <1>2, <1>6 DEF Safe, SentIsGone
  <2>4. (\A t \in Streams : InLoop(t) => \A m \in sent[t] : m <= lastSequence[t])'
    BY <1>2, <1>6, <1>7 DEF Safe, SentIsGone, InLoop
  <2>5. (\A t, v \in Streams : pc[t] = "resumed" /\ ~closed[t] =>
          result[t] \cap sent[v] = {})'
    BY <1>1, <1>2, <1>6, <2>1 DEF Safe, SentIsGone
  <2>. QED  BY <2>2, <2>3, <2>4, <2>5 DEF SentIsGone
<1>17. AtMostOnce'
  BY <1>1, <1>2, <1>6, <1>7 DEF Safe, AtMostOnce
<1>18. Accounted'
  BY <1>2 DEF Safe, Accounted, Written, Issued
<1>. QED
  BY <1>9, <1>10, <1>11, <1>12, <1>14, <1>15, <1>16, <1>17, <1>18 DEF Safe

(* Delivering a batch trims exactly what was delivered or acknowledged     *)
(* before, and moves the cursor to the batch's end.                        *)
LEMMA DeliverSafe ==
  ASSUME TypeOK, TypeOK', Safe, NEW s \in Streams, Deliver(s)
  PROVE  Safe'
<1> DEFINE last == Max(result[s])
           batch == result[s]
           q == Acknowledged(last)
           pending == After(q, last)
<1>1. /\ \A t \in Streams \ {s} : pc'[t] = pc[t] /\ result'[t] = result[t]
      /\ \/ ~known /\ pc'[s] = "hung" /\ result'[s] = {} /\ waiters' = waiters
         \/ known /\ pc'[s] = "resumed" /\ waiters' = waiters /\ result'[s] = pending
         \/ /\ known /\ pc'[s] = "waiting" /\ waiters' = waiters \cup {s}
            /\ result'[s] = {} /\ pending = {}
  <2>1. DOMAIN pc = Streams /\ DOMAIN result = Streams
    BY DEF TypeOK
  <2>2. Await(s, last, q, pc, result, waiters)
    BY DEF Deliver
  <2> HIDE DEF last, q
  <2>. QED  BY <2>1, <2>2, AwaitOutcome
<1>2. /\ pc[s] = "resumed" /\ ~closed[s] /\ batch # {}
      /\ lastSequence'[s] = last
      /\ \A t \in Streams \ {s} : lastSequence'[t] = lastSequence[t] /\ sent'[t] = sent[t]
      /\ sent'[s] = sent[s] \cup batch
      /\ updates' = q
      /\ UNCHANGED <<known, nextSequence, activeStream, closed, conn, ackedTo,
                     discarded>>
  BY DEF Deliver, TypeOK
<1>3. last \in batch /\ \A n \in batch : n <= last
  <2>1. batch \in SUBSET (1 .. MaxSeq) /\ MaxSeq \in Nat
    BY BoundAssumption DEF TypeOK, Issued, BoundAssumption
  <2>. QED  BY <1>2, <2>1, MaxOfBatch
<1>4. /\ q = IF known THEN {u \in updates : u > last} ELSE updates
      /\ q \subseteq updates
      /\ known => pending = q
  BY DEF Acknowledged, After
<1>5. /\ nextSequence \in Int /\ ackedTo \in Int
      /\ updates \subseteq Int /\ batch \subseteq Int
      /\ \A n \in batch : n < nextSequence
      /\ \A t \in Streams : lastSequence[t] \in Int /\ sent[t] \subseteq Int
      /\ \A t \in Streams : result[t] \subseteq Int
  BY DEF TypeOK, Issued
<1>6. last \in Int /\ last < nextSequence
  BY <1>3, <1>5
<1> HIDE DEF last, batch, q, pending
<1>7. \A t \in Streams \ {s} : InLoop(t) => closed[t]
  BY <1>2 DEF Safe, SingleStream, InLoop
<1>8. \A t \in Streams : batch \cap sent[t] = {}
  BY <1>2 DEF Safe, SentIsGone, batch
<1>9. \A n \in batch, m \in sent[s] : m < n
  BY <1>2 DEF Safe, AtMostOnce, batch
<1>10. WaitersAreBlocked' /\ SingleStream' /\ HungOnlyAfterDelete' /\ ClosedAfterStart'
  BY <1>1, <1>2 DEF Safe, WaitersAreBlocked, SingleStream, HungOnlyAfterDelete,
     ClosedAfterStart, InLoop
<1>11. CursorBehindQueue'
  BY <1>1, <1>2, <1>4, <1>6 DEF Safe, CursorBehindQueue, InLoop
<1>12. NoLostWakeup'
  <2>1. \A t \in waiters : t \in Streams \ {s}
    BY <1>2 DEF Safe, WaitersAreBlocked
  <2>. QED  BY <1>1, <1>2, <1>4, <2>1 DEF Safe, NoLostWakeup
<1>13. BatchHasNoGap'
  <2>1. known => \A u \in updates' : u \in pending
    BY <1>2, <1>4
  <2>. QED  BY <1>1, <1>2, <1>4, <2>1 DEF Safe, BatchHasNoGap
<1>14. SentIsGone'
  <2>1. (known => \A t \in Streams : sent[t] \cap updates = {})'
    <3>1. known => \A n \in batch : n \notin q
      BY <1>3, <1>4, <1>5, <1>6
    <3>. QED  BY <1>2, <1>4, <3>1 DEF Safe, SentIsGone
  <2>2. (\A t \in Streams : pc[t] \in {"new", "refused", "hijack"} => sent[t] = {})'
    BY <1>1, <1>2 DEF Safe, SentIsGone
  <2>3. (\A t \in Streams : InLoop(t) => \A m \in sent[t] : m <= lastSequence[t])'
    <3>1. \A m \in sent'[s] : m <= last
      BY <1>2, <1>3, <1>5, <1>6, <1>9
    <3>. QED  BY <1>1, <1>2, <3>1 DEF Safe, SentIsGone, InLoop
  <2>4. (\A t, v \in Streams : pc[t] = "resumed" /\ ~closed[t] =>
          result[t] \cap sent[v] = {})'
    <3>1. \A t \in Streams \ {s} : ~(pc'[t] = "resumed" /\ ~closed'[t])
      BY <1>1, <1>2, <1>7 DEF InLoop
    <3>2. known => \A v \in Streams : pending \cap sent'[v] = {}
      BY <1>2, <1>4, <2>1
    <3>. QED  BY <1>1, <3>1, <3>2
  <2>. QED  BY <2>1, <2>2, <2>3, <2>4 DEF SentIsGone
<1>15. AtMostOnce'
  <2>1. \A t \in Streams \ {s} : ~(pc'[t] = "resumed" /\ ~closed'[t])
    BY <1>1, <1>2, <1>7 DEF InLoop
  <2>2. known => \A n \in pending : n > last
    BY <1>4
  <2>3. \A m \in sent'[s] : m <= last /\ m \in Int
    <3>1. \A m \in sent[s] : m < last
      BY <1>3, <1>9
    <3>2. \A m \in sent[s] \cup batch : m <= last /\ m \in Int
      <4>1. ASSUME NEW m \in sent[s] PROVE m <= last /\ m \in Int
        <5>1. m \in Int /\ m < last
          BY <1>5, <3>1
        <5>. QED  BY <1>6, <5>1
      <4>2. ASSUME NEW m \in batch PROVE m <= last /\ m \in Int
        BY <1>3, <1>5
      <4>. QED  BY <4>1, <4>2
    <3>. QED  BY <1>2, <3>2
  <2>4. ASSUME NEW n \in result'[s], NEW m \in sent'[s], pc'[s] = "resumed" PROVE m < n
    <3>1. n \in pending /\ known
      BY <1>1, <2>4
    <3>2. n > last /\ n \in Int
      BY <1>4, <1>5, <2>2, <3>1
    <3>. QED  BY <1>6, <2>3, <3>2
  <2>5. \A t, v \in Streams : t # v => sent'[t] \cap sent'[v] = {}
    BY <1>2, <1>8 DEF Safe, AtMostOnce
  <2>. QED  BY <2>1, <2>4, <2>5 DEF AtMostOnce
<1>16. Accounted'
  <2>1. updates \subseteq q \cup batch \cup (1 .. ackedTo)
    <3>1. ASSUME NEW u \in updates, u <= last PROVE u \in batch \/ u <= ackedTo
      BY <3>1, <1>2, <1>3 DEF Safe, BatchHasNoGap, batch
    <3>2. \A u \in updates : u >= 1
      BY DEF TypeOK, Issued
    <3>. QED  BY <1>4, <1>5, <1>6, <3>1, <3>2
  <2>2. Written \cup batch \subseteq Written'
    <3>1. ASSUME NEW n \in Written PROVE n \in Written'
      <4>1. PICK t \in Streams : n \in sent[t]
        BY DEF Written
      <4>2. n \in sent'[t]
        BY <1>2, <4>1
      <4>. QED  BY <4>2 DEF Written
    <3>2. batch \subseteq Written'
      BY <1>2 DEF Written
    <3>. QED  BY <3>1, <3>2
  <2>3. Issued' = Issued
    BY <1>2, SameIssued
  <2>. QED  BY <1>2, <2>1, <2>2, <2>3 DEF Safe, Accounted
<1>. QED
  BY <1>10, <1>11, <1>12, <1>13, <1>14, <1>15, <1>16 DEF Safe

-----------------------------------------------------------------------------
(* IInv holds of every reachable state. *)
THEOREM Invariant == Spec => []IInv
<1>1. Init => Safe
  BY NoneAssumption DEF Init, Safe, WaitersAreBlocked, SingleStream,
     HungOnlyAfterDelete, NoLostWakeup, Accounted, Issued, Written, AtMostOnce,
     CursorBehindQueue, BatchHasNoGap, SentIsGone, ClosedAfterStart, InLoop,
     NoneAssumption
<1>2. TypeOK /\ TypeOK' /\ Safe /\ [Next]_vars => Safe'
  <2> SUFFICES ASSUME TypeOK, TypeOK', Safe, [Next]_vars PROVE Safe'
    OBVIOUS
  <2>1. CASE Flush
    BY <2>1, FlushSafe
  <2>2. ASSUME NEW n \in AckValues, Sync(n) PROVE Safe'
    BY <2>2, SyncSafe
  <2>3. CASE Delete
    BY <2>3, DeleteSafe
  <2>4. ASSUME NEW s \in Streams, Step(s) PROVE Safe'
    <3>1. ASSUME NEW n \in AckValues, OpenStream(s, n) PROVE Safe'
      BY <3>1, OpenStreamSafe
    <3>2. CASE StartStream(s)
      BY <3>2, StartStreamSafe
    <3>3. CASE Timeout(s)
      BY <3>3, TimeoutSafe
    <3>4. CASE EndStream(s)
      BY <3>4, EndStreamSafe
    <3>5. CASE Keepalive(s)
      BY <3>5, KeepaliveSafe
    <3>6. CASE Deliver(s)
      BY <3>6, DeliverSafe
    <3>7. CASE BreakConnection(s)
      BY <3>7, BreakConnectionSafe
    <3>8. CASE CloseEvent(s)
      BY <3>8, CloseEventSafe
    <3>. QED
      BY <2>4, <3>1, <3>2, <3>3, <3>4, <3>5, <3>6, <3>7, <3>8 DEF Step
  <2>5. CASE UNCHANGED vars
    BY <2>5 DEF vars, handlerVars, historyVars, Safe, WaitersAreBlocked,
       SingleStream, HungOnlyAfterDelete, ClosedAfterStart, NoLostWakeup,
       CursorBehindQueue, Accounted, Written, Issued, BatchHasNoGap, SentIsGone,
       AtMostOnce, InLoop
  <2>. QED
    BY <2>1, <2>2, <2>3, <2>4, <2>5 DEF Next
<1>. QED
  BY <1>1, <1>2, TypeCorrect, PTL DEF Spec, IInv

(* No handler of the stream route stays blocked while the queue holds an   *)
(* update it has not seen and no client acknowledged.                      *)
THEOREM NoWakeupIsLost == Spec => []NoLostWakeup
  <1>1. IInv => NoLostWakeup
    BY DEF IInv, Safe
  <1>. QED  BY <1>1, Invariant, PTL

(* registerActiveStream keeps at most one stream loop of the subscription  *)
(* open, and activeStreamClose belongs to it.                              *)
THEOREM OneStreamAtATime == Spec => []SingleStream
  <1>1. IInv => SingleStream
    BY DEF IInv, Safe
  <1>. QED  BY <1>1, Invariant, PTL

(* A stream that another one replaced is never left blocked: it is woken   *)
(* in the step that closes it, and a closed handler does not wait again.   *)
THEOREM ReplacedStreamsWake == Spec => []ReplacedAreWoken
<1>1. Init => ReplacedAreWoken
  BY DEF Init, ReplacedAreWoken
<1>2. IInv /\ ReplacedAreWoken /\ [Next]_vars => ReplacedAreWoken'
  <2> SUFFICES ASSUME IInv, ReplacedAreWoken, [Next]_vars PROVE ReplacedAreWoken'
    OBVIOUS
  <2>0. TypeOK /\ waiters \in SUBSET Streams
    BY DEF IInv, TypeOK
  <2>1. CASE Flush
    BY <2>1 DEF Flush, ReplacedAreWoken
  <2>2. ASSUME NEW n \in AckValues, Sync(n) PROVE ReplacedAreWoken'
    BY <2>2 DEF Sync, ReplacedAreWoken, handlerVars
  <2>3. CASE Delete
    BY <2>3 DEF Delete, ReplacedAreWoken, handlerVars
  <2>4. ASSUME NEW s \in Streams, Step(s) PROVE ReplacedAreWoken'
    <3>1. ASSUME NEW n \in AckValues, OpenStream(s, n) PROVE ReplacedAreWoken'
      BY <3>1 DEF OpenStream, ReplacedAreWoken
    <3>2. CASE StartStream(s)
      <4> DEFINE replaced == known /\ activeStream # None
                 woken == IF replaced THEN waiters ELSE {}
      <4>1. waiters' \subseteq (waiters \ woken) \cup {s}
        BY <3>2 DEF StartStream, Await
      <4>2. ~closed[s] /\ activeStream # s
        BY <3>2 DEF StartStream, IInv, Safe, ClosedAfterStart
      <4>3. /\ \A t \in Streams : closed'[t] = (closed[t] \/ (replaced /\ t = activeStream))
            /\ conn' = conn
        BY <3>2 DEF StartStream
      <4>. QED  BY <2>0, <4>1, <4>2, <4>3 DEF ReplacedAreWoken
    <3>3. CASE Timeout(s)
      BY <3>3 DEF Timeout, ReplacedAreWoken
    <3>4. CASE EndStream(s)
      BY <3>4 DEF EndStream, ReplacedAreWoken
    <3>5. CASE Keepalive(s)
      <4>1. waiters' \subseteq waiters \cup {s}
        BY <3>5 DEF Keepalive, Await
      <4>. QED  BY <3>5, <4>1 DEF Keepalive, ReplacedAreWoken
    <3>6. CASE Deliver(s)
      <4>1. waiters' \subseteq waiters \cup {s}
        BY <3>6 DEF Deliver, Await
      <4>. QED  BY <3>6, <4>1 DEF Deliver, ReplacedAreWoken
    <3>7. CASE BreakConnection(s)
      BY <2>0, <3>7 DEF BreakConnection, ReplacedAreWoken, handlerVars, TypeOK
    <3>8. CASE CloseEvent(s)
      BY <2>0, <3>8 DEF CloseEvent, ReplacedAreWoken, TypeOK
    <3>. QED
      BY <2>4, <3>1, <3>2, <3>3, <3>4, <3>5, <3>6, <3>7, <3>8 DEF Step
  <2>5. CASE UNCHANGED vars
    BY <2>5 DEF vars, handlerVars, ReplacedAreWoken
  <2>. QED  BY <2>1, <2>2, <2>3, <2>4, <2>5 DEF Next
<1>. QED  BY <1>1, <1>2, Invariant, PTL DEF Spec

(* No update issued by _flushAsset disappears silently. *)
THEOREM EveryUpdateAccounted == Spec => []Accounted
  <1>1. IInv => Accounted
    BY DEF IInv, Safe
  <1>. QED  BY <1>1, Invariant, PTL

(* Streams deliver in order, never repeat, and never share an update. *)
THEOREM DeliveredAtMostOnce == Spec => []AtMostOnce
  <1>1. IInv => AtMostOnce
    BY DEF IInv, Safe
  <1>. QED  BY <1>1, Invariant, PTL

(* sub.waiters is exactly the set of blocked handlers.                     *)
THEOREM WaitersAndHangs == Spec => []WaitersAreBlocked
  <1>1. IInv => WaitersAreBlocked
    BY DEF IInv, Safe
  <1>. QED  BY <1>1, Invariant, PTL

(* A response is left open and unowned only when the subscription was      *)
(* deleted.                                                                *)
THEOREM HangsAreDeletes == Spec => []HungOnlyAfterDelete
  <1>1. IInv => HungOnlyAfterDelete
    BY DEF IInv, Safe
  <1>. QED  BY <1>1, Invariant, PTL
=============================================================================
