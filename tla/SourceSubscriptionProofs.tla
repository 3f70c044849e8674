---------------------- MODULE SourceSubscriptionProofs ----------------------
(***************************************************************************)
(* Every implementation of IMonitoredSubscription refines the safety part  *)
(* of MonitoredPort, for any sources, values and bounds:                   *)
(*                                                                         *)
(*              THEOREM Refinement == Spec => PortSafe                     *)
(*                                                                         *)
(* The inductive invariant says that what an adapter holds was asked for,  *)
(* that what it may report was a value, that each mechanism is used by its *)
(* own implementation only, and why each falls silent after close().       *)
(***************************************************************************)
EXTENDS SourceSubscription, TLAPS

Maybe(S) == S \cup {None}

TypeOK ==
  /\ value \in [Sources -> Values]
  /\ seen \in [Sources -> SUBSET Values]
  /\ op \in [Calls -> {"none", "add", "remove", "close"}]
  /\ arg \in [Calls -> SUBSET Sources]
  /\ twice \in [Calls -> SUBSET Sources]
  /\ st \in [Calls -> {"new", "pending", "done", "failed"}]
  /\ work \in [Calls -> SUBSET Items]
  /\ book \in [Sources -> Maybe(Calls)]
  /\ live \subseteq Items /\ wired \subseteq Items /\ due \subseteq Items
  /\ cb \in BOOLEAN /\ timer \in BOOLEAN
  /\ last \in [Sources -> Maybe(Values)]
  /\ read \in [Slots -> [Sources -> Maybe(Values)]]
  /\ moved \in [Sources -> Maybe(Calls)]
  /\ told \in [Sources -> Maybe(Values)]

(* Whatever is on the books, at the source, under way or being read was    *)
(* passed to addItems.                                                     *)
HeldWasAsked ==
  /\ \A s \in Sources : book[s] # None => s \in Asked
  /\ \A i \in live : i[2] \in Asked
  /\ \A c \in Calls : \A i \in work[c] : i[2] \in Asked
  /\ \A k \in Slots, s \in Sources : read[k][s] # None => s \in Asked

(* What may be reported was a value of its source. *)
ValuesWereSeen ==
  /\ \A s \in Sources : value[s] \in seen[s]
  /\ \A k \in Slots, s \in Sources : read[k][s] # None => read[k][s] \in seen[s]

(* A call that was not made has no effect; a booking is that of a call     *)
(* that has resolved.                                                      *)
BookingsAreDone ==
  /\ \A c \in Calls : st[c] = "new" => op[c] = "none"
  /\ \A s \in Sources : book[s] # None => st[book[s]] = "done"
  /\ \A s \in Sources : moved[s] # None => st[moved[s]] = "done"

(* Only the OPC UA wrapper has pending calls and a queue, only the polling *)
(* implementation a timer and reads.                                       *)
OwnMechanism ==
  /\ \A c \in Calls : st[c] = "pending" /\ op[c] \in {"add", "remove"} => impl = "opcua"
  /\ impl # "opcua" => due = {}
  /\ timer => impl = "polling"
  /\ \A k \in Slots : read[k] # NoAnswer => impl = "polling"

Closing == \E c \in Calls : op[c] = "close"

(* After close() the server has no item left, or there is no callback.     *)
SilentWhenGone ==
  /\ impl = "opcua" /\ Gone => live = {}
  /\ impl # "opcua" /\ Closing => ~cb

IInv ==
  /\ TypeOK /\ HeldWasAsked /\ ValuesWereSeen /\ BookingsAreDone /\ OwnMechanism
  /\ SilentWhenGone

-----------------------------------------------------------------------------
(* What a call that is made changes, and what it leaves as it was. *)
Entered(c, o, S, status, items) ==
  /\ Asked \subseteq Asked'
  /\ \A s \in S : o = "add" => s \in Asked'
  /\ o # "add" => Asked' = Asked
  /\ Gone' = Gone
  /\ st[c] = "new" /\ op[c] = "none" /\ st'[c] = status /\ op'[c] = o
  /\ \A d \in Calls \ {c} : /\ st'[d] = st[d] /\ op'[d] = op[d]
                            /\ work'[d] = work[d]
  /\ work'[c] = items
  /\ Closing' <=> o = "close" \/ Closing

LEMMA Entering ==
  ASSUME TypeOK, BookingsAreDone, NEW c \in Calls, MayCall(c),
         NEW o \in {"add", "remove", "close"}, NEW S \in SUBSET Sources,
         NEW status \in {"pending", "done"}, o = "close" => status = "pending",
         NEW T, NEW items, Enter(c, o, S, T, status, items)
  PROVE  Entered(c, o, S, status, items)
  <1>1. /\ st[c] = "new" /\ op[c] = "none"
        /\ op' = [op EXCEPT ![c] = o] /\ arg' = [arg EXCEPT ![c] = S]
        /\ st' = [st EXCEPT ![c] = status] /\ work' = [work EXCEPT ![c] = items]
    BY DEF MayCall, Enter, BookingsAreDone
  <1>2. /\ op'[c] = o /\ arg'[c] = S /\ st'[c] = status /\ work'[c] = items
        /\ \A d \in Calls \ {c} : /\ op'[d] = op[d] /\ arg'[d] = arg[d]
                                  /\ st'[d] = st[d] /\ work'[d] = work[d]
    BY <1>1 DEF TypeOK
  <1>3. Asked \subseteq Asked' /\ (o = "add" => S \subseteq Asked')
    BY <1>1, <1>2 DEF Asked
  <1>4. o # "add" => Asked' = Asked
    BY <1>1, <1>2 DEF Asked
  <1>5. Gone' = Gone
    BY <1>1, <1>2 DEF Gone
  <1>6. Closing' <=> o = "close" \/ Closing
    BY <1>1, <1>2 DEF Closing
  <1>. QED  BY <1>1, <1>2, <1>3, <1>4, <1>5, <1>6 DEF Entered

(* And what one that settles does. *)
LEMMA Settling ==
  ASSUME TypeOK, NEW c \in Calls, st[c] = "pending",
         NEW status \in {"done", "failed"}, Settle(c, status)
  PROVE  /\ Asked' = Asked /\ Closing' = Closing
         /\ op' = op /\ arg' = arg
         /\ st'[c] = status /\ \A d \in Calls \ {c} : st'[d] = st[d]
         /\ \A d \in Calls : work'[d] \subseteq work[d]
         /\ op[c] = "close" /\ status = "done" => Gone'
         /\ op[c] # "close" \/ status = "failed" => Gone' = Gone
  <1>1. /\ op' = op /\ arg' = arg
        /\ st' = [st EXCEPT ![c] = status] /\ work' = [work EXCEPT ![c] = {}]
    BY DEF Settle
  <1>2. /\ st'[c] = status /\ work'[c] = {}
        /\ \A d \in Calls \ {c} : st'[d] = st[d] /\ work'[d] = work[d]
    BY <1>1 DEF TypeOK
  <1>3. Asked' = Asked /\ Closing' = Closing
    BY <1>1 DEF Asked, Closing
  <1>4. \A d \in Calls : work'[d] \subseteq work[d]
    BY <1>2
  <1>5. op[c] = "close" /\ status = "done" => Gone'
    BY <1>1, <1>2 DEF Gone
  <1>6. op[c] # "close" \/ status = "failed" => Gone' = Gone
    BY <1>1, <1>2 DEF Gone
  <1>. QED  BY <1>1, <1>2, <1>3, <1>4, <1>5, <1>6

(* The other steps make no call and settle none. *)
LEMMA CallFrame ==
  ASSUME UNCHANGED callVars
  PROVE  /\ Asked' = Asked /\ Gone' = Gone /\ Closing' = Closing
         /\ op' = op /\ arg' = arg /\ st' = st /\ work' = work
  BY DEF callVars, Asked, Gone, Closing

(* The items a call makes are its own, for its sources; where it makes a    *)
(* spare one it makes one to keep.                                         *)
LEMMA ItemsForFacts ==
  ASSUME NEW c \in Calls, NEW S \in SUBSET Sources, NEW T
  PROVE  /\ KeptFor(c, S) \in SUBSET Items
         /\ ItemsFor(c, S, T) \in SUBSET Items
         /\ \A i \in ItemsFor(c, S, T) :
              i[1] = c /\ i[2] \in S /\ <<c, i[2], "kept">> \in ItemsFor(c, S, T)
  <1>1. ASSUME NEW i \in KeptFor(c, S)
        PROVE  i \in Items /\ i[1] = c /\ i[2] \in S
    BY DEF KeptFor, Items
  <1>2. ASSUME NEW i \in {c} \X (S \cap T) \X {"spare"}
        PROVE  i \in Items /\ i[1] = c /\ i[2] \in S
    BY DEF Items
  <1>3. \A s \in S : <<c, s, "kept">> \in ItemsFor(c, S, T)
    BY DEF KeptFor, ItemsFor
  <1>. QED  BY <1>1, <1>2, <1>3 DEF ItemsFor

-----------------------------------------------------------------------------
LEMMA InitInvariant == Init => IInv
  <1>. SUFFICES ASSUME Init PROVE IInv
    OBVIOUS
  <1>1. TypeOK
    BY ValueAssumption DEF Init, TypeOK, Maybe, NoAnswer
  <1>2. HeldWasAsked /\ ValuesWereSeen /\ BookingsAreDone
    BY ValueAssumption DEF Init, HeldWasAsked, ValuesWereSeen, BookingsAreDone, NoAnswer
  <1>3. OwnMechanism /\ SilentWhenGone
    BY DEF Init, OwnMechanism, SilentWhenGone, Gone, Closing
  <1>. QED  BY <1>1, <1>2, <1>3 DEF IInv

-----------------------------------------------------------------------------
(* The types *)
LEMMA TypeStep == TypeOK /\ [Next]_vars => TypeOK'
  <1>. SUFFICES ASSUME TypeOK, [Next]_vars PROVE TypeOK'
    OBVIOUS
  <1>. USE DEF TypeOK, Maybe
  <1>1. ASSUME NEW s \in Sources, NEW v \in Values, Change(s, v) PROVE TypeOK'
    BY <1>1 DEF Change, Hearing, callVars, pollVars
  <1>2. ASSUME NEW i \in Items, Publish(i) PROVE TypeOK'
    BY <1>2 DEF Publish, sourceVars, callVars, pollVars, Items
  <1>3. ASSUME NEW c \in Calls, NEW S \in SUBSET Sources,
               \/ \E T \in SUBSET (S \cap Shared) : AddItemsOpcua(c, S, T)
               \/ AddItemsEvents(c, S) \/ AddItemsPolling(c, S)
        PROVE TypeOK'
    <2>1. /\ KeptFor(c, S \ Booked) \subseteq Items
          /\ \A T : ItemsFor(c, S \ Booked, T) \subseteq Items
      BY ItemsForFacts
    <2>2. ASSUME BookAs(c, S \ Booked) PROVE book' \in [Sources -> Maybe(Calls)]
      BY <2>2 DEF BookAs
    <2>3. CASE \E T \in SUBSET (S \cap Shared) : AddItemsOpcua(c, S, T)
      <3>1. PICK T \in SUBSET (S \cap Shared) : AddItemsOpcua(c, S, T)
        BY <2>3
      <3>2. T \ Booked \in SUBSET Sources /\ ItemsFor(c, S \ Booked, T) \in SUBSET Items
        BY <2>1
      <3>. QED  BY <3>1, <3>2 DEF AddItemsOpcua, Enter, sourceVars, itemVars, pollVars
    <2>4. CASE AddItemsEvents(c, S)
      BY <2>1, <2>2, <2>4 DEF AddItemsEvents, Enter, sourceVars, pollVars
    <2>5. CASE AddItemsPolling(c, S)
      BY <2>2, <2>5 DEF AddItemsPolling, Enter, sourceVars
    <2>. QED  BY <1>3, <2>3, <2>4, <2>5
  <1>4. ASSUME NEW S \in SUBSET Sources PROVE ItemsOf(S \cap Booked) \subseteq Items
    BY DEF ItemsOf, Booked, Items
  <1>5. ASSUME NEW c \in Calls, NEW S \in SUBSET Sources,
               \/ RemoveItemsOpcua(c, S) \/ RemoveItemsEvents(c, S)
               \/ RemoveItemsPolling(c, S)
        PROVE TypeOK'
    <2>1. ASSUME Unbook(S) PROVE book' \in [Sources -> Maybe(Calls)]
      BY <2>1 DEF Unbook
    <2>2. CASE RemoveItemsOpcua(c, S)
      BY <1>4, <2>1, <2>2 DEF RemoveItemsOpcua, Enter, sourceVars, pollVars
    <2>3. CASE RemoveItemsEvents(c, S)
      BY <2>1, <2>3 DEF RemoveItemsEvents, Enter, sourceVars, pollVars
    <2>4. CASE RemoveItemsPolling(c, S)
      BY <2>1, <2>4 DEF RemoveItemsPolling, Enter, sourceVars
    <2>. QED  BY <1>5, <2>2, <2>3, <2>4
  <1>6. ASSUME NEW c \in Calls, CloseOpcua(c) \/ CloseEvents(c) \/ ClosePolling(c)
        PROVE TypeOK'
    <2>1. ASSUME Unbook(Sources) PROVE book' \in [Sources -> Maybe(Calls)]
      BY <2>1 DEF Unbook
    <2>2. CASE CloseOpcua(c)
      BY <2>2 DEF CloseOpcua, Enter, sourceVars, itemVars, pollVars
    <2>3. CASE CloseEvents(c)
      BY <2>1, <2>3 DEF CloseEvents, Enter, sourceVars, pollVars
    <2>4. CASE ClosePolling(c)
      BY <2>1, <2>4 DEF ClosePolling, Enter, NoAnswer, sourceVars
    <2>. QED  BY <1>6, <2>2, <2>3, <2>4
  <1>7. ASSUME NEW c \in Calls, AddOk(c) \/ AddFails(c) PROVE TypeOK'
    <2>1. \A S \in SUBSET Sources :
             BookAs(c, S) => book' \in [Sources -> Maybe(Calls)]
      BY DEF BookAs
    <2>2. work[c] \in SUBSET Items /\ {i[2] : i \in work[c]} \in SUBSET Sources
      BY DEF Items
    <2>3. CASE AddOk(c)
      BY <2>1, <2>2, <2>3 DEF AddOk, Settle, sourceVars, pollVars
    <2>4. CASE AddFails(c)
      BY <2>2, <2>4 DEF AddFails, Settle, sourceVars, pollVars
    <2>. QED  BY <1>7, <2>3, <2>4
  <1>8. ASSUME NEW c \in Calls, Removed(c) \/ Terminated(c) \/ CloseSeen(c) PROVE TypeOK'
    BY <1>8 DEF Removed, Terminated, CloseSeen, Settle, Unbook, sourceVars, itemVars,
                pollVars
  <1>9. ASSUME NEW k \in Slots, PollStart(k) \/ PollSample(k) \/ PollFails(k)
        PROVE TypeOK'
    BY <1>9 DEF PollStart, PollSample, PollFails, NoAnswer, sourceVars, callVars, itemVars
  <1>10. ASSUME NEW k \in Slots, PollAnswer(k) PROVE TypeOK'
    <2>1. /\ read' = [read EXCEPT ![k] = NoAnswer]
          /\ UNCHANGED <<sourceVars, callVars, itemVars, cb, timer>>
      BY <1>10 DEF PollAnswer
    <2>2. read' \in [Slots -> [Sources -> Maybe(Values)]]
      BY <2>1 DEF NoAnswer
    <2>3. \A s \in Differs(k) : read[k][s] \in Values
      BY DEF Differs
    <2>4. last' \in [Sources -> Maybe(Values)] /\ told' \in [Sources -> Maybe(Values)]
      <3>1. CASE cb
        BY <1>10, <2>3, <3>1 DEF PollAnswer
      <3>2. CASE ~cb
        BY <1>10, <2>3, <3>2 DEF PollAnswer
      <3>. QED  BY <3>1, <3>2
    <2>. QED  BY <2>1, <2>2, <2>4 DEF sourceVars, callVars, itemVars
  <1>11. CASE UNCHANGED vars
    BY <1>11 DEF vars, sourceVars, callVars, itemVars, pollVars
  <1>. QED  BY <1>1, <1>2, <1>3, <1>5, <1>6, <1>7, <1>8, <1>9, <1>10, <1>11
            DEF Next, Call, Answer, Poll

-----------------------------------------------------------------------------
(* The steps of the sources *)
LEMMA ChangeKeeps ==
  ASSUME IInv, TypeOK', NEW s \in Sources, NEW v \in Values, Change(s, v)
  PROVE  IInv'
  <1>. USE DEF IInv
  <1>1. /\ UNCHANGED <<impl, callVars, book, live, cb, timer, read>>
        /\ due' # due => impl = "opcua"
        /\ value' = [value EXCEPT ![s] = v]
        /\ seen' = [seen EXCEPT ![s] = @ \cup {v}]
        /\ moved' = [moved EXCEPT ![s] = book[s]]
    BY DEF Change, pollVars
  <1>2. /\ Asked' = Asked /\ Gone' = Gone /\ Closing' = Closing
        /\ op' = op /\ st' = st /\ work' = work
    BY <1>1, CallFrame
  <1>3. HeldWasAsked'
    BY <1>1, <1>2 DEF HeldWasAsked
  <1>4. ValuesWereSeen'
    BY <1>1 DEF ValuesWereSeen, TypeOK
  <1>5. BookingsAreDone'
    BY <1>1, <1>2 DEF BookingsAreDone, TypeOK
  <1>6. OwnMechanism' /\ SilentWhenGone'
    BY <1>1, <1>2 DEF OwnMechanism, SilentWhenGone
  <1>. QED  BY <1>3, <1>4, <1>5, <1>6

LEMMA PublishKeeps ==
  ASSUME IInv, TypeOK', NEW i \in Items, Publish(i)
  PROVE  IInv'
  <1>. USE DEF IInv
  <1>1. /\ UNCHANGED <<impl, sourceVars, callVars, book, live, cb, timer, read>>
        /\ due' \subseteq due
    BY DEF Publish, pollVars
  <1>2. /\ Asked' = Asked /\ Gone' = Gone /\ Closing' = Closing
        /\ op' = op /\ st' = st /\ work' = work
    BY <1>1, CallFrame
  <1>3. HeldWasAsked'
    BY <1>1, <1>2 DEF HeldWasAsked
  <1>4. ValuesWereSeen' /\ BookingsAreDone'
    BY <1>1, <1>2 DEF ValuesWereSeen, BookingsAreDone, sourceVars
  <1>5. OwnMechanism' /\ SilentWhenGone'
    BY <1>1, <1>2 DEF OwnMechanism, SilentWhenGone
  <1>. QED  BY <1>3, <1>4, <1>5

(* Calls *)
LEMMA AddItemsKeeps ==
  ASSUME IInv, TypeOK', NEW c \in Calls, NEW S \in SUBSET Sources,
         \/ \E T \in SUBSET (S \cap Shared) : AddItemsOpcua(c, S, T)
         \/ AddItemsEvents(c, S) \/ AddItemsPolling(c, S)
  PROVE  IInv'
  <1>. USE DEF IInv
  <1>1. PICK status \in {"pending", "done"}, items \in SUBSET Items, T \in SUBSET S :
          /\ MayCall(c) /\ Enter(c, "add", S, T, status, items)
          /\ \A i \in items : i[2] \in S
          /\ status = "pending" => impl = "opcua"
          /\ \/ book' = book
             \/ status = "done" /\ BookAs(c, S \ Booked)
          /\ \A i \in live' : i \in live \/ i[2] \in S
          /\ impl = "opcua" => live' = live
          /\ timer' = timer \/ impl = "polling"
    <2>1. CASE \E T \in SUBSET (S \cap Shared) : AddItemsOpcua(c, S, T)
      <3>1. PICK T \in SUBSET (S \cap Shared) : AddItemsOpcua(c, S, T)
        BY <2>1
      <3>. DEFINE items == ItemsFor(c, S \ Booked, T)
                  status == IF S \subseteq Booked THEN "done" ELSE "pending"
      <3>2. items \in SUBSET Items /\ \A i \in items : i[2] \in S
        BY DEF ItemsFor, KeptFor, Items
      <3>3. T \ Booked \in SUBSET S
        OBVIOUS
      <3>4. /\ MayCall(c) /\ Enter(c, "add", S, T \ Booked, status, items)
            /\ impl = "opcua" /\ book' = book /\ live' = live /\ timer' = timer
        BY <3>1 DEF AddItemsOpcua, itemVars, pollVars
      <3>5. status \in {"pending", "done"}
        OBVIOUS
      <3>. HIDE DEF items, status
      <3>. QED  BY <3>2, <3>3, <3>4, <3>5
    <2>2. CASE AddItemsEvents(c, S)
      <3>1. /\ MayCall(c) /\ Enter(c, "add", S, {}, "done", {})
            /\ BookAs(c, S \ Booked) /\ impl # "opcua" /\ timer' = timer
            /\ live' = live \cup KeptFor(c, S \ Booked)
        BY <2>2 DEF AddItemsEvents, pollVars
      <3>2. \A i \in KeptFor(c, S \ Booked) : i[2] \in S
        BY DEF KeptFor
      <3>3. \A i \in live' : i \in live \/ i[2] \in S
        BY <3>1, <3>2
      <3>4. {} \in SUBSET Items /\ {} \in SUBSET S /\ \A i \in {} : i[2] \in S
        OBVIOUS
      <3>. QED  BY <3>1, <3>3, <3>4
    <2>3. CASE AddItemsPolling(c, S)
      <3>1. /\ MayCall(c) /\ Enter(c, "add", S, {}, "done", {})
            /\ BookAs(c, S \ Booked) /\ impl = "polling" /\ live' = live
        BY <2>3 DEF AddItemsPolling
      <3>. QED  BY <3>1
    <2>. QED  BY <2>1, <2>2, <2>3
  <1>2. UNCHANGED <<impl, sourceVars, due, cb, read>>
    BY DEF AddItemsOpcua, AddItemsEvents, AddItemsPolling, itemVars, pollVars
  <1>3. /\ Asked \subseteq Asked' /\ \A s \in S : s \in Asked'
        /\ Gone' = Gone
        /\ st[c] = "new" /\ st'[c] = status /\ op'[c] = "add"
        /\ \A d \in Calls \ {c} : /\ st'[d] = st[d] /\ op'[d] = op[d]
                                  /\ work'[d] = work[d]
        /\ work'[c] = items
        /\ Closing' <=> Closing
    <2>1. Entered(c, "add", S, status, items)
      BY <1>1, Entering
    <2>. QED  BY <2>1 DEF Entered
  <1>4. \A s \in Sources : \/ book'[s] = book[s]
                           \/ s \in S /\ book'[s] = c /\ status = "done"
    BY <1>1 DEF BookAs
  <1>5. HeldWasAsked'
    BY <1>1, <1>2, <1>3, <1>4 DEF HeldWasAsked
  <1>6. ValuesWereSeen'
    BY <1>2 DEF ValuesWereSeen, sourceVars
  <1>7. BookingsAreDone'
    <2>1. \A d \in Calls : st'[d] = "new" => op'[d] = "none"
      BY <1>1, <1>3 DEF BookingsAreDone
    <2>2. \A d \in Calls : st[d] = "done" => st'[d] = "done"
      BY <1>3
    <2>3. ASSUME NEW s \in Sources, book'[s] # None PROVE st'[book'[s]] = "done"
      <3>1. CASE s \in S /\ book'[s] = c /\ status = "done"
        BY <1>3, <3>1
      <3>2. CASE book'[s] = book[s]
        BY <2>2, <2>3, <3>2 DEF BookingsAreDone, TypeOK, Maybe
      <3>. QED  BY <1>4, <3>1, <3>2
    <2>4. ASSUME NEW s \in Sources, moved'[s] # None PROVE st'[moved'[s]] = "done"
      <3>1. moved' = moved
        BY <1>2 DEF sourceVars
      <3>. QED  BY <2>2, <2>4, <3>1 DEF BookingsAreDone, TypeOK, Maybe
    <2>. QED  BY <2>1, <2>3, <2>4 DEF BookingsAreDone
  <1>8. OwnMechanism'
    BY <1>1, <1>2, <1>3 DEF OwnMechanism
  <1>9. SilentWhenGone'
    BY <1>1, <1>2, <1>3 DEF SilentWhenGone
  <1>. QED  BY <1>5, <1>6, <1>7, <1>8, <1>9

LEMMA RemoveItemsKeeps ==
  ASSUME IInv, TypeOK', NEW c \in Calls, NEW S \in SUBSET Sources,
         RemoveItemsOpcua(c, S) \/ RemoveItemsEvents(c, S) \/ RemoveItemsPolling(c, S)
  PROVE  IInv'
  <1>. USE DEF IInv
  <1>1. PICK status \in {"pending", "done"}, items \in SUBSET Items :
          /\ MayCall(c) /\ Enter(c, "remove", S, {}, status, items)
          /\ \A i \in items : i[2] \in Booked
          /\ status = "pending" => impl = "opcua"
    <2>1. CASE RemoveItemsOpcua(c, S)
      <3>1. \A i \in ItemsOf(S \cap Booked) : i[2] \in Booked
        BY DEF ItemsOf
      <3>2. ItemsOf(S \cap Booked) \in SUBSET Items
        BY DEF TypeOK, ItemsOf, Booked, Maybe, Items
      <3>. QED  BY <2>1, <3>1, <3>2 DEF RemoveItemsOpcua
    <2>2. CASE RemoveItemsEvents(c, S)
      <3>1. MayCall(c) /\ Enter(c, "remove", S, {}, "done", {})
        BY <2>2 DEF RemoveItemsEvents
      <3>. QED  BY <3>1
    <2>3. CASE RemoveItemsPolling(c, S)
      <3>1. MayCall(c) /\ Enter(c, "remove", S, {}, "done", {})
        BY <2>3 DEF RemoveItemsPolling
      <3>. QED  BY <3>1
    <2>. QED  BY <2>1, <2>2, <2>3
  <1>2. /\ UNCHANGED <<impl, sourceVars, due, cb, read>>
        /\ Unbook(S)
        /\ live' \subseteq live
        /\ timer' => timer
    <2>1. CASE RemoveItemsOpcua(c, S)
      BY <2>1 DEF RemoveItemsOpcua, pollVars
    <2>2. CASE RemoveItemsEvents(c, S)
      BY <2>2 DEF RemoveItemsEvents, pollVars
    <2>3. CASE RemoveItemsPolling(c, S)
      BY <2>3 DEF RemoveItemsPolling
    <2>. QED  BY <2>1, <2>2, <2>3
  <1>3. /\ Asked' = Asked /\ Gone' = Gone
        /\ st[c] = "new" /\ st'[c] = status /\ op'[c] = "remove"
        /\ \A d \in Calls \ {c} : /\ st'[d] = st[d] /\ op'[d] = op[d]
                                  /\ work'[d] = work[d]
        /\ work'[c] = items
        /\ Closing' <=> Closing
    <2>1. Entered(c, "remove", S, status, items)
      BY <1>1, Entering
    <2>. QED  BY <2>1 DEF Entered
  <1>4. \A s \in Sources : book'[s] = book[s] \/ book'[s] = None
    BY <1>2 DEF Unbook
  <1>5. \A i \in items : i[2] \in Asked
    BY <1>1 DEF HeldWasAsked, Booked
  <1>6. HeldWasAsked'
    BY <1>2, <1>3, <1>4, <1>5 DEF HeldWasAsked
  <1>7. ValuesWereSeen'
    BY <1>2 DEF ValuesWereSeen, sourceVars
  <1>8. BookingsAreDone'
    <2>1. moved' = moved /\ moved \in [Sources -> Maybe(Calls)] /\ book \in [Sources -> Maybe(Calls)]
      BY <1>2 DEF sourceVars, TypeOK
    <2>. QED  BY <1>3, <1>4, <2>1 DEF BookingsAreDone, Maybe
  <1>9. OwnMechanism'
    BY <1>1, <1>2, <1>3 DEF OwnMechanism
  <1>10. SilentWhenGone'
    BY <1>2, <1>3 DEF SilentWhenGone
  <1>. QED  BY <1>6, <1>7, <1>8, <1>9, <1>10

LEMMA CloseKeeps ==
  ASSUME IInv, TypeOK', NEW c \in Calls, CloseOpcua(c) \/ CloseEvents(c) \/ ClosePolling(c)
  PROVE  IInv'
  <1>. USE DEF IInv
  <1>1. /\ MayCall(c) /\ Enter(c, "close", {}, {}, "pending", {})
        /\ UNCHANGED <<impl, sourceVars, due, read>>
        /\ book' = book \/ Unbook(Sources)
        /\ live' \subseteq live
        /\ timer' => timer
        /\ cb' => cb /\ impl = "opcua"
    BY DEF CloseOpcua, CloseEvents, ClosePolling, itemVars, pollVars
  <1>2. /\ Asked' = Asked /\ Gone' = Gone
        /\ st[c] = "new" /\ st'[c] = "pending" /\ op'[c] = "close"
        /\ \A d \in Calls \ {c} : /\ st'[d] = st[d] /\ op'[d] = op[d]
                                  /\ work'[d] = work[d]
        /\ work'[c] = {}
    <2>1. Entered(c, "close", {}, "pending", {})
      BY <1>1, Entering
    <2>. QED  BY <2>1 DEF Entered
  <1>3. \A s \in Sources : book'[s] = book[s] \/ book'[s] = None
    BY <1>1 DEF Unbook
  <1>4. HeldWasAsked'
    BY <1>1, <1>2, <1>3 DEF HeldWasAsked
  <1>5. ValuesWereSeen'
    BY <1>1 DEF ValuesWereSeen, sourceVars
  <1>6. BookingsAreDone'
    BY <1>1, <1>2, <1>3 DEF BookingsAreDone, sourceVars, TypeOK, Maybe
  <1>7. OwnMechanism'
    BY <1>1, <1>2 DEF OwnMechanism
  <1>8. SilentWhenGone'
    BY <1>1, <1>2 DEF SilentWhenGone
  <1>. QED  BY <1>4, <1>5, <1>6, <1>7, <1>8

(* Answers *)
LEMMA AnswerKeeps ==
  ASSUME IInv, TypeOK', NEW c \in Calls, AddOk(c) \/ AddFails(c) \/ Removed(c)
  PROVE  IInv'
  <1>. USE DEF IInv
  <1>1. /\ st[c] = "pending" /\ op[c] \in {"add", "remove"}
        /\ UNCHANGED <<impl, sourceVars, cb, pollVars>>
        /\ \A i \in live' : i \in live \/ (i \in work[c] /\ ~Gone)
    <2>1. CASE AddOk(c)
      BY <2>1 DEF AddOk
    <2>2. CASE AddFails(c)
      BY <2>2 DEF AddFails
    <2>3. CASE Removed(c)
      BY <2>3 DEF Removed
    <2>. QED  BY <2>1, <2>2, <2>3
  <1>2. PICK status \in {"done", "failed"} :
          /\ Settle(c, status)
          /\ \/ book' = book
             \/ status = "done" /\ BookAs(c, {i[2] : i \in work[c]})
    <2>1. CASE AddOk(c)
      BY <2>1 DEF AddOk
    <2>2. CASE AddFails(c)
      BY <2>2 DEF AddFails
    <2>3. CASE Removed(c)
      BY <2>3 DEF Removed
    <2>. QED  BY <2>1, <2>2, <2>3
  <1>3. /\ Asked' = Asked /\ Gone' = Gone /\ Closing' = Closing
        /\ op' = op /\ st'[c] = status /\ \A d \in Calls \ {c} : st'[d] = st[d]
        /\ \A d \in Calls : work'[d] \subseteq work[d]
    BY <1>1, <1>2, Settling
  <1>4. \A s \in Sources : \/ book'[s] = book[s]
                           \/ s \in Asked /\ book'[s] = c /\ status = "done"
    BY <1>2 DEF BookAs, HeldWasAsked
  <1>5. HeldWasAsked'
    BY <1>1, <1>3, <1>4 DEF HeldWasAsked, pollVars
  <1>6. ValuesWereSeen'
    BY <1>1 DEF ValuesWereSeen, sourceVars, pollVars
  <1>7. BookingsAreDone'
    BY <1>1, <1>3, <1>4 DEF BookingsAreDone, sourceVars, TypeOK, Maybe
  <1>8. impl = "opcua"
    BY <1>1 DEF OwnMechanism
  <1>9. OwnMechanism'
    BY <1>1, <1>3, <1>8 DEF OwnMechanism, pollVars
  <1>10. SilentWhenGone'
    BY <1>1, <1>3, <1>8 DEF SilentWhenGone
  <1>. QED  BY <1>5, <1>6, <1>7, <1>9, <1>10

LEMMA ClosedKeeps ==
  ASSUME IInv, TypeOK', NEW c \in Calls, Terminated(c) \/ CloseSeen(c)
  PROVE  IInv'
  <1>. USE DEF IInv
  <1>1. /\ st[c] = "pending" /\ op[c] = "close"
        /\ UNCHANGED <<impl, sourceVars, cb, pollVars>>
        /\ book' = book \/ Unbook(Sources)
        /\ live' \subseteq live /\ due' \subseteq due
    BY DEF Terminated, CloseSeen, itemVars
  <1>2. PICK status \in {"done", "failed"} :
          /\ Settle(c, status)
          /\ impl = "opcua" /\ status = "done" => live' = {}
    BY DEF Terminated, CloseSeen
  <1>3. /\ Asked' = Asked /\ Closing' = Closing
        /\ op' = op /\ st'[c] = status /\ \A d \in Calls \ {c} : st'[d] = st[d]
        /\ \A d \in Calls : work'[d] \subseteq work[d]
        /\ status = "failed" => Gone' = Gone
    BY <1>1, <1>2, Settling
  <1>4. \A s \in Sources : book'[s] = book[s] \/ book'[s] = None
    BY <1>1 DEF Unbook
  <1>5. HeldWasAsked'
    BY <1>1, <1>3, <1>4 DEF HeldWasAsked, pollVars
  <1>6. ValuesWereSeen'
    BY <1>1 DEF ValuesWereSeen, sourceVars, pollVars
  <1>7. BookingsAreDone'
    BY <1>1, <1>3, <1>4 DEF BookingsAreDone, sourceVars, TypeOK, Maybe
  <1>8. OwnMechanism'
    BY <1>1, <1>3 DEF OwnMechanism, pollVars
  <1>9. SilentWhenGone'
    BY <1>1, <1>2, <1>3 DEF SilentWhenGone
  <1>. QED  BY <1>5, <1>6, <1>7, <1>8, <1>9

(* Polls *)
LEMMA PollKeeps ==
  ASSUME IInv, TypeOK', NEW k \in Slots, Poll(k)
  PROVE  IInv'
  <1>. USE DEF IInv
  <1>1. UNCHANGED <<impl, sourceVars, callVars, itemVars, cb, timer>>
    BY DEF Poll, PollStart, PollSample, PollAnswer, PollFails
  <1>2. /\ Asked' = Asked /\ Gone' = Gone /\ Closing' = Closing
        /\ op' = op /\ st' = st /\ work' = work
    BY <1>1, CallFrame
  <1>3. /\ \A l \in Slots \ {k} : read'[l] = read[l]
        /\ \A s \in Sources : read'[k][s] # None =>
             /\ read'[k][s] \in {value[s], read[k][s]}
             /\ book[s] # None \/ read[k][s] # None
        /\ read'[k] = NoAnswer \/ read[k] # NoAnswer \/ timer
    <2>1. CASE PollStart(k)
      BY <2>1 DEF PollStart, Booked, TypeOK
    <2>2. CASE PollSample(k)
      BY <2>2 DEF PollSample, TypeOK
    <2>3. CASE PollAnswer(k) \/ PollFails(k)
      BY <2>3 DEF PollAnswer, PollFails, NoAnswer, TypeOK
    <2>. QED  BY <2>1, <2>2, <2>3 DEF Poll
  <1>4. HeldWasAsked'
    BY <1>1, <1>2, <1>3 DEF HeldWasAsked, itemVars
  <1>5. ValuesWereSeen'
    BY <1>1, <1>3 DEF ValuesWereSeen, sourceVars
  <1>6. BookingsAreDone'
    BY <1>1, <1>2 DEF BookingsAreDone, itemVars, sourceVars
  <1>7. OwnMechanism'
    BY <1>1, <1>2, <1>3 DEF OwnMechanism, itemVars
  <1>8. SilentWhenGone'
    BY <1>1, <1>2 DEF SilentWhenGone, itemVars
  <1>. QED  BY <1>4, <1>5, <1>6, <1>7, <1>8

LEMMA InvariantStep == IInv /\ [Next]_vars => IInv'
  <1>. SUFFICES ASSUME IInv, [Next]_vars PROVE IInv'
    OBVIOUS
  <1>1. TypeOK'
    BY TypeStep DEF IInv
  <1>2. CASE UNCHANGED vars
    BY <1>2 DEF vars, sourceVars, callVars, itemVars, pollVars, IInv, TypeOK, HeldWasAsked,
                ValuesWereSeen, BookingsAreDone, OwnMechanism, SilentWhenGone, Asked, Gone,
                Closing
  <1>3. CASE Next
    BY <1>1, <1>3, ChangeKeeps, PublishKeeps, AddItemsKeeps, RemoveItemsKeeps, CloseKeeps,
       AnswerKeeps, ClosedKeeps, PollKeeps DEF Next, Call, Answer
  <1>. QED  BY <1>2, <1>3

(* The invariant holds whatever the implementation, the calls and their     *)
(* overlaps.                                                               *)
THEOREM Invariant == Spec => []IInv
  <1>. QED  BY InitInvariant, InvariantStep, PTL DEF Spec

-----------------------------------------------------------------------------
(* Refinement *)
LEMMA InitRefines == Init => Port!Init
  <1>. SUFFICES ASSUME Init PROVE Port!Init
    OBVIOUS
  <1>1. Asked = {} /\ Booked = {} /\ ~Gone
    BY DEF Init, Asked, Booked, Gone
  <1>2. Covered = {} /\ Moved = {}
    BY <1>1 DEF Covered, Moved
  <1>. QED  BY <1>1, <1>2, ValueAssumption DEF Init, NoAnswer, Port!Init

(* What is covered was asked for, and no booking is covered as moved that  *)
(* was not before.                                                         *)
LEMMA CoverRefines ==
  ASSUME IInv, IInv', Closing => Closing', moved' = moved,
         \A s \in Sources : \/ book'[s] \in {book[s], None}
                            \/ book'[s] \in Calls /\ st[book'[s]] # "done"
  PROVE  /\ Covered' \subseteq Asked'
         /\ Moved' \subseteq Moved \cap Covered'
  <1>1. Covered' \subseteq Booked' /\ (Covered' # {} => ~Closing' /\ ~Closing)
    BY DEF Covered, Closing
  <1>2. Booked' \subseteq Asked'
    BY DEF IInv, HeldWasAsked, Booked
  <1>3. ASSUME NEW s \in Moved' PROVE s \in Moved
    <2>1. s \in Covered' /\ s \in Sources /\ moved[s] = book'[s] /\ book'[s] # None
      BY <1>1, <1>3 DEF Moved, Booked
    <2>2. st[moved[s]] = "done"
      BY <2>1 DEF IInv, BookingsAreDone
    <2>3. book'[s] = book[s]
      BY <2>1, <2>2
    <2>4. s \in Covered
      BY <1>1, <2>1, <2>3 DEF Covered, Booked, Closing
    <2>. QED  BY <2>1, <2>3, <2>4 DEF Moved
  <1>4. Moved' \subseteq Covered'
    BY DEF Moved
  <1>. QED  BY <1>1, <1>2, <1>3, <1>4

LEMMA CallRefines ==
  ASSUME IInv, IInv', NEW c \in Calls, Call(c)
  PROVE  Port!Ask
  <1>1. PICK o \in {"add", "remove", "close"}, S \in SUBSET Sources,
             status \in {"pending", "done"} :
          /\ MayCall(c) /\ \E T, items : Enter(c, o, S, T, status, items)
          /\ o = "close" => status = "pending"
    BY DEF Call, AddItemsOpcua, AddItemsEvents, AddItemsPolling, RemoveItemsOpcua,
           RemoveItemsEvents, RemoveItemsPolling, CloseOpcua, CloseEvents, ClosePolling
  <1>2. /\ UNCHANGED <<sourceVars, told>>
        /\ \/ book' = book
           \/ \E T : BookAs(c, T) \/ Unbook(T)
    BY DEF Call, AddItemsOpcua, AddItemsEvents, AddItemsPolling, RemoveItemsOpcua,
           RemoveItemsEvents, RemoveItemsPolling, CloseOpcua, CloseEvents, ClosePolling,
           itemVars
  <1>3. /\ Asked \subseteq Asked' /\ Gone' = Gone
        /\ st[c] = "new" /\ (Closing => Closing')
    <2>1. PICK T, items : Enter(c, o, S, T, status, items)
      BY <1>1
    <2>2. Entered(c, o, S, status, items)
      BY <1>1, <2>1, Entering DEF IInv
    <2>. QED  BY <2>2 DEF Entered
  <1>4. \A s \in Sources : \/ book'[s] \in {book[s], None}
                           \/ book'[s] \in Calls /\ st[book'[s]] # "done"
    BY <1>2, <1>3 DEF BookAs, Unbook
  <1>5. Covered' \subseteq Asked' /\ Moved' \subseteq Moved \cap Covered'
    BY <1>2, <1>3, <1>4, CoverRefines DEF sourceVars
  <1>. QED  BY <1>2, <1>3, <1>5 DEF sourceVars, Port!Ask, Port!Cover

LEMMA AnswerRefines ==
  ASSUME IInv, IInv', NEW c \in Calls, Answer(c)
  PROVE  Port!Recover \/ Port!End
  <1>1. st[c] = "pending"
    BY DEF Answer, AddOk, AddFails, Removed, Terminated, CloseSeen
  <1>2. PICK status \in {"done", "failed"} : Settle(c, status)
    BY DEF Answer, AddOk, AddFails, Removed, Terminated, CloseSeen
  <1>3. /\ UNCHANGED <<sourceVars, told>>
        /\ \/ book' = book
           \/ \E T : BookAs(c, T) \/ Unbook(T)
    BY DEF Answer, AddOk, AddFails, Removed, Terminated, CloseSeen, itemVars
  <1>4. /\ Asked' = Asked /\ (Closing => Closing')
        /\ Gone' \/ Gone' = Gone
    <2>1. TypeOK /\ c \in Calls /\ status \in {"done", "failed"}
      BY DEF IInv
    <2>. QED  BY ONLY <1>1, <1>2, <2>1, Settling
  <1>5. \A s \in Sources : \/ book'[s] \in {book[s], None}
                           \/ book'[s] \in Calls /\ st[book'[s]] # "done"
    BY <1>1, <1>3 DEF BookAs, Unbook
  <1>6. Covered' \subseteq Asked' /\ Moved' \subseteq Moved \cap Covered'
    BY <1>3, <1>4, <1>5, CoverRefines DEF sourceVars
  <1>. QED  BY <1>3, <1>4, <1>6 DEF sourceVars, Port!Recover, Port!End, Port!Cover

(* The steps that make no call and settle none leave the books alone. *)
LEMMA BookFrame ==
  ASSUME UNCHANGED <<callVars, book>>
  PROVE  Asked' = Asked /\ Gone' = Gone /\ Covered' = Covered
  BY DEF callVars, Asked, Gone, Covered, Booked

LEMMA ChangeRefines ==
  ASSUME IInv, IInv', NEW s \in Sources, NEW v \in Values, Change(s, v)
  PROVE  Port!Change
  <1>1. /\ value' = [value EXCEPT ![s] = v]
        /\ seen' = [seen EXCEPT ![s] = @ \cup {v}]
        /\ moved' = [moved EXCEPT ![s] = book[s]]
        /\ UNCHANGED <<callVars, book>>
    BY DEF Change
  <1>2. UNCHANGED <<Asked, Covered, Gone>>
    BY <1>1, BookFrame
  <1>3. Moved' = Moved \cup ({s} \cap Covered)
    BY <1>1, <1>2 DEF Moved, IInv, TypeOK, Covered, Booked
  <1>4. \A t \in Sources : told'[t] # told[t] =>
          t = s /\ told'[t] = v /\ impl = "events" /\ cb /\ Hearing(s) # {}
    BY DEF Change, IInv, TypeOK
  <1>5. impl = "events" /\ cb => ~Gone
    BY DEF IInv, SilentWhenGone, Gone, Closing
  <1>6. Hearing(s) # {} => s \in Asked
    BY DEF Hearing, IInv, HeldWasAsked
  <1>7. v \in seen'[s]
    BY <1>1 DEF IInv, TypeOK
  <1>8. Port!Reports
    BY <1>4, <1>5, <1>6, <1>7 DEF Port!Reports, IInv, TypeOK, Maybe
  <1>. QED  BY <1>1, <1>2, <1>3, <1>8 DEF Port!Change

LEMMA PublishRefines ==
  ASSUME IInv, IInv', NEW i \in Items, Publish(i)
  PROVE  Port!Report
  <1>1. /\ i \in due /\ i \in live
        /\ told' = [told EXCEPT ![i[2]] = value[i[2]]]
        /\ UNCHANGED <<sourceVars, callVars, book>>
    BY DEF Publish
  <1>2. UNCHANGED <<Asked, Covered, Gone>> /\ Moved' = Moved
    <2>1. UNCHANGED <<Asked, Covered, Gone>>
      BY <1>1, BookFrame
    <2>. QED  BY <1>1, <2>1 DEF Moved, sourceVars
  <1>3. impl = "opcua" /\ ~Gone
    BY <1>1 DEF IInv, OwnMechanism, SilentWhenGone
  <1>4. i[2] \in Sources /\ i[2] \in Asked /\ value[i[2]] \in seen'[i[2]]
    BY <1>1 DEF IInv, HeldWasAsked, ValuesWereSeen, Items, sourceVars
  <1>5. Port!Reports
    BY <1>1, <1>3, <1>4 DEF Port!Reports, IInv, TypeOK, Maybe
  <1>. QED  BY <1>1, <1>2, <1>5 DEF Port!Report, sourceVars

LEMMA PollRefines ==
  ASSUME IInv, IInv', NEW k \in Slots, Poll(k)
  PROVE  Port!Report
  <1>1. UNCHANGED <<sourceVars, callVars, book>>
    BY DEF Poll, PollStart, PollSample, PollAnswer, PollFails, itemVars
  <1>2. UNCHANGED <<Asked, Covered, Gone>> /\ Moved' = Moved
    <2>1. UNCHANGED <<Asked, Covered, Gone>>
      BY <1>1, BookFrame
    <2>. QED  BY <1>1, <2>1 DEF Moved, sourceVars
  <1>3. \A s \in Sources : told'[s] # told[s] =>
          read[k][s] # None /\ told'[s] = read[k][s] /\ cb
    BY DEF Poll, PollStart, PollSample, PollAnswer, PollFails, Differs
  <1>4. ASSUME NEW s \in Sources, read[k][s] # None
        PROVE  impl = "polling" /\ s \in Asked /\ read[k][s] \in seen[s]
    BY <1>4 DEF IInv, OwnMechanism, HeldWasAsked, ValuesWereSeen, NoAnswer
  <1>5. impl = "polling" /\ cb => ~Gone
    BY DEF IInv, SilentWhenGone, Gone, Closing
  <1>6. Port!Reports
    BY <1>1, <1>3, <1>4, <1>5 DEF Port!Reports, IInv, TypeOK, Maybe, sourceVars
  <1>. QED  BY <1>1, <1>2, <1>6 DEF Port!Report, sourceVars

LEMMA StutterRefines == UNCHANGED vars => UNCHANGED Port!vars
  BY DEF vars, sourceVars, callVars, itemVars, Port!vars, Asked, Covered, Booked, Moved, Gone

(* Each implementation, whatever calls overlap, whatever fails and however *)
(* late a read or a notification is, reports only values that sources      *)
(* passed to addItems have had, and nothing once its close() has taken     *)
(* effect.                                                                 *)
THEOREM Refinement == Spec => PortSafe
  <1>1. IInv /\ IInv' /\ [Next]_vars => [Port!Next]_Port!vars
    <2>. SUFFICES ASSUME IInv, IInv', [Next]_vars PROVE [Port!Next]_Port!vars
      OBVIOUS
    <2>1. CASE UNCHANGED vars
      BY <2>1, StutterRefines
    <2>2. CASE Next
      BY <2>2, ChangeRefines, PublishRefines, CallRefines, AnswerRefines, PollRefines
         DEF Next, Port!Next
    <2>. QED  BY <2>1, <2>2
  <1>2. Spec => Port!Init
    BY InitRefines DEF Spec
  <1>. QED  BY <1>1, <1>2, Invariant, PTL DEF Spec, PortSafe, Port!Safety

-----------------------------------------------------------------------------
(* ItemsMatch.  While a call is pending the items it creates are wanted    *)
(* and not on the books, and the items it terminates are still at the      *)
(* source and no longer on the books.                                      *)
Coming ==
  {s \in Sources : \E c \in Calls : op[c] = "add" /\ <<c, s, "kept">> \in work[c]}
Leaving == {i \in Items : \E c \in Calls : op[c] = "remove" /\ i \in work[c]}

Terminating ==
  impl = "opcua" /\ \E c \in Calls : op[c] = "close" /\ st[c] = "pending"

\* So far each call was made when the one before had been answered, and worked.
Steady == ~overlapped /\ \A c \in Calls : st[c] # "failed"

(* Calls are made in the order of their numbers; a client that waits for   *)
(* every answer makes none after a pending one, and none after a close.    *)
CallsInOrder ==
  /\ \A c, d \in Calls : d < c /\ st[c] # "new" => st[d] # "new"
  /\ ~overlapped =>
       \A c, d \in Calls : d > c /\ (st[c] = "pending" \/ op[c] = "close") =>
         st[d] = "new"

(* The work of a call is its own, and is over when the call is settled; a  *)
(* spare item is made beside one to keep, by the OPC UA wrapper only.      *)
WorkIsOwn ==
  /\ \A c \in Calls : st[c] # "pending" => work[c] = {}
  /\ \A c \in Calls : op[c] = "add" =>
       /\ work[c] \subseteq ItemsFor(c, arg[c], twice[c])
       /\ \A i \in work[c] : <<c, i[2], "kept">> \in work[c]
  /\ \A c \in Calls : twice[c] # {} => op[c] = "add" /\ impl = "opcua"
  /\ Steady => \A c \in Calls : op[c] = "remove" =>
       \A i \in work[c] : i[2] \notin Booked
  /\ \A c \in Calls : op[c] = "close" => work[c] = {}

(* The books, the source and the timer against what the client wants.      *)
ItemsInStep ==
  Steady /\ ~Terminating =>
    /\ Booked = Wanted \ Coming
    /\ impl # "polling" => /\ ItemsOf(Booked) \cup Leaving \subseteq live
                           /\ live \subseteq ItemsOf(Booked) \cup Leaving \cup Spares
    /\ impl = "polling" => (timer <=> Booked # {})

ItemsInv == CallsInOrder /\ WorkIsOwn /\ ItemsInStep

LEMMA InitItems == Init => ItemsInv
  <1>. SUFFICES ASSUME Init PROVE ItemsInv
    OBVIOUS
  <1>1. CallsInOrder /\ WorkIsOwn
    BY DEF Init, CallsInOrder, WorkIsOwn
  <1>2. Booked = {} /\ Wanted = {} /\ Leaving = {} /\ live = {} /\ ~timer
    BY DEF Init, Booked, Wanted, Leaving
  <1>3. ItemsInStep
    BY <1>2 DEF ItemsInStep, ItemsOf
  <1>. QED  BY <1>1, <1>3 DEF ItemsInv

(* No call was ever made that is not numbered before the next one.         *)
LEMMA NextIsLast ==
  ASSUME IInv, ItemsInv, NEW c \in Calls, MayCall(c)
  PROVE  /\ st[c] = "new" /\ op[c] = "none"
         /\ \A d \in Calls \ {c} : \/ d < c /\ st[d] # "new"
                                   \/ d > c /\ st[d] = "new" /\ op[d] = "none"
  <1>1. st[c] = "new" /\ \A d \in Calls : d < c => st[d] # "new"
    BY DEF MayCall
  <1>2. \A d \in Calls : st[d] = "new" => op[d] = "none"
    BY DEF IInv, BookingsAreDone
  <1>3. \A d \in Calls : d > c => st[d] = "new"
    BY <1>1 DEF ItemsInv, CallsInOrder
  <1>. QED  BY <1>1, <1>2, <1>3 DEF Calls

(* What a call that is made does to the order of the calls and to what is  *)
(* wanted.                                                                 *)
LEMMA EnterWanted ==
  ASSUME IInv, ItemsInv, NEW c \in Calls, MayCall(c),
         NEW o \in {"add", "remove", "close"}, NEW S \in SUBSET Sources,
         NEW T, NEW status \in {"pending", "done"}, o = "close" => status = "pending",
         NEW items, Enter(c, o, S, T, status, items)
  PROVE  /\ CallsInOrder'
         /\ Spares \subseteq Spares'
         /\ o = "add" => Wanted' = Wanted \cup S
         /\ o = "remove" => Wanted' = Wanted \ S
         /\ o = "close" => Wanted' = {}
  <1>1. /\ st[c] = "new" /\ op[c] = "none"
        /\ \A d \in Calls \ {c} : \/ d < c /\ st[d] # "new"
                                  \/ d > c /\ st[d] = "new" /\ op[d] = "none"
    BY NextIsLast
  <1>2. /\ op'[c] = o /\ arg'[c] = S /\ st'[c] = status
        /\ \A d \in Calls \ {c} : /\ op'[d] = op[d] /\ arg'[d] = arg[d]
                                  /\ st'[d] = st[d]
        /\ overlapped' = (overlapped \/ \E d \in Calls : st[d] = "pending")
    BY DEF Enter, IInv, TypeOK
  <1>0. Spares \subseteq Spares'
    <2>1. \A d \in Calls : twice[d] # {} => twice'[d] = twice[d]
      <3>1. twice[c] = {}
        BY <1>1 DEF ItemsInv, WorkIsOwn
      <3>. QED  BY <3>1 DEF Enter, IInv, TypeOK
    <2>2. ASSUME NEW e \in Calls, op'[e] = "close", st'[e] = "done"
          PROVE  op[e] = "close" /\ st[e] = "done"
      <3>1. CASE e = c
        BY <1>1, <1>2, <2>2, <3>1
      <3>2. CASE e # c
        BY <1>2, <2>2, <3>2
      <3>. QED  BY <3>1, <3>2
    <2>3. Gone' => Gone
      BY <2>2 DEF Gone
    <2>. QED  BY <2>1, <2>3 DEF Spares, Items
  <1>3. CallsInOrder'
    <2>1. ASSUME NEW e \in Calls, NEW d \in Calls, d < e, st'[e] # "new"
          PROVE  st'[d] # "new"
      BY <1>1, <1>2, <2>1 DEF Calls
    <2>2. ASSUME ~overlapped', NEW e \in Calls, NEW d \in Calls, d > e,
                 st'[e] = "pending" \/ op'[e] = "close"
          PROVE  st'[d] = "new"
      <3>1. CASE e = c
        BY <1>1, <1>2, <2>2, <3>1 DEF Calls
      <3>2. CASE e # c
        <4>1. st[e] # "pending" /\ op[e] = "close"
          BY <1>2, <2>2, <3>2
        <4>2. Closed
          <5>1. st[e] # "new"
            BY <1>1, <3>2, <4>1
          <5>2. st[e] \in {"done", "failed"}
            BY <4>1, <5>1 DEF IInv, TypeOK
          <5>. QED  BY <4>1, <5>2 DEF Closed
        <4>. QED  BY <4>2 DEF MayCall
      <3>. QED  BY <3>1, <3>2
    <2>. QED  BY <2>1, <2>2 DEF CallsInOrder
  <1>. DEFINE Kept(e, s) == /\ op[e] = "add" /\ s \in arg[e]
                            /\ \A d \in Calls : d > e =>
                                 op[d] # "close" /\ (op[d] = "remove" => s \notin arg[d])
  <1>4. \A e \in Calls : op[e] = "add" => e < c
    BY <1>1
  <1>5. ASSUME NEW s \in Sources, NEW e \in Calls, Kept(e, s),
               o = "close" => FALSE, o = "remove" => s \notin S
        PROVE  s \in Wanted'
    <2>1. e # c /\ op'[e] = "add" /\ s \in arg'[e]
      BY <1>1, <1>2, <1>5
    <2>2. \A d \in Calls : d > e =>
            op'[d] # "close" /\ (op'[d] = "remove" => s \notin arg'[d])
      BY <1>2, <1>5
    <2>. QED  BY <2>1, <2>2 DEF Wanted
  <1>6. ASSUME NEW s \in Wanted'
        PROVE  \/ o = "add" /\ s \in S
               \/ s \in Wanted /\ o # "close" /\ (o = "remove" => s \notin S)
    <2>1. PICK e \in Calls : /\ op'[e] = "add" /\ s \in arg'[e]
                             /\ \A d \in Calls : d > e =>
                                  op'[d] # "close" /\ (op'[d] = "remove" => s \notin arg'[d])
      BY <1>6 DEF Wanted
    <2>2. CASE e = c
      BY <1>2, <2>1, <2>2
    <2>3. CASE e # c
      <3>1. Kept(e, s) /\ e < c
        BY <1>1, <1>2, <1>4, <2>1, <2>3
      <3>2. s \in Wanted
        BY <1>6, <3>1 DEF Wanted
      <3>3. c > e
        BY <3>1 DEF Calls
      <3>. QED  BY <1>2, <2>1, <3>2, <3>3
    <2>. QED  BY <2>2, <2>3
  <1>7. ASSUME o = "add", NEW s \in S PROVE s \in Wanted'
    <2>1. \A d \in Calls : d > c => op'[d] = "none"
      BY <1>1, <1>2 DEF Calls
    <2>. QED  BY <1>2, <1>7, <2>1 DEF Wanted
  <1>8. Wanted \subseteq Sources /\ \A s \in Wanted : \E e \in Calls : Kept(e, s)
    BY DEF Wanted
  <1>9. Wanted' \subseteq Sources
    BY DEF Wanted
  <1>. HIDE DEF Kept
  <1>10. o = "add" => Wanted' = Wanted \cup S
    BY <1>5, <1>6, <1>7, <1>8
  <1>11. o = "remove" => Wanted' = Wanted \ S
    BY <1>5, <1>6, <1>8
  <1>12. o = "close" => Wanted' = {}
    BY <1>6
  <1>. QED  BY <1>0, <1>3, <1>10, <1>11, <1>12

(* A client that waits for every answer makes its calls with none pending: *)
(* the call's own items are all there is to create or terminate.           *)
AloneWith(c, o, items) ==
  /\ Steady /\ ~Terminating
  /\ Coming = {} /\ Leaving = {}
  /\ \A d \in Calls : work[d] = {}
  /\ Coming' = {s \in Sources : o = "add" /\ <<c, s, "kept">> \in items}
  /\ Leaving' = IF o = "remove" THEN items ELSE {}

LEMMA EnterSteady ==
  ASSUME IInv, ItemsInv, NEW c \in Calls, MayCall(c),
         NEW o \in {"add", "remove", "close"}, NEW S \in SUBSET Sources,
         NEW T, NEW status \in {"pending", "done"}, NEW items \in SUBSET Items,
         Enter(c, o, S, T, status, items), Steady'
  PROVE  AloneWith(c, o, items)
  <1>1. st[c] = "new" /\ op[c] = "none"
    BY NextIsLast
  <1>2. /\ op'[c] = o /\ st'[c] = status /\ work'[c] = items
        /\ \A d \in Calls \ {c} : /\ op'[d] = op[d] /\ st'[d] = st[d]
                                  /\ work'[d] = work[d]
        /\ overlapped' = (overlapped \/ \E d \in Calls : st[d] = "pending")
    BY DEF Enter, IInv, TypeOK
  <1>3. ~overlapped /\ \A d \in Calls : st[d] # "pending" /\ st[d] # "failed"
    BY <1>1, <1>2 DEF Steady
  <1>4. Steady /\ ~Terminating
    BY <1>3 DEF Steady, Terminating
  <1>5. \A d \in Calls : work[d] = {}
    BY <1>3 DEF ItemsInv, WorkIsOwn
  <1>6. Coming = {} /\ Leaving = {}
    BY <1>5 DEF Coming, Leaving
  <1>7. Coming' = {s \in Sources : o = "add" /\ <<c, s, "kept">> \in items}
    BY <1>2, <1>5 DEF Coming
  <1>8. Leaving' = IF o = "remove" THEN items ELSE {}
    BY <1>2, <1>5 DEF Leaving
  <1>. QED  BY <1>4, <1>5, <1>6, <1>7, <1>8 DEF AloneWith

LEMMA AddItemsMatch ==
  ASSUME IInv, IInv', ItemsInv, NEW c \in Calls, NEW S \in (SUBSET Sources) \ {{}},
         \/ \E T \in SUBSET (S \cap Shared) : AddItemsOpcua(c, S, T)
         \/ AddItemsEvents(c, S) \/ AddItemsPolling(c, S)
  PROVE  ItemsInv'
  <1>. DEFINE new == S \ Booked
  <1>1. PICK status \in {"pending", "done"}, items \in SUBSET Items, T \in SUBSET new :
          /\ MayCall(c) /\ Enter(c, "add", S, T, status, items)
          /\ items = IF impl = "opcua" THEN ItemsFor(c, new, T) ELSE {}
          /\ impl # "opcua" => T = {}
          /\ status = IF impl = "opcua" /\ ~(S \subseteq Booked)
                      THEN "pending" ELSE "done"
    <2>1. \A T : ItemsFor(c, new, T) \in SUBSET Items
      BY ItemsForFacts
    <2>2. CASE \E T \in SUBSET (S \cap Shared) : AddItemsOpcua(c, S, T)
      <3>1. PICK T \in SUBSET (S \cap Shared) : AddItemsOpcua(c, S, T)
        BY <2>2
      <3>2. T \ Booked \in SUBSET new
        OBVIOUS
      <3>3. ItemsFor(c, new, T) = ItemsFor(c, new, T \ Booked)
        BY DEF ItemsFor
      <3>. QED  BY <2>1, <3>1, <3>2, <3>3 DEF AddItemsOpcua
    <2>3. CASE AddItemsEvents(c, S) \/ AddItemsPolling(c, S)
      <3>1. /\ MayCall(c) /\ Enter(c, "add", S, {}, "done", {}) /\ impl # "opcua"
        BY <2>3 DEF AddItemsEvents, AddItemsPolling
      <3>. QED  BY <3>1
    <2>. QED  BY <2>2, <2>3
  <1>2. /\ impl' = impl
        /\ IF impl = "opcua" THEN book' = book /\ live' = live ELSE BookAs(c, new)
        /\ impl = "events" => live' = live \cup KeptFor(c, new)
        /\ impl = "polling" => timer'
    BY DEF AddItemsOpcua, AddItemsEvents, AddItemsPolling, itemVars
  <1>3. CallsInOrder' /\ Wanted' = Wanted \cup S /\ Spares \subseteq Spares'
    BY <1>1, EnterWanted
  <1>4. /\ st[c] = "new" /\ op[c] = "none"
        /\ op'[c] = "add" /\ arg'[c] = S /\ st'[c] = status /\ work'[c] = items
        /\ twice'[c] = T
        /\ \A d \in Calls \ {c} : /\ op'[d] = op[d] /\ arg'[d] = arg[d]
                                  /\ twice'[d] = twice[d] /\ st'[d] = st[d] /\ work'[d] = work[d]
    BY <1>1, NextIsLast DEF Enter, IInv, TypeOK
  <1>5. ASSUME Steady'
        PROVE  /\ Steady /\ ~Terminating /\ Coming = {} /\ Leaving = {}
               /\ \A d \in Calls : work[d] = {}
               /\ Coming' = {s \in Sources : <<c, s, "kept">> \in items}
               /\ Leaving' = {}
    <2>1. AloneWith(c, "add", items)
      BY <1>1, <1>5, EnterSteady
    <2>. QED  BY <2>1 DEF AloneWith
  <1>6. WorkIsOwn'
    <2>1. \A d \in Calls : st'[d] # "pending" => work'[d] = {}
      <3>1. status = "done" => items = {}
        BY <1>1 DEF ItemsFor, KeptFor
      <3>. QED  BY <1>4, <3>1 DEF ItemsInv, WorkIsOwn
    <2>2. ASSUME NEW d \in Calls, op'[d] = "add"
          PROVE  /\ work'[d] \subseteq ItemsFor(d, arg'[d], twice'[d])
                 /\ \A i \in work'[d] : <<d, i[2], "kept">> \in work'[d]
      <3>1. CASE d = c /\ impl = "opcua"
        <4>1. new \subseteq S /\ T \subseteq new
          OBVIOUS
        <4>2. ItemsFor(c, new, T) \subseteq ItemsFor(c, S, T)
          BY <4>1 DEF ItemsFor, KeptFor
        <4>3. \A i \in ItemsFor(c, new, T) : <<c, i[2], "kept">> \in ItemsFor(c, new, T)
          BY DEF ItemsFor, KeptFor
        <4>4. work'[c] = ItemsFor(c, new, T) /\ arg'[c] = S /\ twice'[c] = T
          BY <1>1, <1>4, <3>1
        <4>. HIDE DEF new
        <4>. QED  BY <3>1, <4>2, <4>3, <4>4
      <3>2. CASE d = c /\ impl # "opcua"
        BY <1>1, <1>4, <3>2
      <3>3. CASE d # c
        BY <1>4, <2>2, <3>3 DEF ItemsInv, WorkIsOwn
      <3>. QED  BY <3>1, <3>2, <3>3
    <2>6. \A d \in Calls : twice'[d] # {} => op'[d] = "add" /\ impl' = "opcua"
      BY <1>1, <1>2, <1>4 DEF ItemsInv, WorkIsOwn
    <2>3. \A d \in Calls : op'[d] = "close" => work'[d] = {}
      BY <1>4 DEF ItemsInv, WorkIsOwn
    <2>4. Steady' => \A d \in Calls : op'[d] = "remove" => work'[d] = {}
      BY <1>4, <1>5
    <2>5. Steady' => \A d \in Calls : op'[d] = "remove" =>
            \A i \in work'[d] : i[2] \notin Booked'
      BY <2>4
    <2>. QED  BY <2>1, <2>2, <2>3, <2>5, <2>6 DEF WorkIsOwn
  <1>7. ASSUME Steady' PROVE ItemsInStep'
    <2>1. /\ Booked = Wanted
          /\ impl # "polling" => /\ ItemsOf(Booked) \subseteq live
                                 /\ live \subseteq ItemsOf(Booked) \cup Spares
      BY <1>5, <1>7 DEF ItemsInv, ItemsInStep
    <2>2. CASE impl = "opcua"
      <3>1. Coming' = new
        BY <1>1, <1>5, <1>7, <2>2 DEF ItemsFor, KeptFor
      <3>2. Booked' = Booked /\ ItemsOf(Booked)' = ItemsOf(Booked)
        BY <1>2, <2>2 DEF Booked, ItemsOf
      <3>. QED  BY <1>2, <1>3, <1>5, <1>7, <2>1, <2>2, <3>1, <3>2 DEF ItemsInStep
    <2>3. CASE impl # "opcua"
      <3>1. Coming' = {}
        BY <1>1, <1>5, <1>7, <2>3
      <3>2. /\ book' = [s \in Sources |-> IF s \in new THEN c ELSE book[s]]
            /\ c # None
        BY <1>2, <2>3, NoneAssumption DEF BookAs, Calls
      <3>3. Booked' = Booked \cup S
        BY <3>2 DEF Booked
      <3>4. ItemsOf(Booked)' = ItemsOf(Booked) \cup KeptFor(c, new)
        BY <3>2, <3>3 DEF ItemsOf, Booked, KeptFor
      <3>5. impl = "polling" => Booked' # {}
        BY <3>3
      <3>6. Booked' = Wanted' \ Coming'
        BY <1>3, <2>1, <3>1, <3>3
      <3>7. impl # "polling" =>
              /\ ItemsOf(Booked)' \cup Leaving' \subseteq live'
              /\ live' \subseteq ItemsOf(Booked)' \cup Leaving' \cup Spares'
        <4>1. ASSUME impl # "polling" PROVE impl = "events"
          BY <2>3, <4>1 DEF IInv, AddItemsOpcua, AddItemsEvents, AddItemsPolling
        <4>. QED  BY <1>2, <1>3, <1>5, <1>7, <2>1, <3>4, <4>1
      <3>. QED  BY <1>2, <3>5, <3>6, <3>7 DEF ItemsInStep
    <2>. QED  BY <2>2, <2>3
  <1>8. ItemsInStep'
    BY <1>7 DEF ItemsInStep
  <1>. QED  BY <1>3, <1>6, <1>8 DEF ItemsInv

LEMMA RemoveItemsMatch ==
  ASSUME IInv, IInv', ItemsInv, NEW c \in Calls, NEW S \in SUBSET Sources,
         RemoveItemsOpcua(c, S) \/ RemoveItemsEvents(c, S) \/ RemoveItemsPolling(c, S)
  PROVE  ItemsInv'
  <1>. DEFINE old == ItemsOf(S \cap Booked)
  <1>1. old \in SUBSET Items /\ \A i \in old : i[2] \in S
    BY DEF IInv, TypeOK, ItemsOf, Booked, Maybe, Items
  <1>. HIDE DEF old
  <1>2. PICK status \in {"pending", "done"}, items \in SUBSET Items :
          /\ MayCall(c) /\ Enter(c, "remove", S, {}, status, items)
          /\ items = IF impl = "opcua" THEN old ELSE {}
          /\ status = IF impl = "opcua" /\ S \cap Booked # {}
                      THEN "pending" ELSE "done"
    <2>1. CASE RemoveItemsOpcua(c, S)
      BY <1>1, <2>1 DEF RemoveItemsOpcua, old
    <2>2. CASE RemoveItemsEvents(c, S) \/ RemoveItemsPolling(c, S)
      <3>1. /\ MayCall(c) /\ Enter(c, "remove", S, {}, "done", {}) /\ impl # "opcua"
        BY <2>2 DEF RemoveItemsEvents, RemoveItemsPolling
      <3>. QED  BY <3>1
    <2>. QED  BY <2>1, <2>2
  <1>3. /\ impl' = impl
        /\ Unbook(S)
        /\ impl = "opcua" => live' = live
        /\ impl = "events" => live' = live \ old
        /\ impl = "polling" => timer' = (timer /\ ~(Booked \subseteq S))
    BY DEF RemoveItemsOpcua, RemoveItemsEvents, RemoveItemsPolling, old
  <1>4. CallsInOrder' /\ Wanted' = Wanted \ S /\ Spares \subseteq Spares'
    BY <1>2, EnterWanted
  <1>5. /\ st[c] = "new" /\ op[c] = "none"
        /\ op'[c] = "remove" /\ arg'[c] = S /\ st'[c] = status /\ work'[c] = items
        /\ twice'[c] = {}
        /\ \A d \in Calls \ {c} : /\ op'[d] = op[d] /\ arg'[d] = arg[d]
                                  /\ twice'[d] = twice[d]
                                  /\ st'[d] = st[d] /\ work'[d] = work[d]
    BY <1>2, NextIsLast DEF Enter, IInv, TypeOK
  <1>6. ASSUME Steady'
        PROVE  /\ Steady /\ ~Terminating /\ Coming = {} /\ Leaving = {}
               /\ \A d \in Calls : work[d] = {}
               /\ Coming' = {} /\ Leaving' = items
    <2>1. AloneWith(c, "remove", items)
      BY <1>2, <1>6, EnterSteady
    <2>. QED  BY <2>1 DEF AloneWith
  <1>7. /\ book' = [s \in Sources |-> IF s \in S THEN None ELSE book[s]]
        /\ Booked' = Booked \ S
    BY <1>3 DEF Unbook, Booked
  <1>8. ItemsOf(Booked) = ItemsOf(Booked)' \cup old
    BY <1>7 DEF ItemsOf, Booked, old
  <1>9. ItemsOf(Booked)' \cap old = {}
    BY <1>1, <1>7 DEF ItemsOf
  <1>10. S \cap Booked = {} => old = {}
    BY DEF ItemsOf, old
  <1>11. WorkIsOwn'
    <2>1. \A d \in Calls : st'[d] # "pending" => work'[d] = {}
      BY <1>2, <1>5, <1>10 DEF ItemsInv, WorkIsOwn
    <2>2. \A d \in Calls : op'[d] = "add" =>
            /\ work'[d] \subseteq ItemsFor(d, arg'[d], twice'[d])
            /\ \A i \in work'[d] : <<d, i[2], "kept">> \in work'[d]
      BY <1>5 DEF ItemsInv, WorkIsOwn
    <2>5. \A d \in Calls : twice'[d] # {} => op'[d] = "add" /\ impl' = "opcua"
      BY <1>3, <1>5 DEF ItemsInv, WorkIsOwn
    <2>3. \A d \in Calls : op'[d] = "close" => work'[d] = {}
      BY <1>5 DEF ItemsInv, WorkIsOwn
    <2>4. Steady' => \A d \in Calls : op'[d] = "remove" =>
            \A i \in work'[d] : i[2] \notin Booked'
      BY <1>1, <1>2, <1>5, <1>6, <1>7
    <2>. QED  BY <2>1, <2>2, <2>3, <2>4, <2>5 DEF WorkIsOwn
  <1>12. ASSUME Steady' PROVE ItemsInStep'
    <2>1. /\ Booked = Wanted
          /\ impl # "polling" => /\ ItemsOf(Booked) \subseteq live
                                 /\ live \subseteq ItemsOf(Booked) \cup Spares
          /\ impl = "polling" => (timer <=> Booked # {})
      BY <1>6, <1>12 DEF ItemsInv, ItemsInStep
    <2>2. Booked' = Wanted' \ Coming'
      BY <1>4, <1>6, <1>7, <1>12, <2>1
    <2>3. impl # "polling" =>
            /\ ItemsOf(Booked)' \cup Leaving' \subseteq live'
            /\ live' \subseteq ItemsOf(Booked)' \cup Leaving' \cup Spares'
      <3>1. CASE impl = "opcua"
        BY <1>2, <1>3, <1>4, <1>6, <1>8, <1>12, <2>1, <3>1
      <3>2. CASE impl = "events"
        BY <1>2, <1>3, <1>4, <1>6, <1>8, <1>9, <1>12, <2>1, <3>2
      <3>3. impl \in {"opcua", "events", "polling"}
        BY DEF RemoveItemsOpcua, RemoveItemsEvents, RemoveItemsPolling
      <3>. QED  BY <3>1, <3>2, <3>3
    <2>4. impl = "polling" => (timer' <=> Booked' # {})
      <3>1. ASSUME impl = "polling"
            PROVE  timer' = (timer /\ ~(Booked \subseteq S)) /\ (timer <=> Booked # {})
        BY <1>3, <2>1, <3>1
      <3>2. (Booked' # {}) <=> (Booked # {} /\ ~(Booked \subseteq S))
        BY <1>7
      <3>3. timer \in BOOLEAN /\ timer' \in BOOLEAN
        BY DEF IInv, TypeOK
      <3>4. CASE timer
        BY <3>1, <3>2, <3>4
      <3>5. CASE ~timer
        BY <3>1, <3>2, <3>5
      <3>. QED  BY <3>4, <3>5
    <2>. QED  BY <1>3, <2>2, <2>3, <2>4 DEF ItemsInStep
  <1>13. ItemsInStep'
    BY <1>12 DEF ItemsInStep
  <1>. QED  BY <1>4, <1>11, <1>13 DEF ItemsInv

LEMMA CloseMatch ==
  ASSUME IInv, IInv', ItemsInv, NEW c \in Calls,
         CloseOpcua(c) \/ CloseEvents(c) \/ ClosePolling(c)
  PROVE  ItemsInv'
  <1>1. /\ MayCall(c) /\ Enter(c, "close", {}, {}, "pending", {})
        /\ impl' = impl
        /\ impl \in {"opcua", "events", "polling"}
        /\ impl = "opcua" => book' = book
        /\ impl # "opcua" => Unbook(Sources)
        /\ impl = "events" => live' = live \ ItemsOf(Booked)
        /\ impl = "polling" => ~timer'
    BY DEF CloseOpcua, CloseEvents, ClosePolling, itemVars
  <1>2. {} \in SUBSET Sources /\ {} \in SUBSET Items
    OBVIOUS
  <1>3. CallsInOrder' /\ Wanted' = {}
    BY <1>1, <1>2, EnterWanted
  <1>4. /\ st[c] = "new" /\ op[c] = "none"
        /\ op'[c] = "close" /\ arg'[c] = {} /\ st'[c] = "pending" /\ work'[c] = {}
        /\ twice'[c] = {}
        /\ \A d \in Calls \ {c} : /\ op'[d] = op[d] /\ arg'[d] = arg[d]
                                  /\ twice'[d] = twice[d]
                                  /\ st'[d] = st[d] /\ work'[d] = work[d]
    BY <1>1, NextIsLast DEF Enter, IInv, TypeOK
  <1>5. ASSUME Steady'
        PROVE  /\ Steady /\ ~Terminating /\ Leaving = {} /\ Coming = {}
               /\ \A d \in Calls : work[d] = {}
               /\ Leaving' = {} /\ Coming' = {}
    <2>1. AloneWith(c, "close", {})
      BY <1>1, <1>2, <1>5, EnterSteady
    <2>. QED  BY <2>1 DEF AloneWith
  <1>6. WorkIsOwn'
    <2>1. \A d \in Calls : st'[d] # "pending" => work'[d] = {}
      BY <1>4 DEF ItemsInv, WorkIsOwn
    <2>2. \A d \in Calls : op'[d] = "add" =>
            /\ work'[d] \subseteq ItemsFor(d, arg'[d], twice'[d])
            /\ \A i \in work'[d] : <<d, i[2], "kept">> \in work'[d]
      BY <1>4 DEF ItemsInv, WorkIsOwn
    <2>5. \A d \in Calls : twice'[d] # {} => op'[d] = "add" /\ impl' = "opcua"
      BY <1>1, <1>4 DEF ItemsInv, WorkIsOwn
    <2>3. \A d \in Calls : op'[d] = "close" => work'[d] = {}
      BY <1>4 DEF ItemsInv, WorkIsOwn
    <2>4. Steady' => \A d \in Calls : op'[d] = "remove" =>
            \A i \in work'[d] : i[2] \notin Booked'
      BY <1>4, <1>5
    <2>. QED  BY <2>1, <2>2, <2>3, <2>4, <2>5 DEF WorkIsOwn
  <1>7. ASSUME Steady', ~Terminating' PROVE ItemsInStep'
    <2>1. impl # "opcua"
      BY <1>1, <1>4, <1>7 DEF Terminating
    <2>2. Booked' = {} /\ ItemsOf(Booked)' = {}
      BY <1>1, <2>1 DEF Unbook, Booked, ItemsOf
    <2>3. impl # "polling" => live' = {}
      <3>1. Spares = {}
        BY <2>1 DEF Spares, Items, ItemsInv, WorkIsOwn
      <3>. QED  BY <1>1, <1>5, <1>7, <2>1, <3>1 DEF ItemsInv, ItemsInStep
    <2>. QED  BY <1>1, <1>3, <1>5, <1>7, <2>1, <2>2, <2>3 DEF ItemsInStep
  <1>8. ItemsInStep'
    BY <1>7 DEF ItemsInStep
  <1>. QED  BY <1>3, <1>6, <1>8 DEF ItemsInv

(* Nothing is wanted any more of a subscription that a client, waiting for *)
(* every answer, has called close() on.                                    *)
LEMMA ClosedWantsNothing ==
  ASSUME IInv, ItemsInv, ~overlapped, NEW c \in Calls, op[c] = "close"
  PROVE  Wanted = {}
  <1>1. \A d \in Calls : d > c => op[d] = "none"
    BY DEF ItemsInv, CallsInOrder, IInv, BookingsAreDone
  <1>2. ASSUME NEW s \in Wanted PROVE FALSE
    <2>1. PICK e \in Calls : op[e] = "add" /\ \A d \in Calls : d > e => op[d] # "close"
      BY <1>2 DEF Wanted
    <2>2. c > e \/ e > c \/ e = c
      BY DEF Calls
    <2>. QED  BY <1>1, <2>1, <2>2
  <1>. QED  BY <1>2

(* An answer, unless it is that of a removeItems or close that failed,     *)
(* which ends the promise.                                                 *)
LEMMA SettleFrame ==
  ASSUME IInv, ItemsInv, NEW c \in Calls, st[c] = "pending",
         NEW status \in {"done", "failed"}, Settle(c, status)
  PROVE  /\ CallsInOrder' /\ Wanted' = Wanted
         /\ op' = op /\ arg' = arg /\ twice' = twice /\ overlapped' = overlapped
         /\ op[c] # "close" => Spares' = Spares
         /\ st'[c] = status /\ work'[c] = {}
         /\ \A d \in Calls \ {c} : st'[d] = st[d] /\ work'[d] = work[d]
         /\ Steady' => /\ Steady /\ status = "done"
                       /\ \A d \in Calls \ {c} : st[d] # "pending" /\ work[d] = {}
                       /\ \A d \in Calls : work'[d] = {}
                       /\ Coming' = {} /\ Leaving' = {}
  <1>1. /\ op' = op /\ arg' = arg /\ twice' = twice /\ overlapped' = overlapped
        /\ st'[c] = status /\ work'[c] = {}
        /\ \A d \in Calls \ {c} : st'[d] = st[d] /\ work'[d] = work[d]
    BY DEF Settle, IInv, TypeOK
  <1>2. Wanted' = Wanted
    BY <1>1 DEF Wanted
  <1>3. CallsInOrder'
    BY <1>1 DEF ItemsInv, CallsInOrder
  <1>4. ASSUME Steady'
        PROVE  /\ Steady /\ status = "done"
               /\ \A d \in Calls \ {c} : st[d] # "pending" /\ work[d] = {}
    <2>1. ~overlapped /\ status = "done" /\ Steady
      BY <1>1, <1>4 DEF Steady
    <2>2. ASSUME NEW d \in Calls \ {c} PROVE st[d] # "pending"
      <3>1. d > c \/ c > d
        BY <2>2 DEF Calls
      <3>. QED  BY <2>1, <2>2, <3>1 DEF ItemsInv, CallsInOrder
    <2>. QED  BY <2>1, <2>2 DEF ItemsInv, WorkIsOwn
  <1>5. ASSUME Steady' PROVE \A d \in Calls : work'[d] = {}
    BY <1>1, <1>4, <1>5
  <1>6. ASSUME Steady' PROVE Coming' = {} /\ Leaving' = {}
    BY <1>5, <1>6 DEF Coming, Leaving
  <1>7. ASSUME op[c] # "close" PROVE Spares' = Spares
    <2>1. Gone' = Gone
      BY <1>1, <1>7 DEF Gone
    <2>. QED  BY <1>1, <2>1 DEF Spares
  <1>. QED  BY <1>1, <1>2, <1>3, <1>4, <1>5, <1>6, <1>7

LEMMA AnswerMatch ==
  ASSUME IInv, IInv', ItemsInv, NEW c \in Calls, Answer(c)
  PROVE  ItemsInv'
  <1>1. PICK status \in {"done", "failed"} :
          /\ st[c] = "pending" /\ Settle(c, status)
          /\ \/ AddOk(c) /\ status = "done"
             \/ AddFails(c) /\ status = "failed"
             \/ Removed(c) /\ (status = "done" => live' = live \ work[c])
             \/ Terminated(c) /\ (status = "done" => live' = {})
             \/ CloseSeen(c)
    BY DEF Answer, AddOk, AddFails, Removed, Terminated, CloseSeen
  <1>2. /\ CallsInOrder' /\ Wanted' = Wanted
        /\ op' = op /\ arg' = arg /\ twice' = twice /\ overlapped' = overlapped
        /\ op[c] # "close" => Spares' = Spares
        /\ st'[c] = status /\ work'[c] = {}
        /\ \A d \in Calls \ {c} : st'[d] = st[d] /\ work'[d] = work[d]
    BY <1>1, SettleFrame
  <1>3. ASSUME Steady'
        PROVE  /\ Steady /\ status = "done"
               /\ \A d \in Calls \ {c} : st[d] # "pending" /\ work[d] = {}
               /\ \A d \in Calls : work'[d] = {}
               /\ Coming' = {} /\ Leaving' = {}
    BY <1>1, <1>3, SettleFrame
  <1>5. UNCHANGED <<impl, timer>>
    BY DEF Answer, AddOk, AddFails, Removed, Terminated, CloseSeen, pollVars
  <1>4. WorkIsOwn'
    <2>1. /\ \A d \in Calls : st'[d] # "pending" => work'[d] = {}
          /\ \A d \in Calls : op'[d] = "add" =>
               /\ work'[d] \subseteq ItemsFor(d, arg'[d], twice'[d])
               /\ \A i \in work'[d] : <<d, i[2], "kept">> \in work'[d]
          /\ \A d \in Calls : twice'[d] # {} => op'[d] = "add" /\ impl' = "opcua"
          /\ \A d \in Calls : op'[d] = "close" => work'[d] = {}
      BY <1>2, <1>5 DEF ItemsInv, WorkIsOwn
    <2>2. Steady' => \A d \in Calls : op'[d] = "remove" =>
            \A i \in work'[d] : i[2] \notin Booked'
      BY <1>3
    <2>. QED  BY <2>1, <2>2 DEF WorkIsOwn
  <1>6. ASSUME Steady' PROVE ItemsInStep'
    <2>1. CASE AddOk(c)
      <3>1. /\ op[c] = "add" /\ live' = live \cup work[c]
            /\ BookAs(c, {i[2] : i \in work[c]})
        BY <2>1 DEF AddOk
      <3>2. impl = "opcua" /\ ~Terminating
        BY <1>1, <1>3, <1>6, <3>1 DEF IInv, OwnMechanism, Terminating
      <3>3. /\ work[c] \subseteq ItemsFor(c, arg[c], twice[c])
            /\ \A i \in work[c] : <<c, i[2], "kept">> \in work[c]
            /\ arg[c] \subseteq Sources /\ twice[c] \subseteq Sources
        BY <3>1 DEF ItemsInv, WorkIsOwn, IInv, TypeOK
      <3>4. Coming = {s \in Sources : <<c, s, "kept">> \in work[c]}
        BY <1>3, <1>6, <3>1 DEF Coming
      <3>5. /\ {i[2] : i \in work[c]} = Coming
            /\ KeptFor(c, Coming) \subseteq work[c]
            /\ work[c] \subseteq KeptFor(c, Coming) \cup Spares
        <4>1. ASSUME NEW i \in work[c]
              PROVE  /\ i[2] \in Coming
                     /\ i \in KeptFor(c, Coming) \cup Spares
          <5>1. i \in ItemsFor(c, arg[c], twice[c]) /\ <<c, i[2], "kept">> \in work[c]
            BY <3>3
          <5>2. i[1] = c /\ i[2] \in Sources /\ i \in Items
            BY <3>3, <5>1, ItemsForFacts
          <5>3. i[2] \in Coming
            BY <3>4, <5>1, <5>2
          <5>4. CASE i \in KeptFor(c, arg[c])
            BY <5>3, <5>4 DEF KeptFor
          <5>5. CASE i \in {c} \X (arg[c] \cap twice[c]) \X {"spare"}
            <6>1. i[3] = "spare" /\ i[2] \in twice[i[1]]
              BY <5>2, <5>5
            <6>2. ~Gone
              BY <2>1 DEF AddOk
            <6>. QED  BY <5>2, <5>3, <6>1, <6>2 DEF Spares
          <5>. QED  BY <5>1, <5>3, <5>4, <5>5 DEF ItemsFor
        <4>2. ASSUME NEW s \in Coming PROVE \E i \in work[c] : i[2] = s
          BY <3>4
        <4>3. KeptFor(c, Coming) \subseteq work[c]
          BY <3>4 DEF KeptFor
        <4>. QED  BY <4>1, <4>2, <4>3
      <3>6. /\ Booked = Wanted \ Coming
            /\ ItemsOf(Booked) \cup Leaving \subseteq live
            /\ live \subseteq ItemsOf(Booked) \cup Leaving \cup Spares
        BY <1>3, <1>6, <3>2 DEF ItemsInv, ItemsInStep
      <3>7. Leaving = {}
        BY <1>3, <1>6, <3>1 DEF Leaving
      <3>8. \A s \in Coming : s \in Wanted
        <4>1. Coming \subseteq arg[c]
          BY <3>3, <3>4 DEF ItemsFor, KeptFor
        <4>2. \A d \in Calls : d > c => op[d] = "none"
          BY <1>1, <1>3, <1>6 DEF ItemsInv, CallsInOrder, Steady, IInv, BookingsAreDone
        <4>. QED  BY <3>1, <3>4, <4>1, <4>2 DEF Wanted
      <3>9. /\ book' = [s \in Sources |-> IF s \in Coming THEN c ELSE book[s]]
            /\ c # None
        BY <3>1, <3>5, NoneAssumption DEF BookAs, Calls
      <3>10. Booked' = Booked \cup Coming
        BY <3>4, <3>9 DEF Booked
      <3>11. Booked' = Wanted' \ Coming'
        BY <1>2, <1>3, <1>6, <3>6, <3>8, <3>10
      <3>12. ItemsOf(Booked)' = ItemsOf(Booked) \cup KeptFor(c, Coming)
        <4>1. Booked \cap Coming = {} /\ Booked \subseteq Sources /\ Coming \subseteq Sources
          BY <3>6 DEF Booked, Coming
        <4>. QED  BY <3>9, <3>10, <4>1 DEF ItemsOf, KeptFor
      <3>13. /\ ItemsOf(Booked)' \cup Leaving' \subseteq live'
             /\ live' \subseteq ItemsOf(Booked)' \cup Leaving' \cup Spares'
        BY <1>2, <1>3, <1>6, <3>1, <3>5, <3>6, <3>7, <3>12
      <3>. QED  BY <1>5, <3>2, <3>11, <3>13 DEF ItemsInStep
    <2>2. CASE AddFails(c)
      BY <1>1, <1>2, <1>6, <2>2 DEF AddFails, Settle, Steady
    <2>3. CASE Removed(c)
      <3>1. /\ op[c] = "remove" /\ book' = book
        BY <2>3 DEF Removed
      <3>2. impl = "opcua" /\ ~Terminating
        BY <1>1, <1>3, <1>6, <3>1 DEF IInv, OwnMechanism, Terminating
      <3>3. live' = live \ work[c]
        <4>1. st'[c] = "done"
          BY <1>2, <1>3, <1>6
        <4>2. Settle(c, "failed") => st'[c] = "failed"
          BY DEF Settle, IInv, TypeOK
        <4>. QED  BY <2>3, <4>1, <4>2 DEF Removed
      <3>4. Coming = {}
        BY <1>3, <1>6, <3>1 DEF Coming
      <3>5. Leaving = work[c]
        BY <1>3, <1>6, <3>1 DEF Leaving, IInv, TypeOK
      <3>6. /\ Booked = Wanted \ Coming
            /\ ItemsOf(Booked) \cup Leaving \subseteq live
            /\ live \subseteq ItemsOf(Booked) \cup Leaving \cup Spares
        BY <1>3, <1>6, <3>2 DEF ItemsInv, ItemsInStep
      <3>7. \A i \in work[c] : i[2] \notin Booked
        BY <1>3, <1>6, <3>1 DEF ItemsInv, WorkIsOwn
      <3>8. work[c] \cap ItemsOf(Booked) = {}
        BY <3>7 DEF ItemsOf
      <3>9. Booked' = Booked /\ ItemsOf(Booked)' = ItemsOf(Booked)
        BY <3>1 DEF Booked, ItemsOf
      <3>. QED  BY <1>2, <1>3, <1>5, <1>6, <3>1, <3>2, <3>3, <3>4, <3>5, <3>6, <3>8, <3>9
                DEF ItemsInStep
    <2>4. CASE Terminated(c)
      <3>1. op[c] = "close" /\ Unbook(Sources) /\ impl = "opcua"
        BY <2>4 DEF Terminated
      <3>2. live' = {}
        <4>1. st'[c] = "done"
          BY <1>2, <1>3, <1>6
        <4>2. Settle(c, "failed") => st'[c] = "failed"
          BY DEF Settle, IInv, TypeOK
        <4>. QED  BY <2>4, <4>1, <4>2 DEF Terminated
      <3>3. Booked' = {} /\ ItemsOf(Booked)' = {}
        BY <3>1 DEF Unbook, Booked, ItemsOf
      <3>4. Wanted = {}
        BY <1>1, <1>3, <1>6, <3>1, ClosedWantsNothing DEF Steady
      <3>. QED  BY <1>2, <1>3, <1>5, <1>6, <3>1, <3>2, <3>3, <3>4 DEF ItemsInStep
    <2>5. CASE CloseSeen(c)
      <3>1. /\ impl # "opcua" /\ op[c] = "close" /\ UNCHANGED <<book, live>>
        BY <2>5 DEF CloseSeen, itemVars
      <3>2. ~Terminating /\ Coming = {} /\ Leaving = {}
        BY <1>3, <1>6, <3>1 DEF Terminating, Coming, Leaving
      <3>3. Booked' = Booked /\ ItemsOf(Booked)' = ItemsOf(Booked)
        BY <3>1 DEF Booked, ItemsOf
      <3>4. Spares = {}
        BY <3>1 DEF Spares, Items, ItemsInv, WorkIsOwn
      <3>. QED  BY <1>2, <1>3, <1>5, <1>6, <3>1, <3>2, <3>3, <3>4
                DEF ItemsInv, ItemsInStep
    <2>. QED  BY <1>1, <2>1, <2>2, <2>3, <2>4, <2>5
  <1>7. ItemsInStep'
    BY <1>6 DEF ItemsInStep
  <1>. QED  BY <1>2, <1>4, <1>7 DEF ItemsInv

(* The other steps make no call, settle none and touch no item. *)
LEMMA ItemsFrame ==
  ASSUME ItemsInv, UNCHANGED <<impl, overlapped, callVars, book, live, timer>>
  PROVE  ItemsInv'
  <1>1. UNCHANGED <<op, arg, twice, st, work>>
    BY DEF callVars
  <1>2. UNCHANGED <<Booked, Wanted, Coming, Leaving, Spares, Steady, Terminating>>
    BY <1>1 DEF Booked, Wanted, Coming, Leaving, Spares, Gone, Steady, Terminating
  <1>3. ItemsOf(Booked)' = ItemsOf(Booked)
    BY <1>2 DEF ItemsOf
  <1>4. CallsInOrder' /\ WorkIsOwn'
    BY <1>1, <1>2 DEF ItemsInv, CallsInOrder, WorkIsOwn
  <1>5. ItemsInStep'
    BY <1>1, <1>2, <1>3 DEF ItemsInv, ItemsInStep
  <1>. QED  BY <1>4, <1>5 DEF ItemsInv

LEMMA ItemsStep == IInv /\ IInv' /\ ItemsInv /\ [Next]_vars => ItemsInv'
  <1>. SUFFICES ASSUME IInv, IInv', ItemsInv, [Next]_vars PROVE ItemsInv'
    OBVIOUS
  <1>1. CASE UNCHANGED vars
    BY <1>1, ItemsFrame DEF vars, itemVars, pollVars
  <1>2. ASSUME NEW s \in Sources, NEW v \in Values, Change(s, v) PROVE ItemsInv'
    BY <1>2, ItemsFrame DEF Change, pollVars
  <1>3. ASSUME NEW i \in Items, Publish(i) PROVE ItemsInv'
    BY <1>3, ItemsFrame DEF Publish, pollVars
  <1>4. ASSUME NEW k \in Slots, Poll(k) PROVE ItemsInv'
    BY <1>4, ItemsFrame DEF Poll, PollStart, PollSample, PollAnswer, PollFails, itemVars
  <1>5. ASSUME NEW c \in Calls, Call(c) PROVE ItemsInv'
    BY <1>5, AddItemsMatch, RemoveItemsMatch, CloseMatch DEF Call
  <1>. QED  BY <1>1, <1>2, <1>3, <1>4, <1>5, AnswerMatch DEF Next

(* A service that awaits each call and whose calls all work has exactly    *)
(* the items it asked for and has not given back, one for each source; and *)
(* nothing is left running at the source when it has given back all of     *)
(* them, but for the spare items of sources it named twice in one call:    *)
(* whatever the implementation, for any sources and any number of calls.   *)
THEOREM ItemsMatchAlways == Spec => []ItemsMatch
  <1>1. ItemsInv => ItemsMatch
    <2>. SUFFICES ASSUME ItemsInv, Orderly PROVE ItemsMatch
      BY DEF ItemsMatch
    <2>1. Steady /\ ~Terminating /\ \A c \in Calls : work[c] = {}
      BY DEF Orderly, Steady, Terminating, ItemsInv, WorkIsOwn
    <2>2. Coming = {} /\ Leaving = {}
      BY <2>1 DEF Coming, Leaving
    <2>. QED  BY <2>1, <2>2 DEF ItemsInv, ItemsInStep, ItemsMatch
  <1>2. Spec => []ItemsInv
    BY InitItems, ItemsStep, Invariant, PTL DEF Spec
  <1>. QED  BY <1>1, <1>2, PTL

=============================================================================
