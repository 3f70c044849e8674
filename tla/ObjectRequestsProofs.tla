------------------------ MODULE ObjectRequestsProofs ------------------------
(***************************************************************************)
(* Proofs about the requests on objects, for any model, any requests and   *)
(* any values the sources take while a request is in work.                 *)
(***************************************************************************)
EXTENDS ObjectRequests, FiniteSetTheorems, TLAPS

-----------------------------------------------------------------------------
(* The batch of the leaves.                                                *)

(* The place of a leaf in the batch is its own: the value at that place is *)
(* the one that was read for it.                                           *)
LEMMA PlacesAreOwn ==
  ASSUME request \in Requests, NEW i \in Leaves
  PROVE  Place(i) \in Places /\ LeafAt(Place(i)) = i
  <1>. DEFINE upTo(j) == {l \in Leaves : l <= j}
  <1>1. Leaves \subseteq 1 .. Len(request.ids) /\ Len(request.ids) \in Nat
    BY DataAssumption DEF Leaves, Items
  <1>2. IsFiniteSet(Leaves) /\ \A j \in Leaves : j \in Nat
    <2>1. IsFiniteSet(1 .. Len(request.ids))
      BY <1>1, FS_Interval
    <2>2. IsFiniteSet(Leaves)
      BY <1>1, <2>1, FS_Subset
    <2>. QED  BY <1>1, <2>2
  <1>3. \A j \in Leaves : IsFiniteSet(upTo(j)) /\ Cardinality(upTo(j)) \in Nat
                          /\ Cardinality(upTo(j)) <= Cardinality(Leaves)
    <2>1. \A j \in Leaves : upTo(j) \in SUBSET Leaves
      OBVIOUS
    <2>. HIDE DEF upTo
    <2>. QED  BY <1>2, <2>1, FS_Subset, FS_CardinalityType
  <1>4. \A j \in Leaves : Place(j) = Cardinality(upTo(j))
    BY DEF Place
  <1>5. Place(i) \in Places
    <2>1. i \in upTo(i)
      BY <1>2
    <2>. HIDE DEF upTo
    <2>2. Cardinality(upTo(i)) # 0
      BY <1>3, <2>1, FS_EmptySet
    <2>3. Cardinality(Leaves) \in Nat
      BY <1>2, FS_CardinalityType
    <2>. QED  BY <1>3, <1>4, <2>2, <2>3 DEF Places
  <1>6. ASSUME NEW j \in Leaves, NEW l \in Leaves, j < l PROVE Place(j) # Place(l)
    <2>1. upTo(j) \in SUBSET upTo(l) /\ l \in upTo(l) /\ l \notin upTo(j)
      <3>1. \A x \in Leaves : x <= j => x <= l
        BY <1>2, <1>6
      <3>2. l <= l /\ ~(l <= j)
        BY <1>2, <1>6
      <3>. QED  BY <3>1, <3>2
    <2>. HIDE DEF upTo
    <2>2. Cardinality(upTo(l)) # Cardinality(upTo(j))
      BY <1>3, <2>1, FS_Subset
    <2>. QED  BY <1>4, <2>2
  <1>7. \A j \in Leaves : Place(j) = Place(i) => j = i
    <2>1. \A j \in Leaves : j < i \/ i < j \/ j = i
      BY <1>2
    <2>. QED  BY <1>6, <2>1
  <1>. HIDE DEF upTo
  <1>. QED  BY <1>5, <1>7 DEF LeafAt

-----------------------------------------------------------------------------
(* Answers.                                                                *)

(* An answer for a property: of what its source held, or a mark.           *)
Truthful(i, p, answer) ==
  answer \notin {None, Unsupported} =>
    IF request.op = "value"
    THEN /\ answer = NoData \/ \E datum \in held[p] : answer = Normalize(datum)
         /\ answer.value = None <=> answer.quality \in {"Bad", "GoodNoData"}
    ELSE answer.values \subseteq EverHeld(p)

(* What a source holds is part of what it held, and it has the quality of  *)
(* a status code.                                                          *)
SourcesAreKept ==
  /\ held = [n \in Nodes |-> held[n]] /\ data = [n \in Nodes |-> data[n]]
  /\ \A n \in Nodes :
       /\ data[n] \in held[n]
       /\ data[n].quality \in {"Good", "Uncertain", "Bad"}

RepliesAreTruthful ==
  /\ reply = [i \in Items |-> [n \in Nodes |-> reply[i][n]]]
  /\ \A i \in Items, p \in Properties : Truthful(i, p, reply[i][p])

(* A write that knows a type has read it: it is that of the variable.      *)
WritesAreTyped ==
  /\ writes = [i \in Items |-> writes[i]]
  /\ \A i \in Items :
       /\ writes[i] \in {"type", "200"} \cup Targets => ~readOnly /\ Known(i)
       /\ writes[i] \in Types => /\ request.ids[i] \in Properties
                                 /\ writes[i] = Type[request.ids[i]]
       /\ writes[i] = "200" => request.ids[i] \in Properties /\ TookPlace(i)

AnswersInv ==
  /\ request \in Requests
  /\ stage = "leaves" => request.op = "value"
  /\ SourcesAreKept
  /\ RepliesAreTruthful
  /\ WritesAreTyped

LEMMA NormalizedIsMarked ==
  ASSUME NEW datum, datum.quality \in {"Good", "Uncertain", "Bad"}
  PROVE  LET answer == Normalize(datum)
         IN answer.value = None <=> answer.quality \in {"Bad", "GoodNoData"}
  BY DEF Normalize, NoData, Datum

LEMMA InitAnswers == Init => AnswersInv
  <1>. SUFFICES ASSUME Init PROVE AnswersInv
    OBVIOUS
  <1>1. /\ request \in Requests /\ data = FirstData
        /\ held = [n \in Nodes |-> {data[n]}]
        /\ stage = "model" /\ reply = Empty /\ writes = [i \in Items |-> "none"]
    BY DEF Init
  <1>2. SourcesAreKept
    <2>1. data = [n \in Nodes |-> data[n]]
      BY <1>1, DataAssumption
    <2>. QED  BY <1>1, <2>1, DataAssumption DEF SourcesAreKept
  <1>3. RepliesAreTruthful
    <2>1. \A i \in Items, n \in Nodes : reply[i][n] = None
      BY <1>1 DEF Empty
    <2>2. reply = [i \in Items |-> [n \in Nodes |-> reply[i][n]]]
      BY <1>1 DEF Empty
    <2>. QED  BY <2>1, <2>2, TreeAssumption DEF RepliesAreTruthful, Truthful
  <1>4. WritesAreTyped
    BY <1>1 DEF WritesAreTyped, Types, Targets
  <1>. QED  BY <1>1, <1>2, <1>3, <1>4 DEF AnswersInv

(* A source takes a value: what it held before, it has held still.         *)
LEMMA SourceTakes ==
  ASSUME AnswersInv, NEW n \in Nodes, NEW datum, Holds(n, datum),
         datum.quality \in {"Good", "Uncertain", "Bad"},
         UNCHANGED <<adapter, request, readOnly, reply>>
  PROVE  /\ SourcesAreKept' /\ RepliesAreTruthful'
         /\ datum \in held'[n]
         /\ \A m \in Nodes : held[m] \subseteq held'[m]
  <1>1. /\ data' = [data EXCEPT ![n] = datum]
        /\ held' = [held EXCEPT ![n] = held[n] \cup {datum}]
    BY DEF Holds
  <1>2. /\ \A m \in Nodes : held'[m] = IF m = n THEN held[n] \cup {datum} ELSE held[m]
        /\ \A m \in Nodes : data'[m] = IF m = n THEN datum ELSE data[m]
        /\ held' = [m \in Nodes |-> held'[m]] /\ data' = [m \in Nodes |-> data'[m]]
    BY <1>1 DEF AnswersInv, SourcesAreKept
  <1>3. SourcesAreKept'
    BY <1>2 DEF AnswersInv, SourcesAreKept
  <1>4. \A m \in Nodes : held[m] \subseteq held'[m]
    BY <1>2
  <1>5. RepliesAreTruthful'
    <2>1. ASSUME NEW i \in Items, NEW p \in Properties
          PROVE  Truthful(i, p, reply[i][p])'
      <3>1. held[p] \subseteq held'[p]
        BY <1>4, TreeAssumption
      <3>. QED  BY <3>1 DEF AnswersInv, RepliesAreTruthful, Truthful, EverHeld
    <2>. QED  BY <2>1 DEF AnswersInv, RepliesAreTruthful, Items
  <1>. QED  BY <1>2, <1>3, <1>4, <1>5

(* Sources, answers and writes that a step leaves alone. *)
LEMMA StillKeeps ==
  ASSUME AnswersInv, UNCHANGED <<adapter, request, readOnly, sourceVars>>
  PROVE  /\ SourcesAreKept'
         /\ UNCHANGED reply => RepliesAreTruthful'
         /\ UNCHANGED writes => WritesAreTyped'
         /\ \A n \in Nodes : held[n] \subseteq held'[n]
  <1>1. SourcesAreKept'
    BY DEF AnswersInv, SourcesAreKept, sourceVars
  <1>2. ASSUME UNCHANGED reply PROVE RepliesAreTruthful'
    BY <1>2 DEF AnswersInv, RepliesAreTruthful, Truthful, Items, sourceVars, EverHeld
  <1>3. ASSUME UNCHANGED writes PROVE WritesAreTyped'
    BY <1>3 DEF AnswersInv, WritesAreTyped, Items, Known, sourceVars, TookPlace, Sent
  <1>. QED  BY <1>1, <1>2, <1>3 DEF sourceVars

(* A step that reads: the sources and the writes stay, and the new answers *)
(* are truthful.                                                           *)
LEMMA ReadKeeps ==
  ASSUME AnswersInv, UNCHANGED <<adapter, request, readOnly, sourceVars, writes>>,
         RepliesAreTruthful', stage' # "leaves"
  PROVE  AnswersInv'
  BY StillKeeps DEF AnswersInv

(* The batch of the leaves, and the properties of an asset. *)
LEMMA LeavesReadKeeps == AnswersInv /\ LeavesRead => AnswersInv'
  <1>. SUFFICES ASSUME AnswersInv, LeavesRead PROVE AnswersInv'
    OBVIOUS
  <1>1. /\ UNCHANGED <<adapter, request, readOnly, sourceVars, writes>>
        /\ stage' # "leaves" /\ request.op = "value"
    BY DEF LeavesRead, Work, StageAfter, AnswersInv
  <1>2. PICK batch \in {[k \in Places |-> data[request.ids[LeafAt(k)]]],
                        [k \in Places |-> NoData]} :
          reply' = [i \in Items |-> [n \in Nodes |->
            IF i \in Leaves /\ n = request.ids[i] THEN Normalize(batch[Place(i)])
            ELSE reply[i][n]]]
    BY DEF LeavesRead
  <1>3. ASSUME NEW i \in Leaves
        PROVE  batch[Place(i)] \in {data[request.ids[i]], NoData}
    BY <1>2, PlacesAreOwn DEF AnswersInv
  <1>4. ASSUME NEW i \in Items, NEW p \in Properties
        PROVE  Truthful(i, p, reply'[i][p])
    <2>1. CASE ~(i \in Leaves /\ p = request.ids[i])
      <3>1. reply'[i][p] = reply[i][p]
        BY <1>2, <2>1, TreeAssumption
      <3>. QED  BY <3>1 DEF AnswersInv, RepliesAreTruthful
    <2>2. CASE i \in Leaves /\ p = request.ids[i]
      <3>1. reply'[i][p] = Normalize(batch[Place(i)])
        BY <1>2, <2>2, TreeAssumption
      <3>2. CASE batch[Place(i)] = NoData
        BY <1>1, <3>1, <3>2 DEF Truthful, Normalize, NoData, Datum
      <3>3. CASE batch[Place(i)] = data[p]
        <4>1. data[p] \in held[p] /\ data[p].quality \in {"Good", "Uncertain", "Bad"}
          BY TreeAssumption DEF AnswersInv, SourcesAreKept
        <4>. QED  BY <1>1, <3>1, <3>3, <4>1, NormalizedIsMarked DEF Truthful
      <3>. QED  BY <1>3, <2>2, <3>2, <3>3
    <2>. QED  BY <2>1, <2>2
  <1>5. RepliesAreTruthful'
    <2>1. reply' = [i \in Items |-> [n \in Nodes |-> reply'[i][n]]]
      BY <1>2
    <2>. QED
      BY <1>1, <1>4, <2>1 DEF RepliesAreTruthful, Truthful, Items, sourceVars, EverHeld
  <1>. QED  BY <1>1, <1>5, ReadKeeps

(* An answer to one read: what it brings for a property must be truthful.  *)
LEMMA AnswerKeeps ==
  ASSUME AnswersInv, NEW r, NEW answer, Answers(r, answer),
         UNCHANGED <<adapter, request, readOnly, sourceVars, writes>>, stage' # "leaves",
         \A p \in Properties : p \in r.of => Truthful(r.item, p, answer[p])
  PROVE  AnswersInv'
  <1>1. reply' = [reply EXCEPT ![r.item] = [n \in Nodes |->
                    IF n \in r.of THEN answer[n] ELSE reply[r.item][n]]]
    BY DEF Answers
  <1>2. reply = [i \in Items |-> [n \in Nodes |-> reply[i][n]]]
    BY DEF AnswersInv, RepliesAreTruthful
  <1>3. reply' = [i \in Items |-> [n \in Nodes |->
                    IF i = r.item /\ n \in r.of THEN answer[n] ELSE reply[i][n]]]
    BY <1>1, <1>2
  <1>4. ASSUME NEW i \in Items, NEW p \in Properties PROVE Truthful(i, p, reply'[i][p])
    <2>1. reply'[i][p] = IF i = r.item /\ p \in r.of THEN answer[p] ELSE reply[i][p]
      BY <1>3, TreeAssumption
    <2>. QED  BY <2>1 DEF AnswersInv, RepliesAreTruthful
  <1>5. RepliesAreTruthful'
    <2>1. reply' = [i \in Items |-> [n \in Nodes |-> reply'[i][n]]]
      BY <1>3
    <2>. QED  BY <1>4, <2>1 DEF RepliesAreTruthful, Truthful, Items, sourceVars, EverHeld
  <1>. QED  BY <1>5, ReadKeeps

LEMMA ReadingKeeps ==
  ASSUME AnswersInv, NEW r \in reads,
         PropertiesRead(r) \/ PropertiesFail(r) \/ InstanceRead(r)
  PROVE  AnswersInv'
  <1>. USE DEF Work, StageAfter
  <1>1. CASE PropertiesRead(r)
    <2>1. /\ stage' # "leaves"
          /\ UNCHANGED <<adapter, request, readOnly, sourceVars, writes>>
          /\ \E answer \in [r.of -> UNION {AnswersFor(p) : p \in r.of}] :
               /\ \A p \in r.of : answer[p] \in AnswersFor(p)
               /\ Answers(r, answer)
      BY <1>1 DEF PropertiesRead
    <2>2. PICK answer \in [r.of -> UNION {AnswersFor(p) : p \in r.of}] :
            /\ \A p \in r.of : answer[p] \in AnswersFor(p)
            /\ Answers(r, answer)
      BY <2>1
    <2>3. ASSUME NEW p \in Properties, p \in r.of PROVE Truthful(r.item, p, answer[p])
      <3>1. answer[p] \in AnswersFor(p)
        BY <2>2, <2>3
      <3>2. data[p] \in held[p] /\ data[p].quality \in {"Good", "Uncertain", "Bad"}
        BY TreeAssumption DEF AnswersInv, SourcesAreKept
      <3>3. CASE request.op = "value"
        BY <3>1, <3>2, <3>3, NormalizedIsMarked DEF Truthful, AnswersFor
      <3>4. CASE request.op # "value"
        BY <3>1, <3>4 DEF Truthful, AnswersFor, History
      <3>. QED  BY <3>3, <3>4
    <2>. QED  BY <2>1, <2>2, <2>3, AnswerKeeps
  <1>2. CASE PropertiesFail(r)
    <2>. DEFINE answer == [p \in r.of |-> Unsupported]
    <2>1. /\ stage' # "leaves"
          /\ UNCHANGED <<adapter, request, readOnly, sourceVars, writes>>
          /\ Answers(r, answer) \/ UNCHANGED reply
      BY <1>2 DEF PropertiesFail
    <2>2. \A p \in Properties : p \in r.of => Truthful(r.item, p, answer[p])
      BY DEF Truthful
    <2>3. ASSUME UNCHANGED reply PROVE AnswersInv'
      <3>1. RepliesAreTruthful'
        BY <2>1, <2>3, StillKeeps
      <3>. QED  BY <2>1, <3>1, ReadKeeps
    <2>. HIDE DEF answer
    <2>. QED  BY <2>1, <2>2, <2>3, AnswerKeeps
  <1>3. CASE InstanceRead(r)
    <2>1. /\ stage' # "leaves" /\ r.of = {r.at} /\ r.at \notin Properties
          /\ UNCHANGED <<adapter, request, readOnly, sourceVars, writes>>
          /\ \E answer : Answers(r, [n \in {r.at} |-> answer])
      BY <1>3 DEF InstanceRead
    <2>2. PICK answer : Answers(r, [n \in {r.at} |-> answer])
      BY <2>1
    <2>. QED  BY <2>1, <2>2, AnswerKeeps
  <1>. QED  BY <1>1, <1>2, <1>3

(* What a write has done stays done. *)
LEMMA TookPlaceStays ==
  ASSUME NEW i \in Items, Known(i), TookPlace(i), UNCHANGED <<adapter, request>>,
         \A n \in Nodes : held[n] \subseteq held'[n]
  PROVE  TookPlace(i)'
  <1>1. held[request.ids[i]] \subseteq held'[request.ids[i]]
    BY DEF Known
  <1>. QED  BY <1>1 DEF TookPlace, Sent

(* A write moves on: what the others know stays true.                      *)
LEMMA WriteMoves ==
  ASSUME AnswersInv, NEW f, WritesAre(f), UNCHANGED changes,
         SourcesAreKept', RepliesAreTruthful',
         f = [i \in Items |-> f[i]],
         \A n \in Nodes : held[n] \subseteq held'[n],
         \A i \in Items :
           \/ f[i] = writes[i]
           \/ f[i] \in {"501", "404", "403"}
           \/ f[i] \in {"type", "Null"} /\ ~readOnly /\ Known(i)
           \/ /\ f[i] \in Types /\ ~readOnly /\ Known(i)
              /\ request.ids[i] \in Properties /\ f[i] = Type[request.ids[i]]
           \/ /\ f[i] = "200" /\ ~readOnly /\ Known(i)
              /\ request.ids[i] \in Properties /\ TookPlace(i)'
  PROVE  AnswersInv'
  <1>1. /\ writes' = f /\ UNCHANGED <<adapter, readOnly, request>> /\ stage' # "leaves"
    BY DEF WritesAre
  <1>2. WritesAreTyped'
    <2>1. ASSUME NEW i \in Items
          PROVE  /\ f[i] \in {"type", "200"} \cup Targets => ~readOnly /\ Known(i)
                 /\ f[i] \in Types => /\ request.ids[i] \in Properties
                                       /\ f[i] = Type[request.ids[i]]
                 /\ f[i] = "200" => request.ids[i] \in Properties /\ TookPlace(i)'
      <3>1. CASE f[i] = writes[i]
        <4>1. /\ writes[i] \in {"type", "200"} \cup Targets => ~readOnly /\ Known(i)
              /\ writes[i] \in Types => /\ request.ids[i] \in Properties
                                         /\ writes[i] = Type[request.ids[i]]
              /\ writes[i] = "200" => request.ids[i] \in Properties /\ TookPlace(i)
          BY DEF AnswersInv, WritesAreTyped
        <4>2. writes[i] = "200" => TookPlace(i)'
          BY <1>1, <4>1, TookPlaceStays
        <4>. QED  BY <3>1, <4>1, <4>2
      <3>2. CASE f[i] # writes[i]
        BY <3>2 DEF Types, Targets
      <3>. QED  BY <3>1, <3>2
    <2>. HIDE DEF Targets, Types
    <2>. QED  BY <1>1, <2>1 DEF WritesAreTyped, Items, Known
  <1>. QED  BY <1>1, <1>2 DEF AnswersInv

LEMMA WritingKeeps == AnswersInv /\ Write => AnswersInv'
  <1>. SUFFICES ASSUME AnswersInv, Write PROVE AnswersInv'
    OBVIOUS
  <1>1. ASSUME UNCHANGED <<adapter, request, readOnly, sourceVars, reply>>
        PROVE  /\ SourcesAreKept' /\ RepliesAreTruthful'
               /\ \A n \in Nodes : held[n] \subseteq held'[n]
    BY <1>1, StillKeeps
  <1>2. /\ writes = [i \in Items |-> writes[i]]
        /\ \A i \in Items :
             /\ writes[i] \in {"type"} \cup Targets => ~readOnly /\ Known(i)
             /\ writes[i] \in Types => /\ request.ids[i] \in Properties
                                       /\ writes[i] = Type[request.ids[i]]
    BY DEF AnswersInv, WritesAreTyped
  <1>3. CASE WritesStart
    <2>. DEFINE f == [i \in Items |->
                        CASE readOnly -> "501"
                          [] ~readOnly /\ ~Known(i) -> "404"
                          [] ~readOnly /\ Known(i) /\ adapter = "opcua" -> "type"
                          [] OTHER -> IF request.ids[i] \in Properties
                                      THEN "Null" ELSE "403"]
    <2>1. /\ WritesAre(f)
          /\ UNCHANGED <<changes, adapter, request, readOnly, sourceVars, reply>>
      BY <1>3 DEF WritesStart, WritesAre, sourceVars
    <2>2. \A i \in Items :
            \/ f[i] \in {"501", "404", "403"}
            \/ f[i] \in {"type", "Null"} /\ ~readOnly /\ Known(i)
      OBVIOUS
    <2>3. f = [i \in Items |-> f[i]]
      OBVIOUS
    <2>. HIDE DEF f
    <2>. QED  BY <1>1, <2>1, <2>2, <2>3, WriteMoves
  <1>4. ASSUME NEW i \in Items, TypeRead(i) PROVE AnswersInv'
    <2>1. PICK type \in {"403", "Null"}
                         \cup {Type[p] : p \in {request.ids[i]} \cap Properties} :
            WritesAre([writes EXCEPT ![i] = type])
      BY <1>4 DEF TypeRead
    <2>. DEFINE f == [writes EXCEPT ![i] = type]
    <2>2. /\ WritesAre(f) /\ writes[i] = "type"
          /\ UNCHANGED <<changes, adapter, request, readOnly, sourceVars, reply>>
      BY <1>4, <2>1 DEF TypeRead, WritesAre, sourceVars
    <2>3. /\ f = [j \in Items |-> f[j]]
          /\ \A j \in Items : f[j] = IF j = i THEN type ELSE writes[j]
      BY <1>2
    <2>4. \/ type = "403"
          \/ type = "Null" /\ ~readOnly /\ Known(i)
          \/ /\ type \in Types /\ ~readOnly /\ Known(i)
             /\ request.ids[i] \in Properties /\ type = Type[request.ids[i]]
      BY <1>2, <2>1, <2>2, TypeAssumption
    <2>. HIDE DEF f
    <2>. QED  BY <1>1, <2>2, <2>3, <2>4, WriteMoves
  <1>5. ASSUME NEW i \in Items, WriteAnswered(i) PROVE AnswersInv'
    <2>. DEFINE n == request.ids[i]
                datum == Datum(Sent(i, writes[i]), "Good")
                f(status) == [writes EXCEPT ![i] = status]
    <2>1. /\ ~readOnly /\ Known(i) /\ n \in Nodes
          /\ writes[i] \in {"Null", Type[n]} /\ UNCHANGED <<changes, reply>>
      BY <1>2, <1>5 DEF WriteAnswered, Known, Targets
    <2>2. \/ /\ n \in Properties /\ Holds(n, datum)
             /\ \E status \in {"200", "403"} : WritesAre(f(status))
          \/ UNCHANGED <<data, held>> /\ WritesAre(f("403"))
      BY <1>5 DEF WriteAnswered
    <2>3. ASSUME NEW status
          PROVE  /\ f(status) = [j \in Items |-> f(status)[j]]
                 /\ \A j \in Items : f(status)[j] = IF j = i THEN status ELSE writes[j]
      BY <1>2
    <2>4. UNCHANGED <<adapter, request, readOnly>>
      BY <2>2 DEF WritesAre
    <2>. HIDE DEF f
    <2>5. ASSUME n \in Properties, Holds(n, datum), NEW status \in {"200", "403"},
                 WritesAre(f(status))
          PROVE  AnswersInv'
      <3>1. datum.quality = "Good"
        BY DEF Datum
      <3>. HIDE DEF datum
      <3>2. /\ SourcesAreKept' /\ RepliesAreTruthful'
            /\ datum \in held'[n]
            /\ \A m \in Nodes : held[m] \subseteq held'[m]
        BY <2>1, <2>4, <2>5, <3>1, SourceTakes
      <3>3. TookPlace(i)'
        BY <2>1, <2>4, <3>2 DEF TookPlace, Sent, datum
      <3>. QED  BY <2>1, <2>3, <2>5, <3>2, <3>3, WriteMoves DEF n
    <2>6. ASSUME UNCHANGED <<data, held>>, WritesAre(f("403")) PROVE AnswersInv'
      BY <1>1, <2>1, <2>3, <2>4, <2>6, WriteMoves DEF sourceVars
    <2>. HIDE DEF n, datum
    <2>. QED  BY <2>2, <2>5, <2>6
  <1>. QED  BY <1>3, <1>4, <1>5 DEF Write

LEMMA AnswersStep == AnswersInv /\ [Next]_vars => AnswersInv'
  <1>. SUFFICES ASSUME AnswersInv, [Next]_vars PROVE AnswersInv'
    OBVIOUS
  <1>1. ASSUME NEW p \in Properties, NEW datum \in Data, Change(p, datum)
        PROVE  AnswersInv'
    <2>1. /\ Holds(p, datum) /\ UNCHANGED <<adapter, request, readOnly, stage, writes, reply>>
          /\ datum.quality \in {"Good", "Uncertain", "Bad"} /\ p \in Nodes
      BY <1>1, DataAssumption, TreeAssumption DEF Change
    <2>2. /\ SourcesAreKept' /\ RepliesAreTruthful'
          /\ \A n \in Nodes : held[n] \subseteq held'[n]
      BY <2>1, SourceTakes
    <2>3. WritesAreTyped'
      <3>1. \A i \in Items : Known(i) /\ TookPlace(i) => TookPlace(i)'
        BY <2>1, <2>2, TookPlaceStays
      <3>. QED  BY <2>1, <3>1 DEF AnswersInv, WritesAreTyped, Items, Known
    <2>. QED  BY <2>1, <2>2, <2>3 DEF AnswersInv
  <1>2. CASE ModelReady
    <2>1. /\ UNCHANGED <<adapter, request, readOnly, sourceVars, writes, reply>>
          /\ stage' = "leaves" => request.op = "value"
      BY <1>2 DEF ModelReady, Work, StageAfter
    <2>. QED  BY <2>1, StillKeeps DEF AnswersInv
  <1>3. CASE UNCHANGED vars
    <2>1. UNCHANGED <<adapter, request, readOnly, sourceVars, stage, writes, reply>>
      BY <1>3 DEF vars
    <2>. QED  BY <2>1, StillKeeps DEF AnswersInv
  <1>. QED
    BY <1>1, <1>2, <1>3, LeavesReadKeeps, ReadingKeeps, WritingKeeps DEF Next

(* Whatever changes while a request is in work and whichever of its reads  *)
(* and writes fail, each value is one its own source has held since the    *)
(* request, each history of values it has ever held, and a write that      *)
(* succeeded has taken place, with its own value.                          *)
THEOREM AnswersAreTruthful == Spec => []AnswersAreOwn
  <1>1. AnswersInv => AnswersAreOwn
    BY DEF AnswersInv, RepliesAreTruthful, Truthful, WritesAreTyped, AnswersAreOwn
  <1>. QED  BY <1>1, InitAnswers, AnswersStep, PTL DEF Spec
-----------------------------------------------------------------------------
(* What is to be read.                                                     *)

(* _collectSourceMappings by its recursion.  That some function satisfies  *)
(* the recursion at all: what every function holds that is closed under it *)
(* is the least of them.                                                   *)
LEMMA CollectSourcesUnfolds ==
  ASSUME NEW n \in Nodes, NEW depth \in Nat, NEW d \in Nat
  PROVE  /\ n \in Properties => CollectSources[<<n, depth, d>>] = {n}
         /\ n \notin Properties =>
              IF Within(depth, d)
              THEN CollectSources[<<n, depth, d>>] =
                     UNION {CollectSources[<<b, depth, d + 1>>] : b \in Children(n)}
              ELSE CollectSources[<<n, depth, d>>] = {}
  <1>. DEFINE D == Nodes \X Nat \X Nat
              Deeper(v, b) == <<b, v[2], v[3] + 1>>
              Body(f, v) == IF v[1] \in Properties THEN {v[1]}
                            ELSE IF ~Within(v[2], v[3]) THEN {}
                            ELSE UNION {f[Deeper(v, b)] : b \in Children(v[1])}
              Solves(f) == f = [v \in D |-> Body(f, v)]
              Closed == {f \in [D -> SUBSET Properties] :
                           \A v \in D : Body(f, v) \subseteq f[v]}
              Least == [v \in D |-> {p \in Properties : \A f \in Closed : p \in f[v]}]
              Once == [v \in D |-> Body(Least, v)]
  <1>1. \A v \in D : \A b \in Children(v[1]) : Deeper(v, b) \in D
    BY DEF Children
  <1>. HIDE DEF D, Deeper
  <1>2. Least \in [D -> SUBSET Properties] /\ Once \in [D -> SUBSET Properties]
    <2>1. Least \in [D -> SUBSET Properties]
      OBVIOUS
    <2>2. ASSUME NEW v \in D PROVE Body(Least, v) \in SUBSET Properties
      <3>1. \A b \in Children(v[1]) : Least[Deeper(v, b)] \in SUBSET Properties
        BY <1>1, <2>1
      <3>. HIDE DEF Least
      <3>. QED  BY <3>1
    <2>. QED  BY <2>1, <2>2
  <1>3. ASSUME NEW f \in [D -> SUBSET Properties], NEW g \in [D -> SUBSET Properties],
               \A v \in D : f[v] \subseteq g[v], NEW v \in D
        PROVE  Body(f, v) \subseteq Body(g, v)
    BY <1>1, <1>3
  <1>4. \A v \in D : Body(Least, v) \subseteq Least[v]
    <2>1. ASSUME NEW v \in D, NEW f \in Closed PROVE Body(Least, v) \subseteq f[v]
      <3>1. \A w \in D : Least[w] \subseteq f[w]
        OBVIOUS
      <3>2. f \in [D -> SUBSET Properties] /\ Body(f, v) \subseteq f[v]
        OBVIOUS
      <3>. HIDE DEF Least, Closed, Body
      <3>3. Body(Least, v) \subseteq Body(f, v)
        BY <1>2, <1>3, <3>1, <3>2
      <3>. QED  BY <3>2, <3>3
    <2>2. \A v \in D : Body(Least, v) \subseteq Properties
      BY <1>2
    <2>. HIDE DEF Closed, Body
    <2>. QED  BY <2>1, <2>2
  <1>5. \A v \in D : Least[v] \subseteq Body(Least, v)
    <2>1. \A v \in D : Once[v] \subseteq Least[v] /\ Once[v] = Body(Least, v)
      BY <1>4
    <2>2. \A v \in D : Body(Once, v) \subseteq Body(Least, v)
      <3>. HIDE DEF Least, Once, Body
      <3>. QED  BY <1>2, <1>3, <2>1
    <2>3. Once \in Closed
      <3>. HIDE DEF Least, Once, Body
      <3>. QED  BY <1>2, <2>1, <2>2
    <2>4. \A v \in D : Least[v] \subseteq Once[v]
      <3>. HIDE DEF Closed, Once
      <3>. QED  BY <2>3
    <2>. HIDE DEF Least, Once, Body
    <2>. QED  BY <2>1, <2>4
  <1>6. Solves(Least)
    <2>1. \A v \in D : Least[v] = Body(Least, v)
      <3>. HIDE DEF Least, Body
      <3>. QED  BY <1>4, <1>5
    <2>2. Least = [v \in D |-> Least[v]]
      OBVIOUS
    <2>. HIDE DEF Least, Body
    <2>. QED  BY <2>1, <2>2
  <1>7. CollectSources = CHOOSE f : Solves(f)
    BY Zenon DEF CollectSources, D, Deeper
  <1>8. Solves(CollectSources)
    <2>. HIDE DEF Solves, Least
    <2>. QED  BY <1>6, <1>7
  <1>. DEFINE v == <<n, depth, d>>
  <1>9. v = <<n, depth, d>> /\ v \in D /\ v[1] = n /\ v[2] = depth /\ v[3] = d
    BY DEF D
  <1>10. CollectSources[v] = Body(CollectSources, v)
    <2>. HIDE DEF v, Body
    <2>. QED  BY <1>8, <1>9
  <1>. HIDE DEF v
  <1>. QED  BY <1>9, <1>10 DEF Deeper, Within

(* The level of each node. *)
Levelled(level) ==
  /\ level \in [Nodes -> Nat]
  /\ \A n \in Nodes : Parent[n] # None => level[n] = level[Parent[n]] + 1
Level == CHOOSE level : Levelled(level)

LEMMA NodesAreLevelled == Levelled(Level)
  <1>1. Cardinality(Nodes) \in Nat
    BY TreeAssumption, FS_CardinalityType
  <1>2. \E level : Levelled(level)
    BY <1>1, LevelAssumption DEF Levelled
  <1>. QED  BY <1>2 DEF Level

(* What is monitored for an element, but nothing where the request reads   *)
(* nothing; and of that, what lies below the properties of an asset.       *)
Wanted(i) ==
  IF ~Known(i) \/ (Composition(request.ids[i]) /\ request.depth = 1) THEN {}
  ELSE CollectSources[<<request.ids[i], request.depth, 0>>]

Subassets(n) == {c \in Children(n) : Composition(c)}
FromBelow(n, d) ==
  IF ~Within(request.depth, d + 1) THEN {}
  ELSE UNION {CollectSources[<<c, request.depth, d + 1>>] : c \in Subassets(n)}

(* What a read in flight, and those it leads to, will report. *)
ToCome(r) == IF r.of = {r.at} THEN Wanted(r.item) ELSE r.of \cup FromBelow(r.at, r.d)

LEMMA AssetCollects ==
  ASSUME request \in Requests, NEW n \in Nodes, n \notin Properties, NEW d \in Nat,
         Within(request.depth, d)
  PROVE  CollectSources[<<n, request.depth, d>>] = Direct(n) \cup FromBelow(n, d)
  <1>. DEFINE collected(b) == CollectSources[<<b, request.depth, d + 1>>]
  <1>1. request.depth \in Nat /\ d + 1 \in Nat /\ Children(n) \subseteq Nodes
    BY DataAssumption DEF Children
  <1>2. CollectSources[<<n, request.depth, d>>] = UNION {collected(b) : b \in Children(n)}
    BY <1>1, CollectSourcesUnfolds DEF Within
  <1>3. ASSUME NEW b \in Nodes
        PROVE  /\ b \in Properties => collected(b) = {b}
               /\ b \notin Properties =>
                    \/ collected(b) = {}
                    \/ Within(request.depth, d + 1) /\ Children(b) # {}
    <2>1. Children(b) = {} =>
            UNION {CollectSources[<<c, request.depth, (d + 1) + 1>>] : c \in Children(b)} = {}
      OBVIOUS
    <2>. QED  BY <1>1, <2>1, CollectSourcesUnfolds DEF Within
  <1>4. \A b \in Direct(n) : collected(b) = {b}
    BY <1>1, <1>3 DEF Direct
  <1>5. \A b \in Children(n) \ Direct(n) :
          \/ collected(b) = {}
          \/ b \in Subassets(n) /\ Within(request.depth, d + 1)
    BY <1>1, <1>3 DEF Direct, Subassets, Composition
  <1>6. Direct(n) \subseteq Children(n) /\ Subassets(n) \subseteq Children(n)
    BY DEF Direct, Subassets
  <1>7. FromBelow(n, d) = IF ~Within(request.depth, d + 1) THEN {}
                          ELSE UNION {collected(c) : c \in Subassets(n)}
    BY DEF FromBelow
  <1>. HIDE DEF collected
  <1>. QED  BY <1>2, <1>3, <1>4, <1>5, <1>6, <1>7

(* The reads of an asset report what is monitored for it. *)
LEMMA AssetIsRead ==
  ASSUME request \in Requests, NEW i, NEW b \in Nodes, Composition(b),
         NEW d \in Nat, Within(request.depth, d)
  PROVE  /\ \A o \in ReadsOf(i, b, d) :
              /\ o.item = i /\ o.at = b /\ o.d = d
              /\ o.of \subseteq Direct(b) /\ o.of # {b}
         /\ UNION {ToCome(o) : o \in ReadsOf(i, b, d)}
              = CollectSources[<<b, request.depth, d>>]
  <1>1. b \notin Properties /\ b \notin Direct(b)
    BY DEF Composition, Direct
  <1>2. \A o \in ReadsOf(i, b, d) :
          /\ o.item = i /\ o.at = b /\ o.d = d
          /\ o.of \subseteq Direct(b) /\ o.of # {b}
    BY <1>1 DEF ReadsOf, Read
  <1>3. \A o \in ReadsOf(i, b, d) : ToCome(o) = o.of \cup FromBelow(b, d)
    BY <1>2 DEF ToCome
  <1>4. ReadsOf(i, b, d) # {} /\ UNION {o.of : o \in ReadsOf(i, b, d)} = Direct(b)
    <2>1. CASE request.op = "value" \/ Direct(b) = {}
      <3>1. ReadsOf(i, b, d) = {Read(i, b, d, Direct(b))} /\ Read(i, b, d, Direct(b)).of = Direct(b)
        BY <2>1 DEF ReadsOf, Read
      <3>. QED  BY <3>1
    <2>2. CASE ~(request.op = "value" \/ Direct(b) = {})
      <3>1. ReadsOf(i, b, d) = {Read(i, b, d, {p}) : p \in Direct(b)}
        BY <2>2 DEF ReadsOf
      <3>2. \A p \in Direct(b) : Read(i, b, d, {p}).of = {p}
        BY DEF Read
      <3>3. ReadsOf(i, b, d) # {}
        BY <2>2, <3>1
      <3>4. /\ \A o \in ReadsOf(i, b, d) : \E p \in Direct(b) : o.of = {p}
            /\ \A p \in Direct(b) : \E o \in ReadsOf(i, b, d) : o.of = {p}
        BY <3>1, <3>2
      <3>. QED  BY <3>3, <3>4
    <2>. QED  BY <2>1, <2>2
  <1>5. UNION {ToCome(o) : o \in ReadsOf(i, b, d)} = Direct(b) \cup FromBelow(b, d)
    BY <1>3, <1>4
  <1>. QED  BY <1>1, <1>2, <1>5, AssetCollects

(* A read in flight is the only one of its element, or one of properties   *)
(* of an asset, as many levels down as it says.                            *)
Placed(r) ==
  /\ r.item \in Items /\ Known(r.item) /\ r.at \in Nodes /\ r.d \in Nat
  /\ Level[r.at] = Level[request.ids[r.item]] + r.d
  /\ IF r.of = {r.at}
     THEN r.at = request.ids[r.item] /\ \A o \in reads : o.item = r.item => o = r
     ELSE Composition(r.at) /\ Within(request.depth, r.d) /\ r.of \subseteq Direct(r.at)

RequestIsStaged ==
  /\ request \in Requests
  /\ stage \in {"model", "leaves", "work", "done", "failed"}
  /\ stage = "leaves" => request.op = "value"
  /\ IF request.op = "write" THEN reads = {}
     ELSE /\ writes = [i \in Items |-> "none"]
          /\ \A n \in Nodes : data[n] # None /\ held[n] \subseteq Observable
  /\ data = [n \in Nodes |-> data[n]] /\ held = [n \in Nodes |-> held[n]]

RepliesBegin ==
  /\ reply = [i \in Items |-> [n \in Nodes |-> reply[i][n]]]
  /\ stage \in {"model", "leaves"} => \A i \in Items : Reported(i) = {}

ReadsArePlaced ==
  /\ stage # "work" => reads = {}
  /\ \A r \in reads : Placed(r)

(* Nothing is lost: what is to be reported of an element is reported or to *)
(* come.                                                                   *)
ReadsCover ==
  stage \in {"work", "done"} /\ request.op # "write" =>
    \A i \in Items :
      Wanted(i) = Reported(i) \cup UNION {ToCome(r) : r \in {o \in reads : o.item = i}}

WatchedInv == RequestIsStaged /\ RepliesBegin /\ ReadsArePlaced /\ ReadsCover

(* A step leaves what is wanted as it is. *)
LEMMA WantedStays ==
  ASSUME UNCHANGED request
  PROVE  /\ Items' = Items
         /\ \A i : Wanted(i)' = Wanted(i) /\ (Known(i)' <=> Known(i))
         /\ \A r : ToCome(r)' = ToCome(r)
  BY DEF Items, Wanted, Known, ToCome, FromBelow

(* What is read in place of a read that is answered. *)
Follows(r, more) ==
  /\ \A o \in more : /\ o.item = r.item /\ o.at \in Nodes /\ o.d \in Nat
                     /\ Level[o.at] = Level[request.ids[r.item]] + o.d
                     /\ o.of # {o.at} /\ Composition(o.at)
                     /\ Within(request.depth, o.d) /\ o.of \subseteq Direct(o.at)
  /\ LET others == UNION {ToCome(o) : o \in {o \in reads \ {r} : o.item = r.item}}
     IN ToCome(r) \cup others
          = (r.of \cap Properties) \cup (UNION {ToCome(o) : o \in more}) \cup others

LEMMA FollowsKeeps ==
  ASSUME WatchedInv, NEW r \in reads, NEW more, Follows(r, more), request.op # "write",
         UNCHANGED <<request, data, held, writes>>,
         Work((reads \ {r}) \cup more),
         reply' = [i \in Items |-> [n \in Nodes |-> reply'[i][n]]],
         \A i \in Items :
           Reported(i)' = Reported(i) \cup (IF i = r.item THEN r.of \cap Properties ELSE {})
  PROVE  WatchedInv'
  <1>1. /\ stage = "work" /\ stage' \in {"work", "done"}
        /\ reads' = (reads \ {r}) \cup more /\ (stage' # "work" => reads' = {})
    BY DEF Work, StageAfter, WatchedInv, ReadsArePlaced
  <1>2. RequestIsStaged' /\ RepliesBegin'
    <2>1. RequestIsStaged'
      BY <1>1 DEF WatchedInv, RequestIsStaged, Items
    <2>2. RepliesBegin'
      BY <1>1 DEF RepliesBegin, Items
    <2>. QED  BY <2>1, <2>2
  <1>3. ReadsArePlaced'
    <2>1. ASSUME NEW o \in (reads \ {r}) \cup more PROVE Placed(o)'
      <3>1. CASE o \in more
        BY <1>1, <3>1 DEF WatchedInv, ReadsArePlaced, Placed, Follows, Items, Known
      <3>2. CASE o \in reads \ {r}
        <4>1. Placed(o)
          BY <3>2 DEF WatchedInv, ReadsArePlaced
        <4>2. o.of = {o.at} => o.item # r.item
          BY <3>2, <4>1 DEF Placed
        <4>3. o.of = {o.at} => \A q \in reads' : q.item = o.item => q = o
          BY <1>1, <4>1, <4>2 DEF Placed, Follows
        <4>. QED  BY <4>1, <4>3 DEF Placed, Items, Known
      <3>. QED  BY <3>1, <3>2
    <2>. QED  BY <1>1, <2>1 DEF ReadsArePlaced
  <1>4. ReadsCover'
    <2>1. ASSUME NEW i \in Items
          PROVE  Wanted(i) = Reported(i)' \cup
                   UNION {ToCome(o) : o \in {o \in reads' : o.item = i}}
      <3>1. Wanted(i) = Reported(i) \cup UNION {ToCome(o) : o \in {o \in reads : o.item = i}}
        BY <1>1 DEF WatchedInv, ReadsCover
      <3>2. CASE i # r.item
        <4>1. {o \in reads' : o.item = i} = {o \in reads : o.item = i}
          BY <1>1, <3>2 DEF Follows
        <4>. QED  BY <3>1, <3>2, <4>1
      <3>3. CASE i = r.item
        <4>. DEFINE others == {o \in reads \ {r} : o.item = i}
        <4>1. /\ {o \in reads : o.item = i} = others \cup {r}
              /\ {o \in reads' : o.item = i} = others \cup more
          BY <1>1, <3>3 DEF Follows
        <4>2. ToCome(r) \cup UNION {ToCome(o) : o \in others}
                = (r.of \cap Properties) \cup (UNION {ToCome(o) : o \in more})
                    \cup (UNION {ToCome(o) : o \in others})
          BY <3>3 DEF Follows
        <4>3. Reported(i)' = Reported(i) \cup (r.of \cap Properties)
          BY <3>3
        <4>. HIDE DEF others
        <4>4. /\ UNION {ToCome(o) : o \in others \cup {r}}
                   = ToCome(r) \cup UNION {ToCome(o) : o \in others}
              /\ UNION {ToCome(o) : o \in others \cup more}
                   = (UNION {ToCome(o) : o \in more}) \cup (UNION {ToCome(o) : o \in others})
          OBVIOUS
        <4>. QED  BY <3>1, <4>1, <4>2, <4>3, <4>4
      <3>. QED  BY <3>2, <3>3
    <2>2. \A i \in Items :
            UNION {ToCome(o)' : o \in {o \in reads' : o.item = i}}
              = UNION {ToCome(o) : o \in {o \in reads' : o.item = i}}
      BY WantedStays
    <2>. QED  BY <2>1, <2>2, WantedStays DEF ReadsCover
  <1>. QED  BY <1>2, <1>3, <1>4 DEF WatchedInv

(* The reads an element begins with. *)
LEMMA FirstReadsCover ==
  ASSUME request \in Requests, NEW i \in Roots
  PROVE  /\ \A o \in FirstReads(i) :
              /\ o.item = i /\ o.at = request.ids[i] /\ o.d = 0
              /\ Within(request.depth, o.d)
              /\ o.of \subseteq Direct(o.at) /\ o.of # {o.at}
         /\ UNION {ToCome(o) : o \in FirstReads(i)} = Wanted(i)
  <1>1. /\ request.ids[i] \in Nodes /\ Composition(request.ids[i]) /\ Known(i)
        /\ request.depth \in Nat
    BY DataAssumption DEF Roots, Known
  <1>2. Within(request.depth, 0)
    BY <1>1 DEF Within
  <1>3. CASE request.depth = 1
    <2>1. FirstReads(i) = {} /\ Wanted(i) = {}
      BY <1>1, <1>3 DEF FirstReads, Wanted
    <2>. QED  BY <2>1
  <1>4. CASE request.depth # 1
    <2>1. /\ FirstReads(i) = ReadsOf(i, request.ids[i], 0)
          /\ Wanted(i) = CollectSources[<<request.ids[i], request.depth, 0>>]
      BY <1>1, <1>4 DEF FirstReads, Wanted
    <2>2. 0 \in Nat
      OBVIOUS
    <2>3. /\ \A o \in ReadsOf(i, request.ids[i], 0) :
               /\ o.item = i /\ o.at = request.ids[i] /\ o.d = 0
               /\ Within(request.depth, o.d)
               /\ o.of \subseteq Direct(o.at) /\ o.of # {o.at}
          /\ UNION {ToCome(o) : o \in ReadsOf(i, request.ids[i], 0)}
               = CollectSources[<<request.ids[i], request.depth, 0>>]
      BY <1>1, <1>2, <2>2, AssetIsRead
    <2>. QED  BY <2>1, <2>3
  <1>. QED  BY <1>3, <1>4

(* Properties that are answered are followed by what is below their asset. *)
LEMMA BelowFollows ==
  ASSUME WatchedInv, NEW r \in reads, r.of \subseteq Properties
  PROVE  Follows(r, Below(r))
  <1>1. /\ Placed(r) /\ request \in Requests /\ request.depth \in Nat
        /\ r.of \cap Properties = r.of
    BY DataAssumption DEF WatchedInv, ReadsArePlaced, RequestIsStaged
  <1>. DEFINE others == {o \in reads \ {r} : o.item = r.item}
  <1>2. CASE r.of = {r.at}
    <2>1. Below(r) = {} /\ r.at \in Properties /\ r.at = request.ids[r.item]
      BY <1>1, <1>2 DEF Below, Placed
    <2>2. Wanted(r.item) = {r.at}
      BY <1>1, <2>1, CollectSourcesUnfolds DEF Wanted, Placed, Composition
    <2>3. ToCome(r) = r.of
      BY <1>2, <2>2 DEF ToCome
    <2>. QED  BY <1>1, <2>1, <2>3 DEF Follows
  <1>3. CASE r.of # {r.at} /\ \E o \in others : o.at = r.at
    <2>1. PICK o \in others : o.at = r.at
      BY <1>3
    <2>2. Placed(o)
      BY DEF WatchedInv, ReadsArePlaced
    <2>3. o.of # {o.at} /\ o.d = r.d
      <3>1. o.of # {o.at}
        BY <2>1, <2>2 DEF Placed
      <3>2. Level[r.at] \in Nat /\ Level[request.ids[r.item]] \in Nat
        BY <1>1, NodesAreLevelled DEF Placed, Levelled, Known
      <3>. QED  BY <1>1, <2>1, <2>2, <3>1, <3>2 DEF Placed
    <2>4. ToCome(r) = r.of \cup FromBelow(r.at, r.d) /\ FromBelow(r.at, r.d) \subseteq ToCome(o)
      BY <1>3, <2>1, <2>3 DEF ToCome
    <2>5. Below(r) = {}
      BY <2>1 DEF Below
    <2>6. ToCome(o) \subseteq UNION {ToCome(q) : q \in others}
      OBVIOUS
    <2>. QED  BY <1>1, <2>4, <2>5, <2>6 DEF Follows
  <1>4. CASE r.of # {r.at} /\ ~\E o \in others : o.at = r.at
    <2>. DEFINE under == Subassets(r.at)
                reading(b) == ReadsOf(r.item, b, r.d + 1)
    <2>1. /\ Composition(r.at) /\ r.at \in Nodes \ Properties /\ r.d + 1 \in Nat
          /\ ToCome(r) = r.of \cup FromBelow(r.at, r.d)
      BY <1>1, <1>4 DEF Placed, Composition, ToCome
    <2>2. CASE ~Within(request.depth, r.d + 1)
      <3>1. Below(r) = {} /\ FromBelow(r.at, r.d) = {}
        BY <2>2 DEF Below, FromBelow
      <3>. QED  BY <1>1, <2>1, <3>1 DEF Follows
    <2>3. CASE Within(request.depth, r.d + 1)
      <3>1. Below(r) = UNION {reading(b) : b \in under}
        BY <1>4, <2>1, <2>3 DEF Below, Subassets
      <3>2. ASSUME NEW b \in under
            PROVE  /\ b \in Nodes /\ Composition(b)
                   /\ Level[b] = Level[request.ids[r.item]] + (r.d + 1)
                   /\ \A o \in reading(b) :
                        /\ o.item = r.item /\ o.at = b /\ o.d = r.d + 1
                        /\ o.of \subseteq Direct(b) /\ o.of # {b}
                   /\ UNION {ToCome(o) : o \in reading(b)}
                        = CollectSources[<<b, request.depth, r.d + 1>>]
        <4>1. b \in Nodes /\ Composition(b) /\ Parent[b] = r.at
          BY DEF Subassets, Children
        <4>2. Level[b] = Level[r.at] + 1
          BY <1>1, <4>1, NodesAreLevelled, TreeAssumption DEF Levelled, Placed
        <4>3. Level[request.ids[r.item]] \in Nat
          BY <1>1, NodesAreLevelled DEF Levelled, Placed, Known
        <4>4. Level[b] = Level[request.ids[r.item]] + (r.d + 1)
          BY <1>1, <4>2, <4>3 DEF Placed
        <4>. DEFINE e == r.d + 1
        <4>5. e \in Nat /\ Within(request.depth, e)
          BY <2>1, <2>3
        <4>. HIDE DEF e
        <4>6. /\ \A o \in ReadsOf(r.item, b, e) :
                   /\ o.item = r.item /\ o.at = b /\ o.d = e
                   /\ o.of \subseteq Direct(b) /\ o.of # {b}
              /\ UNION {ToCome(o) : o \in ReadsOf(r.item, b, e)}
                   = CollectSources[<<b, request.depth, e>>]
          BY <1>1, <4>1, <4>5, AssetIsRead
        <4>. HIDE DEF under
        <4>. QED  BY <4>1, <4>4, <4>6 DEF e
      <3>3. FromBelow(r.at, r.d)
              = UNION {CollectSources[<<b, request.depth, r.d + 1>>] : b \in under}
        BY <2>3 DEF FromBelow
      <3>. HIDE DEF under, reading
      <3>4. UNION {ToCome(o) : o \in Below(r)} = FromBelow(r.at, r.d)
        <4>1. \A o : o \in Below(r) <=> \E b \in under : o \in reading(b)
          BY <3>1
        <4>2. \A b \in under : \A p :
                p \in CollectSources[<<b, request.depth, r.d + 1>>]
                  <=> \E o \in reading(b) : p \in ToCome(o)
          BY <3>2
        <4>3. ASSUME NEW b \in under, NEW o \in reading(b)
              PROVE  ToCome(o) \subseteq FromBelow(r.at, r.d)
          BY <3>3, <4>2
        <4>4. ASSUME NEW o \in Below(r) PROVE ToCome(o) \subseteq FromBelow(r.at, r.d)
          BY <4>1, <4>3
        <4>5. ASSUME NEW p \in FromBelow(r.at, r.d)
              PROVE  \E o \in Below(r) : p \in ToCome(o)
          <5>1. PICK b \in under : p \in CollectSources[<<b, request.depth, r.d + 1>>]
            BY <3>3
          <5>. QED  BY <4>1, <4>2, <5>1
        <4>. QED  BY <4>4, <4>5
      <3>5. \A o \in Below(r) :
              /\ o.item = r.item /\ o.at \in Nodes /\ o.d \in Nat
              /\ Level[o.at] = Level[request.ids[r.item]] + o.d
              /\ o.of # {o.at} /\ Composition(o.at)
              /\ Within(request.depth, o.d) /\ o.of \subseteq Direct(o.at)
        <4>1. SUFFICES ASSUME NEW b \in under, NEW o \in reading(b)
                       PROVE  /\ o.item = r.item /\ o.at \in Nodes /\ o.d \in Nat
                              /\ Level[o.at] = Level[request.ids[r.item]] + o.d
                              /\ o.of # {o.at} /\ Composition(o.at)
                              /\ Within(request.depth, o.d) /\ o.of \subseteq Direct(o.at)
          BY <3>1
        <4>2. /\ b \in Nodes /\ Composition(b)
              /\ Level[b] = Level[request.ids[r.item]] + (r.d + 1)
          BY <3>2
        <4>3. /\ o.item = r.item /\ o.at = b /\ o.d = r.d + 1
              /\ o.of \subseteq Direct(b) /\ o.of # {b}
          BY <3>2
        <4>. QED  BY <2>1, <2>3, <4>2, <4>3
      <3>. QED  BY <1>1, <2>1, <3>4, <3>5 DEF Follows
    <2>. QED  BY <2>2, <2>3
  <1>. HIDE DEF others
  <1>. QED  BY <1>2, <1>3, <1>4

(* The history of an asset's own node is followed by what the element      *)
(* begins with.                                                            *)
LEMMA InstanceFollows ==
  ASSUME WatchedInv, NEW r \in reads, r.of = {r.at}, r.at \notin Properties
  PROVE  Follows(r, IF Composition(r.at) THEN FirstReads(r.item) ELSE {})
  <1>1. /\ Placed(r) /\ request \in Requests /\ request.depth \in Nat
        /\ r.of \cap Properties = {} /\ r.at = request.ids[r.item]
        /\ Known(r.item) /\ r.item \in Items
    BY DataAssumption DEF WatchedInv, ReadsArePlaced, RequestIsStaged, Placed
  <1>2. ToCome(r) = Wanted(r.item)
    BY DEF ToCome
  <1>3. CASE Composition(r.at)
    <2>1. r.item \in Roots
      BY <1>1, <1>3 DEF Roots
    <2>2. Level[r.at] \in Nat
      BY <1>1, NodesAreLevelled DEF Levelled, Known
    <2>. QED  BY <1>1, <1>2, <1>3, <2>1, <2>2, FirstReadsCover DEF Follows, Known
  <1>4. CASE ~Composition(r.at)
    <2>1. Children(r.at) = {}
      BY <1>4 DEF Composition
    <2>2. CollectSources[<<r.at, request.depth, 0>>] = {}
      <3>1. UNION {CollectSources[<<b, request.depth, 0 + 1>>] : b \in Children(r.at)} = {}
        BY <2>1
      <3>2. r.at \in Nodes /\ 0 \in Nat
        BY <1>1 DEF Known
      <3>. QED  BY <1>1, <3>1, <3>2, CollectSourcesUnfolds DEF Within
    <2>3. Wanted(r.item) = {}
      BY <1>1, <2>2 DEF Wanted
    <2>. QED  BY <1>1, <1>2, <1>4, <2>3 DEF Follows
  <1>. QED  BY <1>3, <1>4

(* What may be seen of a source that only the plant changes. *)
Seen == \A n \in Nodes : data[n] # None /\ held[n] \subseteq Observable

LEMMA InitWatched == Init => WatchedInv
  <1>. SUFFICES ASSUME Init PROVE WatchedInv
    OBVIOUS
  <1>1. /\ request \in Requests /\ data = FirstData /\ stage = "model"
        /\ held = [n \in Nodes |-> {data[n]}]
        /\ reads = {} /\ writes = [i \in Items |-> "none"] /\ reply = Empty
    BY DEF Init
  <1>2. /\ \A n \in Nodes : data[n] # None /\ held[n] \subseteq Observable
        /\ held = [n \in Nodes |-> held[n]]
    BY <1>1, DataAssumption DEF Observable
  <1>3. RequestIsStaged
    BY <1>1, <1>2, DataAssumption DEF RequestIsStaged
  <1>4. RepliesBegin
    <2>1. \A i \in Items, n \in Nodes : reply[i][n] = None
      BY <1>1 DEF Empty
    <2>2. reply = [i \in Items |-> [n \in Nodes |-> reply[i][n]]]
      BY <1>1 DEF Empty
    <2>. QED  BY <2>1, <2>2, TreeAssumption DEF RepliesBegin, Reported
  <1>. QED  BY <1>1, <1>3, <1>4 DEF WatchedInv, ReadsArePlaced, ReadsCover

(* A step of the request's surroundings. *)
LEMMA WatchedStays ==
  ASSUME WatchedInv, UNCHANGED <<request, stage, reads, reply>>,
         request.op # "write" => UNCHANGED writes /\ Seen',
         data' = [n \in Nodes |-> data'[n]], held' = [n \in Nodes |-> held'[n]]
  PROVE  WatchedInv'
  <1>1. RequestIsStaged'
    BY DEF WatchedInv, RequestIsStaged, Items, Seen
  <1>2. RepliesBegin'
    BY DEF WatchedInv, RepliesBegin, Reported, Items
  <1>3. ReadsArePlaced'
    BY DEF WatchedInv, ReadsArePlaced, Placed, Items, Known
  <1>4. ReadsCover'
    <2>1. \A i : Reported(i)' = Reported(i)
      BY DEF Reported
    <2>. QED  BY <2>1, WantedStays DEF WatchedInv, ReadsCover
  <1>. QED  BY <1>1, <1>2, <1>3, <1>4 DEF WatchedInv

(* A write, whose answers are none of the reads'. *)
LEMMA WritesStay ==
  ASSUME WatchedInv, request.op = "write", UNCHANGED <<request, reads, reply>>,
         stage' \in {"work", "done"},
         data' = [n \in Nodes |-> data'[n]], held' = [n \in Nodes |-> held'[n]]
  PROVE  WatchedInv'
  <1>1. RequestIsStaged'
    BY DEF WatchedInv, RequestIsStaged
  <1>2. RepliesBegin' /\ ReadsArePlaced' /\ ReadsCover'
    BY DEF WatchedInv, RequestIsStaged, RepliesBegin, ReadsArePlaced, ReadsCover, Items
  <1>. QED  BY <1>1, <1>2 DEF WatchedInv

(* Properties that are answered are reported. *)
LEMMA AnsweredAreReported ==
  ASSUME RepliesBegin, NEW r, NEW answer, Answers(r, answer), UNCHANGED request,
         \A p \in Properties : p \in r.of => answer[p] # None
  PROVE  /\ reply' = [i \in Items |-> [n \in Nodes |-> reply'[i][n]]]
         /\ \A i \in Items :
              Reported(i)' = Reported(i) \cup
                (IF i = r.item THEN r.of \cap Properties ELSE {})
  <1>1. reply = [i \in Items |-> [n \in Nodes |-> reply[i][n]]]
    BY DEF RepliesBegin
  <1>2. reply' = [i \in Items |-> [n \in Nodes |->
                    IF i = r.item /\ n \in r.of THEN answer[n] ELSE reply[i][n]]]
    BY <1>1 DEF Answers
  <1>3. \A i \in Items, p \in Properties :
          reply'[i][p] = IF i = r.item /\ p \in r.of THEN answer[p] ELSE reply[i][p]
    BY <1>2, TreeAssumption
  <1>4. reply' = [i \in Items |-> [n \in Nodes |-> reply'[i][n]]]
    BY <1>2
  <1>. QED  BY <1>3, <1>4 DEF Reported

LEMMA NormalizedIsAnswer ==
  ASSUME NEW datum, datum # None PROVE Normalize(datum) # None
  BY DataAssumption DEF Normalize

LEMMA SeenAreAnswers ==
  ASSUME Seen, NEW p \in Nodes, NEW answer \in AnswersFor(p)
  PROVE  answer # None
  <1>1. CASE request.op = "value"
    BY <1>1, NormalizedIsAnswer DEF AnswersFor, Seen
  <1>2. CASE request.op # "value"
    <2>1. PICK seen \in SUBSET EverHeld(p) : answer = History(seen)
      BY <1>2 DEF AnswersFor
    <2>2. EverHeld(p) \subseteq Observable
      BY DEF EverHeld, Seen, Observable
    <2>3. answer \in [values : SUBSET Observable]
      BY <2>1, <2>2 DEF History
    <2>. QED  BY <2>3, DataAssumption
  <1>. QED  BY <1>1, <1>2

LEMMA WatchedReads ==
  ASSUME WatchedInv, request.op # "write", NEW r \in reads,
         PropertiesRead(r) \/ PropertiesFail(r) \/ InstanceRead(r)
  PROVE  WatchedInv'
  <1>1. RepliesBegin /\ UNCHANGED <<request, data, held, writes>> /\ Seen
    BY DEF WatchedInv, RequestIsStaged, PropertiesRead, PropertiesFail, InstanceRead, sourceVars,
           Seen
  <1>2. CASE PropertiesRead(r)
    <2>1. PICK answer \in [r.of -> UNION {AnswersFor(p) : p \in r.of}] :
            /\ r.of \subseteq Properties /\ Answers(r, answer)
            /\ \A p \in r.of : answer[p] \in AnswersFor(p)
            /\ Work((reads \ {r}) \cup Below(r))
      BY <1>2 DEF PropertiesRead
    <2>2. \A p \in Properties : p \in r.of => answer[p] # None
      BY <1>1, <2>1, SeenAreAnswers, TreeAssumption
    <2>. QED  BY <1>1, <2>1, <2>2, AnsweredAreReported, BelowFollows, FollowsKeeps
  <1>3. CASE PropertiesFail(r) /\ request.op = "history"
    <2>. DEFINE answer == [p \in r.of |-> Unsupported]
    <2>1. /\ r.of \subseteq Properties /\ Answers(r, answer)
          /\ Work((reads \ {r}) \cup Below(r))
      BY <1>3 DEF PropertiesFail
    <2>2. \A p \in Properties : p \in r.of => answer[p] # None
      BY DataAssumption
    <2>. HIDE DEF answer
    <2>. QED  BY <1>1, <2>1, <2>2, AnsweredAreReported, BelowFollows, FollowsKeeps
  <1>4. CASE PropertiesFail(r) /\ request.op # "history"
    <2>1. stage' = "failed" /\ reads' = {} /\ UNCHANGED reply
      BY <1>4 DEF PropertiesFail
    <2>2. RequestIsStaged' /\ RepliesBegin'
      <3>1. RequestIsStaged'
        BY <1>1, <2>1 DEF WatchedInv, RequestIsStaged, Items
      <3>2. RepliesBegin'
        BY <1>1, <2>1 DEF RepliesBegin, Items
      <3>. QED  BY <3>1, <3>2
    <2>. QED  BY <2>1, <2>2 DEF WatchedInv, ReadsArePlaced, ReadsCover
  <1>5. CASE InstanceRead(r)
    <2>. DEFINE more == IF Composition(r.at) THEN FirstReads(r.item) ELSE {}
    <2>1. /\ r.of = {r.at} /\ r.at \notin Properties
          /\ \E answer : Answers(r, [n \in {r.at} |-> answer])
          /\ Work((reads \ {r}) \cup more)
      BY <1>5 DEF InstanceRead
    <2>2. PICK answer : Answers(r, [n \in {r.at} |-> answer])
      BY <2>1
    <2>3. Follows(r, more)
      BY <2>1, InstanceFollows
    <2>4. \A p \in Properties : p \in r.of => [n \in {r.at} |-> answer][p] # None
      BY <2>1
    <2>. HIDE DEF more
    <2>. QED  BY <1>1, <2>1, <2>2, <2>3, <2>4, AnsweredAreReported, FollowsKeeps
  <1>. QED  BY <1>2, <1>3, <1>4, <1>5

(* The reads a request begins with. *)
Begins(pending) ==
  /\ \A o \in pending :
       /\ o.item \in Items /\ Known(o.item) /\ o.at = request.ids[o.item] /\ o.d = 0
       /\ IF o.of = {o.at} THEN \A q \in pending : q.item = o.item => q = o
          ELSE Composition(o.at) /\ Within(request.depth, o.d) /\ o.of \subseteq Direct(o.at)

LEMMA BeginKeeps ==
  ASSUME WatchedInv, NEW pending, Begins(pending), Work(pending), request.op # "write",
         UNCHANGED <<request, data, held, writes>>,
         reply' = [i \in Items |-> [n \in Nodes |-> reply'[i][n]]],
         \A i \in Items :
           Wanted(i) = Reported(i)' \cup
             (UNION {ToCome(o) : o \in {o \in pending : o.item = i}})
  PROVE  WatchedInv'
  <1>1. /\ stage' \in {"work", "done"} /\ reads' = pending
        /\ stage' # "work" => reads' = {}
    BY DEF Work, StageAfter
  <1>2. RequestIsStaged'
    BY <1>1 DEF WatchedInv, RequestIsStaged, Items
  <1>3. RepliesBegin'
    BY <1>1 DEF RepliesBegin, Items
  <1>4. ReadsArePlaced'
    <2>1. ASSUME NEW o \in pending PROVE Placed(o)'
      <3>1. Level[o.at] = Level[request.ids[o.item]] + o.d
        BY NodesAreLevelled DEF Begins, Known, Levelled
      <3>. QED  BY <1>1, <3>1 DEF Placed, Begins, Items, Known
    <2>. QED  BY <1>1, <2>1 DEF ReadsArePlaced
  <1>5. ReadsCover'
    <2>1. \A i \in Items :
            UNION {ToCome(o)' : o \in {o \in reads' : o.item = i}}
              = UNION {ToCome(o) : o \in {o \in pending : o.item = i}}
      BY <1>1, WantedStays
    <2>. QED  BY <2>1, WantedStays DEF ReadsCover
  <1>. QED  BY <1>2, <1>3, <1>4, <1>5 DEF WatchedInv

(* The assets begin with their own properties. *)
LEMMA RootsBegin ==
  ASSUME request \in Requests, NEW pending,
         pending = UNION {FirstReads(i) : i \in Roots}
  PROVE  /\ Begins(pending)
         /\ \A i \in Roots : UNION {ToCome(o) : o \in {o \in pending : o.item = i}} = Wanted(i)
         /\ \A i \in Items \ Roots : {o \in pending : o.item = i} = {}
  <1>1. \A i \in Roots : \A o \in FirstReads(i) :
          /\ o.item = i /\ o.at = request.ids[i] /\ o.d = 0
          /\ Within(request.depth, o.d)
          /\ o.of \subseteq Direct(o.at) /\ o.of # {o.at}
    BY FirstReadsCover
  <1>2. \A i \in Roots : i \in Items /\ Known(i) /\ Composition(request.ids[i])
    BY DEF Roots
  <1>3. \A i \in Roots : {o \in pending : o.item = i} = FirstReads(i)
    BY <1>1
  <1>4. \A i \in Items \ Roots : {o \in pending : o.item = i} = {}
    BY <1>1
  <1>5. Begins(pending)
    <2>1. ASSUME NEW i \in Roots, NEW o \in FirstReads(i)
          PROVE  /\ o.item \in Items /\ Known(o.item) /\ o.at = request.ids[o.item] /\ o.d = 0
                 /\ o.of # {o.at} /\ Composition(o.at)
                 /\ Within(request.depth, o.d) /\ o.of \subseteq Direct(o.at)
      BY <1>1, <1>2
    <2>. QED  BY <2>1 DEF Begins
  <1>. QED  BY <1>3, <1>4, <1>5, FirstReadsCover

(* An element that is no asset with components: its own source, if any. *)
LEMMA LeafCollects ==
  ASSUME request \in Requests, NEW i \in Leaves
  PROVE  Wanted(i) = {request.ids[i]} \cap Properties
  <1>1. /\ request.ids[i] \in Nodes /\ ~Composition(request.ids[i]) /\ Known(i)
        /\ request.depth \in Nat /\ 0 \in Nat
    BY DataAssumption DEF Leaves, Known
  <1>2. CASE request.ids[i] \in Properties
    <2>1. CollectSources[<<request.ids[i], request.depth, 0>>] = {request.ids[i]}
      BY <1>1, <1>2, CollectSourcesUnfolds
    <2>. QED  BY <1>1, <1>2, <2>1 DEF Wanted
  <1>3. CASE request.ids[i] \notin Properties
    <2>1. Children(request.ids[i]) = {}
      BY <1>1, <1>3 DEF Composition
    <2>2. UNION {CollectSources[<<b, request.depth, 0 + 1>>] :
                   b \in Children(request.ids[i])} = {}
      BY <2>1
    <2>3. CollectSources[<<request.ids[i], request.depth, 0>>] = {}
      BY <1>1, <1>3, <2>2, CollectSourcesUnfolds DEF Within
    <2>. QED  BY <1>1, <1>3, <2>3 DEF Wanted
  <1>. QED  BY <1>2, <1>3

LEMMA WatchedBegins ==
  ASSUME WatchedInv, ModelReady \/ LeavesRead
  PROVE  WatchedInv'
  <1>1. /\ request \in Requests /\ UNCHANGED <<request, data, held, writes>>
        /\ stage \in {"model", "leaves"} /\ \A i \in Items : Reported(i) = {}
        /\ request.op # "write" /\ reads = {}
        /\ reply = [i \in Items |-> [n \in Nodes |-> reply[i][n]]]
        /\ \A n \in Nodes : data[n] # None
    BY DEF WatchedInv, RequestIsStaged, RepliesBegin, ReadsArePlaced, ModelReady, LeavesRead,
           sourceVars
  <1>2. Items = Roots \cup Leaves \cup {i \in Items : ~Known(i)} /\ Roots \cap Leaves = {}
    BY DEF Roots, Leaves
  <1>3. \A i \in Items : ~Known(i) => Wanted(i) = {}
    BY DEF Wanted
  <1>. DEFINE first == UNION {FirstReads(i) : i \in Roots}
              ownRead(i) == Read(i, request.ids[i], 0, {request.ids[i]})
              own == {ownRead(i) : i \in Roots \cup Leaves}
  <1>4. CASE ModelReady /\ request.op = "value" /\ Leaves # {}
    <2>1. stage' = "leaves" /\ UNCHANGED <<reads, reply>>
      BY <1>4 DEF ModelReady
    <2>2. \A i : Reported(i)' = Reported(i)
      BY <2>1 DEF Reported
    <2>3. RequestIsStaged' /\ RepliesBegin'
      <3>1. RequestIsStaged'
        BY <1>1, <1>4, <2>1 DEF WatchedInv, RequestIsStaged, Items
      <3>2. RepliesBegin'
        BY <1>1, <2>1, <2>2 DEF RepliesBegin, Items
      <3>. QED  BY <3>1, <3>2
    <2>. QED  BY <1>1, <2>1, <2>3 DEF WatchedInv, ReadsArePlaced, ReadsCover
  <1>5. CASE ModelReady /\ request.op = "value" /\ Leaves = {}
    <2>1. Work(first) /\ UNCHANGED reply /\ \A i \in Items : Reported(i)' = {}
      BY <1>1, <1>5 DEF ModelReady, Reported
    <2>. HIDE DEF first
    <2>2. /\ Begins(first)
          /\ \A i \in Roots : UNION {ToCome(o) : o \in {o \in first : o.item = i}} = Wanted(i)
          /\ \A i \in Items \ Roots : {o \in first : o.item = i} = {}
      BY <1>1, RootsBegin DEF first
    <2>3. \A i \in Items : Wanted(i) = Reported(i)' \cup
             (UNION {ToCome(o) : o \in {o \in first : o.item = i}})
      BY <1>2, <1>3, <1>5, <2>1, <2>2
    <2>. QED  BY <1>1, <2>1, <2>2, <2>3, BeginKeeps
  <1>6. CASE ModelReady /\ request.op # "value"
    <2>1. Work(own) /\ UNCHANGED reply /\ \A i \in Items : Reported(i)' = {}
      BY <1>1, <1>6 DEF ModelReady, Reported
    <2>2. /\ \A o \in own : /\ o.item \in Roots \cup Leaves
                              /\ o.at = request.ids[o.item] /\ o.d = 0 /\ o.of = {o.at}
          /\ \A i \in Roots \cup Leaves : \E o \in own : o.item = i
          /\ \A o, q \in own : o.item = q.item => o = q
      <3>1. \A i \in Roots \cup Leaves :
              /\ ownRead(i).item = i /\ ownRead(i).at = request.ids[i]
              /\ ownRead(i).d = 0 /\ ownRead(i).of = {request.ids[i]}
        BY DEF Read
      <3>. HIDE DEF ownRead
      <3>. QED  BY <3>1
    <2>. HIDE DEF own
    <2>3. Begins(own)
      <3>1. \A o \in own : o.item \in Items /\ Known(o.item)
        BY <2>2 DEF Roots, Leaves
      <3>. QED  BY <2>2, <3>1 DEF Begins
    <2>4. \A o \in own : ToCome(o) = Wanted(o.item)
      BY <2>2 DEF ToCome
    <2>5. ASSUME NEW i \in Items
          PROVE  Wanted(i) = UNION {ToCome(o) : o \in {o \in own : o.item = i}}
      BY <1>2, <1>3, <2>2, <2>4
    <2>. QED  BY <1>1, <2>1, <2>3, <2>5, BeginKeeps
  <1>7. CASE LeavesRead
    <2>1. PICK batch \in {[k \in Places |-> data[request.ids[LeafAt(k)]]],
                          [k \in Places |-> NoData]} :
            reply' = [i \in Items |-> [n \in Nodes |->
              IF i \in Leaves /\ n = request.ids[i] THEN Normalize(batch[Place(i)])
              ELSE reply[i][n]]]
      BY <1>7 DEF LeavesRead
    <2>2. ASSUME NEW i \in Leaves PROVE Normalize(batch[Place(i)]) # None
      <3>1. batch[Place(i)] \in {data[request.ids[i]], NoData}
        BY <1>1, <2>1, PlacesAreOwn
      <3>2. request.ids[i] \in Nodes
        BY DEF Leaves, Known
      <3>. QED  BY <1>1, <3>1, <3>2, NormalizedIsAnswer, DataAssumption
    <2>3. Work(first)
      BY <1>7 DEF LeavesRead
    <2>4. reply' = [i \in Items |-> [n \in Nodes |-> reply'[i][n]]]
      BY <2>1
    <2>5. /\ \A i \in Items \ Leaves : Reported(i)' = {}
          /\ \A i \in Leaves : Reported(i)' = {request.ids[i]} \cap Properties
      <3>1. \A i \in Items, p \in Properties :
              reply'[i][p] = IF i \in Leaves /\ p = request.ids[i]
                             THEN Normalize(batch[Place(i)]) ELSE reply[i][p]
        BY <2>1, TreeAssumption
      <3>2. \A i \in Items, p \in Properties : reply[i][p] = None
        BY <1>1 DEF Reported
      <3>3. Leaves \subseteq Items
        BY DEF Leaves
      <3>. QED  BY <2>2, <3>1, <3>2, <3>3 DEF Reported
    <2>. HIDE DEF first
    <2>6. /\ Begins(first)
          /\ \A i \in Roots : UNION {ToCome(o) : o \in {o \in first : o.item = i}} = Wanted(i)
          /\ \A i \in Items \ Roots : {o \in first : o.item = i} = {}
      BY <1>1, RootsBegin DEF first
    <2>7. \A i \in Items : Wanted(i) = Reported(i)' \cup
             (UNION {ToCome(o) : o \in {o \in first : o.item = i}})
      BY <1>1, <1>2, <1>3, <2>5, <2>6, LeafCollects
    <2>. QED  BY <1>1, <2>3, <2>4, <2>6, <2>7, BeginKeeps
  <1>. QED  BY <1>4, <1>5, <1>6, <1>7

LEMMA WatchedStep == WatchedInv /\ [Next]_vars => WatchedInv'
  <1>. SUFFICES ASSUME WatchedInv, [Next]_vars PROVE WatchedInv'
    OBVIOUS
  <1>1. /\ data = [n \in Nodes |-> data[n]] /\ held = [n \in Nodes |-> held[n]]
        /\ request.op # "write" => writes = [i \in Items |-> "none"] /\ Seen
        /\ request.op = "write" => reads = {} /\ stage # "leaves"
    BY DEF WatchedInv, RequestIsStaged, Seen
  <1>2. ASSUME NEW p \in Properties, NEW datum \in Data, Change(p, datum)
        PROVE  WatchedInv'
    <2>1. /\ data' = [data EXCEPT ![p] = datum] /\ datum # None
          /\ held' = [held EXCEPT ![p] = held[p] \cup {datum}] /\ datum \in Observable
          /\ UNCHANGED <<request, stage, reads, writes, reply>>
      BY <1>2, DataAssumption DEF Change, Holds, Observable
    <2>2. /\ data' = [n \in Nodes |-> data'[n]] /\ held' = [n \in Nodes |-> held'[n]]
          /\ \A n \in Nodes : data'[n] = IF n = p THEN datum ELSE data[n]
          /\ \A n \in Nodes : held'[n] = IF n = p THEN held[n] \cup {datum} ELSE held[n]
      BY <1>1, <2>1
    <2>3. Seen => Seen'
      BY <2>1, <2>2 DEF Seen
    <2>. QED  BY <1>1, <2>1, <2>2, <2>3, WatchedStays
  <1>3. ASSUME NEW r \in reads, PropertiesRead(r) \/ PropertiesFail(r) \/ InstanceRead(r)
        PROVE  WatchedInv'
    BY <1>1, <1>3, WatchedReads
  <1>4. CASE Write
    <2>. DEFINE Wrote == /\ request.op = "write" /\ UNCHANGED <<request, reads, reply>>
                         /\ stage' \in {"work", "done"}
                         /\ UNCHANGED <<data, held>> \/ \E n, datum : Holds(n, datum)
    <2>1. Wrote
      <3>1. CASE WritesStart
        BY <3>1 DEF WritesStart, WritesAre, sourceVars
      <3>2. ASSUME NEW i \in Items, TypeRead(i) PROVE Wrote
        BY <1>1, <3>2 DEF TypeRead, WritesAre, sourceVars
      <3>3. ASSUME NEW i \in Items, WriteAnswered(i) PROVE Wrote
        BY <1>1, <3>3 DEF WriteAnswered, WritesAre, Types, Targets
      <3>. HIDE DEF Wrote
      <3>. QED  BY <1>4, <3>1, <3>2, <3>3 DEF Write
    <2>2. data' = [n \in Nodes |-> data'[n]] /\ held' = [n \in Nodes |-> held'[n]]
      BY <1>1, <2>1 DEF Holds
    <2>. QED  BY <2>1, <2>2, WritesStay
  <1>5. CASE UNCHANGED vars
    <2>1. /\ UNCHANGED <<request, data, held, stage, reads, writes, reply>>
          /\ Seen => Seen'
      BY <1>5 DEF vars, sourceVars, Seen
    <2>. QED  BY <1>1, <2>1, WatchedStays
  <1>. QED  BY <1>2, <1>3, <1>4, <1>5, WatchedBegins DEF Next

(* A read that ends well reports exactly what a subscription to the same   *)
(* element at the same depth monitors, or nothing where that depth reaches *)
(* no property, however its reads interleave and whichever histories fail. *)
THEOREM ReadsAreWatched == Spec => []ReadsWhatIsWatched
  <1>1. WatchedInv => ReadsWhatIsWatched
    <2>. SUFFICES ASSUME WatchedInv, stage = "done", request.op \in {"value", "history"}
                  PROVE  ReadsWhatIsWatched
      BY DEF ReadsWhatIsWatched
    <2>1. reads = {}
      BY DEF WatchedInv, ReadsArePlaced
    <2>2. \A i \in Items : Reported(i) = Wanted(i)
      BY <2>1 DEF WatchedInv, ReadsCover
    <2>3. ASSUME NEW n, NEW depth
          PROVE  Near(n, depth) = Watched(n, depth) \/ Near(n, depth) = {}
      BY DEF Watched
    <2>4. \A i \in Items : Known(i) /\ (Composition(request.ids[i]) => request.depth # 1) =>
            Reported(i) = Near(request.ids[i], request.depth)
      BY <2>2 DEF Wanted, Near
    <2>5. \A i \in Items : ~Known(i) \/ (Composition(request.ids[i]) /\ request.depth = 1) =>
            Reported(i) = {}
      BY <2>2 DEF Wanted
    <2>. QED  BY <2>3, <2>4, <2>5 DEF ReadsWhatIsWatched
  <1>. QED  BY <1>1, InitWatched, WatchedStep, PTL DEF Spec
=============================================================================
