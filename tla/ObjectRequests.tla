---------------------------- MODULE ObjectRequests ----------------------------
(***************************************************************************)
(* One request on the objects of a model while their values change: the    *)
(* routes /v1/objects/value, /history (rest-server/src/routes/objects.ts)  *)
(* and the services and adapters below them.  A request names several      *)
(* elements; what it reads of an asset are the properties within a depth.  *)
(*                                                                         *)
(*   value    leaves are read in one batch, then every asset on its own,   *)
(*            level by level; a read of an asset that rejects rejects the  *)
(*            whole request                                                *)
(*   history  every property is read on its own and fails on its own       *)
(*   write    on OPC UA every item reads the type of its variable and      *)
(*            converts; on an address space it writes what it was given    *)
(*                                                                         *)
(* A read of values holds those of the moment the source answers, one of   *)
(* a history any of those the source has had, or none: which of them lie   *)
(* between the times of the request is the server's affair.                *)
(***************************************************************************)
EXTENDS Naturals, Sequences, FiniteSets, Functions

CONSTANTS
  Nodes, Properties,  \* the model; what is no property is an instance
  Parent,             \* the parent of each node, or None
  Unknown,            \* ids that name no node
  Type,               \* data type of the values of each property
  FirstData,          \* what each source holds at first
  Past,               \* what it held before
  Data,               \* what other clients and the plant may put there
  Requests,           \* the requests to consider
  MaxChanges,         \* bound on changes from elsewhere
  None

ASSUME TreeAssumption ==
  /\ IsFiniteSet(Nodes) /\ Properties \subseteq Nodes
  /\ Parent \in [Nodes -> (Nodes \ Properties) \cup {None}]
  /\ None \notin Nodes /\ Unknown \cap Nodes = {}

\* Every node has its level, one below that of its parent.
ASSUME LevelAssumption ==
  \E level \in [Nodes -> 0 .. Cardinality(Nodes)] :
    \A n \in Nodes : Parent[n] # None => level[n] = level[Parent[n]] + 1

ASSUME BoundAssumption == MaxChanges \in Nat

Types == {"Boolean", "Int32", "String", "Other"}
Json(kind, v) == [kind |-> kind, v |-> v]
Datum(value, quality) == [value |-> value, quality |-> quality]
NoData == Datum(None, "GoodNoData")
History(seen) == [values |-> seen]
Unsupported == Datum(None, "501")

\* What a source may be seen to hold when nobody writes to it.
Observable == (UNION {Past[n] \cup {FirstData[n]} : n \in Nodes}) \cup Data

ASSUME TypeAssumption == Type \in [Properties -> Types]

(* The quality of a source is that of its status code, which is never the  *)
(* quality the API has for no data.  A request lists its elements.  None   *)
(* stands for no answer, and no answer is None.                            *)
ASSUME DataAssumption ==
  /\ FirstData = [n \in Nodes |-> FirstData[n]]
  /\ \A n \in Nodes : FirstData[n].quality \in {"Good", "Uncertain", "Bad"}
  /\ \A datum \in Data : datum.quality \in {"Good", "Uncertain", "Bad"}
  /\ \A r \in Requests :
       DOMAIN r.ids = 1 .. Len(r.ids) /\ Len(r.ids) \in Nat /\ r.depth \in Nat
  /\ None \notin {FirstData[n] : n \in Nodes} \cup Data
              \cup {NoData, Datum(None, "Bad"), Unsupported}
  /\ None \notin [values : SUBSET Observable]

Children(a) == {n \in Nodes : Parent[n] = a}
Composition(n) == n \notin Properties /\ Children(n) # {}
Direct(a) == Children(a) \cap Properties
Within(depth, d) == depth = 0 \/ d < depth

(* The variables whose history stands for an asset's on an address space:  *)
(* a direct one, else one of the first object that has any.                *)
FirstVariables[a \in Nodes \ Properties] ==
  IF Direct(a) # {} THEN Direct(a)
  ELSE UNION {FirstVariables[b] : b \in Children(a)}

(* What _collectSourceMappings finds for an asset, by its recursion: d     *)
(* levels below the element.                                               *)
CollectSources[visit \in Nodes \X Nat \X Nat] ==
  LET n == visit[1]  depth == visit[2]  d == visit[3]
  IN IF n \in Properties THEN {n}
     ELSE IF ~Within(depth, d) THEN {}
     ELSE UNION {CollectSources[<<b, depth, d + 1>>] : b \in Children(n)}

\* The sources within the depth.
Near(n, depth) == CollectSources[<<n, depth, 0>>]

(* What register monitors for an element: where the depth reaches no       *)
(* property of an instance, those at any depth.                            *)
Watched(n, depth) ==
  IF Near(n, depth) = {} /\ n \notin Properties THEN Near(n, 0) ELSE Near(n, depth)

(* normalizeVqt: a bad value is null, and null that is not bad is no data. *)
Normalize(datum) ==
  IF datum.quality = "Bad" THEN Datum(None, "Bad")
  ELSE IF datum.value = None THEN NoData
  ELSE datum

(* Conversion of a JSON value to the type of a variable. *)
Number(x) ==
  CASE x.kind = "boolean" -> IF x.v = "true" THEN "1" ELSE "0"
    [] x.kind = "string" /\ x.v \notin {"0", "1"} -> "NaN"
    [] OTHER -> x.v

CoerceToDataType(x, type) ==
  CASE type = "Boolean" ->
         Json("boolean", IF x.v \in {"true", "1"} THEN "true" ELSE "false")
    [] type = "Int32" -> Json("number", Number(x))
    [] type = "String" -> Json("string", x.v)
    [] OTHER -> x

\* What is written may be wrapped with a quality and a time, as it is read.
Wrapped(x) == [kind |-> "vqt", inner |-> x]
Unpack(x) == IF x.kind = "vqt" THEN x.inner ELSE x

-----------------------------------------------------------------------------
VARIABLES
  adapter,   \* "opcua" or "session", the adapter below the services
  readOnly,  \* the server does not write
  request,   \* [op, ids, depth, values]
  data,      \* what every source holds
  held,      \* history: what it held since the request
  changes,   \* changes from elsewhere
  stage,     \* "model", "leaves", "work", "done" or "failed"
  reads,     \* reads in flight: [item, at, d, of]
  writes,    \* for each item, the step of its write
  reply      \* for each item and node, the answer

sourceVars == <<data, held, changes>>
vars == <<adapter, readOnly, request, sourceVars, stage, reads, writes, reply>>

Items == DOMAIN request.ids
Read(item, at, d, of) == [item |-> item, at |-> at, d |-> d, of |-> of]
Known(i) == request.ids[i] \in Nodes
EverHeld(n) == Past[n] \cup held[n]
Empty == [i \in Items |-> [n \in Nodes |-> None]]

Init ==
  /\ adapter \in {"opcua", "session"}
  /\ request \in Requests
  /\ readOnly \in (IF request.op = "write" THEN BOOLEAN ELSE {FALSE})
  /\ data = FirstData
  /\ held = [n \in Nodes |-> {data[n]}]
  /\ changes = 0
  /\ stage = "model"
  /\ reads = {}
  /\ writes = [i \in Items |-> "none"]
  /\ reply = Empty

Holds(n, datum) ==
  /\ data' = [data EXCEPT ![n] = datum]
  /\ held' = [held EXCEPT ![n] = @ \cup {datum}]

(* The plant, or another client. *)
Change(p, datum) ==
  /\ stage \notin {"done", "failed"}
  /\ changes < MaxChanges
  /\ datum # data[p]
  /\ Holds(p, datum)
  /\ changes' = changes + 1
  /\ UNCHANGED <<adapter, readOnly, request, stage, reads, writes, reply>>

-----------------------------------------------------------------------------
(* Reads *)
\* The reads of asset `at' on level d: one of all its properties for a value,
\* one of each for a history; one of nothing when it has no properties.
ReadsOf(item, at, d) ==
  IF request.op = "value" \/ Direct(at) = {} THEN {Read(item, at, d, Direct(at))}
  ELSE {Read(item, at, d, {p}) : p \in Direct(at)}

Roots == {i \in Items : Known(i) /\ Composition(request.ids[i])}
Leaves == {i \in Items : Known(i) /\ ~Composition(request.ids[i])}
FirstReads(i) ==
  IF request.depth # 1 THEN ReadsOf(i, request.ids[i], 0) ELSE {}
StageAfter(pending) == stage' = IF pending = {} THEN "done" ELSE "work"

Work(pending) == reads' = pending /\ StageAfter(pending)

(* The model is there: classify the elements, or begin every history with  *)
(* the element's own source.                                               *)
ModelReady ==
  /\ stage = "model" /\ request.op # "write"
  /\ IF request.op = "value"
     THEN IF Leaves # {} THEN stage' = "leaves" /\ UNCHANGED reads
          ELSE Work(UNION {FirstReads(i) : i \in Roots})
     ELSE Work({Read(i, request.ids[i], 0, {request.ids[i]}) : i \in Roots \cup Leaves})
  /\ UNCHANGED <<adapter, readOnly, request, sourceVars, writes, reply>>

\* The batch reads the leaves in the order of the request: the leaf at a place
\* of the batch, and the place of a leaf.
Place(i) == Cardinality({j \in Leaves : j <= i})
LeafAt(k) == CHOOSE i \in Leaves : Place(i) = k
Places == 1 .. Cardinality(Leaves)

\* Bug variant: the k-th value is given to the k-th element of the request.
Bug_LeavesRead ==
  /\ stage = "leaves"
  /\ LET batch == [k \in Places |-> data[request.ids[LeafAt(k)]]]
     IN reply' = [i \in Items |-> [reply[i] EXCEPT ![request.ids[i]] =
          IF i \in Leaves /\ i \in Places THEN Normalize(batch[i]) ELSE @]]
  /\ Work(UNION {FirstReads(i) : i \in Roots})
  /\ UNCHANGED <<adapter, readOnly, request, sourceVars, writes>>

(* The batch of all leaves is answered in its order, or rejected: then no  *)
(* leaf has data.  The assets come next.                                   *)
LeavesRead ==
  /\ stage = "leaves"
  /\ \E batch \in {[k \in Places |-> data[request.ids[LeafAt(k)]]],
                   [k \in Places |-> NoData]} :
       reply' = [i \in Items |-> [n \in Nodes |->
         IF i \in Leaves /\ n = request.ids[i] THEN Normalize(batch[Place(i)])
         ELSE reply[i][n]]]
  /\ Work(UNION {FirstReads(i) : i \in Roots})
  /\ UNCHANGED <<adapter, readOnly, request, sourceVars, writes>>

\* Bug variant: a level is left out when the asset has no properties itself.
Bug_Below(r) ==
  IF r.at \in Properties \/ ~Composition(r.at) \/ r.of = {r.at} \/ r.of = {}
     \/ ~Within(request.depth, r.d + 1)
     \/ \E o \in reads \ {r} : o.item = r.item /\ o.at = r.at
  THEN {}
  ELSE UNION {ReadsOf(r.item, b, r.d + 1) : b \in {c \in Children(r.at) : Composition(c)}}

(* What follows the last read of an asset: its sub-assets, one level down, *)
(* if the depth allows.                                                    *)
Below(r) ==
  IF r.at \in Properties \/ ~Composition(r.at) \/ r.of = {r.at}
     \/ ~Within(request.depth, r.d + 1)
     \/ \E o \in reads \ {r} : o.item = r.item /\ o.at = r.at
  THEN {}
  ELSE UNION {ReadsOf(r.item, b, r.d + 1) : b \in {c \in Children(r.at) : Composition(c)}}

\* What a read may bring for a property.
AnswersFor(p) ==
  IF request.op = "value" THEN {Normalize(data[p])}
  ELSE {History(seen) : seen \in SUBSET EverHeld(p)}

Answers(r, answer) ==
  reply' = [reply EXCEPT ![r.item] = [n \in Nodes |->
              IF n \in r.of THEN answer[n] ELSE @[n]]]

(* Properties are read. *)
PropertiesRead(r) ==
  /\ r \in reads /\ r.of \subseteq Properties
  /\ \E answer \in [r.of -> UNION {AnswersFor(p) : p \in r.of}] :
       /\ \A p \in r.of : answer[p] \in AnswersFor(p)
       /\ Answers(r, answer)
  /\ Work((reads \ {r}) \cup Below(r))
  /\ UNCHANGED <<adapter, readOnly, request, sourceVars, writes>>

(* A history cannot be read: that property is marked.  A value cannot: the *)
(* request is rejected, whatever else it has read.                         *)
PropertiesFail(r) ==
  /\ r \in reads /\ r.of \subseteq Properties /\ r.of # {}
  /\ IF request.op = "history"
     THEN /\ Answers(r, [p \in r.of |-> Unsupported])
          /\ Work((reads \ {r}) \cup Below(r))
     ELSE /\ stage' = "failed"
          /\ reads' = {}
          /\ UNCHANGED reply
  /\ UNCHANGED <<adapter, readOnly, request, sourceVars, writes>>

(* The history of an asset's own node: OPC UA has none, an address space   *)
(* takes that of a variable below; a rejection is tolerated when there are *)
(* components to read.                                                     *)
InstanceRead(r) ==
  /\ r \in reads /\ r.of = {r.at} /\ r.at \notin Properties
  /\ LET stand == IF adapter = "session" THEN FirstVariables[r.at] ELSE {}
         own == IF stand = {} THEN {History({})} ELSE UNION {AnswersFor(p) : p \in stand}
         rejected == IF Composition(r.at) THEN History({}) ELSE Unsupported
     IN \E answer \in own \cup {rejected} : Answers(r, [n \in {r.at} |-> answer])
  /\ Work((reads \ {r}) \cup IF Composition(r.at) THEN FirstReads(r.item) ELSE {})
  /\ UNCHANGED <<adapter, readOnly, request, sourceVars, writes>>

-----------------------------------------------------------------------------
(* Writes *)
\* A type as the write knows it: "Null" for none.
Targets == Types \cup {"Null"}

WritesAre(f) ==
  /\ writes' = f
  /\ stage' = IF \E i \in Items : f[i] \in {"type"} \cup Targets THEN "work" ELSE "done"
  /\ UNCHANGED <<adapter, readOnly, request, reads>>

(* The route refuses every write on a read-only server, and the unknown    *)
(* elements; an address space writes to variables only, and as they are.   *)
WritesStart ==
  /\ stage = "model" /\ request.op = "write"
  /\ WritesAre([i \in Items |->
       CASE readOnly -> "501"
         [] ~readOnly /\ ~Known(i) -> "404"
         [] ~readOnly /\ Known(i) /\ adapter = "opcua" -> "type"
         [] OTHER -> IF request.ids[i] \in Properties THEN "Null" ELSE "403"])
  /\ UNCHANGED <<sourceVars, reply>>

(* The declared type, or that of the value if it is not built in.  A bad   *)
(* result, as an instance has it, is no type; a rejection ends the write.  *)
TypeRead(i) ==
  /\ writes[i] = "type"
  /\ LET n == request.ids[i]
     IN \E type \in {"403", "Null"} \cup {Type[p] : p \in {n} \cap Properties} :
          WritesAre([writes EXCEPT ![i] = type])
  /\ UNCHANGED <<sourceVars, reply>>

\* The value that is written for item i, by a write that knows that type.
Sent(i, type) ==
  IF adapter = "opcua" THEN CoerceToDataType(Unpack(request.values[i]), type)
  ELSE request.values[i]

(* The write is done, or refused, as that of an instance is; what a        *)
(* rejection leaves behind may be either.                                  *)
WriteAnswered(i) ==
  /\ writes[i] \in Targets
  /\ LET n == request.ids[i]
         datum == Datum(Sent(i, writes[i]), "Good")
     IN \/ /\ n \in Properties /\ Holds(n, datum)
           /\ \E status \in {"200", "403"} : WritesAre([writes EXCEPT ![i] = status])
        \/ UNCHANGED <<data, held>> /\ WritesAre([writes EXCEPT ![i] = "403"])
  /\ UNCHANGED <<changes, reply>>

Write == WritesStart \/ \E i \in Items : TypeRead(i) \/ WriteAnswered(i)

Next ==
  \/ \E p \in Properties, datum \in Data : Change(p, datum)
  \/ ModelReady \/ LeavesRead
  \/ \E r \in reads : PropertiesRead(r) \/ PropertiesFail(r) \/ InstanceRead(r)
  \/ Write

Spec == Init /\ [][Next]_vars

-----------------------------------------------------------------------------
Reported(i) == {p \in Properties : reply[i][p] # None}

(* A read of an asset reports exactly the properties that a subscription   *)
(* to it would monitor at the same depth, each asset's whatever else is    *)
(* asked for and whatever else fails: a client that subscribes after a     *)
(* read misses nothing it has seen.  There are two exceptions, where the   *)
(* read reports none: depth 1 is the element alone, and where the depth    *)
(* reaches no property only the subscription looks further down.           *)
ReadsWhatIsWatched ==
  stage = "done" /\ request.op \in {"value", "history"} =>
    \A i \in Items :
      LET n == request.ids[i]  depth == request.depth
      IN \/ ~Known(i) /\ Reported(i) = {}
         \/ Known(i) /\ Composition(n) /\ depth = 1 /\ Reported(i) = {}
         \/ /\ Known(i) /\ (Composition(n) => depth # 1)
            /\ \/ Reported(i) = Watched(n, depth)
               \/ Reported(i) = {} /\ Near(n, depth) = {}

\* A write of item i has taken place.
TookPlace(i) ==
  \E type \in {"Null", Type[request.ids[i]]} :
    Datum(Sent(i, type), "Good") \in held[request.ids[i]]

(* Every value that is answered is one of its own source, in the form the  *)
(* API asks for; or it is marked as missing.  A current value is one the   *)
(* source has held since the request, a history is of values it has ever   *)
(* held.  A write that was answered with success has taken place, with     *)
(* its own value, in the type of the variable if that was known.           *)
AnswersAreOwn ==
  /\ \A i \in Items, p \in Properties :
       reply[i][p] \notin {None, Unsupported} =>
         LET answer == reply[i][p]
         IN IF request.op = "value"
            THEN /\ answer = NoData \/ \E datum \in held[p] : answer = Normalize(datum)
                 /\ answer.value = None <=> answer.quality \in {"Bad", "GoodNoData"}
            ELSE answer.values \subseteq EverHeld(p)
  /\ \A i \in Items :
       writes[i] = "200" =>
         ~readOnly /\ request.ids[i] \in Properties /\ TookPlace(i)

=============================================================================
