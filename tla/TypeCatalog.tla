----------------------------- MODULE TypeCatalog -----------------------------
(***************************************************************************)
(* The object types of a server: how the adapters complete the browsed     *)
(* types with their members, and the ids and schemas that are derived.     *)
(*                                                                         *)
(*   opcua-connector/src/opcua-client.ts      getObjectTypes               *)
(*   pseudo-session-connector/...-adapter.ts  getObjectTypes               *)
(*   core/src/services/model-service.ts       buildTypeIdMap               *)
(*   core/src/services/schema-builder.ts      the JSON schemas             *)
(*                                                                         *)
(* A browse is a sequence of types, each with the position of its parent,  *)
(* which comes before it, or None below the types folder.  A fault is a    *)
(* service call that fails: <<t, "browse">> the members of type t,         *)
(* <<t, "data">> their data types, <<t, "rules">> their modelling rules.   *)
(***************************************************************************)
EXTENDS ObjectModel, Functions

CONSTANT
  Lower(_)      \* a text in lower case

\* Both are qualified by a namespace, but not always by the same one.
NodeId(ns, identifier) == [ns |-> ns, identifier |-> identifier]
BrowseName(ns, text) == [ns |-> ns, text |-> text]

Type(parent, name, node, members) ==
  [parent |-> parent, name |-> name, node |-> node, members |-> members]
Member(name, sort, data, array, rule) ==
  [name |-> name, sort |-> sort, data |-> data, array |-> array, rule |-> rule]

Fault(t, what) == <<t, what>>

\* A type of the standard namespace, whose members are not browsed.
Std(type) == type.node.ns = 0

IsMember(m) == m = Member(m.name, m.sort, m.data, m.array, m.rule) /\ m.array \in BOOLEAN

\* What a browse of types finds.
IsCatalog(types) ==
  /\ Len(types) \in Nat /\ types = [t \in 1 .. Len(types) |-> types[t]]
  /\ \A t \in DOMAIN types :
       LET members == types[t].members
       IN /\ types[t] = Type(types[t].parent, types[t].name, types[t].node, members)
          /\ types[t].name = BrowseName(types[t].name.ns, types[t].name.text)
          /\ types[t].node = NodeId(types[t].node.ns, types[t].node.identifier)
          /\ types[t].parent \in 1 .. t - 1 \cup {None}
          /\ Len(members) \in Nat /\ members = [k \in 1 .. Len(members) |-> members[k]]
          /\ \A k \in DOMAIN members : IsMember(members[k])
  /\ \A t, u \in DOMAIN types : types[t].node = types[u].node => t = u

(* What is left of a type's members when the calls that fail are fixed.    *)
(* Data types and array ranks are read together; on an address space they  *)
(* are read one by one, and here they fail for all members of a type.      *)
MembersRead(types, t, faults) ==
  LET seen(m) == Member(m.name, m.sort,
        IF m.sort # "Variable" \/ Fault(t, "data") \in faults THEN None ELSE m.data,
        m.sort = "Variable" /\ Fault(t, "data") \notin faults /\ m.array,
        IF Fault(t, "rules") \in faults THEN None ELSE m.rule)
  IN IF Std(types[t]) \/ Fault(t, "browse") \in faults THEN <<>>
     ELSE [k \in DOMAIN types[t].members |-> seen(types[t].members[k])]

(* The OPC UA client browses the members chunk by chunk and keeps a type   *)
(* without members when that fails; on an address space the failure of one *)
(* type rejects the call.  The order of the list is left out.              *)
GetObjectTypes(adapter, types, faults) ==
  IF adapter = "session" /\ \E t \in DOMAIN types :
       ~Std(types[t]) /\ Fault(t, "browse") \in faults
  THEN None
  ELSE [t \in DOMAIN types |-> [types[t] EXCEPT !.members = MembersRead(types, t, faults)]]

-----------------------------------------------------------------------------
\* A type and its ancestors, from the type to the root.
Lineages(types) ==
  LET lineage[t \in DOMAIN types] ==
        <<t>> \o IF types[t].parent = None THEN <<>> ELSE lineage[types[t].parent]
  IN lineage

Families ==
  << <<"BaseInterfaceType", "interface-type">>, <<"AlarmConditionType", "alarm-type">>,
     <<"ConditionType", "condition-type">>, <<"BaseEventType", "event-type">>,
     <<"StateMachineType", "state-machine-type">>, <<"BaseVariableType", "variable-type">>,
     <<"BaseDataType", "datatype">> >>

(* The first family in this order that one of the names belongs to; its    *)
(* name is one of the standard namespace.                                  *)
GetPrefix(names) ==
  LET found == SelectSeq(Families, LAMBDA f : BrowseName(0, f[1]) \in names)
  IN IF found = <<>> THEN "object-type" ELSE found[1][2]

(* The id of each type.  A hash is a hash of the names from the root; the  *)
(* other formats take the name in lower case, its namespace and, of the    *)
(* node id, the identifier without its own namespace.                      *)
TypeId(types, t, lineage, format) ==
  LET name == types[t].name
      identifier == types[t].node.identifier
  IN CASE format = "hash" ->
            [names |-> [k \in DOMAIN lineage |-> types[lineage[k]].name]]
       [] format = "name" ->
            [text |-> Lower(name.text), ns |-> name.ns, identifier |-> identifier]
       [] OTHER ->
            [prefix |-> GetPrefix({types[u].name : u \in ToSet(lineage)}),
             text |-> Lower(name.text), ns |-> name.ns, identifier |-> identifier]

BuildTypeIdMap(types, format) ==
  LET lineages == Lineages(types)
  IN [t \in DOMAIN types |-> TypeId(types, t, lineages[t], format)]

-----------------------------------------------------------------------------
JsonType(data) ==
  CASE data = "Boolean" -> "boolean"
    [] data \in {"Int32", "Enumeration"} -> "integer"
    [] data \in {"Double", "Duration"} -> "number"
    [] data = "Structure" -> "object"
    [] OTHER -> "string"

SchemaForMember(m) == [type |-> JsonType(m.data), array |-> m.array]

\* The variables that a type declares itself.
Variables(type) ==
  Picked(type.members, {k \in DOMAIN type.members : type.members[k].sort = "Variable"})

\* Bug variant: the lineage is not reversed, so the root has the last word.
Bug_Declared(types, lineage) ==
  Concat([k \in DOMAIN lineage |-> Variables(types[lineage[k]])])

(* The variables that a lineage declares, those of the root first. *)
Declared(types, lineage) ==
  LET rootFirst == Reverse(lineage)
  IN Concat([k \in DOMAIN rootFirst |-> Variables(types[rootFirst[k]])])

(* The last declaration of a name is its schema; it is required when any   *)
(* declaration is mandatory.                                               *)
SchemaOf(declared) ==
  [properties |-> [name \in {declared[k].name : k \in DOMAIN declared} |->
     SchemaForMember(declared[CHOOSE k \in DOMAIN declared :
       /\ declared[k].name = name
       /\ \A j \in DOMAIN declared : declared[j].name = name => j <= k])],
   required |-> {declared[k].name : k \in
     {j \in DOMAIN declared : declared[j].rule \in {"Mandatory", "MandatoryPlaceholder"}}}]

BuildAllSchemas(types) ==
  LET lineage == Lineages(types)
  IN [t \in DOMAIN types |-> SchemaOf(Declared(types, lineage[t]))]

-----------------------------------------------------------------------------
\* The ancestor-or-self nearest to type t that declares a variable of a name.
Nearest(types, lineage, name) ==
  LET declares(k) == \E m \in ToSet(types[lineage[k]].members) :
                       m.sort = "Variable" /\ m.name = name
      at == {k \in DOMAIN lineage : declares(k)}
  IN IF at = {} THEN None ELSE lineage[CHOOSE k \in at : \A j \in at : k <= j]

SiblingTypesDiffer(types) ==
  \A t, u \in DOMAIN types :
    t # u /\ types[t].parent = types[u].parent => types[t].name # types[u].name

\* The browse name of each type is in the namespace of its node id.
NamespacesAgree(types) == \A t \in DOMAIN types : types[t].name.ns = types[t].node.ns

NoStandardMembers(types) ==
  [t \in DOMAIN types |-> IF Std(types[t]) THEN [types[t] EXCEPT !.members = <<>>]
                          ELSE types[t]]

(* One failed call costs no more than what it was to read: every type is   *)
(* still listed under the same id, with the schema that its own and its    *)
(* inherited declarations give, the nearest one deciding; a type without a *)
(* fault in its lineage has the schema it has without any fault, and a     *)
(* lineage whose modelling rules cannot be read still has its properties.  *)
(* Types have different hashes when siblings have different names; ids of  *)
(* the other formats are sure to differ only when browse names are in the  *)
(* namespaces of the node ids, which lose their own.                       *)
SchemasAreSound(types, lineages, got, clean, schemas, faults) ==
  \A t \in DOMAIN types :
    LET lineage == lineages[t]
        at(name) == Nearest(got, lineage, name)
        hit == {f \in faults : f[1] \in ToSet(lineage) /\ ~Std(types[f[1]])}
    IN /\ \A name \in {m.name : m \in UNION {ToSet(types[u].members) : u \in DOMAIN types}} :
            /\ at(name) # None <=> name \in DOMAIN schemas[t].properties
            /\ at(name) # None =>
                 \E m \in ToSet(got[at(name)].members) :
                   /\ m.sort = "Variable" /\ m.name = name
                   /\ schemas[t].properties[name] = SchemaForMember(m)
       /\ schemas[t].required \subseteq DOMAIN schemas[t].properties
       /\ hit = {} => schemas[t] = clean[t]
       /\ (\A f \in hit : f[2] = "rules") => schemas[t].properties = clean[t].properties

CatalogIsSound(adapter, types, faults) ==
  LET got == GetObjectTypes(adapter, types, faults)
  IN got # None =>
       /\ \A format \in {"hash", "name", "prefixed-name"} :
            LET ids == BuildTypeIdMap(got, format)
            IN /\ ids = BuildTypeIdMap(types, format)
               /\ (IF format = "hash" THEN SiblingTypesDiffer(types) ELSE NamespacesAgree(types))
                    => IsInjective(ids)
       /\ SchemasAreSound(types, Lineages(types), got,
                          BuildAllSchemas(NoStandardMembers(types)), BuildAllSchemas(got), faults)

=============================================================================
