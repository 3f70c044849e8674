---------------------------- MODULE MCServedModel ----------------------------
(* ServedModel for TLC: server A has any space of up to three nodes, or   *)
(* one of four larger ones that are walked while the client may connect to  *)
(* server B, whose space shares some ids with theirs.                       *)
EXTENDS ServedModel

CONSTANTS A, B, token

\* "B:y" has the words of "A:y"; of "sign" nothing is left.
MCWords(name) ==
  CASE name \in {"A:y", "B:y"} -> <<"y">>
    [] name = "A:x y" -> <<"x", "y">>
    [] name = "A:x" -> <<"x">>
    [] OTHER -> <<>>

SmallSpaces ==
  LET parents(n) == {None, Lost} \cup 1 .. n - 1
      nodes(n) == {Node(p, s, name) : p \in parents(n), s \in Sorts,
                                      name \in {"A:y", "B:y"}}
  IN {<<>>} \cup {<<x>> : x \in nodes(1)} \cup {<<x, y>> : x \in nodes(1), y \in nodes(2)}
     \cup {<<x, y, z>> : x \in nodes(1), y \in nodes(2), z \in nodes(3)}

\* Two folders in a row; words that join to the same id; a property that is
\* its own child; more roots and levels than the budget holds.
Folders ==
  << Node(None, "Object", "A:x"), Node(1, "Folder", "A:y"), Node(2, "Folder", "A:x"),
     Node(3, "Object", "A:y"), Node(3, "Variable", "A:x"), Node(4, "Variable", "A:y"),
     Node(None, "Object", "A:y") >>
Collisions ==
  << Node(None, "Object", "A:x"), Node(1, "Variable", "A:x"), Node(2, "Variable", "A:y"),
     Node(1, "Variable", "A:x y"), Node(4, "Method", "A:y") >>
Cycle ==
  << Node(None, "Object", "A:x"), Node(1, "Variable", "sign"), Node(2, "Variable", "sign"),
     Node(1, "Variable", "A:y"), Node(Lost, "Object", "A:y") >>
Wide ==
  << Node(None, "Object", "A:x"), Node(1, "Object", "A:x"), Node(1, "Object", "A:y"),
     Node(1, "Object", "B:y"), Node(2, "Variable", "A:y"), Node(3, "Variable", "A:y"),
     Node(3, "Method", "A:x") >>
Other ==
  << Node(None, "Object", "B:y"), Node(None, "Object", "A:x"), Node(2, "Object", "A:x"),
     Node(3, "Object", "A:x y") >>

Pair(space) == [s \in {A, B} |-> IF s = A THEN space ELSE Other]
MCWalked == {Pair(space) : space \in {Folders, Collisions, Cycle, Wide}}
NoSpaces == [s \in {A, B} |-> <<>>]
MCSpaces == {Pair(space) : space \in SmallSpaces} \cup MCWalked \cup {NoSpaces}

MCCalls ==
  {[root |-> root, maxDepth |-> d, maxNodes |-> n] :
     root \in {None, [named |-> "A:x"], [named |-> "none"]},
     d \in {0, 1, 2}, n \in {1, 4, 9}}
MCConnects ==
  {[server |-> A, token |-> None, verify |-> TRUE],
   [server |-> B, token |-> None, verify |-> TRUE],
   [server |-> B, token |-> token, verify |-> TRUE],
   [server |-> B, token |-> None, verify |-> FALSE]}
MCFirst == Binding(A, token)

\* "T" and "t" differ in case only.
MCLower(text) == IF text = "T" THEN "t" ELSE text

\* Three types whose members override each other, with at most one fault, two
\* in a chain; types of two families, whose names and node ids differ in case
\* or in the namespace only, in every tree and without a fault.
Overridden == << Member("x", "Variable", "Double", FALSE, "Mandatory") >>
Overriding ==
  << Member("x", "Variable", "Int32", TRUE, "Optional"),
     Member("y", "Variable", "Other", FALSE, "Mandatory") >>
MemberLists ==
  { <<>>, Overridden, Overriding,
    << Member("x", "Object", None, FALSE, "Mandatory") >> }
Parents == {<<None, p, q>> : p \in {None, 1}, q \in {None, 1, 2}}
Faults == {Fault(t, c) : t \in 1 .. 3, c \in {"browse", "data", "rules"}}
AtMost(k) == {f \in SUBSET Faults : Cardinality(f) <= k}

Catalog(adapter, parents, names, nodes, members, faults) ==
  [adapter |-> adapter, faults |-> faults,
   types |-> [t \in 1 .. 3 |-> Type(parents[t], names[t], nodes[t], members[t])]]
Names == <<BrowseName(1, "T"), BrowseName(1, "U"), BrowseName(1, "V")>>
Node3(ns) == <<NodeId(ns, "i"), NodeId(1, "j"), NodeId(2, "i")>>
MCNoTypes == [adapter |-> "opcua", types |-> <<>>, faults |-> {}]
MCCatalogs ==
  {MCNoTypes}
  \cup {Catalog("opcua", parents, Names, Node3(1), members, faults) :
          parents \in Parents, members \in [1 .. 3 -> MemberLists], faults \in AtMost(1)}
  \cup {Catalog(IF std THEN "opcua" ELSE "session", <<None, 1, 2>>, Names,
                Node3(IF std THEN 0 ELSE 1), members, faults) :
          members \in [1 .. 3 -> MemberLists], std \in BOOLEAN, faults \in AtMost(1)}
  \cup {Catalog("opcua", <<None, 1, 2>>, Names, Node3(1), members, faults) :
          members \in [1 .. 3 -> {Overridden, Overriding}], faults \in AtMost(2)}
  \cup {Catalog("opcua", parents, names, Node3(ns), [t \in 1 .. 3 |-> <<>>], {}) :
          parents \in Parents, ns \in {0, 1},
          names \in [1 .. 3 ->
            {BrowseName(0, "BaseEventType"), BrowseName(0, "ConditionType"),
             BrowseName(1, "T"), BrowseName(1, "t"), BrowseName(2, "T")}]}
=============================================================================
