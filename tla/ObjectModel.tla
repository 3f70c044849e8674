----------------------------- MODULE ObjectModel -----------------------------
(***************************************************************************)
(* The i3X object model and how it is built from a browsed address space:  *)
(*                                                                         *)
(*   core/src/services/model-service.ts   _build, findNode, parentIdOf     *)
(*   core/src/services/mapper.ts          inferKind, stableI3xId           *)
(*   rest-server/src/routes/objects.ts    GET /objects, /objects/related   *)
(*                                                                         *)
(* A space is what browseTree returns: a sequence of nodes, each with the  *)
(* position of its parent, None at the top, or Lost when the parent is not *)
(* in the sequence.  Folders disappear from the model: their children are  *)
(* those of the node above.  A name is a namespace-qualified browse name;  *)
(* Words(name) is what cleaning leaves of it, possibly nothing: the parts  *)
(* of letters and digits, in lower case, without the namespace.            *)
(***************************************************************************)
EXTENDS Naturals, FiniteSets, SequencesExt

CONSTANTS
  Words(_),     \* the words that cleanName keeps of a name
  None, Lost    \* no parent; a parent that was not browsed

ASSUME ParentAssumption == None \notin Nat /\ Lost \notin Nat

\* A node of the address space.  A Folder is an Object that isFolderNode
\* recognises, a Notifier an Object that emits events.
Sorts == {"Folder", "Object", "Notifier", "Variable", "Method"}
Node(parent, sort, name) == [parent |-> parent, sort |-> sort, name |-> name]

\* Whoever has a parent in the space is further down than it.
IsSpace(space) ==
  /\ Len(space) \in Nat /\ space = [n \in 1 .. Len(space) |-> space[n]]
  /\ \A n \in DOMAIN space : space[n].parent \in DOMAIN space \cup {None, Lost}
  /\ \E down \in [DOMAIN space -> DOMAIN space] : \A n \in DOMAIN space :
       space[n].parent \in DOMAIN space => down[space[n].parent] < down[n]

InferKind(node) ==
  CASE node.sort = "Variable" -> "property"
    [] node.sort = "Method" -> "action"
    [] node.sort = "Notifier" -> "eventSource"
    [] OTHER -> "instance"

IsFolder(node) == node.sort = "Folder"
IsObject(node) == node.sort \in {"Object", "Notifier"}

\* The elements of s at some of its positions, in order.
Picked(s, kept) ==
  [k \in 1 .. Cardinality(kept) |->
     s[CHOOSE p \in kept : Cardinality({o \in kept : o < p}) = k - 1]]

Concat(seqs) ==
  LET cat[k \in 0 .. Len(seqs)] == IF k = 0 THEN <<>> ELSE cat[k - 1] \o seqs[k]
  IN cat[Len(seqs)]

Sources(space, n) ==
  Picked([c \in DOMAIN space |-> c], {c \in DOMAIN space : space[c].parent = n})
Mapped(space) == {n \in DOMAIN space : ~IsFolder(space[n])}

-----------------------------------------------------------------------------
(* The browse path of each node: its names from a root, or its own source  *)
(* identifier when no chain of parents leads to a root.                    *)
BrowsePaths(space) ==
  LET path[n \in DOMAIN space] ==
        LET p == space[n].parent
        IN IF p = None THEN [names |-> <<space[n].name>>, source |-> 0]
           ELSE IF p # Lost /\ path[p].source = 0
           THEN [names |-> Append(path[p].names, space[n].name), source |-> 0]
           ELSE [names |-> <<>>, source |-> n]
  IN path

(* The children a node has in the model: those of its folders are its own. *)
NonFolderChildren(space) ==
  LET shown[n \in DOMAIN space] == Concat(
        [k \in DOMAIN Sources(space, n) |->
           LET c == Sources(space, n)[k]
           IN IF IsFolder(space[c]) THEN shown[c] ELSE <<c>>])
  IN shown

(* The topmost Object above a node, which owns the ids of its properties.  *)
ParentAsset(space) ==
  LET asset[n \in DOMAIN space] ==
        LET p == space[n].parent
        IN IF p \in {None, Lost} THEN None
           ELSE IF asset[p] # None THEN asset[p]
           ELSE IF IsObject(space[p]) THEN p ELSE None
  IN asset

(* Element ids.  The hash of a kind and path is that pair.  A property     *)
(* below an asset is named by the asset's hash and the words of the names  *)
(* that lead to it, which are joined without a trace of their boundaries.  *)
(* Of a source identifier nothing is left when the asset's is cut off it.  *)
StableId(kind, path) == [kind |-> kind, path |-> path, words |-> None]
PropertyId(path, words) == [kind |-> "property", path |-> path, words |-> words]

NodeIds(space) ==
  LET path == BrowsePaths(space)
      asset == ParentAsset(space)
      relative(n) == SubSeq(path[n].names, Len(path[asset[n]].names) + 1,
                            Len(path[n].names))
  IN [n \in DOMAIN space |->
        IF InferKind(space[n]) = "property" /\ asset[n] # None
        THEN PropertyId(path[asset[n]],
                        Concat([k \in DOMAIN relative(n) |-> Words(relative(n)[k])]))
        ELSE StableId(InferKind(space[n]), path[n])]

-----------------------------------------------------------------------------
\* Bug variant: a root is an instance without an Object above it.
Bug_RootIds(space, order, nodesById, childrenById) ==
  Picked(order, {k \in DOMAIN order :
    /\ nodesById[order[k]].kind = "instance"
    /\ ParentAsset(space)[nodesById[order[k]].source] = None})

(* A root is an instance that no node lists as its child. *)
RootIds(space, order, nodesById, childrenById) ==
  Picked(order, {k \in DOMAIN order :
    /\ nodesById[order[k]].kind = "instance"
    /\ \A p \in DOMAIN childrenById : ~Contains(childrenById[p], order[k])})

\* The nodes with the ids: the first and the last one of each id.
FirstOf(space, ids) ==
  {n \in Mapped(space) : \A o \in Mapped(space) : ids[o] = ids[n] => n <= o}
LastOf(space, ids) ==
  [id \in {ids[n] : n \in Mapped(space)} |->
     CHOOSE n \in Mapped(space) :
       ids[n] = id /\ \A o \in Mapped(space) : ids[o] = id => o <= n]

(* The model.  An id that two nodes share is entered where it came first   *)
(* and holds what came last.                                               *)
ModelOf(space, order, last, ids, shown) ==
  LET nodesById == [id \in DOMAIN last |->
                      [source |-> last[id], name |-> space[last[id]].name,
                       kind |-> InferKind(space[last[id]])]]
      childrenById == [id \in DOMAIN last |->
                         [k \in DOMAIN shown[last[id]] |-> ids[shown[last[id]][k]]]]
  IN [order |-> order,
      nodesById |-> nodesById,
      childrenById |-> childrenById,
      rootIds |-> RootIds(space, order, nodesById, childrenById),
      propertyToSource |->
        [id \in {i \in DOMAIN last : i.kind = "property"} |-> last[id]],
      actionToMethod |->
        [id \in {i \in DOMAIN last :
                   i.kind = "action" /\ space[last[i]].parent # None} |->
           <<space[last[id]].parent, last[id]>>]]

BuildWith(space, ids) ==
  ModelOf(space, Picked(ids, FirstOf(space, ids)), LastOf(space, ids), ids,
          NonFolderChildren(space))
Build(space) == BuildWith(space, NodeIds(space))

Ids(model) == DOMAIN model.nodesById
Children(model, id) == model.childrenById[id]

\* The first of some elements of the model, in its order.
FirstIn(model, ids) ==
  IF ids = {} THEN None
  ELSE model.order[CHOOSE k \in DOMAIN model.order :
         model.order[k] \in ids /\ \A j \in 1 .. k - 1 : model.order[j] \notin ids]

(* An element by its id, or the first one of that name. *)
FindNode(model, ref) ==
  IF ref \in Ids(model) THEN ref
  ELSE FirstIn(model, {id \in Ids(model) : [named |-> model.nodesById[id].name] = ref})

ParentIdOf(model, id) ==
  FirstIn(model, {p \in Ids(model) : Contains(Children(model, p), id)})

(* GET /v1/objects: the roots, or all instances and properties. *)
Objects(model, root) ==
  IF root THEN model.rootIds
  ELSE Picked(model.order, {k \in DOMAIN model.order :
         model.nodesById[model.order[k]].kind \in {"instance", "property"}})

(* POST /v1/objects/related: the children in order, then the parent. *)
Related(model, id) ==
  LET parent == ParentIdOf(model, id)
      child(c) == [relation |-> "HasComponent", object |-> c]
  IN [k \in DOMAIN Children(model, id) |-> child(Children(model, id)[k])]
       \o IF parent = None THEN <<>>
          ELSE << [relation |-> "IsComponentOf", object |-> parent] >>

-----------------------------------------------------------------------------
(* What the clients of a model rely on. *)

\* The nearest node above each node that is no folder.
Above(space) ==
  LET up[n \in DOMAIN space] ==
        LET p == space[n].parent
        IN IF p \in {None, Lost} THEN None
           ELSE IF IsFolder(space[p]) THEN up[p] ELSE p
  IN up

SiblingsDiffer(space) ==
  \A n, o \in DOMAIN space :
    n # o /\ space[n].parent = space[o].parent => space[n].name # space[o].name

\* The ids that are met on the way down from an id, k steps at most.
Below(model, starts, k) ==
  LET met[i \in 0 .. k] ==
        IF i = 0 THEN starts
        ELSE met[i - 1] \cup UNION {ToSet(Children(model, p)) : p \in met[i - 1]}
  IN met[k]

(* The model is closed: a child, a root, a parent is a node of it, and     *)
(* every instance without a parent is a root, so that a client that walks  *)
(* down from the parentless nodes meets every node once.  An instance has  *)
(* an id of its own unless two siblings have one name.  Where no two nodes *)
(* share an id, the parent is the nearest node above that is no folder,    *)
(* and /related names exactly it and the nodes whose parent it is.         *)
Mirrors(space, m, ids, above) ==
  LET distinct == \A n, o \in Mapped(space) : ids[n] = ids[o] => n = o
      top == {id \in Ids(m) : ParentIdOf(m, id) = None}
      is(relation, n, related) ==
        \E k \in DOMAIN related :
          related[k] = [relation |-> relation, object |-> ids[n]]
      mirrored(n, related) ==
        /\ \A j, k \in DOMAIN related :
             related[j].object = related[k].object => j = k
        /\ \A o \in Mapped(space) :
             /\ above[o] = n <=> is("HasComponent", o, related)
             /\ above[n] = o <=> is("IsComponentOf", o, related)
  IN /\ \A id \in Ids(m) : ToSet(Children(m, id)) \subseteq Ids(m)
     /\ ToSet(m.rootIds) = {id \in top : m.nodesById[id].kind = "instance"}
     /\ SiblingsDiffer(space) =>
          \A n, o \in Mapped(space) :
            InferKind(space[n]) # "property" /\ ids[n] = ids[o] => n = o
     /\ distinct =>
          /\ Below(m, top, Len(space)) = Ids(m)
          /\ \A n \in Mapped(space) : mirrored(n, Related(m, ids[n]))

MirrorsSpace(space, m) == Mirrors(space, m, NodeIds(space), Above(space))

=============================================================================
