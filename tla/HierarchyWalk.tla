---------------------------- MODULE HierarchyWalk ----------------------------
(***************************************************************************)
(* The MCP server explores the object model of an i3X server, one tool     *)
(* call of i3x_explore_plant_hierarchy, while i3x_connect calls may switch *)
(* the server that later calls ask:                                        *)
(*                                                                         *)
(*   mcp/src/tools/explore-hierarchy.ts   the walk                         *)
(*   mcp/src/tools/connect.ts             i3x_connect                      *)
(*   mcp/src/bindings/rest-binding.ts     what the tools ask of a server   *)
(*   mcp/src/server.ts                    the binding of the tools         *)
(*                                                                         *)
(* The walk goes down breadth-first.  The elements of a level are asked    *)
(* for in batches, a few batches at a time, that are answered in any       *)
(* order; a batch or an element of it may fail.  Models may have shared    *)
(* children and cycles, where element ids collide (ObjectModel).           *)
(***************************************************************************)
EXTENDS ObjectModel, FiniteSets

CONSTANTS
  Servers,      \* the i3X servers
  Secured,      \* those that demand a token
  First,        \* the binding at first
  Spaces,       \* what each server may have browsed: [Servers -> Seq(node)]
  Walked,       \* bound: the spaces that are explored
  Calls,        \* the arguments of a walk: [root, maxDepth, maxNodes]
  Connects,     \* the arguments of connects: [server, token, verify]
  BatchSize, Concurrency,
  MaxConnects   \* bound on i3x_connect calls

ASSUME WalkAssumption ==
  /\ First.server \in Servers /\ Secured \subseteq Servers
  /\ \A c \in Connects : c.server \in Servers
  /\ BatchSize \in Nat \ {0} /\ Concurrency \in Nat \ {0}
  /\ MaxConnects \in Nat
  /\ \A c \in Calls : c.maxDepth \in Nat /\ c.maxNodes \in Nat \ {0}
  /\ \A browsed \in Spaces :
       /\ DOMAIN browsed = Servers
       /\ \A s \in Servers : /\ IsSpace(browsed[s])
                            /\ \A n \in DOMAIN browsed[s] : NodeIds(browsed[s])[n] # None

VARIABLES
  spaces,     \* the address space of each server
  models,     \* the model each server has built of it
  binding,    \* the server and token the next tool call uses
  connects,   \* the i3x_connect calls: [binding, step]
  stage,      \* "idle", "roots", "level", "done", "notFound" or "failed"
  call,       \* the arguments of the walk
  asked,      \* the binding it was given
  tree,       \* the topology: entries [id, up, mark], up to the parent's position
  level,      \* the position at which the current level of the tree begins
  depth,      \* how many levels were begun
  expanded,   \* the ids that were asked for
  toExpand,   \* the positions of the current level to expand
  answers,    \* for those that were answered, the children, None for a failure
  inFlight,   \* the batches that were sent and not answered
  truncated   \* the node budget was reached

serverVars == <<spaces, models>>
walkVars == <<stage, call, asked, tree, level, depth, expanded, toExpand, answers,
              inFlight, truncated>>
vars == <<serverVars, binding, connects, walkVars>>

Binding(server, token) == [server |-> server, token |-> token]
Entry(id, up, mark) == [id |-> id, up |-> up, mark |-> mark]

(* The servers serve what they have browsed, and nobody has explored it. *)
Serving(browsed) ==
  /\ spaces = browsed
  /\ models = [s \in Servers |-> Build(browsed[s])]
  /\ binding = First
  /\ connects = <<>>
  /\ stage = "idle"
  /\ call = None /\ asked = None
  /\ tree = <<>> /\ level = 1 /\ depth = 0
  /\ expanded = {} /\ toExpand = {} /\ answers = <<>> /\ inFlight = {}
  /\ truncated = FALSE

Init == \E browsed \in Spaces : Serving(browsed)

-----------------------------------------------------------------------------
(* i3x_connect *)

(* A token that is not given is kept when the server stays the same. *)
ConnectTo(server, token) ==
  Binding(server, IF token = None /\ server = binding.server THEN binding.token ELSE token)

Accepts(server, token) == server \notin Secured \/ token # None

(* A connect that need not be verified switches at once. *)
Connect(c) ==
  /\ spaces \in Walked
  /\ Len(connects) < MaxConnects
  /\ LET next == ConnectTo(c.server, c.token)
     IN /\ connects' = Append(connects, [binding |-> next,
                                 step |-> IF c.verify THEN "info" ELSE "connected"])
        /\ binding' = IF c.verify THEN binding ELSE next
  /\ UNCHANGED <<serverVars, walkVars>>

(* /v1/info says that the server is there, /v1/namespaces that it accepts  *)
(* the token; only then does the server's binding change.                  *)
Verified(i) ==
  /\ \/ /\ connects[i].step = "info"
        /\ \E step \in {"namespaces", "connection_failed"} :
             connects' = [connects EXCEPT ![i].step = step]
        /\ UNCHANGED binding
     \/ /\ connects[i].step = "namespaces"
        /\ Accepts(connects[i].binding.server, connects[i].binding.token)
        /\ connects' = [connects EXCEPT ![i].step = "connected"]
        /\ binding' = connects[i].binding
     \/ /\ connects[i].step = "namespaces"
        /\ connects' = [connects EXCEPT ![i].step =
             IF Accepts(connects[i].binding.server, connects[i].binding.token)
             THEN "connection_failed" ELSE "auth_failed"]
        /\ UNCHANGED binding
  /\ UNCHANGED <<serverVars, walkVars>>

-----------------------------------------------------------------------------
(* The walk *)

\* Bug variant: a request goes to the server of the latest connect.
Bug_Asks == models[binding.server]

(* The model that answers the requests of the walk. *)
Asks == models[asked.server]

Explore(c) ==
  /\ spaces \in Walked
  /\ stage = "idle"
  /\ stage' = "roots"
  /\ call' = c
  /\ asked' = binding
  /\ UNCHANGED <<serverVars, binding, connects, tree, level, depth, expanded, toExpand,
                 answers, inFlight, truncated>>

(* Batches are numbered in the order of the level. *)
BatchOf(positions, i) ==
  (Cardinality({j \in positions : j < i}) \div BatchSize) + 1
Batches(positions) == {BatchOf(positions, i) : i \in positions}

\* The positions of level `from' of a tree whose id was not expanded before.
Fresh(t, from, before) ==
  {i \in from .. Len(t) :
     t[i].id \notin before /\ \A j \in from .. i - 1 : t[j].id # t[i].id}

(* The level that begins at `from': its repeated elements are marked and   *)
(* the others sent; or the walk is over, without a level to expand or any  *)
(* new element in it.                                                      *)
BeginLevel(t, from, d) ==
  LET fresh == Fresh(t, from, expanded)
  IN /\ level' = from
     /\ depth' = d
     /\ IF from > Len(t) \/ (call.maxDepth # 0 /\ d >= call.maxDepth)
        THEN /\ stage' = "done"
             /\ tree' = t
             /\ toExpand' = {} /\ answers' = <<>> /\ inFlight' = {}
             /\ UNCHANGED expanded
        ELSE /\ stage' = IF fresh = {} THEN "done" ELSE "level"
             /\ tree' = [i \in DOMAIN t |->
                  IF i < from \/ i \in fresh THEN t[i]
                  ELSE Entry(t[i].id, t[i].up, "repeated")]
             /\ expanded' = expanded \cup {t[i].id : i \in fresh}
             /\ toExpand' = fresh
             /\ answers' = <<>>
             /\ inFlight' = {b \in Batches(fresh) : b <= Concurrency}

(* The roots of the walk: the element that was asked for, by id or name,   *)
(* or the roots of the model, as many as the budget allows.                *)
RootsAnswered ==
  /\ stage = "roots"
  /\ LET roots == IF call.root = None THEN Objects(Asks, TRUE)
                  ELSE << FindNode(Asks, call.root) >>
         kept == IF Len(roots) < call.maxNodes THEN Len(roots) ELSE call.maxNodes
     IN IF roots = <<None>>
        THEN /\ stage' = "notFound"
             /\ UNCHANGED <<tree, level, depth, expanded, toExpand, answers, inFlight,
                            truncated>>
        ELSE /\ truncated' = (kept < Len(roots))
             /\ BeginLevel([i \in 1 .. kept |-> Entry(roots[i], 0, "none")], 1, 1)
  /\ UNCHANGED <<serverVars, binding, connects, call, asked>>

RootsFail ==
  /\ stage = "roots"
  /\ stage' = "failed"
  /\ UNCHANGED <<serverVars, binding, connects, call, asked, tree, level, depth, expanded,
                 toExpand, answers, inFlight, truncated>>

\* Whatever is related and not the parent counts as a child.
ChildrenOf(id) ==
  LET related == Related(Asks, id)
      children == Picked(related, {k \in DOMAIN related : related[k].relation # "IsComponentOf"})
  IN [k \in DOMAIN children |-> children[k].object]

(* The tree with the answer for its entry i: all of its children, or none. *)
Grown(t, i, answer) ==
  IF answer = None THEN [t EXCEPT ![i].mark = "error"]
  ELSE IF Len(t) + Len(answer) > call.maxNodes /\ answer # <<>>
  THEN [t EXCEPT ![i].mark = "truncated"]
  ELSE t \o [k \in DOMAIN answer |-> Entry(answer[k], i, "none")]

(* All batches of a level are answered: the children are added in the      *)
(* order of the level, whatever the order of the answers.                  *)
Merged(all) ==
  LET upTo[i \in 0 .. Len(tree)] ==
        IF i = 0 THEN tree
        ELSE IF i \in toExpand THEN Grown(upTo[i - 1], i, all[i]) ELSE upTo[i - 1]
      grown == upTo[Len(tree)]
  IN /\ truncated' = (truncated \/ \E i \in DOMAIN grown : grown[i].mark = "truncated")
     /\ BeginLevel(grown, Len(tree) + 1, depth + 1)

(* Batch b is answered; a request that fails fails all of its elements.    *)
(* The worker takes the next batch, until none is left.                    *)
BatchAnswered(b) ==
  /\ stage = "level" /\ b \in inFlight
  /\ LET batch == {i \in toExpand : BatchOf(toExpand, i) = b}
         unsent == Batches(toExpand) \
                     (inFlight \cup {BatchOf(toExpand, i) : i \in DOMAIN answers})
         next == {c \in unsent : \A o \in unsent : c <= o}
     IN \E failing \in SUBSET batch :
          LET all == [i \in DOMAIN answers \cup batch |->
                        IF i \in DOMAIN answers THEN answers[i]
                        ELSE IF i \in failing THEN None ELSE ChildrenOf(tree[i].id)]
          IN IF inFlight = {b} /\ next = {}
             THEN Merged(all)
             ELSE /\ answers' = all
                  /\ inFlight' = (inFlight \ {b}) \cup next
                  /\ UNCHANGED <<stage, tree, level, depth, expanded, toExpand, truncated>>
  /\ UNCHANGED <<serverVars, binding, connects, call, asked>>

Next ==
  \/ \E c \in Connects : Connect(c)
  \/ \E i \in DOMAIN connects : Verified(i)
  \/ \E c \in Calls : Explore(c)
  \/ RootsAnswered \/ RootsFail
  \/ \E b \in inFlight : BatchAnswered(b)

Spec == Init /\ [][Next]_vars

-----------------------------------------------------------------------------
(* Every model that is built mirrors its space (ObjectModel), with every   *)
(* kind of node, folder, collision of ids and missing parent.              *)
ModelMirrorsSpace ==
  stage = "idle" /\ connects = <<>> => \A s \in Servers : MirrorsSpace(spaces[s], models[s])

\* Entry i of a tree shows the elements ids as its children, in order.
Shows(t, i, ids) ==
  \E first \in 0 .. Len(t) :
    /\ {j \in DOMAIN t : t[j].up = i} = first + 1 .. first + Len(ids)
    /\ \A k \in DOMAIN ids : t[first + k].id = ids[k]

LevelOf(i) ==
  LET l[j \in DOMAIN tree] == IF tree[j].up = 0 THEN 1 ELSE l[tree[j].up] + 1 IN l[i]

\* Entry i shows its children, or says why it does not.
Explained(i) ==
  LET kids == Children(models[asked.server], tree[i].id)
      deepest == call.maxDepth # 0 /\ LevelOf(i) >= call.maxDepth
      nothing == Shows(tree, i, <<>>)
  IN CASE tree[i].mark = "none" -> IF deepest THEN nothing ELSE Shows(tree, i, kids)
       [] tree[i].mark = "repeated" ->
            nothing /\ \E j \in 1 .. i - 1 :
                      tree[j].id = tree[i].id /\ tree[j].mark # "repeated"
       [] tree[i].mark = "truncated" -> nothing /\ Len(tree) + Len(kids) > call.maxNodes
       [] OTHER -> nothing

(* The tree of a walk that is done is a faithful cut of the model of the   *)
(* server it was asked of, whichever connects came meanwhile: an entry     *)
(* shows all of its children, in order, or else says why it shows none: it *)
(* failed, was shown before, would exceed the budget, or is as deep as was *)
(* asked for.  The budget is kept; that something was cut is said if and   *)
(* only if it was.  Each level expands an element that was not expanded    *)
(* before, so that a walk through a cycle ends.                            *)
WalkShowsTheModel ==
  LET m == models[asked.server]
      roots == IF call.root = None THEN m.rootIds ELSE << FindNode(m, call.root) >>
      marked(mark) == {i \in DOMAIN tree : tree[i].mark = mark}
  IN /\ stage \in {"level", "done"} =>
          /\ depth <= Cardinality(Ids(m)) + 1
          /\ Len(tree) <= call.maxNodes
     /\ stage = "done" =>
          /\ \E kept \in 0 .. Len(roots) :
               /\ Shows(tree, 0, SubSeq(roots, 1, kept))
               /\ truncated <=> kept < Len(roots) \/ marked("truncated") # {}
          /\ \A i \in DOMAIN tree : Explained(i)
          /\ ~truncated /\ call.maxDepth = 0 /\ marked("error") = {} =>
               {tree[i].id : i \in DOMAIN tree} =
                 Below(m, ToSet(roots), Cardinality(Ids(m)))

=============================================================================
