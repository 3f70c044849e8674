----------------------------- MODULE BrowseTree -----------------------------
(***************************************************************************)
(* The breadth-first browse that turns the address space of an OPC UA      *)
(* server, a directed graph, into the tree the model is built from.        *)
(*                                                                         *)
(*   opcua-connector/src/opcua-client.ts   _bfsBrowse, browseTree          *)
(*   core/src/services/model-service.ts    _build: the browse paths        *)
(*                                                                         *)
(* pseudo-session-adapter.ts has the same loop without a depth limit.      *)
(*                                                                         *)
(* The nodes of one wave are browsed concurrently and each is answered at  *)
(* its own time, from the references the server holds then; the server may *)
(* change them while the browse runs.  Nothing is awaited between the last *)
(* answer of a wave and the requests of the next one, which is one action. *)
(* References of one node come in an order of the server's choice.  The    *)
(* depth of a wave is kept as the levels that are left below it.           *)
(*                                                                         *)
(* No status of a result is looked at: where the server answers the browse *)
(* of a node, or the rest of it, with a Bad result, what that result names *)
(* no reference for is not there for the browse, which goes on.  A node is *)
(* browsed once, so what the results withhold is fixed when it begins.     *)
(***************************************************************************)
EXTENDS Integers, FiniteSets, SequencesExt

CONSTANTS
  Nodes,        \* the nodes below the Objects folder
  Branches,     \* those of class Object or Variable
  Root,         \* the Objects folder
  Links,        \* the hierarchical references there may be
  Depths,       \* values of browseMaxDepth; -1: no limit
  Filters,      \* values of browseFilter: the top-level nodes it lets pass
  Losses,       \* the sets of references that Bad results may withhold
  MaxChanges,   \* bound: changes of the address space during the browse
  None

AllNodes == Nodes \cup {Root}

ASSUME NodesAssumption ==
  /\ IsFiniteSet(Nodes)
  /\ Branches \subseteq Nodes
  /\ Root \notin Nodes
  /\ None \notin AllNodes

ASSUME OptionsAssumption ==
  /\ Links \subseteq AllNodes \X AllNodes
  /\ Depths \subseteq Nat \cup {-1}
  /\ Filters \subseteq SUBSET Nodes
  /\ Losses \subseteq SUBSET Links
  /\ MaxChanges \in Nat

VARIABLES
  maxDepth,   \* the browseMaxDepth of this client
  passes,     \* the top-level nodes its browseFilter lets pass
  withheld,   \* the references that Bad results keep from this browse
  refs,       \* the references the server holds
  changes,    \* how often they changed since the browse began
  wave,       \* the nodes being browsed, in order
  left,       \* levels browseMaxDepth leaves below the wave; -1: no limit
  waiting,    \* the nodes of the wave whose browse is not answered
  answers,    \* the children each answer named
  visited,    \* the nodes a wave held so far
  mapped,     \* the nodes onRef was called for
  output,     \* the entries collected: a node and its parent
  status      \* "browsing", "done" or "failed"

optionVars == <<maxDepth, passes, withheld>>
serverVars == <<refs, changes>>
waveVars   == <<wave, left, waiting, answers, visited, mapped>>
vars == <<optionVars, serverVars, waveVars, output, status>>

Entry == [node : AllNodes, parent : Nodes \cup {None}]

NoAnswers == [n \in AllNodes |-> {}]

Init ==
  /\ maxDepth \in Depths
  /\ passes \in Filters
  /\ withheld \in Losses
  /\ refs \in SUBSET Links
  /\ changes = 0
  /\ wave = <<Root>>
  /\ left = maxDepth
  /\ waiting = {Root}
  /\ answers = NoAnswers
  /\ visited = {Root}
  /\ mapped = {}
  /\ output = {}
  /\ status = "browsing"

-----------------------------------------------------------------------------
(* What one wave finds.                                                    *)

\* What the results name of the references the server holds.
Told == refs \ withheld

\* Mutant of FirstRefs: a node that was browsed is browsed again.
Bug_FirstRefs ==
  {r \in (DOMAIN wave) \X AllNodes :
     /\ r[2] \in answers[wave[r[1]]]
     /\ \A j \in DOMAIN wave : r[2] \in answers[wave[j]] => r[1] <= j}

\* Item i of the wave is the first to refer to c, which no wave held so far.
FirstRefs ==
  {r \in (DOMAIN wave) \X AllNodes :
     /\ r[2] \in answers[wave[r[1]]] \ visited
     /\ \A j \in DOMAIN wave : r[2] \in answers[wave[j]] => r[1] <= j}

\* Mutant of EffectiveParent: the Objects folder is a parent like any other.
Bug_EffectiveParent(p) == p

\* Children of the Objects folder are roots of the tree.
EffectiveParent(p) == IF p = Root THEN None ELSE p

\* The browseFilter applies to the children of the Objects folder only.
Passes(p, c) == p = Root => c \in passes

\* Mutants of Collected: what was mapped is not remembered, and neither is what
\* was browsed.
Bug_CollectedAgain == {r \in FirstRefs : Passes(wave[r[1]], r[2])}
Bug_CollectedAlways ==
  {r \in (DOMAIN wave) \X AllNodes :
     r[2] \in answers[wave[r[1]]] /\ Passes(wave[r[1]], r[2])}

\* Each node is mapped once; one the filter rejects is mapped to nothing.
Collected ==
  {r \in FirstRefs : r[2] \notin mapped /\ Passes(wave[r[1]], r[2])}

Entries ==
  {[node |-> r[2], parent |-> EffectiveParent(wave[r[1]])] : r \in Collected}

\* Mutant of MayRecurse: one level too few.
Bug_MayRecurse(p, c) == left \notin {0, 1} /\ c \in Branches /\ Passes(p, c)

MayRecurse(p, c) == left # 0 /\ c \in Branches /\ Passes(p, c)

NextNodes ==
  {c \in AllNodes : \E r \in FirstRefs : r[2] = c /\ MayRecurse(wave[r[1]], c)}

\* The next wave lists its nodes in the order of the items that refer to them.
Follows(next) ==
  \A i, j \in DOMAIN next : \A r, s \in FirstRefs :
    r[2] = next[i] /\ s[2] = next[j] /\ r[1] < s[1] => i < j

\* Mutant of LevelsBelow: no limit is counted down too.
Bug_LevelsBelow(l) == l - 1

LevelsBelow(l) == IF l > 0 THEN l - 1 ELSE l

-----------------------------------------------------------------------------

\* The server answers the browse of node n, its continuation points included,
\* with good results or with Bad ones.
Answer(n) ==
  /\ status = "browsing"
  /\ n \in waiting
  /\ waiting' = waiting \ {n}
  /\ answers' = [answers EXCEPT ![n] = {c \in AllNodes : <<n, c>> \in Told}]
  /\ UNCHANGED <<optionVars, serverVars, wave, left, visited, mapped, output, status>>

\* One rejected browse or browseNext rejects the whole browse.
Reject ==
  /\ status = "browsing"
  /\ waiting # {}
  /\ status' = "failed"
  /\ UNCHANGED <<optionVars, serverVars, waveVars, output>>

\* The last answer of the wave is in: its references are mapped and the next
\* wave is browsed, if there is one.
EndWave ==
  /\ status = "browsing"
  /\ waiting = {}
  /\ output' = output \cup Entries
  /\ mapped' = mapped \cup {r[2] : r \in FirstRefs}
  /\ \E next \in SetToSeqs(NextNodes) : Follows(next) /\ wave' = next
  /\ waiting' = NextNodes
  /\ visited' = visited \cup NextNodes
  /\ left' = LevelsBelow(left)
  /\ answers' = NoAnswers
  /\ status' = IF NextNodes = {} THEN "done" ELSE "browsing"
  /\ UNCHANGED <<optionVars, serverVars>>

\* The server gains or loses a reference.
Change ==
  /\ status = "browsing"
  /\ changes < MaxChanges
  /\ changes' = changes + 1
  /\ \E l \in Links : refs' = IF l \in refs THEN refs \ {l} ELSE refs \cup {l}
  /\ UNCHANGED <<optionVars, waveVars, output, status>>

Finished == status # "browsing" /\ UNCHANGED vars

Next ==
  \/ \E n \in AllNodes : Answer(n)
  \/ Reject
  \/ EndWave
  \/ Change
  \/ Finished

Spec == Init /\ [][Next]_vars

\* The session settles every request: with an answer, or with a rejection when
\* the server does not answer in time.
FairSpec ==
  /\ Spec
  /\ WF_vars(Reject \/ \E n \in AllNodes : Answer(n))
  /\ WF_vars(EndWave)

-----------------------------------------------------------------------------
(* What the tree should be, from the references the results name.          *)

OutputNodes == {o.node : o \in output}

\* The top-level nodes the filter rejected.
Rejected == mapped \ OutputNodes

Recursed(p) ==
  {c \in Branches : <<p, c>> \in Told /\ Passes(p, c)}

\* Within[k]: the nodes k steps down from the Objects folder, or fewer.
Within ==
  LET within[k \in 0..Cardinality(Nodes)] ==
        IF k = 0 THEN {Root}
        ELSE within[k - 1] \cup UNION {Recursed(p) : p \in within[k - 1]}
  IN  within

\* The nodes the depth limit lets be browsed.
Browsed ==
  LET n == Cardinality(Nodes)
  IN  Within[IF maxDepth \in 0..n THEN maxDepth ELSE n]

TopLevel == {c \in Nodes : <<Root, c>> \in Told}

Expected ==
  {c \in Nodes \ (TopLevel \ passes) : \E p \in Browsed : <<p, c>> \in Told}

\* _build: the browse paths grow from the entries without a parent.
Pathed ==
  LET pathed[k \in 0..Cardinality(Nodes)] ==
        IF k = 0 THEN {o.node : o \in {e \in output : e.parent = None}}
        ELSE pathed[k - 1]
             \cup {o.node : o \in {e \in output : e.parent \in pathed[k - 1]}}
  IN  pathed[Cardinality(Nodes)]

-----------------------------------------------------------------------------
(* Properties.                                                             *)

TypeOK ==
  /\ maxDepth \in Depths
  /\ passes \in Filters
  /\ withheld \in Losses
  /\ refs \in SUBSET Links
  /\ changes \in 0..MaxChanges
  /\ wave \in Seq(AllNodes)
  /\ left \in Nat \cup {-1}
  /\ waiting \in SUBSET AllNodes
  /\ answers \in [AllNodes -> SUBSET AllNodes]
  /\ visited \in SUBSET AllNodes
  /\ mapped \in SUBSET AllNodes
  /\ output \in SUBSET Entry
  /\ status \in {"browsing", "done", "failed"}

\* A node that several nodes refer to is one entry with one parent, so that it
\* gets one element id, also when the references change during the browse.
MappedOnce == \A o, p \in output : o.node = p.node => o = p

\* Following parents upwards always ends, whatever cycles the address space
\* has and however it changes: _build's findParentAsset climbs without a bound.
NoParentCycle ==
  \A S \in (SUBSET OutputNodes) \ {{}} :
    \E n \in S : \A o \in output : o.node = n => o.parent \notin S

\* A parent is an entry itself, or a top-level node that the filter rejected.
ParentIsKnown ==
  \A o \in output :
    o.parent = None \/ o.parent \in OutputNodes \/ o.parent \in Rejected \ passes

\* In an address space that does not change, the tree holds exactly the nodes
\* that the references in the results lead to within the depth limit, except the
\* top-level ones the filter rejects: a Bad result costs what only its missing
\* references lead to, and when no result is Bad nothing is missed.
Complete == status = "done" /\ changes = 0 => OutputNodes = Expected

\* In an address space that does not change, every entry hangs at the end of a
\* shortest path: no result of a node closer to the Objects folder names it.
ShortestPath ==
  status = "done" /\ changes = 0 =>
    \A o \in output : \A k \in 0..Cardinality(Nodes) :
      (\E q \in Within[k] : <<q, o.node>> \in Told) =>
        (IF o.parent = None THEN Root ELSE o.parent) \in Within[k]

\* The browse ends although the address space has cycles.
Terminates == <>(status # "browsing")

\* Each entry should be reached from an entry without a parent.  The code breaks
\* this, and no run checks it: a top-level node that the filter rejected may be
\* the parent of entries (opcua-client.ts:582).  What holds is ParentIsKnown.
EveryEntryHasAPath == status = "done" => OutputNodes \subseteq Pathed
=============================================================================
