-------------------------- MODULE BrowseTreeProofs --------------------------
(***************************************************************************)
(* Proofs about BrowseTree, for any address space, however it changes, any *)
(* filter and any depth limit.                                             *)
(*                                                                         *)
(* The argument: whatever is browsed was mapped before, or is the Objects  *)
(* folder, and what a wave maps was never mapped.  A new entry thus hangs  *)
(* below an older one, so entries cannot form a cycle.                     *)
(*                                                                         *)
(* As long as the address space does not change, wave k holds the nodes    *)
(* whose shortest path from the Objects folder, over the references that   *)
(* the results name, has k steps: hence the browse misses none of what     *)
(* they lead to and hangs every entry below a nearest node.                *)
(***************************************************************************)
EXTENDS BrowseTree, FiniteSetTheorems, WellFoundedInduction, TLAPS

(* A non-empty set of natural numbers has a least element. *)
LEMMA LeastNatural ==
  ASSUME NEW S \in SUBSET Nat, S # {}
  PROVE  \E n \in S : \A m \in S : n <= m
  <1>. DEFINE R == {ss \in Nat \X Nat : ss[1] < ss[2]}
  <1>1. IsWellFoundedOn(R, Nat)
    BY NatLessThanWellFounded DEF OpToRel
  <1>2. \E n \in S : \A m \in S : ~ (<<m, n>> \in R)
    <2>. HIDE DEF R
    <2>. QED  BY <1>1, WFMin
  <1>3. \A n, m \in S : <<m, n>> \in R \/ n <= m
    OBVIOUS
  <1>. QED  BY <1>2, <1>3

(* A set that holds zero and every successor of its elements up to n holds *)
(* the numbers up to n.                                                    *)
LEMMA InductionUpTo ==
  ASSUME NEW n \in Nat, NEW S, 0 \in S,
         \A k \in Nat : k < n /\ k \in S => k + 1 \in S
  PROVE  0 .. n \subseteq S
  <1>. DEFINE missing == {k \in 0 .. n : k \notin S}
  <1>. SUFFICES ASSUME missing # {} PROVE FALSE
    OBVIOUS
  <1>1. PICK k \in missing : \A m \in missing : k <= m
    <2>1. missing \in SUBSET Nat
      OBVIOUS
    <2>. HIDE DEF missing
    <2>. QED  BY <2>1, LeastNatural
  <1>2. k # 0 /\ k - 1 \in 0 .. n /\ k - 1 \notin missing
    BY <1>1
  <1>. QED  BY <1>1, <1>2

(* The first n iterates of a function G, from a. *)
Iterates(T, a, G, n) ==
  {f \in [0 .. n -> T] : f[0] = a /\ \A k \in 1 .. n : f[k] = G[f[k - 1]]}

(* A function can be iterated any number of times. *)
LEMMA Iteration ==
  ASSUME NEW T, NEW a \in T, NEW G \in [T -> T], NEW n \in Nat
  PROVE  Iterates(T, a, G, n) # {}
  <1>. DEFINE S == {m \in Nat : Iterates(T, a, G, m) # {}}
  <1>1. 0 \in S
    <2>1. [k \in 0 .. 0 |-> a] \in Iterates(T, a, G, 0)
      BY DEF Iterates
    <2>. QED  BY <2>1
  <1>2. ASSUME NEW m \in Nat, m \in S PROVE m + 1 \in S
    <2>1. PICK f \in Iterates(T, a, G, m) : TRUE
      BY <1>2
    <2>. DEFINE g == [k \in 0 .. m + 1 |-> IF k <= m THEN f[k] ELSE G[f[m]]]
    <2>2. f \in [0 .. m -> T] /\ f[0] = a /\ \A k \in 1 .. m : f[k] = G[f[k - 1]]
      BY DEF Iterates
    <2>3. g \in [0 .. m + 1 -> T] /\ g[0] = a
      BY <2>2
    <2>4. ASSUME NEW k \in 1 .. m + 1 PROVE g[k] = G[g[k - 1]]
      <3>1. CASE k <= m
        BY <2>2, <3>1
      <3>2. CASE k = m + 1
        BY <2>2, <3>2
      <3>. QED  BY <3>1, <3>2
    <2>. HIDE DEF g
    <2>5. g \in Iterates(T, a, G, m + 1)
      BY <2>3, <2>4 DEF Iterates
    <2>. QED  BY <2>5
  <1>. HIDE DEF S
  <1>3. 0 .. n \subseteq S
    BY <1>1, <1>2, InductionUpTo
  <1>4. n \in S
    BY <1>3
  <1>. QED  BY <1>4 DEF S

\* The nodes a wave refers to for the first time.
FoundNodes == {r[2] : r \in FirstRefs}

\* What is browsed was mapped, except the Objects folder, which never is.
BrowsedWasMapped ==
  /\ \A i \in DOMAIN wave : wave[i] \in visited
  /\ Root \in visited
  /\ \A n \in visited : n \in mapped \/ n = Root
  /\ Root \notin mapped

\* A node is mapped to an entry unless the filter rejects it, and parents are
\* nodes that were browsed.
EntriesAreMapped ==
  /\ OutputNodes \subseteq mapped
  /\ \A n \in mapped : n \in OutputNodes \/ n \notin passes
  /\ \A o \in output : o.parent # None => o.parent \in visited

IInv ==
  /\ TypeOK
  /\ BrowsedWasMapped
  /\ EntriesAreMapped
  /\ MappedOnce
  /\ NoParentCycle

-----------------------------------------------------------------------------
(* The operators of a wave.                                                *)

\* A first reference comes from a node that is being browsed, leads to a node
\* that never was, and is the only one to that node.
LEMMA FirstRefsFacts ==
  ASSUME TypeOK, BrowsedWasMapped
  PROVE  /\ \A r \in FirstRefs : /\ r[1] \in DOMAIN wave
                                 /\ r[2] \in AllNodes
                                 /\ r[2] \notin visited
                                 /\ wave[r[1]] \in visited
                                 /\ wave[r[1]] \in AllNodes
         /\ \A r, s \in FirstRefs : r[2] = s[2] => r = s
<1>1. ASSUME NEW r \in FirstRefs
      PROVE  /\ r \in (DOMAIN wave) \X AllNodes
             /\ r[2] \in answers[wave[r[1]]]
             /\ r[2] \notin visited
             /\ \A j \in DOMAIN wave : r[2] \in answers[wave[j]] => r[1] <= j
  BY <1>1 DEF FirstRefs
<1>2. DOMAIN wave \subseteq Int /\ \A i \in DOMAIN wave : wave[i] \in AllNodes
  BY DEF TypeOK
<1>3. ASSUME NEW r \in FirstRefs, NEW s \in FirstRefs, r[2] = s[2]
      PROVE  r = s
  <2>1. r[1] <= s[1] /\ s[1] <= r[1]
    BY <1>1, <1>3
  <2>2. r[1] = s[1]
    BY <1>1, <1>2, <2>1
  <2> QED BY <1>1, <1>3, <2>2
<1> QED BY <1>1, <1>2, <1>3 DEF BrowsedWasMapped

\* The entries of a wave are new nodes, and their parents are browsed ones.
LEMMA EntriesFacts ==
  ASSUME TypeOK, BrowsedWasMapped
  PROVE  \A o \in Entries :
           /\ o \in Entry
           /\ o.node \in FoundNodes
           /\ o.node \notin mapped
           /\ o.node \notin visited
           /\ o.parent # None => o.parent \in visited
<1> SUFFICES ASSUME NEW r \in Collected,
                    NEW o, o = [node |-> r[2], parent |-> EffectiveParent(wave[r[1]])]
             PROVE  /\ o \in Entry
                    /\ o.node \in FoundNodes
                    /\ o.node \notin mapped
                    /\ o.node \notin visited
                    /\ o.parent # None => o.parent \in visited
  BY DEF Entries
<1>1. r \in FirstRefs /\ r[2] \notin mapped
  BY DEF Collected
<1>2. /\ r[2] \in AllNodes
      /\ r[2] \notin visited
      /\ wave[r[1]] \in visited
      /\ wave[r[1]] \in AllNodes
  BY <1>1, FirstRefsFacts
<1>3. EffectiveParent(wave[r[1]]) \in Nodes \cup {None}
  BY <1>2 DEF EffectiveParent, AllNodes
<1>4. EffectiveParent(wave[r[1]]) # None => EffectiveParent(wave[r[1]]) \in visited
  BY <1>2 DEF EffectiveParent
<1>5. r[2] \in FoundNodes
  BY <1>1 DEF FoundNodes
<1> QED BY <1>1, <1>2, <1>3, <1>4, <1>5 DEF Entry

\* What is browsed next was found by this wave.
LEMMA NextNodesFound ==
  NextNodes \subseteq FoundNodes /\ NextNodes \subseteq AllNodes
BY DEF NextNodes, FoundNodes

\* The orders of a finite set are sequences of its elements.
LEMMA OrdersAreSequences ==
  ASSUME NEW S, IsFiniteSet(S), NEW s \in SetToSeqs(S)
  PROVE  s \in Seq(S) /\ \A i \in DOMAIN s : s[i] \in S
<1>1. Cardinality(S) \in Nat
  BY FS_CardinalityType
<1>2. s \in [1..Cardinality(S) -> S]
  BY DEF SetToSeqs
<1> QED BY <1>1, <1>2

LEMMA OrdersHoldAll ==
  ASSUME NEW S, IsFiniteSet(S), NEW s \in SetToSeqs(S)
  PROVE  /\ s \in [1..Cardinality(S) -> S]
         /\ \A e \in S : \E i \in DOMAIN s : s[i] = e
<1>1. Cardinality(S) \in Nat
  BY FS_CardinalityType
<1> DEFINE D == 1..Cardinality(S)
<1>2. IsFiniteSet(D) /\ Cardinality(D) = Cardinality(S)
  BY <1>1, FS_Interval
<1>3. s \in [D -> S] /\ \A i, j \in D : i # j => s[i] # s[j]
  BY DEF SetToSeqs
<1> HIDE DEF D
<1>4. s \in Injection(D, S)
  BY <1>3 DEF Injection, IsInjective
<1>5. s \in Surjection(D, S)
  BY <1>2, <1>4, FS_Injection
<1> QED BY <1>3, <1>5 DEF Surjection, D

-----------------------------------------------------------------------------
(* Each action preserves the invariant.                                    *)

LEMMA InitInv == Init => IInv
<1> SUFFICES ASSUME Init PROVE IInv
  OBVIOUS
<1> USE NodesAssumption, OptionsAssumption DEF Init
<1>1. TypeOK
  <2>1. wave \in Seq(AllNodes) /\ Root \in AllNodes
    BY DEF AllNodes
  <2>2. NoAnswers \in [AllNodes -> SUBSET AllNodes]
    BY DEF NoAnswers
  <2>3. left \in Nat \cup {-1}
    OBVIOUS
  <2> QED BY <2>1, <2>2, <2>3 DEF TypeOK
<1>2. BrowsedWasMapped
  BY DEF BrowsedWasMapped
<1>3. OutputNodes = {}
  BY DEF OutputNodes
<1> QED BY <1>1, <1>2, <1>3 DEF IInv, EntriesAreMapped, MappedOnce, NoParentCycle

\* The end of a wave keeps the types.
LEMMA EndWaveTypes == ASSUME IInv, EndWave PROVE TypeOK'
<1> USE DEF IInv
<1>1. IsFiniteSet(NextNodes)
  <2>1. IsFiniteSet(AllNodes)
    BY NodesAssumption, FS_AddElement DEF AllNodes
  <2> QED BY <2>1, NextNodesFound, FS_Subset
<1>2. wave' \in Seq(AllNodes)
  <2>1. wave' \in SetToSeqs(NextNodes)
    BY DEF EndWave
  <2>2. wave' \in Seq(NextNodes)
    BY <1>1, <2>1, OrdersAreSequences
  <2> QED BY <2>2, NextNodesFound
<1>3. left' \in Nat \cup {-1}
  BY DEF TypeOK, EndWave, LevelsBelow
<1>4. output' \in SUBSET Entry
  BY EntriesFacts DEF TypeOK, EndWave
<1>5. mapped' \in SUBSET AllNodes
  BY FirstRefsFacts DEF TypeOK, EndWave
<1>6. waiting' \in SUBSET AllNodes /\ visited' \in SUBSET AllNodes
  BY NextNodesFound DEF TypeOK, EndWave
<1>7. answers' \in [AllNodes -> SUBSET AllNodes]
  BY DEF EndWave, NoAnswers
<1>8. /\ maxDepth' \in Depths
      /\ passes' \in Filters
      /\ withheld' \in Losses
      /\ refs' \in SUBSET Links
      /\ changes' \in 0..MaxChanges
  BY DEF TypeOK, EndWave, optionVars, serverVars
<1>9. status' \in {"browsing", "done", "failed"}
  BY DEF EndWave
<1> QED BY <1>2, <1>3, <1>4, <1>5, <1>6, <1>7, <1>8, <1>9 DEF TypeOK

\* The end of a wave browses only what it has mapped.
LEMMA EndWaveBrowsed == ASSUME IInv, EndWave PROVE BrowsedWasMapped'
<1> USE DEF IInv
<1>1. mapped' = mapped \cup FoundNodes /\ visited' = visited \cup NextNodes
  BY DEF EndWave, FoundNodes
<1>2. \A i \in DOMAIN wave' : wave'[i] \in NextNodes
  <2>1. wave' \in SetToSeqs(NextNodes)
    BY DEF EndWave
  <2>2. wave' \in [1..Cardinality(NextNodes) -> NextNodes]
    BY <2>1 DEF SetToSeqs
  <2> QED BY <2>2
<1>3. Root \notin FoundNodes
  BY FirstRefsFacts DEF FoundNodes, BrowsedWasMapped
<1> QED BY <1>1, <1>2, <1>3, NextNodesFound DEF BrowsedWasMapped

\* What the end of a wave maps becomes an entry unless the filter rejects it.
LEMMA EndWaveMapped == ASSUME IInv, EndWave PROVE EntriesAreMapped'
<1> USE DEF IInv
<1>1. /\ output' = output \cup Entries
      /\ mapped' = mapped \cup FoundNodes
      /\ visited' = visited \cup NextNodes
      /\ passes' = passes
  BY DEF EndWave, FoundNodes, optionVars
<1>2. ASSUME NEW o \in output' PROVE o.node \in mapped'
  BY <1>1, <1>2, EntriesFacts DEF EntriesAreMapped, OutputNodes
<1>3. ASSUME NEW n \in mapped'
      PROVE  n \in OutputNodes' \/ n \notin passes'
  <2>1. CASE n \in mapped
    BY <1>1, <2>1 DEF EntriesAreMapped, OutputNodes
  <2>2. CASE n \notin mapped
    <3>1. PICK r \in FirstRefs : r[2] = n
      BY <1>1, <1>3, <2>2 DEF FoundNodes
    <3>2. CASE Passes(wave[r[1]], n)
      <4>1. r \in Collected
        BY <2>2, <3>1, <3>2 DEF Collected
      <4>2. [node |-> n, parent |-> EffectiveParent(wave[r[1]])] \in Entries
        BY <3>1, <4>1 DEF Entries
      <4> QED BY <1>1, <4>2 DEF OutputNodes
    <3>3. CASE ~Passes(wave[r[1]], n)
      BY <1>1, <3>3 DEF Passes
    <3> QED BY <3>2, <3>3
  <2> QED BY <2>1, <2>2
<1>4. ASSUME NEW o \in output', o.parent # None PROVE o.parent \in visited'
  BY <1>1, <1>4, EntriesFacts DEF EntriesAreMapped
<1>5. OutputNodes' \subseteq mapped'
  BY <1>2 DEF OutputNodes
<1> QED BY <1>3, <1>4, <1>5 DEF EntriesAreMapped

\* A wave adds entries for nodes that have none, and one for each.
LEMMA EndWaveOnce == ASSUME IInv, EndWave PROVE MappedOnce'
<1> USE DEF IInv
<1> SUFFICES ASSUME NEW o \in output', NEW p \in output', o.node = p.node
             PROVE  o = p
  BY DEF MappedOnce
<1>1. output' = output \cup Entries
  BY DEF EndWave
<1>2. ASSUME NEW e \in output, NEW f \in Entries PROVE e.node # f.node
  BY EntriesFacts DEF EntriesAreMapped, OutputNodes
<1>3. ASSUME NEW e \in Entries, NEW f \in Entries, e.node = f.node PROVE e = f
  <2>1. PICK r \in Collected :
          e = [node |-> r[2], parent |-> EffectiveParent(wave[r[1]])]
    BY <1>3 DEF Entries
  <2>2. PICK s \in Collected :
          f = [node |-> s[2], parent |-> EffectiveParent(wave[s[1]])]
    BY <1>3 DEF Entries
  <2>3. r[2] = s[2] /\ r \in FirstRefs /\ s \in FirstRefs
    BY <1>3, <2>1, <2>2 DEF Collected
  <2>4. r = s
    BY <2>3, FirstRefsFacts
  <2> QED BY <2>1, <2>2, <2>4
<1> QED BY <1>1, <1>2, <1>3 DEF MappedOnce

\* A cycle would need an entry below one of the same wave, or a later one.
LEMMA EndWaveNoCycle == ASSUME IInv, EndWave PROVE NoParentCycle'
<1> USE DEF IInv
<1> SUFFICES ASSUME NEW S \in (SUBSET OutputNodes') \ {{}}
             PROVE  \E n \in S : \A o \in output' : o.node = n => o.parent \notin S
  BY DEF NoParentCycle
<1>1. output' = output \cup Entries
  BY DEF EndWave
<1>2. ASSUME NEW o \in output, NEW e \in Entries
      PROVE  o.parent # e.node /\ o.node # e.node
  <2>1. e.node \notin mapped /\ e.node \notin visited /\ e.node # None
    BY EntriesFacts, NodesAssumption DEF Entry
  <2> QED BY <2>1 DEF EntriesAreMapped, OutputNodes
<1>3. ASSUME NEW d \in Entries, NEW e \in Entries PROVE d.parent # e.node
  <2>1. e.node \notin visited /\ e.node # None
    BY EntriesFacts, NodesAssumption DEF Entry
  <2> QED BY <2>1, EntriesFacts
<1>4. CASE S \cap OutputNodes = {}
  <2>1. \A n \in S : \E e \in Entries : e.node = n
    BY <1>1, <1>4 DEF OutputNodes
  <2>2. PICK n \in S : TRUE
    OBVIOUS
  <2>3. ASSUME NEW o \in output', o.node = n PROVE o.parent \notin S
    BY <1>1, <1>2, <1>3, <2>1, <2>3
  <2> QED BY <2>2, <2>3
<1>5. CASE S \cap OutputNodes # {}
  <2>1. PICK n \in S \cap OutputNodes :
          \A o \in output : o.node = n => o.parent \notin S \cap OutputNodes
    BY <1>5 DEF NoParentCycle
  <2>2. ASSUME NEW o \in output', o.node = n PROVE o.parent \notin S
    <3>1. o \in output
      BY <1>1, <1>2, <2>1, <2>2 DEF OutputNodes
    <3>2. o.parent \notin S \cap OutputNodes
      BY <2>1, <2>2, <3>1
    <3>3. \A e \in Entries : o.parent # e.node
      BY <1>2, <3>1
    <3>4. \A c \in S : c \in OutputNodes \/ \E e \in Entries : c = e.node
      BY <1>1 DEF OutputNodes
    <3> QED BY <3>2, <3>3, <3>4
  <2> QED BY <2>1, <2>2
<1> QED BY <1>4, <1>5

LEMMA StepInv == IInv /\ [Next]_vars => IInv'
<1> SUFFICES ASSUME IInv, [Next]_vars PROVE IInv'
  OBVIOUS
<1> USE DEF IInv
<1>1. ASSUME UNCHANGED <<visited, mapped, wave, passes, output>>, TypeOK'
      PROVE  IInv'
  BY <1>1 DEF BrowsedWasMapped, EntriesAreMapped, MappedOnce, NoParentCycle, OutputNodes
<1>2. ASSUME NEW n \in AllNodes, Answer(n) PROVE IInv'
  <2>1. {c \in AllNodes : <<n, c>> \in Told} \in SUBSET AllNodes
    OBVIOUS
  <2>2. TypeOK'
    BY <1>2, <2>1 DEF Answer, TypeOK, optionVars, serverVars
  <2> QED BY <1>1, <1>2, <2>2 DEF Answer, optionVars
<1>3. CASE Reject
  <2>1. TypeOK'
    BY <1>3 DEF Reject, TypeOK, optionVars, serverVars, waveVars
  <2> QED BY <1>1, <1>3, <2>1 DEF Reject, optionVars, waveVars
<1>4. CASE EndWave
  BY <1>4, EndWaveTypes, EndWaveBrowsed, EndWaveMapped, EndWaveOnce, EndWaveNoCycle
<1>5. CASE Change
  <2>1. refs' \in SUBSET Links /\ changes' \in 0..MaxChanges
    BY <1>5, OptionsAssumption DEF Change, TypeOK
  <2>2. TypeOK'
    BY <1>5, <2>1 DEF Change, TypeOK, optionVars, waveVars
  <2> QED BY <1>1, <1>5, <2>2 DEF Change, optionVars, waveVars
<1>6. CASE UNCHANGED vars
  <2>1. TypeOK'
    BY <1>6 DEF TypeOK, vars, optionVars, serverVars, waveVars
  <2> QED BY <1>1, <1>6, <2>1 DEF vars, optionVars, waveVars
<1> QED BY <1>2, <1>3, <1>4, <1>5, <1>6 DEF Next, Finished

-----------------------------------------------------------------------------
(* The theorems.                                                           *)

\* The strengthened invariant holds in every behaviour of the browse.
THEOREM Invariant == Spec => []IInv
BY InitInv, StepInv, PTL DEF Spec

\* The variables keep their types in every behaviour.
THEOREM TypeCorrect == Spec => []TypeOK
<1>1. IInv => TypeOK
  BY DEF IInv
<1> QED BY <1>1, Invariant, PTL

\* No node is published twice, whatever refers to it and whenever.
THEOREM NodesAreMappedOnce == Spec => []MappedOnce
<1>1. IInv => MappedOnce
  BY DEF IInv
<1> QED BY <1>1, Invariant, PTL

\* Climbing from parent to parent always ends, in cyclic and changing address
\* spaces too.
THEOREM ParentsFormNoCycle == Spec => []NoParentCycle
<1>1. IInv => NoParentCycle
  BY DEF IInv
<1> QED BY <1>1, Invariant, PTL

\* Every parent is published, except the top-level nodes the filter rejects.
THEOREM ParentsAreKnown == Spec => []ParentIsKnown
<1>1. IInv => ParentIsKnown
  <2> SUFFICES ASSUME IInv, NEW o \in output, o.parent # None
               PROVE  o.parent \in OutputNodes \/ o.parent \in Rejected \ passes
    BY DEF ParentIsKnown
  <2>1. o.parent \in Nodes /\ o.parent \in visited
    BY DEF IInv, TypeOK, Entry, EntriesAreMapped
  <2>2. o.parent \in mapped
    BY <2>1, NodesAssumption DEF IInv, BrowsedWasMapped
  <2> QED BY <2>2 DEF IInv, EntriesAreMapped, Rejected
<1> QED BY <1>1, Invariant, PTL

-----------------------------------------------------------------------------
(* The nodes within k steps of the Objects folder.                         *)

Total == Cardinality(Nodes)

LEMMA TotalIsNat == Total \in Nat
BY NodesAssumption, FS_CardinalityType DEF Total

\* The definition by recursion defines a function.
LEMMA WithinUnfolds ==
  ASSUME TRUE
  PROVE  Within = [k \in 0..Total |->
                     IF k = 0 THEN {Root}
                     ELSE Within[k - 1] \cup (UNION {Recursed(p) : p \in Within[k - 1]})]
<1> DEFINE T == SUBSET AllNodes
           G == [X \in T |-> X \cup (UNION {Recursed(p) : p \in X})]
           Unfolds(f) == f = [k \in 0..Total |->
                                IF k = 0 THEN {Root}
                                ELSE f[k - 1] \cup (UNION {Recursed(p) : p \in f[k - 1]})]
<1>1. \E f \in [0..Total -> T] : f[0] = {Root} /\ \A k \in 1..Total : f[k] = G[f[k - 1]]
  <2> DEFINE start == {Root}
  <2>1. start \in T
    BY DEF AllNodes
  <2>2. G \in [T -> T]
    BY NodesAssumption DEF Recursed, AllNodes
  <2> HIDE DEF T, G, start
  <2>3. Iterates(T, start, G, Total) # {}
    BY <2>1, <2>2, TotalIsNat, Iteration
  <2> QED BY <2>3 DEF start, Iterates
<1>2. \E f : Unfolds(f)
  <2>1. PICK f \in [0..Total -> T] :
               f[0] = {Root} /\ \A k \in 1..Total : f[k] = G[f[k - 1]]
    BY <1>1
  <2>2. \A k \in 1..Total : k - 1 \in 0..Total /\ f[k - 1] \in T
    BY TotalIsNat
  <2>3. \A k \in 1..Total :
          f[k] = f[k - 1] \cup (UNION {Recursed(p) : p \in f[k - 1]})
    BY <2>1, <2>2
  <2>4. \A k \in 0..Total : k = 0 \/ k \in 1..Total
    BY TotalIsNat
  <2>5. Unfolds(f)
    BY <2>1, <2>3, <2>4
  <2> QED BY <2>5
<1>3. Within = CHOOSE f : Unfolds(f)
  BY DEF Within, Total
<1> HIDE DEF Unfolds
<1>4. Unfolds(Within)
  BY <1>2, <1>3
<1> QED BY <1>4 DEF Unfolds

LEMMA WithinIsStable == ASSUME UNCHANGED <<refs, withheld, passes>> PROVE Within' = Within
BY DEF Within, Recursed, Passes, Told

-----------------------------------------------------------------------------
(* What the browse knows in an address space that does not change.         *)

\* The nodes of the waves before wave k, and what those refer to.
Below(k) == IF k = 0 THEN {} ELSE Within[k - 1]
Named(S) == {c \in Nodes : \E p \in S : <<p, c>> \in Told}

\* No node within k steps leads to one that is further.
Closed(k) == \A p \in Within[k] : Recursed(p) \subseteq Within[k]

WaveNodes == {wave[i] : i \in DOMAIN wave}

\* Wave k browses the nodes that are exactly k steps from the Objects folder,
\* and what the waves before it referred to is mapped.  Each wave but the last
\* has visited a node more, so that there are no more waves than nodes.
AtWave(k) ==
  /\ maxDepth = -1 \/ k <= maxDepth
  /\ left = IF maxDepth = -1 THEN -1 ELSE maxDepth - k
  /\ visited = Within[k]
  /\ WaveNodes = Within[k] \ Below(k)
  /\ mapped = Named(Below(k))
  /\ \A n \in WaveNodes \ waiting : answers[n] = {c \in AllNodes : <<n, c>> \in Told}
  /\ Cardinality(visited) > k

\* The browse ended with wave k: at the depth limit, or because nothing is
\* further away.
EndedAt(k) ==
  /\ mapped = Named(Within[k])
  /\ \/ maxDepth = k
     \/ Closed(k) /\ (maxDepth = -1 \/ maxDepth >= k)

\* What was mapped is an entry, except the top-level nodes the filter rejects.
Listed == OutputNodes = mapped \ (TopLevel \ passes)

\* The parent of an entry is one of the nearest nodes that refer to it.
Origin(o) == IF o.parent = None THEN Root ELSE o.parent
Nearest(o) ==
  \E k \in 0..Total :
    /\ Origin(o) \in Within[k]
    /\ \A q \in Below(k) : <<q, o.node>> \notin Told

StillInv ==
  changes = 0 =>
    /\ Listed
    /\ \A o \in output : Nearest(o)
    /\ status = "browsing" => \E k \in 0..Total : AtWave(k)
    /\ status = "done" => \E k \in 0..Total : EndedAt(k)

\* The steps down, one at a time.
LEMMA WithinFacts ==
  ASSUME TRUE
  PROVE  /\ Within[0] = {Root}
         /\ \A k \in 1..Total :
              Within[k] = Within[k - 1] \cup (UNION {Recursed(p) : p \in Within[k - 1]})
         /\ \A k \in 0..Total : Root \in Within[k] /\ Within[k] \subseteq AllNodes
<1> DEFINE Sub(X) == UNION {Recursed(p) : p \in X}
           Good == {k \in 0..Total : Root \in Within[k] /\ Within[k] \subseteq AllNodes}
<1>1. Within[0] = {Root}
  BY WithinUnfolds, TotalIsNat
<1>2. ASSUME NEW k \in 1..Total PROVE Within[k] = Within[k - 1] \cup Sub(Within[k - 1])
  <2>1. k \in 0..Total /\ k # 0
    BY TotalIsNat
  <2> HIDE DEF Sub
  <2>2. Within = [j \in 0..Total |-> IF j = 0 THEN {Root}
                                     ELSE Within[j - 1] \cup Sub(Within[j - 1])]
    BY WithinUnfolds DEF Sub
  <2> QED BY <2>1, <2>2
<1>3. \A X \in SUBSET AllNodes : Sub(X) \subseteq AllNodes
  BY NodesAssumption DEF Recursed, AllNodes
<1> HIDE DEF Sub
<1>4. 0 \in Good
  BY <1>1, TotalIsNat DEF AllNodes
<1>5. ASSUME NEW k \in Nat, k < Total, k \in Good PROVE k + 1 \in Good
  <2>1. k + 1 \in 1..Total /\ (k + 1) - 1 = k
    BY <1>5, TotalIsNat
  <2>2. Within[k + 1] = Within[k] \cup Sub(Within[k])
    BY <1>2, <2>1
  <2> QED BY <1>3, <1>5, <2>1, <2>2
<1> HIDE DEF Good
<1>6. 0..Total \subseteq Good
  BY <1>4, <1>5, TotalIsNat, InductionUpTo
<1> QED BY <1>1, <1>2, <1>6 DEF Good, Sub

LEMMA WithinNext ==
  ASSUME NEW k \in 0..Total, k < Total
  PROVE  Within[k + 1] = Within[k] \cup (UNION {Recursed(p) : p \in Within[k]})
<1>1. k + 1 \in 1..Total /\ (k + 1) - 1 = k
  BY TotalIsNat
<1> QED BY <1>1, WithinFacts

\* More steps lead at least as far.
LEMMA WithinGrows ==
  ASSUME NEW k \in 0..Total, NEW j \in 0..k
  PROVE  Within[j] \subseteq Within[k]
<1> DEFINE Good == {i \in Nat : j <= i => Within[j] \subseteq Within[i]}
<1>1. 0 \in Good
  <2>1. j <= 0 => j = 0
    OBVIOUS
  <2> QED BY <2>1
<1>2. ASSUME NEW i \in Nat, i < k, i \in Good PROVE i + 1 \in Good
  <2>1. Within[i] \subseteq Within[i + 1]
    BY <1>2, WithinNext, TotalIsNat
  <2>2. j <= i + 1 => j <= i \/ j = i + 1
    OBVIOUS
  <2> QED BY <1>2, <2>1, <2>2
<1>3. k \in Nat
  BY TotalIsNat
<1> HIDE DEF Good
<1>4. 0..k \subseteq Good
  BY <1>1, <1>2, <1>3, InductionUpTo
<1> QED BY <1>3, <1>4 DEF Good

\* Where no node leads further, more steps lead nowhere else.
LEMMA WithinStops ==
  ASSUME NEW m \in 0..Total, NEW k \in 0..m, Closed(k)
  PROVE  Within[m] = Within[k]
<1> DEFINE Good == {i \in Nat : k <= i => Within[i] = Within[k]}
<1>1. 0 \in Good
  <2>1. k <= 0 => k = 0
    OBVIOUS
  <2> QED BY <2>1
<1>2. ASSUME NEW i \in Nat, i < m, i \in Good PROVE i + 1 \in Good
  <2>1. CASE k = i + 1
    BY <2>1
  <2>2. CASE k <= i
    <3>1. Within[i] = Within[k]
      BY <1>2, <2>2
    <3>2. Within[i + 1] = Within[i] \cup (UNION {Recursed(p) : p \in Within[i]})
      BY <1>2, WithinNext, TotalIsNat
    <3>3. (UNION {Recursed(p) : p \in Within[i]}) \subseteq Within[k]
      BY <3>1 DEF Closed
    <3>4. Within[i + 1] = Within[k]
      BY <3>1, <3>2, <3>3
    <3> QED BY <3>4
  <2>3. CASE ~(k <= i + 1)
    BY <2>3
  <2> QED BY <2>1, <2>2, <2>3
<1>3. m \in Nat
  BY TotalIsNat
<1> HIDE DEF Good
<1>4. 0..m \subseteq Good
  BY <1>1, <1>2, <1>3, InductionUpTo
<1> QED BY <1>3, <1>4 DEF Good

\* The nodes of the waves before wave k are within k steps.
LEMMA BelowIsWithin ==
  ASSUME NEW k \in 0..Total
  PROVE  /\ Below(k) \subseteq Within[k]
         /\ \A p \in Below(k) : Recursed(p) \subseteq Within[k]
<1>1. CASE k = 0
  BY <1>1 DEF Below
<1>2. CASE k # 0
  <2>1. k - 1 \in 0..Total /\ k - 1 < Total /\ (k - 1) + 1 = k
    BY <1>2, TotalIsNat
  <2>2. Within[k] = Within[k - 1] \cup (UNION {Recursed(p) : p \in Within[k - 1]})
    BY <2>1, WithinNext
  <2> QED BY <1>2, <2>2 DEF Below
<1> QED BY <1>1, <1>2

-----------------------------------------------------------------------------
(* What the end of a wave finds.                                           *)

\* Of the items that refer to a node there is a first.
LEMMA SomeRefIsFirst ==
  ASSUME TypeOK, NEW i \in DOMAIN wave, NEW c \in answers[wave[i]] \ visited
  PROVE  \E r \in FirstRefs : r[2] = c
<1> DEFINE from == {j \in DOMAIN wave : c \in answers[wave[j]]}
<1>1. DOMAIN wave \subseteq Nat /\ wave[i] \in AllNodes
  BY DEF TypeOK
<1>2. c \in AllNodes
  BY <1>1 DEF TypeOK
<1>3. PICK j \in from : \A l \in from : j <= l
  <2>1. from \in SUBSET Nat /\ i \in from
    BY <1>1
  <2> HIDE DEF from
  <2> QED BY <2>1, LeastNatural
<1>4. <<j, c>> \in FirstRefs
  BY <1>2, <1>3 DEF FirstRefs
<1>5. <<j, c>>[2] = c
  OBVIOUS
<1> QED BY <1>4, <1>5

\* When every node of wave k is answered, the first references are those of
\* its nodes to nodes that were not browsed.
LEMMA FoundInStillSpace ==
  ASSUME TypeOK, waiting = {}, NEW k \in 0..Total, AtWave(k)
  PROVE  /\ \A r \in FirstRefs : /\ wave[r[1]] \in Within[k] \ Below(k)
                                 /\ <<wave[r[1]], r[2]>> \in Told
                                 /\ r[2] \in Nodes \ Within[k]
         /\ \A p \in Within[k] \ Below(k), c \in AllNodes \ Within[k] :
              <<p, c>> \in Told => \E r \in FirstRefs : r[2] = c
<1>1. /\ WaveNodes = Within[k] \ Below(k)
      /\ visited = Within[k]
      /\ \A n \in WaveNodes : answers[n] = {c \in AllNodes : <<n, c>> \in Told}
  BY DEF AtWave
<1>2. ASSUME NEW r \in FirstRefs
      PROVE  /\ wave[r[1]] \in Within[k] \ Below(k)
             /\ <<wave[r[1]], r[2]>> \in Told
             /\ r[2] \in Nodes \ Within[k]
  <2>1. r[1] \in DOMAIN wave /\ r[2] \in answers[wave[r[1]]] \ visited
    BY <1>2 DEF FirstRefs
  <2>2. wave[r[1]] \in WaveNodes
    BY <2>1 DEF WaveNodes
  <2>3. r[2] # Root
    BY <1>1, <2>1, WithinFacts
  <2> QED BY <1>1, <2>1, <2>2, <2>3 DEF AllNodes
<1>3. ASSUME NEW p \in Within[k] \ Below(k), NEW c \in AllNodes \ Within[k], <<p, c>> \in Told
      PROVE  \E r \in FirstRefs : r[2] = c
  <2>1. PICK i \in DOMAIN wave : wave[i] = p
    BY <1>1 DEF WaveNodes
  <2>2. c \in answers[wave[i]] \ visited
    BY <1>1, <1>3, <2>1 DEF WaveNodes
  <2> QED BY <2>2, SomeRefIsFirst
<1> QED BY <1>2, <1>3

\* All that wave k and those before it referred to is mapped.
LEMMA MappedInStillSpace ==
  ASSUME TypeOK, BrowsedWasMapped, waiting = {}, NEW k \in 0..Total, AtWave(k)
  PROVE  mapped \cup FoundNodes = Named(Within[k])
<1>1. mapped = Named(Below(k)) /\ visited = Within[k]
  BY DEF AtWave
<1>2. ASSUME NEW c \in mapped \cup FoundNodes PROVE c \in Named(Within[k])
  <2>1. CASE c \in mapped
    BY <1>1, <2>1, BelowIsWithin DEF Named
  <2>2. CASE c \in FoundNodes
    <3>1. PICK r \in FirstRefs : r[2] = c
      BY <2>2 DEF FoundNodes
    <3>2. /\ wave[r[1]] \in Within[k]
          /\ <<wave[r[1]], c>> \in Told
          /\ c \in Nodes
      BY <3>1, FoundInStillSpace
    <3>. QED  BY <3>2 DEF Named
  <2> QED BY <1>2, <2>1, <2>2
<1>3. ASSUME NEW c \in Named(Within[k]) PROVE c \in mapped \cup FoundNodes
  <2>1. PICK p \in Within[k] : <<p, c>> \in Told
    BY <1>3 DEF Named
  <2>2. c \in Nodes /\ c # Root
    BY <1>3, NodesAssumption DEF Named
  <2>3. CASE p \in Below(k)
    BY <1>1, <2>1, <2>2, <2>3 DEF Named
  <2>4. CASE c \in Within[k]
    BY <1>1, <2>2, <2>4 DEF BrowsedWasMapped
  <2>5. CASE p \notin Below(k) /\ c \notin Within[k]
    <3>1. p \in Within[k] \ Below(k) /\ c \in AllNodes \ Within[k]
      BY <2>1, <2>2, <2>5 DEF AllNodes
    <3>2. PICK r \in FirstRefs : r[2] = c
      BY <2>1, <3>1, FoundInStillSpace
    <3>. QED  BY <3>2 DEF FoundNodes
  <2> QED BY <2>3, <2>4, <2>5
<1> QED BY <1>2, <1>3

\* The next wave is what is one step further, unless the limit is reached.
LEMMA NextInStillSpace ==
  ASSUME TypeOK, waiting = {}, NEW k \in 0..Total, AtWave(k)
  PROVE  NextNodes = IF left = 0 THEN {}
                     ELSE (UNION {Recursed(p) : p \in Within[k]}) \ Within[k]
<1>1. CASE left = 0
  BY <1>1 DEF NextNodes, MayRecurse
<1>2. CASE left # 0
  <2>1. ASSUME NEW c \in NextNodes PROVE c \notin Within[k] /\ \E p \in Within[k] : c \in Recursed(p)
    <3>1. PICK r \in FirstRefs : r[2] = c /\ MayRecurse(wave[r[1]], c)
      BY <2>1 DEF NextNodes
    <3>2. /\ wave[r[1]] \in Within[k]
          /\ <<wave[r[1]], c>> \in Told
          /\ c \notin Within[k]
      BY <3>1, FoundInStillSpace
    <3>3. c \in Recursed(wave[r[1]])
      BY <3>1, <3>2 DEF MayRecurse, Recursed
    <3> QED BY <3>2, <3>3
  <2>2. ASSUME NEW p \in Within[k], NEW c \in Recursed(p), c \notin Within[k]
        PROVE  c \in NextNodes
    <3>1. /\ c \in Branches /\ <<p, c>> \in Told /\ Passes(p, c)
          /\ c \in AllNodes
      BY <2>2, NodesAssumption DEF Recursed, AllNodes
    <3>2. p \notin Below(k)
      BY <2>2, BelowIsWithin
    <3>3. PICK r \in FirstRefs : r[2] = c
      BY <2>2, <3>1, <3>2, FoundInStillSpace
    <3>4. wave[r[1]] \in Within[k] \ Below(k)
      BY <3>3, FoundInStillSpace
    <3>5. wave[r[1]] = Root => p = Root
      <4>1. Root \notin Below(k) => k = 0
        BY WithinFacts, TotalIsNat DEF Below
      <4> QED BY <3>4, <4>1, WithinFacts
    <3>6. Passes(wave[r[1]], c)
      BY <3>1, <3>5 DEF Passes
    <3>7. MayRecurse(wave[r[1]], c)
      BY <1>2, <3>1, <3>6 DEF MayRecurse
    <3> QED BY <3>1, <3>3, <3>7 DEF NextNodes
  <2> QED BY <1>2, <2>1, <2>2
<1> QED BY <1>1, <1>2

\* What a wave maps becomes an entry, unless it is a top-level node that the
\* filter rejects; its parent is among the nearest nodes that refer to it.
LEMMA EntriesInStillSpace ==
  ASSUME IInv, waiting = {}, NEW k \in 0..Total, AtWave(k)
  PROVE  /\ \A c \in FoundNodes \ mapped :
              (\E e \in Entries : e.node = c) <=> c \notin TopLevel \ passes
         /\ \A e \in Entries : Nearest(e)
<1> USE DEF IInv
<1>1. mapped = Named(Below(k)) /\ (Root \notin Below(k) => k = 0)
  BY WithinFacts, TotalIsNat DEF AtWave, Below
<1>2. ASSUME NEW r \in FirstRefs, r[2] \notin mapped
      PROVE  Passes(wave[r[1]], r[2]) <=> r[2] \notin TopLevel \ passes
  <2>1. /\ wave[r[1]] \in Within[k] \ Below(k)
        /\ <<wave[r[1]], r[2]>> \in Told
        /\ r[2] \in Nodes
    BY FoundInStillSpace
  <2>2. CASE k = 0
    <3>1. wave[r[1]] = Root
      BY <2>1, <2>2, WithinFacts
    <3> QED BY <2>1, <3>1 DEF Passes, TopLevel
  <2>3. CASE k # 0
    <3>1. Root \in Below(k)
      BY <1>1, <2>3
    <3>2. r[2] \notin TopLevel
      BY <1>1, <1>2, <2>1, <3>1 DEF Named, TopLevel
    <3> QED BY <2>1, <3>1, <3>2 DEF Passes
  <2> QED BY <2>2, <2>3
<1>3. ASSUME NEW c \in FoundNodes \ mapped
      PROVE  (\E e \in Entries : e.node = c) <=> c \notin TopLevel \ passes
  <2>1. PICK r \in FirstRefs : r[2] = c
    BY <1>3 DEF FoundNodes
  <2>2. \A s \in FirstRefs : s[2] = c => s = r
    BY <2>1, FirstRefsFacts
  <2>3. (\E e \in Entries : e.node = c) => Passes(wave[r[1]], c)
    BY <2>1, <2>2 DEF Entries, Collected
  <2>4. Passes(wave[r[1]], c) => \E e \in Entries : e.node = c
    <3>1. SUFFICES ASSUME Passes(wave[r[1]], c) PROVE \E e \in Entries : e.node = c
      OBVIOUS
    <3>2. r \in Collected
      BY <1>3, <2>1, <3>1 DEF Collected
    <3>3. [node |-> c, parent |-> EffectiveParent(wave[r[1]])] \in Entries
      BY <2>1, <3>2 DEF Entries
    <3> QED BY <3>3
  <2> QED BY <1>2, <1>3, <2>1, <2>3, <2>4
<1>4. ASSUME NEW e \in Entries PROVE Nearest(e)
  <2>1. PICK r \in Collected :
          e = [node |-> r[2], parent |-> EffectiveParent(wave[r[1]])]
    BY <1>4 DEF Entries
  <2>2. r \in FirstRefs /\ r[2] \notin mapped
    BY <2>1 DEF Collected
  <2>3. wave[r[1]] \in Within[k] /\ wave[r[1]] \in AllNodes /\ r[2] \in Nodes
    BY <2>2, FoundInStillSpace, FirstRefsFacts
  <2>4. Origin(e) = wave[r[1]]
    BY <2>1, <2>3, NodesAssumption DEF Origin, EffectiveParent
  <2>5. \A q \in Below(k) : <<q, r[2]>> \notin Told
    BY <1>1, <2>2, <2>3 DEF Named
  <2> QED BY <2>1, <2>3, <2>4, <2>5 DEF Nearest
<1> QED BY <1>3, <1>4

-----------------------------------------------------------------------------
(* Each action preserves what is known of a space that does not change.    *)

LEMMA InitStill == Init => StillInv
<1> SUFFICES ASSUME Init PROVE StillInv
  OBVIOUS
<1>1. Listed /\ output = {}
  BY DEF Init, Listed, OutputNodes
<1>2. AtWave(0)
  <2>1. WaveNodes = {Root} /\ Within[0] = {Root} /\ Below(0) = {}
    BY WithinFacts DEF Init, WaveNodes, Below
  <2>2. mapped = Named(Below(0))
    BY <2>1 DEF Init, Named
  <2>3. Cardinality(visited) > 0
    <3>1. Cardinality({Root}) = 1
      BY FS_Singleton
    <3> QED BY <3>1 DEF Init
  <2>4. /\ left = IF maxDepth = -1 THEN -1 ELSE maxDepth - 0
        /\ maxDepth = -1 \/ 0 <= maxDepth
    BY OptionsAssumption DEF Init
  <2> QED BY <2>1, <2>2, <2>3, <2>4 DEF Init, AtWave
<1> QED BY <1>1, <1>2, TotalIsNat DEF Init, StillInv

\* The facts about the space are the same after a step that leaves it alone.
LEMMA StillSpace ==
  ASSUME UNCHANGED <<refs, withheld, passes>>
  PROVE  /\ \A k : Below(k)' = Below(k)
         /\ \A k : Closed(k)' <=> Closed(k)
         /\ \A S : Named(S)' = Named(S)
         /\ \A o : Nearest(o)' <=> Nearest(o)
         /\ TopLevel' = TopLevel
<1>1. Within' = Within
  BY WithinIsStable
<1>2. \A k : Below(k)' = Below(k)
  BY <1>1 DEF Below
<1>3. Told' = Told
  BY DEF Told
<1> QED
  BY <1>1, <1>2, <1>3 DEF Closed, Recursed, Passes, Named, Nearest, Origin, TopLevel

\* The end of wave k begins wave k + 1 or ends the browse.
LEMMA EndWaveStill ==
  ASSUME IInv, EndWave, changes = 0, NEW k \in 0..Total, AtWave(k)
  PROVE  /\ status' = "done" => EndedAt(k)'
         /\ status' = "browsing" => k + 1 \in 0..Total /\ AtWave(k + 1)'
<1> USE DEF IInv
<1> DEFINE Sub == UNION {Recursed(p) : p \in Within[k]}
<1>1. /\ UNCHANGED <<maxDepth, refs, withheld, passes>>
      /\ waiting = {} /\ waiting' = NextNodes
      /\ visited' = visited \cup NextNodes
      /\ left' = LevelsBelow(left)
      /\ mapped' = mapped \cup FoundNodes
      /\ wave' \in SetToSeqs(NextNodes)
      /\ status' = IF NextNodes = {} THEN "done" ELSE "browsing"
  BY DEF EndWave, FoundNodes, optionVars, serverVars
<1>2. Within' = Within
  BY <1>1, WithinIsStable
<1>3. mapped' = Named(Within[k])
  BY <1>1, MappedInStillSpace
<1>4. NextNodes = IF left = 0 THEN {} ELSE Sub \ Within[k]
  BY <1>1, NextInStillSpace
<1>5. /\ maxDepth \in Nat \cup {-1} /\ k \in Nat
      /\ left = IF maxDepth = -1 THEN -1 ELSE maxDepth - k
      /\ maxDepth = -1 \/ k <= maxDepth
  BY OptionsAssumption, TotalIsNat DEF TypeOK, AtWave
<1>6. ASSUME NextNodes = {} PROVE EndedAt(k)'
  <2>1. mapped' = Named(Within[k])'
    BY <1>1, <1>2, <1>3, StillSpace DEF Named
  <2>2. CASE left = 0
    <3>1. maxDepth' = k
      BY <1>1, <1>5, <2>2
    <3> QED BY <2>1, <3>1 DEF EndedAt
  <2>3. CASE left # 0
    <3>1. Sub \subseteq Within[k]
      BY <1>4, <1>6, <2>3
    <3> HIDE DEF Sub
    <3>2. Closed(k)
      BY <3>1 DEF Closed, Sub
    <3>3. Closed(k)'
      BY <1>1, <3>2, StillSpace
    <3>4. maxDepth' = -1 \/ maxDepth' >= k
      BY <1>1, <1>5
    <3> QED BY <2>1, <3>3, <3>4 DEF EndedAt
  <2> QED BY <2>2, <2>3
<1>7. ASSUME NextNodes # {} PROVE k + 1 \in 0..Total /\ AtWave(k + 1)'
  <2>1. left # 0 /\ NextNodes = Sub \ Within[k]
    BY <1>4, <1>7
  <2>2. /\ visited = Within[k] /\ Cardinality(visited) > k
        /\ visited \subseteq AllNodes
    BY DEF AtWave, TypeOK
  <2>3. IsFiniteSet(AllNodes) /\ Cardinality(AllNodes) = Total + 1
    BY NodesAssumption, FS_AddElement DEF AllNodes, Total
  <2>4. visited' \subseteq AllNodes /\ visited \subseteq visited' /\ visited' # visited
    BY <1>1, <1>7, <2>1, <2>2, NextNodesFound
  <2>5. Cardinality(visited') > k + 1
    <3>1. /\ IsFiniteSet(visited') /\ IsFiniteSet(visited)
      BY <2>2, <2>3, <2>4, FS_Subset
    <3>2. /\ Cardinality(visited) <= Cardinality(visited')
          /\ Cardinality(visited) # Cardinality(visited')
      BY <2>4, <3>1, FS_Subset
    <3>3. Cardinality(visited) \in Nat /\ Cardinality(visited') \in Nat
      BY <3>1, FS_CardinalityType
    <3> QED BY <1>5, <2>2, <3>2, <3>3
  <2>6. k + 1 \in 0..Total /\ k < Total
    <3>1. Cardinality(visited') <= Total + 1 /\ Cardinality(visited') \in Nat
      BY <2>3, <2>4, FS_Subset, FS_CardinalityType
    <3> QED BY <1>5, <2>5, <3>1, TotalIsNat
  <2>7. Within[k + 1] = Within[k] \cup Sub
    BY <2>6, WithinNext
  <2>8. Below(k + 1) = Within[k]
    BY <1>5 DEF Below
  <2>9. WaveNodes' = NextNodes
    <3>1. IsFiniteSet(NextNodes)
      BY <2>3, NextNodesFound, FS_Subset
    <3>2. wave' \in [1..Cardinality(NextNodes) -> NextNodes]
          /\ \A n \in NextNodes : \E i \in DOMAIN wave' : wave'[i] = n
      BY <1>1, <3>1, OrdersHoldAll
    <3> QED BY <3>2 DEF WaveNodes
  <2> HIDE DEF Sub
  <2>10. visited' = Within'[k + 1] /\ WaveNodes' = Within'[k + 1] \ Below(k + 1)'
    <3>1. Below(k + 1)' = Within[k]
      BY <1>1, <2>8, StillSpace
    <3> QED BY <1>1, <1>2, <2>1, <2>2, <2>7, <2>9, <3>1
  <2>11. mapped' = Named(Below(k + 1))'
    BY <1>1, <1>2, <1>3, <2>8, StillSpace DEF Named, Below
  <2>12. /\ left' = IF maxDepth' = -1 THEN -1 ELSE maxDepth' - (k + 1)
         /\ maxDepth' = -1 \/ k + 1 <= maxDepth'
    BY <1>1, <1>5, <2>1 DEF LevelsBelow
  <2>13. WaveNodes' \ waiting' = {}
    BY <1>1, <2>9
  <2> QED BY <2>5, <2>6, <2>10, <2>11, <2>12, <2>13 DEF AtWave
<1> QED BY <1>1, <1>6, <1>7

LEMMA StillStep == IInv /\ StillInv /\ [Next]_vars => StillInv'
<1> SUFFICES ASSUME IInv, StillInv, [Next]_vars, changes' = 0 PROVE StillInv'
  BY DEF StillInv
<1> USE DEF IInv
<1>1. ASSUME changes = 0, UNCHANGED <<optionVars, refs, output, mapped>>
      PROVE  Listed' /\ \A o \in output' : Nearest(o)'
  <2>1. UNCHANGED <<refs, withheld, passes>>
    BY <1>1 DEF optionVars
  <2>2. TopLevel' = TopLevel /\ \A o : Nearest(o)' <=> Nearest(o)
    BY <2>1, StillSpace
  <2> QED BY <1>1, <2>1, <2>2 DEF StillInv, Listed, OutputNodes
<1>2. ASSUME NEW n \in AllNodes, Answer(n) PROVE StillInv'
  <2>1. /\ changes = 0 /\ UNCHANGED <<optionVars, refs, withheld, passes, output, mapped>>
        /\ UNCHANGED <<maxDepth, wave, left, visited, status>>
        /\ status = "browsing"
        /\ waiting' = waiting \ {n}
        /\ answers' = [answers EXCEPT ![n] = {c \in AllNodes : <<n, c>> \in Told}]
    BY <1>2 DEF Answer, optionVars, serverVars
  <2>2. PICK k \in 0..Total : AtWave(k)
    BY <2>1 DEF StillInv
  <2>3. WaveNodes' = WaveNodes /\ WaveNodes \subseteq AllNodes
    BY <2>1 DEF WaveNodes, TypeOK
  <2>4. \A m \in WaveNodes' \ waiting' : answers'[m] = {c \in AllNodes : <<m, c>> \in Told'}
    BY <2>1, <2>2, <2>3 DEF AtWave, TypeOK, Told
  <2>5. Within' = Within /\ Below(k)' = Below(k) /\ Named(Below(k))' = Named(Below(k))
    BY <2>1, WithinIsStable, StillSpace DEF Named, Told
  <2>6. AtWave(k)'
    BY <2>1, <2>2, <2>3, <2>4, <2>5 DEF AtWave
  <2> QED BY <1>1, <2>1, <2>6 DEF StillInv
<1>3. CASE Reject
  BY <1>1, <1>3 DEF Reject, StillInv, optionVars, serverVars, waveVars
<1>4. CASE EndWave
  <2>1. /\ changes = 0 /\ UNCHANGED <<refs, withheld, passes>> /\ waiting = {}
        /\ status = "browsing"
        /\ status' \in {"done", "browsing"}
        /\ mapped' = mapped \cup FoundNodes
        /\ output' = output \cup Entries
    BY <1>4 DEF EndWave, FoundNodes, optionVars, serverVars
  <2>2. PICK k \in 0..Total : AtWave(k)
    BY <2>1 DEF StillInv
  <2>3. /\ \A c \in FoundNodes \ mapped :
             (\E e \in Entries : e.node = c) <=> c \notin TopLevel \ passes
        /\ \A e \in Entries : Nearest(e)
    BY <2>1, <2>2, EntriesInStillSpace
  <2>4. TopLevel' = TopLevel /\ \A o : Nearest(o)' <=> Nearest(o)
    BY <2>1, StillSpace
  <2>5. Listed'
    <3>1. OutputNodes' = OutputNodes \cup {e.node : e \in Entries}
      BY <2>1 DEF OutputNodes
    <3>2. {e.node : e \in Entries} \subseteq FoundNodes \ mapped
      BY EntriesFacts
    <3>3. OutputNodes = mapped \ (TopLevel \ passes)
      BY <2>1 DEF StillInv, Listed
    <3>4. {e.node : e \in Entries} = (FoundNodes \ mapped) \ (TopLevel \ passes)
      BY <2>3, <3>2
    <3>5. OutputNodes' = (mapped \cup FoundNodes) \ (TopLevel \ passes)
      BY <3>1, <3>3, <3>4
    <3> QED BY <2>1, <2>4, <3>5 DEF Listed
  <2>6. \A o \in output' : Nearest(o)'
    BY <2>1, <2>3, <2>4 DEF StillInv
  <2>7. /\ status' = "done" => EndedAt(k)'
        /\ status' = "browsing" => k + 1 \in 0..Total /\ AtWave(k + 1)'
    BY <1>4, <2>1, <2>2, EndWaveStill
  <2> QED BY <2>1, <2>5, <2>6, <2>7 DEF StillInv
<1>5. CASE Change
  BY <1>5 DEF Change, TypeOK
<1>6. CASE UNCHANGED vars
  <2>1. /\ changes = 0 /\ UNCHANGED <<optionVars, refs, withheld, passes, output, mapped>>
        /\ UNCHANGED <<maxDepth, wave, left, waiting, answers, visited, status>>
    BY <1>6 DEF vars, optionVars, serverVars, waveVars
  <2>2. Within' = Within /\ WaveNodes' = WaveNodes
    BY <2>1, WithinIsStable DEF WaveNodes
  <2>3. ASSUME NEW k PROVE (AtWave(k)' <=> AtWave(k)) /\ (EndedAt(k)' <=> EndedAt(k))
    <3>1. /\ Below(k)' = Below(k) /\ Named(Below(k))' = Named(Below(k))
          /\ (Closed(k)' <=> Closed(k)) /\ Named(Within[k])' = Named(Within[k])
      BY <2>1, <2>2, StillSpace DEF Named, Told
    <3> QED BY <2>1, <2>2, <3>1 DEF AtWave, EndedAt, Told
  <2> QED BY <1>1, <2>1, <2>3 DEF StillInv
<1> QED BY <1>2, <1>3, <1>4, <1>5, <1>6 DEF Next, Finished

\* In an address space that does not change, wave k browses exactly the nodes
\* that are k steps away over the references the results name, and every entry
\* hangs below a nearest node.
THEOREM StillSpaceInvariant == Spec => []StillInv
BY InitStill, StillStep, Invariant, PTL DEF Spec

\* Where the browse ended, it had gone as far as the depth limit lets it.
LEMMA BrowsedAll ==
  ASSUME maxDepth \in Nat \cup {-1}, NEW k \in 0..Total, EndedAt(k)
  PROVE  Browsed = Within[k]
<1> DEFINE limit == IF maxDepth \in 0..Total THEN maxDepth ELSE Total
<1>1. Browsed = Within[limit]
  BY DEF Browsed, Total
<1>2. CASE maxDepth = k
  BY <1>1, <1>2
<1>3. CASE Closed(k) /\ (maxDepth = -1 \/ maxDepth >= k)
  <2>1. limit \in 0..Total /\ k \in 0..limit
    BY <1>3, TotalIsNat
  <2> HIDE DEF limit
  <2> QED BY <1>1, <1>3, <2>1, WithinStops
<1> QED BY <1>2, <1>3 DEF EndedAt

\* The browse of an address space that does not change finds exactly the nodes
\* that the references in its results lead to within the depth limit, except the
\* top-level ones the filter rejects, whichever results are Bad.
THEOREM BrowseIsComplete == Spec => []Complete
<1>1. IInv /\ StillInv => Complete
  <2> SUFFICES ASSUME IInv, StillInv, status = "done", changes = 0
               PROVE  OutputNodes = Expected
    BY DEF Complete
  <2>1. PICK k \in 0..Total : EndedAt(k)
    BY DEF StillInv
  <2>2. maxDepth \in Nat \cup {-1}
    BY OptionsAssumption DEF IInv, TypeOK
  <2>3. Browsed = Within[k]
    BY <2>1, <2>2, BrowsedAll
  <2>4. mapped = Named(Browsed)
    BY <2>1, <2>3 DEF EndedAt
  <2>5. OutputNodes = mapped \ (TopLevel \ passes)
    BY DEF StillInv, Listed
  <2> QED BY <2>4, <2>5 DEF Expected, Named
<1> QED BY <1>1, Invariant, StillSpaceInvariant, PTL

\* In an address space that does not change no result names an entry from closer
\* to the Objects folder than it hangs, whichever results are Bad.
THEOREM EntriesHangAtShortestPaths == Spec => []ShortestPath
<1>1. StillInv => ShortestPath
  <2> SUFFICES ASSUME StillInv, changes = 0, NEW o \in output, NEW m \in 0..Total,
                      NEW q \in Within[m], <<q, o.node>> \in Told
               PROVE  Origin(o) \in Within[m]
    BY DEF ShortestPath, Total, Origin
  <2>1. PICK k \in 0..Total : /\ Origin(o) \in Within[k]
                              /\ \A p \in Below(k) : <<p, o.node>> \notin Told
    BY DEF StillInv, Nearest
  <2>2. k <= m
    <3>1. SUFFICES ASSUME m < k PROVE FALSE
      BY TotalIsNat
    <3>2. k # 0 /\ k - 1 \in 0..Total /\ m \in 0..(k - 1)
      BY <3>1, TotalIsNat
    <3>3. q \in Below(k)
      BY <3>2, WithinGrows DEF Below
    <3> QED BY <2>1, <3>3
  <2>3. k \in 0..m
    BY <2>2, TotalIsNat
  <2> QED BY <2>1, <2>3, WithinGrows
<1> QED BY <1>1, StillSpaceInvariant, PTL
=============================================================================
