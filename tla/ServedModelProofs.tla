-------------------------- MODULE ServedModelProofs --------------------------
(***************************************************************************)
(* What servers derive of their sources, and the walk that reads it:       *)
(*   - for any address spaces, the model that is built mirrors its space   *)
(*     (ModelMirrorsSpace);                                                *)
(*   - for any calls, batches of any size and any number of connects, the  *)
(*     walk of the MCP server shows the model (WalkShowsTheModel);         *)
(*   - for any types, adapters and failing calls, the catalog is sound     *)
(*     (TypesAreSound).                                                    *)
(* They rest on what the recursive functions of ObjectModel and            *)
(* TypeCatalog yield, each of which is shown to satisfy its own equation   *)
(* before it is used.                                                      *)
(***************************************************************************)
EXTENDS ServedModel, FiniteSetTheorems, WellFoundedInduction, TLAPS

-----------------------------------------------------------------------------
(* Numbers, and functions that are defined by recursion over them. *)

(* A non-empty set of natural numbers has a least element. *)
LEMMA LeastNatural ==
  ASSUME NEW S \in SUBSET Nat, S # {}
  PROVE  \E n \in S : \A m \in S : n <= m
  <1>. DEFINE R == {ss \in Nat \X Nat : ss[1] < ss[2]}
  <1>1. IsWellFoundedOn(R, Nat)
    BY NatLessThanWellFounded DEF OpToRel
  <1>2. \E n \in S : \A m \in S : ~ (<<m, n>> \in R)
    <2>. HIDE DEF R
    <2>. QED  BY <1>1, WFMin
  <1>3. \A n, m \in S : <<m, n>> \in R \/ n <= m
    OBVIOUS
  <1>. QED  BY <1>2, <1>3

(* A set that holds zero and every successor of its elements up to n holds *)
(* the numbers up to n.                                                    *)
LEMMA InductionUpTo ==
  ASSUME NEW n \in Nat, NEW S, 0 \in S,
         \A k \in Nat : k < n /\ k \in S => k + 1 \in S
  PROVE  0 .. n \subseteq S
  <1>. DEFINE missing == {k \in 0 .. n : k \notin S}
  <1>. SUFFICES ASSUME missing # {} PROVE FALSE
    OBVIOUS
  <1>1. PICK k \in missing : \A m \in missing : k <= m
    <2>1. missing \in SUBSET Nat
      OBVIOUS
    <2>. HIDE DEF missing
    <2>. QED  BY <2>1, LeastNatural
  <1>2. k # 0 /\ k - 1 \in 0 .. n /\ k - 1 \notin missing
    BY <1>1
  <1>. QED  BY <1>1, <1>2

\* What n steps make of a, step k as G says.
Run(T, a, G, n, f) ==
  /\ f \in [0 .. n -> T]
  /\ f[0] = a
  /\ \A k \in 1 .. n : f[k] = G[<<k, f[k - 1]>>]

(* Any number of steps can be made. *)
LEMMA Runs ==
  ASSUME NEW T, NEW a \in T, NEW n \in Nat, NEW G \in [(1 .. n) \X T -> T]
  PROVE  \E f : Run(T, a, G, n, f)
  <1>. DEFINE S == {m \in Nat : m <= n => \E f : Run(T, a, G, m, f)}
  <1>1. 0 \in S
    <2>1. Run(T, a, G, 0, [k \in 0 .. 0 |-> a])
      BY DEF Run
    <2>. QED  BY <2>1
  <1>2. ASSUME NEW m \in Nat, m < n, m \in S PROVE m + 1 \in S
    <2>1. PICK f : Run(T, a, G, m, f)
      BY <1>2
    <2>. DEFINE last == G[<<m + 1, f[m]>>]
                g == [k \in 0 .. m + 1 |-> IF k <= m THEN f[k] ELSE last]
    <2>2. f \in [0 .. m -> T] /\ f[0] = a /\ \A k \in 1 .. m : f[k] = G[<<k, f[k - 1]>>]
      BY <2>1 DEF Run
    <2>3. last \in T
      <3>1. m + 1 \in 1 .. n /\ f[m] \in T
        BY <1>2, <2>2
      <3>. QED  BY <3>1
    <2>4. g[m + 1] = last /\ \A k \in 0 .. m : g[k] = f[k]
      OBVIOUS
    <2>5. g \in [0 .. m + 1 -> T]
      <3>. HIDE DEF last
      <3>. QED  BY <2>2, <2>3
    <2>. HIDE DEF g
    <2>6. ASSUME NEW k \in 1 .. m + 1 PROVE g[k] = G[<<k, g[k - 1]>>]
      <3>1. CASE k <= m
        <4>1. k \in 1 .. m /\ k - 1 \in 0 .. m /\ k \in 0 .. m
          BY <3>1
        <4>. QED  BY <2>2, <2>4, <4>1
      <3>2. CASE k = m + 1
        <4>1. k - 1 = m /\ m \in 0 .. m
          BY <3>2
        <4>. QED  BY <2>4, <3>2, <4>1
      <3>. QED  BY <3>1, <3>2
    <2>7. g[0] = a
      BY <2>2, <2>4
    <2>8. Run(T, a, G, m + 1, g)
      BY <2>5, <2>6, <2>7 DEF Run
    <2>. QED  BY <2>8
  <1>. HIDE DEF S
  <1>3. 0 .. n \subseteq S
    BY <1>1, <1>2, InductionUpTo
  <1>4. n \in S
    BY <1>3
  <1>. QED  BY <1>4 DEF S

-----------------------------------------------------------------------------
(* What is picked from a sequence. *)

Rank(kept, p) == Cardinality({o \in kept : o < p})

(* The ranks of the positions are the numbers from zero, one each. *)
LEMMA RanksAreOwn ==
  ASSUME NEW n \in Nat, NEW kept \in SUBSET (1 .. n)
  PROVE  /\ IsFiniteSet(kept) /\ Cardinality(kept) \in Nat
         /\ \A p \in kept : Rank(kept, p) \in 0 .. Cardinality(kept) - 1
         /\ \A p, q \in kept : Rank(kept, p) = Rank(kept, q) => p = q
         /\ \A k \in 1 .. Cardinality(kept) : \E p \in kept : Rank(kept, p) = k - 1
  <1>. DEFINE before(p) == {o \in kept : o < p}
  <1>1. IsFiniteSet(kept) /\ Cardinality(kept) \in Nat
    <2>1. IsFiniteSet(1 .. n)
      BY FS_Interval
    <2>2. IsFiniteSet(kept)
      BY <2>1, FS_Subset
    <2>. QED  BY <2>2, FS_CardinalityType
  <1>2. \A p \in kept : /\ before(p) \in SUBSET kept
                        /\ IsFiniteSet(before(p)) /\ Cardinality(before(p)) \in Nat
    BY <1>1, FS_Subset, FS_CardinalityType
  <1>3. ASSUME NEW p \in kept, NEW q \in kept, p < q
        PROVE  Cardinality(before(p)) < Cardinality(before(q))
    <2>1. \A o \in kept : o \in Int
      OBVIOUS
    <2>2. before(p) \in SUBSET before(q)
      <3>1. \A o \in kept : o < p => o < q
        BY <1>3, <2>1
      <3>. QED  BY <3>1
    <2>3. p \in before(q) /\ p \notin before(p)
      BY <1>3, <2>1
    <2>. HIDE DEF before
    <2>. QED  BY <1>2, <2>2, <2>3, FS_Subset
  <1>4. ASSUME NEW p \in kept PROVE Cardinality(before(p)) < Cardinality(kept)
    <2>1. p \notin before(p)
      OBVIOUS
    <2>. HIDE DEF before
    <2>. QED  BY <1>1, <1>2, <2>1, FS_Subset
  <1>5. \A p \in kept : Rank(kept, p) = Cardinality(before(p))
    BY DEF Rank
  <1>. HIDE DEF before
  <1>6. \A p \in kept : Rank(kept, p) \in 0 .. Cardinality(kept) - 1
    BY <1>1, <1>2, <1>4, <1>5
  <1>7. ASSUME NEW p \in kept, NEW q \in kept, Rank(kept, p) = Rank(kept, q) PROVE p = q
    BY <1>2, <1>3, <1>5, <1>7
  <1>8. \A k \in 1 .. Cardinality(kept) : \E p \in kept : Rank(kept, p) = k - 1
    <2>. DEFINE size == Cardinality(kept)
                rank == [p \in kept |-> Rank(kept, p)]
    <2>1. IsFiniteSet(0 .. size - 1) /\ Cardinality(0 .. size - 1) = size
      BY <1>1, FS_Interval
    <2>2. rank \in Injection(kept, 0 .. size - 1)
      <3>1. \A p \in kept : rank[p] = Rank(kept, p) /\ rank[p] \in 0 .. size - 1
        BY <1>6
      <3>2. rank \in [kept -> 0 .. size - 1]
        BY <1>6
      <3>3. \A p, q \in kept : rank[p] = rank[q] => p = q
        BY <1>7, <3>1
      <3>. HIDE DEF rank, size
      <3>. QED  BY <3>2, <3>3 DEF Injection, IsInjective
    <2>3. rank \in Surjection(kept, 0 .. size - 1)
      BY <2>1, <2>2, FS_Injection
    <2>4. \A k \in 0 .. size - 1 : \E p \in kept : rank[p] = k
      BY <2>3 DEF Surjection
    <2>5. ASSUME NEW k \in 1 .. size PROVE \E p \in kept : Rank(kept, p) = k - 1
      <3>1. k - 1 \in 0 .. size - 1
        BY <1>1
      <3>. QED  BY <2>4, <3>1
    <2>. QED  BY <2>5
  <1>. QED  BY <1>1, <1>6, <1>7, <1>8

(* Each element that is picked is one at a position to keep, and all are.  *)
LEMMA PickedElements ==
  ASSUME NEW n \in Nat, NEW kept \in SUBSET (1 .. n), NEW s
  PROVE  LET size == Cardinality(kept)
         IN /\ size \in Nat
            /\ Picked(s, kept) = [k \in 1 .. size |-> Picked(s, kept)[k]]
            /\ \A k \in 1 .. size : \E p \in kept : Picked(s, kept)[k] = s[p]
            /\ \A p \in kept : \E k \in 1 .. size : Picked(s, kept)[k] = s[p]
  <1>. DEFINE size == Cardinality(kept)
              at(k) == CHOOSE p \in kept : Rank(kept, p) = k - 1
  <1>1. size \in Nat
    BY RanksAreOwn
  <1>2. Picked(s, kept) = [k \in 1 .. size |-> s[at(k)]]
    BY DEF Picked, Rank
  <1>3. \A k \in 1 .. size : at(k) \in kept /\ Rank(kept, at(k)) = k - 1
    BY RanksAreOwn
  <1>. HIDE DEF at
  <1>4. ASSUME NEW p \in kept PROVE \E k \in 1 .. size : Picked(s, kept)[k] = s[p]
    <2>1. Rank(kept, p) \in 0 .. size - 1
      BY RanksAreOwn
    <2>. DEFINE k == Rank(kept, p) + 1
    <2>2. k \in 1 .. size /\ k - 1 = Rank(kept, p)
      BY <1>1, <2>1
    <2>. HIDE DEF k
    <2>3. at(k) \in kept /\ Rank(kept, at(k)) = Rank(kept, p)
      BY <1>3, <2>2
    <2>4. at(k) = p
      BY <2>3, RanksAreOwn
    <2>. QED  BY <1>2, <2>2, <2>4
  <1>5. \A k \in 1 .. size : Picked(s, kept)[k] = s[at(k)]
    BY <1>2
  <1>6. Picked(s, kept) = [k \in 1 .. size |-> Picked(s, kept)[k]]
    BY <1>2
  <1>. QED  BY <1>1, <1>3, <1>4, <1>5, <1>6

LEMMA PickedSet ==
  ASSUME NEW n \in Nat, NEW kept \in SUBSET (1 .. n), NEW s
  PROVE  ToSet(Picked(s, kept)) = {s[p] : p \in kept}
  <1>. DEFINE size == Cardinality(kept)
              picked == Picked(s, kept)
  <1>1. /\ size \in Nat /\ picked = [k \in 1 .. size |-> picked[k]]
        /\ \A k \in 1 .. size : \E p \in kept : picked[k] = s[p]
        /\ \A p \in kept : \E k \in 1 .. size : picked[k] = s[p]
    BY PickedElements
  <1>. HIDE DEF picked, size
  <1>2. /\ \A k \in 1 .. size : \E p \in kept : picked[k] = s[p]
        /\ \A p \in kept : \E k \in 1 .. size : picked[k] = s[p]
    BY <1>1
  <1>3. {picked[k] : k \in 1 .. size} = {s[p] : p \in kept}
    BY <1>2
  <1>4. DOMAIN picked = 1 .. size
    BY <1>1
  <1>5. ToSet(picked) = {s[p] : p \in kept}
    BY <1>3, <1>4 DEF ToSet
  <1>. QED  BY <1>5 DEF picked

(* Nothing is picked twice that does not stand twice among what is picked. *)
LEMMA PickedOnce ==
  ASSUME NEW n \in Nat, NEW kept \in SUBSET (1 .. n), NEW s,
         \A p, q \in kept : s[p] = s[q] => p = q
  PROVE  IsInjective(Picked(s, kept))
  <1>. DEFINE size == Cardinality(kept)
              at(k) == CHOOSE p \in kept : Rank(kept, p) = k - 1
  <1>1. Picked(s, kept) = [k \in 1 .. size |-> s[at(k)]]
    BY DEF Picked, Rank
  <1>2. \A k \in 1 .. size : at(k) \in kept /\ Rank(kept, at(k)) = k - 1
    BY RanksAreOwn
  <1>3. size \in Nat
    BY RanksAreOwn
  <1>. HIDE DEF at, size
  <1>4. ASSUME NEW j \in 1 .. size, NEW k \in 1 .. size, s[at(j)] = s[at(k)] PROVE j = k
    <2>1. at(j) = at(k)
      BY <1>2, <1>4
    <2>2. j - 1 = k - 1
      BY <1>2, <2>1
    <2>. QED  BY <1>3, <2>2
  <1>. QED  BY <1>1, <1>4 DEF IsInjective

LEMMA PickedIsSeq ==
  ASSUME NEW n \in Nat, NEW kept \in SUBSET (1 .. n), NEW S, NEW s,
         \A p \in kept : s[p] \in S
  PROVE  Picked(s, kept) \in Seq(S)
  <1>. DEFINE size == Cardinality(kept)
              picked == Picked(s, kept)
  <1>1. /\ size \in Nat /\ picked = [k \in 1 .. size |-> picked[k]]
        /\ \A k \in 1 .. size : picked[k] \in S
    BY PickedElements
  <1>. HIDE DEF size, picked
  <1>2. picked \in Seq(S)
    BY <1>1
  <1>. QED  BY <1>2 DEF picked

(* What stands before the others is picked as it stands. *)
LEMMA PickedPrefix ==
  ASSUME NEW n \in Nat, NEW s
  PROVE  Picked(s, 1 .. n) = [k \in 1 .. n |-> s[k]]
  <1>1. Cardinality(1 .. n) = n
    BY FS_Interval
  <1>2. ASSUME NEW p \in 1 .. n PROVE Rank(1 .. n, p) = p - 1
    <2>1. {o \in 1 .. n : o < p} = 1 .. p - 1
      OBVIOUS
    <2>2. p - 1 \in Int /\ 1 \in Int /\ (IF 1 > p - 1 THEN 0 ELSE (p - 1) - 1 + 1) = p - 1
      OBVIOUS
    <2>3. Cardinality(1 .. p - 1) = p - 1
      BY <2>2, FS_Interval
    <2>. QED  BY <2>1, <2>3 DEF Rank
  <1>. DEFINE at(k) == CHOOSE p \in 1 .. n : Rank(1 .. n, p) = k - 1
  <1>3. ASSUME NEW k \in 1 .. n PROVE at(k) = k
    BY <1>2
  <1>4. Picked(s, 1 .. n) = [k \in 1 .. n |-> s[at(k)]]
    BY <1>1 DEF Picked, Rank
  <1>. HIDE DEF at
  <1>. QED  BY <1>3, <1>4

-----------------------------------------------------------------------------
(* The recursive functions of ObjectModel. *)

(* What two sequences hold when they are joined. *)
LEMMA Joined ==
  ASSUME NEW S, NEW s \in Seq(S), NEW t \in Seq(S)
  PROVE  /\ s \o t \in Seq(S) /\ Len(s \o t) = Len(s) + Len(t)
         /\ \A k \in 1 .. Len(s) : (s \o t)[k] = s[k]
         /\ \A k \in 1 .. Len(t) : (s \o t)[Len(s) + k] = t[k]
  OBVIOUS

\* What the first k sequences are when they are joined is cat[k].
Joins(S, n, seqs, cat) ==
  /\ cat[0] = <<>> /\ Concat(seqs) = cat[n]
  /\ \A k \in 0 .. n : cat[k] \in Seq(S)
  /\ \A k \in 1 .. n : cat[k] = cat[k - 1] \o seqs[k]

(* Sequences are joined one after the other. *)
LEMMA ConcatJoins ==
  ASSUME NEW S, NEW n \in Nat, NEW seqs \in [1 .. n -> Seq(S)]
  PROVE  \E cat : Joins(S, n, seqs, cat)
  <1>. DEFINE T == Seq(S)
              G == [x \in (1 .. n) \X T |-> x[2] \o seqs[x[1]]]
              Body(f) == [k \in 0 .. n |-> IF k = 0 THEN <<>> ELSE f[k - 1] \o seqs[k]]
              Solves(f) == f = Body(f)
              cat == CHOOSE f : Solves(f)
  <1>1. Len(seqs) = n
    OBVIOUS
  <1>2. Concat(seqs) = cat[n]
    BY <1>1 DEF Concat
  <1>3. \E f : Solves(f)
    <2>1. \A t \in T, k \in 1 .. n : t \o seqs[k] \in T
      OBVIOUS
    <2>2. G \in [(1 .. n) \X T -> T] /\ <<>> \in T
      BY <2>1
    <2>3. \A k \in 1 .. n, t \in T : G[<<k, t>>] = t \o seqs[k]
      OBVIOUS
    <2>. HIDE DEF T, G
    <2>4. PICK f : Run(T, <<>>, G, n, f)
      BY <2>2, Runs
    <2>5. /\ f = [k \in 0 .. n |-> f[k]]
          /\ f[0] = <<>> /\ \A k \in 1 .. n : f[k] = f[k - 1] \o seqs[k]
      <3>1. f \in [0 .. n -> T] /\ f[0] = <<>> /\ \A k \in 1 .. n : f[k] = G[<<k, f[k - 1]>>]
        BY <2>4 DEF Run
      <3>2. \A k \in 1 .. n : f[k - 1] \in T
        BY <3>1
      <3>. QED  BY <2>3, <3>1, <3>2
    <2>6. \A k \in 0 .. n : f[k] = IF k = 0 THEN <<>> ELSE f[k - 1] \o seqs[k]
      BY <2>5
    <2>. QED  BY <2>5, <2>6
  <1>4. cat = Body(cat)
    <2>. HIDE DEF Body
    <2>. QED  BY <1>3
  <1>. HIDE DEF cat
  <1>5. cat[0] = <<>> /\ \A k \in 1 .. n : cat[k] = cat[k - 1] \o seqs[k]
    <2>1. \A k \in 0 .. n : cat[k] = IF k = 0 THEN <<>> ELSE cat[k - 1] \o seqs[k]
      BY <1>4
    <2>2. 0 \in 0 .. n /\ \A k \in 1 .. n : k \in 0 .. n /\ k # 0
      OBVIOUS
    <2>. QED  BY <2>1, <2>2
  <1>. DEFINE good == {k \in Nat : k <= n => cat[k] \in Seq(S)}
  <1>6. 0 \in good
    <2>1. <<>> \in Seq(S)
      OBVIOUS
    <2>. QED  BY <1>5, <2>1
  <1>7. ASSUME NEW k \in Nat, k < n, k \in good PROVE k + 1 \in good
    <2>1. k + 1 \in 1 .. n /\ (k + 1) - 1 = k
      BY <1>7
    <2>2. cat[k + 1] = cat[k] \o seqs[k + 1]
      BY <1>5, <2>1
    <2>3. cat[k] \in Seq(S) /\ seqs[k + 1] \in Seq(S)
      BY <1>7, <2>1
    <2>4. cat[k] \o seqs[k + 1] \in Seq(S)
      BY <2>3
    <2>5. cat[k + 1] \in Seq(S)
      BY <2>2, <2>4
    <2>. QED  BY <2>5
  <1>. HIDE DEF good
  <1>8. 0 .. n \subseteq good
    BY <1>6, <1>7, InductionUpTo
  <1>9. \A k \in 0 .. n : cat[k] \in Seq(S)
    BY <1>8 DEF good
  <1>. QED  BY <1>2, <1>5, <1>9 DEF Joins

(* What joined sequences hold: it is joined once, if it is there once. *)
LEMMA ConcatHolds ==
  ASSUME NEW S, NEW n \in Nat, NEW seqs \in [1 .. n -> Seq(S)]
  PROVE  /\ Concat(seqs) \in Seq(S)
         /\ ToSet(Concat(seqs)) = UNION {ToSet(seqs[k]) : k \in 1 .. n}
         /\ /\ \A k \in 1 .. n : IsInjective(seqs[k])
            /\ \A j, k \in 1 .. n : j # k => ToSet(seqs[j]) \cap ToSet(seqs[k]) = {}
            => IsInjective(Concat(seqs))
  <1>1. PICK cat : Joins(S, n, seqs, cat)
    BY ConcatJoins
  <1>2. /\ cat[0] = <<>> /\ Concat(seqs) = cat[n]
        /\ \A k \in 0 .. n : cat[k] \in Seq(S)
        /\ \A k \in 1 .. n : cat[k] = cat[k - 1] \o seqs[k]
    BY <1>1 DEF Joins
  <1>. DEFINE own == /\ \A k \in 1 .. n : IsInjective(seqs[k])
                     /\ \A j, k \in 1 .. n : j # k => ToSet(seqs[j]) \cap ToSet(seqs[k]) = {}
              upTo(k) == UNION {ToSet(seqs[j]) : j \in 1 .. k}
              good == {k \in Nat : k <= n => /\ ToSet(cat[k]) = upTo(k)
                                             /\ own => IsInjective(cat[k])}
  <1>3. ASSUME NEW s \in Seq(S), NEW t \in Seq(S)
        PROVE  /\ ToSet(s \o t) = ToSet(s) \cup ToSet(t)
               /\ IsInjective(s) /\ IsInjective(t) /\ ToSet(s) \cap ToSet(t) = {}
                  => IsInjective(s \o t)
    <2>1. /\ Len(s) \in Nat /\ Len(t) \in Nat
          /\ DOMAIN s = 1 .. Len(s) /\ DOMAIN t = 1 .. Len(t)
          /\ DOMAIN (s \o t) = 1 .. Len(s) + Len(t)
      OBVIOUS
    <2>2. /\ \A k \in 1 .. Len(s) : (s \o t)[k] = s[k]
          /\ \A k \in 1 .. Len(t) : (s \o t)[Len(s) + k] = t[k]
      BY Joined
    <2>3. ASSUME NEW k \in 1 .. Len(s) + Len(t)
          PROVE  \/ k \in 1 .. Len(s) /\ (s \o t)[k] = s[k]
                 \/ k - Len(s) \in 1 .. Len(t) /\ (s \o t)[k] = t[k - Len(s)]
      <3>1. CASE k <= Len(s)
        BY <2>1, <2>2, <3>1
      <3>2. CASE k > Len(s)
        <4>1. k - Len(s) \in 1 .. Len(t) /\ Len(s) + (k - Len(s)) = k
          BY <2>1, <3>2
        <4>2. (s \o t)[Len(s) + (k - Len(s))] = t[k - Len(s)]
          BY <2>2, <4>1
        <4>. QED  BY <4>1, <4>2
      <3>. QED  BY <2>1, <3>1, <3>2
    <2>. DEFINE st == s \o t
    <2>. HIDE DEF st
    <2>4. /\ \A k \in 1 .. Len(s) : k \in DOMAIN st /\ st[k] = s[k]
          /\ \A k \in 1 .. Len(t) : Len(s) + k \in DOMAIN st /\ st[Len(s) + k] = t[k]
          /\ \A k \in DOMAIN st : \/ k \in 1 .. Len(s) /\ st[k] = s[k]
                                  \/ k - Len(s) \in 1 .. Len(t) /\ st[k] = t[k - Len(s)]
      BY <2>1, <2>2, <2>3 DEF st
    <2>5. ToSet(st) = ToSet(s) \cup ToSet(t)
      <3>1. ToSet(st) \subseteq ToSet(s) \cup ToSet(t)
        BY <2>1, <2>4 DEF ToSet
      <3>2. ToSet(s) \subseteq ToSet(st) /\ ToSet(t) \subseteq ToSet(st)
        BY <2>1, <2>4 DEF ToSet
      <3>. QED  BY <3>1, <3>2
    <2>6. ASSUME IsInjective(s), IsInjective(t), ToSet(s) \cap ToSet(t) = {},
                 NEW j \in DOMAIN st, NEW k \in DOMAIN st, st[j] = st[k]
          PROVE  j = k
      <3>1. \A i \in 1 .. Len(s) : s[i] \in ToSet(s)
        BY <2>1 DEF ToSet
      <3>2. \A i \in 1 .. Len(t) : t[i] \in ToSet(t)
        BY <2>1 DEF ToSet
      <3>3. CASE j \in 1 .. Len(s) /\ st[j] = s[j]
        <4>1. k \in 1 .. Len(s) /\ st[k] = s[k]
          BY <2>4, <2>6, <3>1, <3>2, <3>3
        <4>. QED  BY <2>1, <2>6, <3>3, <4>1 DEF IsInjective
      <3>4. CASE j - Len(s) \in 1 .. Len(t) /\ st[j] = t[j - Len(s)]
        <4>1. k - Len(s) \in 1 .. Len(t) /\ st[k] = t[k - Len(s)]
          BY <2>4, <2>6, <3>1, <3>2, <3>4
        <4>2. j - Len(s) = k - Len(s)
          BY <2>1, <2>6, <3>4, <4>1 DEF IsInjective
        <4>3. j \in Nat /\ k \in Nat
          BY <2>1 DEF st
        <4>. QED  BY <2>1, <4>2, <4>3
      <3>. QED  BY <2>4, <3>3, <3>4
    <2>7. IsInjective(s) /\ IsInjective(t) /\ ToSet(s) \cap ToSet(t) = {} => IsInjective(st)
      BY <2>6 DEF IsInjective
    <2>. QED  BY <2>5, <2>7 DEF st
  <1>4. 0 \in good
    <2>1. ToSet(<<>>) = {} /\ IsInjective(<<>>)
      BY DEF ToSet, IsInjective
    <2>2. upTo(0) = {}
      OBVIOUS
    <2>. HIDE DEF upTo, own
    <2>. QED  BY <1>2, <2>1, <2>2
  <1>5. ASSUME NEW k \in Nat, k < n, k \in good PROVE k + 1 \in good
    <2>1. k + 1 \in 1 .. n /\ (k + 1) - 1 = k /\ k \in 0 .. n /\ k <= n
      BY <1>5
    <2>. DEFINE s == cat[k]
                t == seqs[k + 1]
    <2>2. s \in Seq(S) /\ t \in Seq(S) /\ cat[k + 1] = s \o t
      BY <1>2, <2>1
    <2>3. ToSet(s) = upTo(k) /\ (own => IsInjective(s))
      BY <1>5, <2>1
    <2>4. upTo(k + 1) = upTo(k) \cup ToSet(t)
      <3>1. 1 .. k + 1 = (1 .. k) \cup {k + 1}
        OBVIOUS
      <3>. QED  BY <3>1
    <2>5. own => IsInjective(t) /\ upTo(k) \cap ToSet(t) = {}
      <3>1. \A j \in 1 .. k : j \in 1 .. n /\ j # k + 1
        BY <2>1
      <3>. QED  BY <2>1, <3>1
    <2>. HIDE DEF s, t, own, upTo
    <2>6. /\ ToSet(s \o t) = ToSet(s) \cup ToSet(t)
          /\ IsInjective(s) /\ IsInjective(t) /\ ToSet(s) \cap ToSet(t) = {}
             => IsInjective(s \o t)
      BY <1>3, <2>2
    <2>7. ToSet(cat[k + 1]) = upTo(k + 1) /\ (own => IsInjective(cat[k + 1]))
      BY <2>2, <2>3, <2>4, <2>5, <2>6
    <2>. QED  BY <2>7
  <1>. HIDE DEF good
  <1>6. n \in good
    <2>1. 0 .. n \subseteq good
      BY <1>4, <1>5, InductionUpTo
    <2>. QED  BY <2>1
  <1>7. Concat(seqs) \in Seq(S)
    <2>1. n \in 0 .. n
      OBVIOUS
    <2>. QED  BY <1>2, <2>1
  <1>. QED  BY <1>2, <1>6, <1>7 DEF good

LEMMA SourcesAreChildren ==
  ASSUME NEW space, IsSpace(space), NEW n
  PROVE  \E size \in Nat :
           /\ Sources(space, n) \in [1 .. size -> DOMAIN space]
           /\ \A k \in 1 .. size : space[Sources(space, n)[k]].parent = n
  <1>. DEFINE all == [c \in DOMAIN space |-> c]
              kept == {c \in DOMAIN space : space[c].parent = n}
              own == Picked(all, kept)
              size == Cardinality(kept)
  <1>1. Len(space) \in Nat /\ DOMAIN space = 1 .. Len(space)
    BY DEF IsSpace
  <1>2. kept \in SUBSET (1 .. Len(space)) /\ \A c \in kept : all[c] = c
    BY <1>1
  <1>3. \A c \in kept : c \in DOMAIN space /\ space[c].parent = n
    OBVIOUS
  <1>4. Sources(space, n) = own
    BY DEF Sources
  <1>. HIDE DEF all, kept
  <1>5. /\ size \in Nat /\ own = [k \in 1 .. size |-> own[k]]
        /\ \A k \in 1 .. size : \E c \in kept : own[k] = all[c]
    <2>1. ASSUME NEW N \in Nat, kept \in SUBSET (1 .. N)
          PROVE  /\ size \in Nat /\ own = [k \in 1 .. size |-> own[k]]
                 /\ \A k \in 1 .. size : \E c \in kept : own[k] = all[c]
      BY <2>1, PickedElements
    <2>. HIDE DEF own, size
    <2>. QED  BY <1>1, <1>2, <2>1
  <1>6. \A k \in 1 .. size : own[k] \in DOMAIN space /\ space[own[k]].parent = n
    BY <1>2, <1>3, <1>5
  <1>. HIDE DEF own, size
  <1>7. own \in [1 .. size -> DOMAIN space]
    BY <1>5, <1>6
  <1>. QED  BY <1>4, <1>5, <1>6, <1>7

\* What a node shows, if its folders show what f says.
ShownBy(space, f, n) ==
  Concat([k \in DOMAIN Sources(space, n) |->
            LET c == Sources(space, n)[k]
            IN IF IsFolder(space[c]) THEN f[c] ELSE <<c>>])

(* It shows nodes of the model if they do, and hangs on its children only. *)
LEMMA ShownByChildren ==
  ASSUME NEW space, IsSpace(space), NEW n, NEW f, NEW g,
         \A c \in DOMAIN space : space[c].parent = n =>
           f[c] \in Seq(Mapped(space)) /\ f[c] = g[c]
  PROVE  /\ ShownBy(space, f, n) \in Seq(Mapped(space))
         /\ ShownBy(space, f, n) = ShownBy(space, g, n)
  <1>. DEFINE S == Mapped(space)
              own == Sources(space, n)
              part(h, k) == IF IsFolder(space[own[k]]) THEN h[own[k]] ELSE <<own[k]>>
              parts(h) == [k \in DOMAIN own |-> part(h, k)]
  <1>1. PICK size \in Nat : /\ own \in [1 .. size -> DOMAIN space]
                            /\ \A k \in 1 .. size : space[own[k]].parent = n
    BY SourcesAreChildren
  <1>2. DOMAIN own = 1 .. size /\ \A k \in 1 .. size : own[k] \in DOMAIN space
    BY <1>1
  <1>3. ASSUME NEW k \in 1 .. size PROVE part(f, k) \in Seq(S) /\ part(f, k) = part(g, k)
    <2>1. f[own[k]] \in Seq(S) /\ f[own[k]] = g[own[k]]
      BY <1>1, <1>2
    <2>2. ~IsFolder(space[own[k]]) => own[k] \in S
      BY <1>2 DEF Mapped
    <2>. HIDE DEF own, S
    <2>3. own[k] \in S => <<own[k]>> \in Seq(S)
      OBVIOUS
    <2>. QED  BY <2>1, <2>2, <2>3
  <1>4. ShownBy(space, f, n) = Concat(parts(f)) /\ ShownBy(space, g, n) = Concat(parts(g))
    BY DEF ShownBy
  <1>. HIDE DEF part, own, S
  <1>5. parts(f) = parts(g) /\ parts(f) \in [1 .. size -> Seq(S)]
    BY <1>2, <1>3
  <1>6. Concat(parts(f)) \in Seq(S)
    BY <1>5, ConcatHolds
  <1>. QED  BY <1>4, <1>5, <1>6 DEF S

(* The children of a node in the model are nodes of the model, and those   *)
(* that it shows.                                                          *)
LEMMA ChildrenAreMapped ==
  ASSUME NEW space, IsSpace(space), NEW n \in DOMAIN space
  PROVE  /\ NonFolderChildren(space)[n] \in Seq(Mapped(space))
         /\ NonFolderChildren(space)[n] = ShownBy(space, NonFolderChildren(space), n)
  <1>. DEFINE N == Len(space)
              S == Seq(Mapped(space))
              T == [DOMAIN space -> S]
              Body(f) == [m \in DOMAIN space |-> ShownBy(space, f, m)]
              Solves(f) == f = Body(f)
              shown == CHOOSE f : Solves(f)
              nothing == [m \in DOMAIN space |-> <<>>]
              G == [x \in (1 .. N) \X T |-> Body(x[2])]
  <1>1. N \in Nat /\ DOMAIN space = 1 .. N
    BY DEF IsSpace
  <1>2. PICK down \in [DOMAIN space -> DOMAIN space] : \A m \in DOMAIN space :
          space[m].parent \in DOMAIN space => down[space[m].parent] < down[m]
    BY DEF IsSpace
  <1>3. NonFolderChildren(space) = shown
    BY DEF NonFolderChildren, ShownBy
  <1>4. ASSUME NEW f \in T PROVE Body(f) \in T
    <2>1. \A m \in DOMAIN space : ShownBy(space, f, m) \in S
      BY ShownByChildren
    <2>. HIDE DEF S
    <2>. QED  BY <2>1
  <1>5. \A m \in DOMAIN space : down[m] \in 1 .. N /\ down[m] \in Nat
    BY <1>1
  \* Nodes further down than others are settled earlier.
  <1>6. ASSUME NEW f \in T, NEW g \in T, NEW k \in 0 .. N, NEW m \in DOMAIN space,
               \A c \in DOMAIN space : down[c] > N - k => f[c] = g[c],
               down[m] > N - (k + 1)
        PROVE  ShownBy(space, f, m) = ShownBy(space, g, m)
    <2>1. ASSUME NEW c \in DOMAIN space, space[c].parent = m PROVE f[c] \in S /\ f[c] = g[c]
      <3>1. down[m] < down[c]
        BY <1>2, <2>1
      <3>2. down[c] > N - k
        <4>1. down[c] \in Nat /\ down[m] \in Nat
          BY <1>5
        <4>2. k \in Nat
          <5>. HIDE DEF N
          <5>. QED  BY <1>1
        <4>3. down[m] > N - (k + 1)
          BY <1>6
        <4>. HIDE DEF N
        <4>. QED  BY <1>1, <3>1, <4>1, <4>2, <4>3
      <3>. HIDE DEF S
      <3>. QED  BY <1>6, <3>2
    <2>. HIDE DEF N, T, Body
    <2>. QED  BY <2>1, ShownByChildren
  <1>7. \E f : Solves(f)
    <2>1. nothing \in T
      BY <1>1
    <2>2. G \in [(1 .. N) \X T -> T]
      <3>. HIDE DEF Body, T
      <3>. QED  BY <1>4
    <2>3. \A k \in 1 .. N, t \in T : G[<<k, t>>] = Body(t)
      <3>. HIDE DEF Body, T
      <3>. QED  OBVIOUS
    <2>. HIDE DEF G, nothing, T
    <2>4. PICK f : Run(T, nothing, G, N, f)
      BY <1>1, <2>1, <2>2, Runs
    <2>5. /\ \A k \in 0 .. N : f[k] \in T
          /\ \A k \in 1 .. N : f[k] = Body(f[k - 1])
      <3>1. f \in [0 .. N -> T] /\ \A k \in 1 .. N : f[k] = G[<<k, f[k - 1]>>]
        BY <2>4 DEF Run
      <3>2. \A k \in 1 .. N : f[k - 1] \in T
        BY <1>1, <3>1
      <3>. HIDE DEF Body
      <3>. QED  BY <2>3, <3>1, <3>2
    <2>. DEFINE settled(k) == \A m \in DOMAIN space : down[m] > N - k => Body(f[k])[m] = f[k][m]
                good == {k \in Nat : k <= N => settled(k)}
    <2>6. 0 \in good
      <3>1. settled(0)
        BY <1>1, <1>5
      <3>. HIDE DEF settled
      <3>. QED  BY <3>1
    <2>7. ASSUME NEW k \in Nat, k < N, k \in good PROVE k + 1 \in good
      <3>1. k \in 0 .. N /\ k + 1 \in 0 .. N /\ k + 1 \in 1 .. N /\ (k + 1) - 1 = k
        BY <1>1, <2>7
      <3>2. f[k + 1] = Body(f[k]) /\ f[k] \in T /\ f[k + 1] \in T /\ settled(k)
        BY <2>5, <2>7, <3>1
      <3>3. ASSUME NEW m \in DOMAIN space, down[m] > N - (k + 1)
            PROVE  Body(f[k + 1])[m] = f[k + 1][m]
        <4>1. \A c \in DOMAIN space : down[c] > N - k => f[k + 1][c] = f[k][c]
          <5>. HIDE DEF Body
          <5>. QED  BY <3>2
        <4>2. ShownBy(space, f[k + 1], m) = ShownBy(space, f[k], m)
          BY <1>6, <3>1, <3>2, <3>3, <4>1
        <4>3. Body(f[k + 1])[m] = ShownBy(space, f[k + 1], m) /\ f[k + 1][m] = ShownBy(space, f[k], m)
          BY <3>2
        <4>. QED  BY <4>2, <4>3
      <3>4. settled(k + 1)
        BY <3>3
      <3>. HIDE DEF settled
      <3>. QED  BY <3>4
    <2>. HIDE DEF good
    <2>8. N \in good
      <3>1. 0 .. N \subseteq good
        BY <1>1, <2>6, <2>7, InductionUpTo
      <3>. QED  BY <1>1, <3>1
    <2>9. settled(N) /\ f[N] \in T
      BY <1>1, <2>5, <2>8 DEF good
    <2>10. \A m \in DOMAIN space : Body(f[N])[m] = f[N][m]
      BY <1>1, <1>5, <2>9
    <2>11. f[N] = [m \in DOMAIN space |-> f[N][m]] /\ Body(f[N]) = [m \in DOMAIN space |-> Body(f[N])[m]]
      BY <2>9 DEF T
    <2>12. Solves(f[N])
      <3>. HIDE DEF Body
      <3>. QED  BY <2>10, <2>11
    <2>. QED  BY <2>12
  <1>8. shown = Body(shown)
    <2>. HIDE DEF Body
    <2>. QED  BY <1>7
  <1>. HIDE DEF shown
  <1>9. \A m \in DOMAIN space : shown[m] = ShownBy(space, shown, m)
    BY <1>8
  <1>. DEFINE good == {k \in Nat : k <= N => \A m \in DOMAIN space : down[m] > N - k => shown[m] \in S}
  <1>10. 0 \in good
    BY <1>1, <1>5
  <1>11. ASSUME NEW k \in Nat, k < N, k \in good PROVE k + 1 \in good
    <2>1. ASSUME NEW m \in DOMAIN space, down[m] > N - (k + 1) PROVE shown[m] \in S
      <3>1. ASSUME NEW c \in DOMAIN space, space[c].parent = m PROVE shown[c] \in S
        <4>1. down[m] < down[c]
          BY <1>2, <3>1
        <4>2. down[c] > N - k
          BY <1>1, <1>5, <2>1, <4>1
        <4>. HIDE DEF S
        <4>. QED  BY <1>1, <1>11, <4>2
      <3>2. ShownBy(space, shown, m) \in S
        BY <3>1, ShownByChildren
      <3>. QED  BY <1>9, <3>2
    <2>. HIDE DEF S
    <2>. QED  BY <2>1
  <1>. HIDE DEF good
  <1>12. N \in good
    <2>1. 0 .. N \subseteq good
      BY <1>1, <1>10, <1>11, InductionUpTo
    <2>. QED  BY <1>1, <2>1
  <1>13. down[n] > N - N
    BY <1>1, <1>5
  <1>. QED  BY <1>1, <1>3, <1>9, <1>12, <1>13 DEF good

-----------------------------------------------------------------------------
(* A model refers to nothing that is not in it. *)

IsClosed(m) ==
  /\ IsFiniteSet(Ids(m))
  /\ m.order \in Seq(Ids(m)) /\ Ids(m) \subseteq ToSet(m.order)
  /\ m.rootIds \in Seq(Ids(m))
  /\ \A id \in Ids(m) : Children(m, id) \in Seq(Ids(m))

(* Each id is that of a first and of a last node. *)
LEMMA FirstAndLast ==
  ASSUME NEW space, IsSpace(space), NEW ids, NEW n \in Mapped(space)
  PROVE  /\ \E f \in FirstOf(space, ids) : ids[f] = ids[n]
         /\ LastOf(space, ids)[ids[n]] \in Mapped(space)
         /\ ids[LastOf(space, ids)[ids[n]]] = ids[n]
  <1>. DEFINE same == {o \in Mapped(space) : ids[o] = ids[n]}
              N == Len(space)
              back == {N - o : o \in same}
              IsLast(o) == ids[o] = ids[n] /\ \A p \in Mapped(space) : ids[p] = ids[n] => p <= o
  <1>1. N \in Nat /\ \A o \in Mapped(space) : o \in 1 .. N /\ o \in Nat
    BY DEF IsSpace, Mapped
  <1>2. n \in same /\ same \in SUBSET Nat
    BY <1>1
  <1>3. PICK f \in same : \A o \in same : f <= o
    <2>. HIDE DEF same
    <2>. QED  BY <1>2, LeastNatural
  <1>4. f \in FirstOf(space, ids) /\ ids[f] = ids[n]
    BY <1>3 DEF FirstOf
  <1>5. back \in SUBSET Nat /\ back # {}
    <2>1. \A o \in same : N - o \in Nat
      BY <1>1
    <2>. HIDE DEF same, N
    <2>. QED  BY <1>2, <2>1
  <1>6. PICK b \in back : \A c \in back : b <= c
    <2>. HIDE DEF back
    <2>. QED  BY <1>5, LeastNatural
  <1>7. PICK l \in same : b = N - l
    BY <1>6
  <1>8. ASSUME NEW o \in same PROVE o <= l
    <2>1. N - l <= N - o
      BY <1>6, <1>7
    <2>2. o \in Nat /\ l \in Nat
      BY <1>2
    <2>. HIDE DEF N
    <2>. QED  BY <1>1, <2>1, <2>2
  <1>9. l \in Mapped(space) /\ IsLast(l)
    BY <1>8
  <1>10. LastOf(space, ids)[ids[n]] = CHOOSE o \in Mapped(space) : IsLast(o)
    BY DEF LastOf
  <1>11. \A o : IsLast(o) => ids[o] = ids[n]
    OBVIOUS
  <1>. HIDE DEF IsLast
  <1>. QED  BY <1>4, <1>9, <1>10, <1>11

(* Whatever the space: a child, a root and what is listed is an element of  *)
(* the model that is built of it.                                          *)
THEOREM ModelIsClosed ==
  ASSUME NEW space, IsSpace(space)
  PROVE  IsClosed(Build(space))
  <1>. DEFINE ids == NodeIds(space)
              last == LastOf(space, ids)
              first == FirstOf(space, ids)
              shown == NonFolderChildren(space)
              order == Picked(ids, first)
              own == {ids[n] : n \in Mapped(space)}
              m == Build(space)
              kids(id) == [k \in DOMAIN shown[last[id]] |-> ids[shown[last[id]][k]]]
              byId == [id \in DOMAIN last |->
                         [source |-> last[id], name |-> space[last[id]].name,
                          kind |-> InferKind(space[last[id]])]]
              children == [id \in DOMAIN last |-> kids(id)]
  <1>1. Len(space) \in Nat /\ DOMAIN space = 1 .. Len(space)
    BY DEF IsSpace
  <1>2. DOMAIN last = own
    BY DEF LastOf
  <1>3. /\ m.order = order /\ m.childrenById = children /\ m.nodesById = byId
        /\ m.rootIds = RootIds(space, order, byId, children)
    BY DEF Build, BuildWith, ModelOf
  <1>. HIDE DEF m
  <1>4. Ids(m) = own /\ \A id \in own : Children(m, id) = kids(id)
    BY <1>2, <1>3 DEF Ids, Children
  <1>5. IsFiniteSet(own)
    <2>1. Mapped(space) \in SUBSET (1 .. Len(space)) /\ IsFiniteSet(1 .. Len(space))
      BY <1>1, FS_Interval DEF Mapped
    <2>2. IsFiniteSet(Mapped(space))
      BY <2>1, FS_Subset
    <2>. DEFINE idOf == [n \in Mapped(space) |-> ids[n]]
    <2>3. idOf \in Surjection(Mapped(space), own)
      BY DEF Surjection
    <2>. HIDE DEF idOf, own
    <2>. QED  BY <2>2, <2>3, FS_Surjection
  <1>6. first \in SUBSET (1 .. Len(space)) /\ \A n \in first : ids[n] \in own
    BY <1>1 DEF FirstOf, Mapped
  <1>7. order \in Seq(own) /\ own \subseteq ToSet(order)
    <2>1. ASSUME NEW n \in Mapped(space) PROVE \E f \in first : ids[f] = ids[n]
      BY FirstAndLast
    <2>. HIDE DEF ids, first
    <2>2. order \in Seq(own)
      <3>. HIDE DEF own
      <3>. QED  BY <1>1, <1>6, PickedIsSeq
    <2>3. ASSUME NEW id \in own PROVE id \in ToSet(order)
      <3>1. PICK f \in first : ids[f] = id
        BY <2>1
      <3>2. /\ order = [k \in 1 .. Cardinality(first) |-> order[k]]
            /\ \E k \in 1 .. Cardinality(first) : order[k] = ids[f]
        <4>1. ASSUME NEW N \in Nat, first \in SUBSET (1 .. N)
              PROVE  /\ order = [k \in 1 .. Cardinality(first) |-> order[k]]
                     /\ \E k \in 1 .. Cardinality(first) : order[k] = ids[f]
          BY <4>1, PickedElements
        <4>. HIDE DEF order, own
        <4>. QED  BY <1>1, <1>6, <4>1
      <3>. HIDE DEF order
      <3>. QED  BY <3>1, <3>2 DEF ToSet
    <2>. QED  BY <2>2, <2>3
  <1>8. m.rootIds \in Seq(own)
    <2>. DEFINE tops == {k \in DOMAIN order :
                  /\ byId[order[k]].kind = "instance"
                  /\ \A p \in DOMAIN children : ~Contains(children[p], order[k])}
    <2>1. m.rootIds = Picked(order, tops)
      BY <1>3 DEF RootIds
    <2>. HIDE DEF order, own, byId, children
    <2>2. Len(order) \in Nat /\ DOMAIN order = 1 .. Len(order) /\ \A k \in DOMAIN order : order[k] \in own
      BY <1>7
    <2>3. tops \in SUBSET (1 .. Len(order)) /\ \A k \in tops : order[k] \in own
      BY <2>2
    <2>. HIDE DEF tops
    <2>. QED  BY <2>1, <2>2, <2>3, PickedIsSeq
  <1>9. ASSUME NEW id \in own PROVE kids(id) \in Seq(own)
    <2>1. PICK n \in Mapped(space) : id = ids[n]
      OBVIOUS
    <2>2. last[id] \in DOMAIN space
      BY <2>1, FirstAndLast DEF Mapped
    <2>3. shown[last[id]] \in Seq(Mapped(space))
      BY <2>2, ChildrenAreMapped
    <2>4. \A c \in Mapped(space) : ids[c] \in own
      OBVIOUS
    <2>. HIDE DEF shown, last, ids, own
    <2>. QED  BY <2>3, <2>4
  <1>. HIDE DEF own, order, kids, byId, children
  <1>10. IsClosed(m)
    BY <1>3, <1>4, <1>5, <1>7, <1>8, <1>9 DEF IsClosed
  <1>. QED  BY <1>10 DEF m

(* The first one of some elements is one of them. *)
LEMMA FirstIsAmongThem ==
  ASSUME NEW m, IsClosed(m), NEW S \in SUBSET Ids(m)
  PROVE  IF S = {} THEN FirstIn(m, S) = None ELSE FirstIn(m, S) \in S
  <1>. DEFINE IsFirst(k) == m.order[k] \in S /\ \A j \in 1 .. k - 1 : m.order[j] \notin S
              places == {k \in DOMAIN m.order : m.order[k] \in S}
  <1>. SUFFICES ASSUME S # {} PROVE FirstIn(m, S) \in S
    BY DEF FirstIn
  <1>1. DOMAIN m.order \in SUBSET Nat /\ \A k \in DOMAIN m.order : 1 .. k - 1 \subseteq DOMAIN m.order
    BY DEF IsClosed
  <1>2. places # {} /\ places \in SUBSET Nat
    BY <1>1 DEF IsClosed, ToSet
  <1>3. PICK k \in places : \A j \in places : k <= j
    <2>. HIDE DEF places
    <2>. QED  BY <1>2, LeastNatural
  <1>4. k \in DOMAIN m.order /\ k \in Nat /\ m.order[k] \in S
    BY <1>1
  <1>5. ASSUME NEW j \in 1 .. k - 1 PROVE m.order[j] \notin S
    <2>1. j \in DOMAIN m.order /\ j < k /\ j \in Nat
      BY <1>1, <1>4
    <2>2. j \notin places
      BY <1>2, <1>3, <1>4, <2>1
    <2>. QED  BY <2>1, <2>2
  <1>6. IsFirst(k)
    BY <1>4, <1>5
  <1>7. FirstIn(m, S) = m.order[CHOOSE p \in DOMAIN m.order : IsFirst(p)]
    BY DEF FirstIn
  <1>8. \A p : IsFirst(p) => m.order[p] \in S
    OBVIOUS
  <1>. HIDE DEF IsFirst
  <1>. QED  BY <1>4, <1>6, <1>7, <1>8

(* An element that is found is one of the model. *)
LEMMA FindNodeFinds ==
  ASSUME NEW m, IsClosed(m), NEW ref
  PROVE  FindNode(m, ref) \in Ids(m) \cup {None}
  <1>. DEFINE named == {id \in Ids(m) : [named |-> m.nodesById[id].name] = ref}
  <1>1. FirstIn(m, named) \in Ids(m) \cup {None}
    BY FirstIsAmongThem
  <1>. HIDE DEF named
  <1>2. FindNode(m, ref) = IF ref \in Ids(m) THEN ref ELSE FirstIn(m, named)
    BY DEF FindNode, named
  <1>. QED  BY <1>1, <1>2

(* What is related to an element. *)
LEMMA RelatedParts ==
  ASSUME NEW m, IsClosed(m), NEW id \in Ids(m), NEW related, related = Related(m, id)
  PROVE  LET kids == Children(m, id)
             n == Len(kids)
             parent == ParentIdOf(m, id)
         IN /\ n \in Nat /\ DOMAIN kids = 1 .. n
            /\ parent = None => DOMAIN related = 1 .. n
            /\ \A k \in 1 .. n : related[k] = [relation |-> "HasComponent", object |-> kids[k]]
            /\ parent # None =>
                 /\ DOMAIN related = 1 .. n + 1
                 /\ related[n + 1] = [relation |-> "IsComponentOf", object |-> parent]
  <1>. DEFINE kids == Children(m, id)
              n == Len(kids)
              parent == ParentIdOf(m, id)
              child(k) == [relation |-> "HasComponent", object |-> kids[k]]
              down == [k \in DOMAIN kids |-> child(k)]
              above == [relation |-> "IsComponentOf", object |-> parent]
              up == IF parent = None THEN <<>> ELSE <<above>>
              R == {child(k) : k \in DOMAIN kids} \cup {above}
  <1>1. kids \in Seq(Ids(m)) /\ n \in Nat /\ DOMAIN kids = 1 .. n
    BY DEF IsClosed
  <1>2. related = down \o up
    BY DEF Related
  <1>3. above \in R /\ \A k \in DOMAIN kids : child(k) \in R
    OBVIOUS
  <1>. HIDE DEF child, above, R, kids, n, parent
  <1>4. down \in Seq(R) /\ Len(down) = n /\ \A k \in 1 .. n : down[k] = child(k)
    BY <1>1, <1>3
  <1>5. /\ up \in Seq(R)
        /\ parent = None => Len(up) = 0
        /\ parent # None => Len(up) = 1 /\ up[1] = above
    BY <1>3
  <1>. HIDE DEF down, up
  <1>6. /\ Len(down \o up) = Len(down) + Len(up) /\ DOMAIN (down \o up) = 1 .. Len(down) + Len(up)
        /\ \A k \in 1 .. Len(down) : (down \o up)[k] = down[k]
        /\ \A k \in 1 .. Len(up) : (down \o up)[Len(down) + k] = up[k]
    <2>1. down \in Seq(R) /\ up \in Seq(R)
      BY <1>4, <1>5
    <2>2. Len(down \o up) = Len(down) + Len(up)
      BY <2>1, Joined
    <2>3. DOMAIN (down \o up) = 1 .. Len(down) + Len(up)
      BY <2>1
    <2>4. \A k \in 1 .. Len(down) : (down \o up)[k] = down[k]
      BY <2>1, Joined
    <2>5. \A k \in 1 .. Len(up) : (down \o up)[Len(down) + k] = up[k]
      BY <2>1, Joined
    <2>. QED  BY <2>2, <2>3, <2>4, <2>5
  <1>7. DOMAIN related = 1 .. n + Len(up)
    BY <1>1, <1>2, <1>4, <1>6
  <1>8. \A k \in 1 .. n : related[k] = child(k)
    BY <1>2, <1>4, <1>6
  <1>9. ASSUME parent # None PROVE DOMAIN related = 1 .. n + 1 /\ related[n + 1] = above
    <2>1. Len(up) = 1 /\ 1 \in 1 .. Len(up) /\ up[1] = above
      BY <1>5, <1>9
    <2>2. related[n + 1] = up[1]
      BY <1>2, <1>4, <1>6, <2>1
    <2>. QED  BY <1>7, <2>1, <2>2
  <1>10. ASSUME parent = None PROVE DOMAIN related = 1 .. n
    <2>1. Len(up) = 0 /\ n + 0 = n
      BY <1>1, <1>5, <1>10
    <2>. QED  BY <1>7, <2>1
  <1>. QED  BY <1>1, <1>8, <1>9, <1>10 DEF kids, n, parent, child, above

(* What is related to an element without being its parent is a child.      *)
LEMMA ChildrenAreAsked ==
  ASSUME IsClosed(Asks), NEW id \in Ids(Asks)
  PROVE  ChildrenOf(id) = Children(Asks, id)
  <1>. DEFINE kids == Children(Asks, id)
              n == Len(kids)
              parent == ParentIdOf(Asks, id)
              child(k) == [relation |-> "HasComponent", object |-> kids[k]]
              above == [relation |-> "IsComponentOf", object |-> parent]
              related == Related(Asks, id)
              kept == {k \in DOMAIN related : related[k].relation # "IsComponentOf"}
  <1>1. /\ n \in Nat /\ DOMAIN kids = 1 .. n
        /\ \A k \in 1 .. n : related[k] = child(k)
        /\ parent = None => DOMAIN related = 1 .. n
        /\ parent # None => DOMAIN related = 1 .. n + 1 /\ related[n + 1] = above
    BY RelatedParts
  <1>2. /\ above.relation = "IsComponentOf"
        /\ \A k : child(k).relation # "IsComponentOf" /\ child(k).object = kids[k]
    OBVIOUS
  <1>3. ChildrenOf(id) = [k \in DOMAIN Picked(related, kept) |-> Picked(related, kept)[k].object]
    BY DEF ChildrenOf
  <1>. HIDE DEF child, above, related, n, kids, parent
  <1>4. kept = 1 .. n
    <2>1. CASE parent = None
      BY <1>1, <1>2, <2>1
    <2>2. CASE parent # None
      BY <1>1, <1>2, <2>2
    <2>. QED  BY <2>1, <2>2
  <1>5. Picked(related, kept) = [k \in 1 .. n |-> related[k]]
    <2>. HIDE DEF kept
    <2>. QED  BY <1>1, <1>4, PickedPrefix
  <1>6. ChildrenOf(id) = [k \in 1 .. n |-> related[k].object]
    <2>. HIDE DEF kept
    <2>. QED  BY <1>3, <1>5
  <1>7. \A k \in 1 .. n : related[k].object = kids[k]
    BY <1>1, <1>2
  <1>8. kids = [k \in 1 .. n |-> kids[k]]
    <2>1. kids \in Seq(Ids(Asks))
      BY DEF IsClosed, kids
    <2>. QED  BY <1>1, <2>1
  <1>. QED  BY <1>6, <1>7, <1>8 DEF kids

-----------------------------------------------------------------------------
(* The way down a model. *)

\* What a set of elements leads to in one step.
Led(m, ids) == UNION {ToSet(Children(m, p)) : p \in ids}

(* The way down, one step at a time. *)
LEMMA BelowSteps ==
  ASSUME NEW m, IsClosed(m), NEW starts \in SUBSET Ids(m)
  PROVE  /\ Below(m, starts, 0) = starts
         /\ \A k \in Nat :
              /\ Below(m, starts, k) \subseteq Ids(m)
              /\ Below(m, starts, k + 1) =
                   Below(m, starts, k) \cup Led(m, Below(m, starts, k))
  <1>. DEFINE T == SUBSET Ids(m)
              Step(X) == X \cup Led(m, X)
              G(n) == [x \in (1 .. n) \X T |-> Step(x[2])]
              Body(n, f) == [i \in 0 .. n |-> IF i = 0 THEN starts ELSE Step(f[i - 1])]
              Solves(n, f) == f = Body(n, f)
              met(n) == CHOOSE f : Solves(n, f)
  <1>1. \A n : Below(m, starts, n) = met(n)[n]
    BY DEF Below, Led
  <1>2. \A X \in T : Step(X) \in T
    BY DEF IsClosed, Led, ToSet
  <1>. HIDE DEF T, Step
  <1>3. starts \in T
    BY DEF T
  <1>4. ASSUME NEW n \in Nat PROVE \E f : Solves(n, f)
    <2>1. G(n) \in [(1 .. n) \X T -> T] /\ \A k \in 1 .. n, X \in T : G(n)[<<k, X>>] = Step(X)
      BY <1>2
    <2>. HIDE DEF G
    <2>2. PICK f : Run(T, starts, G(n), n, f)
      BY <1>3, <2>1, Runs
    <2>3. /\ f = [k \in 0 .. n |-> f[k]] /\ f[0] = starts
          /\ \A k \in 1 .. n : f[k] = G(n)[<<k, f[k - 1]>>] /\ f[k - 1] \in T
      BY <2>2 DEF Run
    <2>4. \A k \in 0 .. n : f[k] = IF k = 0 THEN starts ELSE Step(f[k - 1])
      <3>1. \A k \in 1 .. n : f[k] = Step(f[k - 1])
        BY <2>1, <2>3
      <3>2. \A k \in 0 .. n : k = 0 \/ k \in 1 .. n
        OBVIOUS
      <3>. QED  BY <2>3, <3>1, <3>2
    <2>. QED  BY <2>3, <2>4
  <1>5. ASSUME NEW n \in Nat PROVE met(n) = Body(n, met(n))
    <2>. HIDE DEF Body
    <2>. QED  BY <1>4
  <1>. HIDE DEF met
  <1>6. ASSUME NEW n \in Nat
        PROVE  met(n)[0] = starts /\ \A k \in Nat : k < n => met(n)[k + 1] = Step(met(n)[k])
    <2>1. \A k \in 0 .. n : met(n)[k] = IF k = 0 THEN starts ELSE Step(met(n)[k - 1])
      BY <1>5
    <2>2. \A k \in Nat : k < n => k + 1 \in 0 .. n /\ k + 1 # 0 /\ (k + 1) - 1 = k
      OBVIOUS
    <2>3. 0 \in 0 .. n
      OBVIOUS
    <2>. QED  BY <2>1, <2>2, <2>3
  <1>7. ASSUME NEW n \in Nat, NEW o \in Nat, n <= o
        PROVE  met(n)[n] \in T /\ met(n)[n] = met(o)[n]
    <2>. DEFINE good == {k \in Nat : k <= n => met(n)[k] \in T /\ met(n)[k] = met(o)[k]}
    <2>1. 0 \in good
      BY <1>3, <1>6
    <2>2. ASSUME NEW k \in Nat, k < n, k \in good PROVE k + 1 \in good
      <3>1. k < o /\ k + 1 \in Nat
        BY <1>7, <2>2
      <3>2. met(n)[k + 1] = Step(met(n)[k]) /\ met(o)[k + 1] = Step(met(o)[k])
        BY <1>6, <2>2, <3>1
      <3>3. met(n)[k] \in T /\ met(n)[k] = met(o)[k]
        BY <2>2
      <3>. QED  BY <1>2, <3>1, <3>2, <3>3
    <2>. HIDE DEF good
    <2>3. 0 .. n \subseteq good
      BY <2>1, <2>2, InductionUpTo
    <2>4. n \in good
      BY <2>3
    <2>. QED  BY <2>4 DEF good
  <1>8. Below(m, starts, 0) = starts
    BY <1>1, <1>6
  <1>9. ASSUME NEW k \in Nat
        PROVE  Below(m, starts, k) \in T /\ Below(m, starts, k + 1) = Step(Below(m, starts, k))
    <2>1. k + 1 \in Nat /\ k <= k + 1 /\ k < k + 1 /\ k <= k
      OBVIOUS
    <2>2. met(k)[k] \in T /\ met(k)[k] = met(k + 1)[k]
      BY <1>7, <2>1
    <2>3. met(k + 1)[k + 1] = Step(met(k + 1)[k])
      BY <1>6, <2>1
    <2>. QED  BY <1>1, <2>2, <2>3
  <1>. QED  BY <1>8, <1>9 DEF T, Step

(* More steps lead at least as far. *)
LEMMA BelowGrows ==
  ASSUME NEW m, IsClosed(m), NEW starts \in SUBSET Ids(m), NEW n \in Nat, NEW k \in 0 .. n
  PROVE  Below(m, starts, k) \subseteq Below(m, starts, n)
  <1>. DEFINE good == {i \in Nat : k <= i => Below(m, starts, k) \subseteq Below(m, starts, i)}
  <1>1. 0 \in good
    <2>1. k <= 0 => k = 0
      OBVIOUS
    <2>. QED  BY <2>1
  <1>2. ASSUME NEW i \in Nat, i < n, i \in good PROVE i + 1 \in good
    <2>1. Below(m, starts, i) \subseteq Below(m, starts, i + 1)
      BY BelowSteps
    <2>2. k <= i + 1 => k <= i \/ k = i + 1
      OBVIOUS
    <2>3. i + 1 \in Nat
      OBVIOUS
    <2>. QED  BY <1>2, <2>1, <2>2, <2>3
  <1>. HIDE DEF good
  <1>3. 0 .. n \subseteq good
    BY <1>1, <1>2, InductionUpTo
  <1>4. n \in good /\ k <= n
    BY <1>3
  <1>. QED  BY <1>4 DEF good

(* Nothing leaves a set that leads to nothing but itself. *)
LEMMA BelowStays ==
  ASSUME NEW m, IsClosed(m), NEW starts \in SUBSET Ids(m), NEW S, starts \subseteq S,
         \A p \in S : p \in Ids(m) => ToSet(Children(m, p)) \subseteq S, NEW n \in Nat
  PROVE  Below(m, starts, n) \subseteq S
  <1>. DEFINE good == {i \in Nat : Below(m, starts, i) \subseteq S}
  <1>1. 0 \in good
    BY BelowSteps
  <1>2. ASSUME NEW i \in Nat, i < n, i \in good PROVE i + 1 \in good
    <2>1. /\ Below(m, starts, i) \subseteq Ids(m)
          /\ Below(m, starts, i + 1) = Below(m, starts, i) \cup Led(m, Below(m, starts, i))
      BY BelowSteps
    <2>2. Led(m, Below(m, starts, i)) \subseteq S
      BY <1>2, <2>1 DEF Led
    <2>. QED  BY <1>2, <2>1, <2>2
  <1>. HIDE DEF good
  <1>3. 0 .. n \subseteq good
    BY <1>1, <1>2, InductionUpTo
  <1>4. n \in good
    BY <1>3
  <1>. QED  BY <1>4 DEF good

-----------------------------------------------------------------------------
(* Up and down a space. *)

\* A node's level is a number that is greater than its parent's.
Leveled(space, down) ==
  /\ down \in [DOMAIN space -> DOMAIN space]
  /\ \A n \in DOMAIN space :
       space[n].parent \in DOMAIN space => down[space[n].parent] < down[n]

(* Every node is in a set that holds whoever has its parent there or none. *)
LEMMA FromTheTop ==
  ASSUME NEW space, IsSpace(space), NEW S,
         \A n \in DOMAIN space : (space[n].parent \in DOMAIN space => space[n].parent \in S)
                                   => n \in S
  PROVE  DOMAIN space \subseteq S
  <1>. DEFINE missing == {n \in DOMAIN space : n \notin S}
  <1>. SUFFICES ASSUME missing # {} PROVE FALSE
    OBVIOUS
  <1>1. PICK down : Leveled(space, down)
    BY DEF IsSpace, Leveled
  <1>2. \A n \in DOMAIN space : down[n] \in Nat
    BY <1>1 DEF IsSpace, Leveled
  <1>. DEFINE levels == {down[n] : n \in missing}
  <1>3. PICK d \in levels : \A e \in levels : d <= e
    <2>1. levels \in SUBSET Nat /\ levels # {}
      BY <1>2
    <2>. HIDE DEF levels
    <2>. QED  BY <2>1, LeastNatural
  <1>4. PICK n \in missing : \A o \in missing : down[n] <= down[o]
    BY <1>3
  <1>5. space[n].parent \in missing
    OBVIOUS
  <1>6. down[space[n].parent] < down[n] /\ down[n] <= down[space[n].parent]
    BY <1>1, <1>4, <1>5 DEF Leveled
  <1>. QED  BY <1>2, <1>4, <1>5, <1>6

(* Every node is in a set that holds whoever has all of its children there. *)
LEMMA FromTheBottom ==
  ASSUME NEW space, IsSpace(space), NEW S,
         \A n \in DOMAIN space :
           (\A c \in DOMAIN space : space[c].parent = n => c \in S) => n \in S
  PROVE  DOMAIN space \subseteq S
  <1>. DEFINE missing == {n \in DOMAIN space : n \notin S}
              N == Len(space)
  <1>. SUFFICES ASSUME missing # {} PROVE FALSE
    OBVIOUS
  <1>1. PICK down : Leveled(space, down)
    BY DEF IsSpace, Leveled
  <1>2. N \in Nat /\ \A n \in DOMAIN space : down[n] \in 1 .. N
    BY <1>1 DEF IsSpace, Leveled
  <1>. HIDE DEF N
  <1>. DEFINE levels == {N - down[n] : n \in missing}
  <1>3. PICK d \in levels : \A e \in levels : d <= e
    <2>1. levels \in SUBSET Nat /\ levels # {}
      <3>1. \A n \in missing : N - down[n] \in Nat
        BY <1>2
      <3>. QED  BY <3>1
    <2>. HIDE DEF levels
    <2>. QED  BY <2>1, LeastNatural
  <1>4. PICK n \in missing : d = N - down[n]
    OBVIOUS
  <1>5. PICK c \in missing : space[c].parent = n
    OBVIOUS
  <1>6. down[n] < down[c]
    BY <1>1, <1>4, <1>5 DEF Leveled
  <1>7. N - down[n] <= N - down[c]
    BY <1>3, <1>4
  <1>8. down[n] \in 1 .. N /\ down[c] \in 1 .. N
    BY <1>2
  <1>. QED  BY <1>2, <1>6, <1>7, <1>8

\* What f gives is what H says of a node without a parent, and what G makes
\* of what it gives for the parent of another.
Inherited(space, H, G, f) ==
  \A n \in DOMAIN space :
    f[n] = IF space[n].parent \in DOMAIN space
           THEN G[<<n, f[space[n].parent]>>] ELSE H[n]

(* Something always does. *)
LEMMA GivenFromTheTop ==
  ASSUME NEW space, IsSpace(space), NEW T, NEW H \in [DOMAIN space -> T],
         NEW G \in [(DOMAIN space) \X T -> T]
  PROVE  \E f \in [DOMAIN space -> T] : Inherited(space, H, G, f)
  <1>. DEFINE N == Len(space)
              D == DOMAIN space
              F == [D -> T]
              Body(f) == [n \in D |-> IF space[n].parent \in D
                                      THEN G[<<n, f[space[n].parent]>>] ELSE H[n]]
              Step == [x \in (1 .. N) \X F |-> Body(x[2])]
  <1>1. PICK down : Leveled(space, down)
    BY DEF IsSpace, Leveled
  <1>2. N \in Nat /\ D = 1 .. N /\ \A n \in D : down[n] \in 1 .. N
    BY <1>1 DEF IsSpace, Leveled
  <1>3. \A n \in D : space[n].parent \in D => down[space[n].parent] < down[n]
    BY <1>1 DEF Leveled
  <1>. HIDE DEF N, D
  <1>4. ASSUME NEW f \in F PROVE Body(f) \in F
    BY DEF D
  <1>5. Step \in [(1 .. N) \X F -> F] /\ \A k \in 1 .. N, f \in F : Step[<<k, f>>] = Body(f)
    <2>. HIDE DEF Body, F
    <2>. QED  BY <1>4
  <1>6. H \in F
    BY DEF D
  <1>. HIDE DEF Step
  <1>7. PICK run : Run(F, H, Step, N, run)
    <2>. HIDE DEF F
    <2>. QED  BY <1>2, <1>5, <1>6, Runs
  <1>8. run \in [0 .. N -> F] /\ \A k \in 1 .. N : run[k] = Body(run[k - 1])
    <2>1. run \in [0 .. N -> F] /\ \A k \in 1 .. N : run[k] = Step[<<k, run[k - 1]>>]
      BY <1>7 DEF Run
    <2>2. \A k \in 1 .. N : run[k - 1] \in F
      <3>. HIDE DEF F
      <3>. QED  BY <1>2, <2>1
    <2>. HIDE DEF Body, F
    <2>. QED  BY <1>5, <2>1, <2>2
  <1>. DEFINE settled(k) == \A n \in D : down[n] <= k => Body(run[k])[n] = run[k][n]
              good == {k \in Nat : k <= N => settled(k)}
  <1>9. 0 \in good
    <2>1. settled(0)
      BY <1>2
    <2>. HIDE DEF settled
    <2>. QED  BY <2>1
  <1>10. ASSUME NEW k \in Nat, k < N, k \in good PROVE k + 1 \in good
    <2>1. k + 1 \in 1 .. N /\ (k + 1) - 1 = k /\ k <= N
      BY <1>2, <1>10
    <2>2. run[k + 1] = Body(run[k]) /\ settled(k)
      BY <1>8, <1>10, <2>1
    <2>3. ASSUME NEW n \in D, down[n] <= k + 1 PROVE Body(run[k + 1])[n] = run[k + 1][n]
      <3>1. run[k + 1][n] = Body(run[k])[n]
        BY <2>2
      <3>2. CASE space[n].parent \in D
        <4>1. down[space[n].parent] <= k
          BY <1>2, <1>3, <2>3, <3>2
        <4>2. run[k + 1][space[n].parent] = run[k][space[n].parent]
          BY <2>2, <3>2, <4>1
        <4>. QED  BY <3>1, <3>2, <4>2
      <3>3. CASE space[n].parent \notin D
        BY <3>1, <3>3
      <3>. QED  BY <3>2, <3>3
    <2>4. settled(k + 1)
      BY <2>3
    <2>. HIDE DEF settled
    <2>. QED  BY <2>4
  <1>. HIDE DEF good
  <1>11. N \in good
    <2>1. 0 .. N \subseteq good
      BY <1>2, <1>9, <1>10, InductionUpTo
    <2>. QED  BY <1>2, <2>1
  <1>12. settled(N) /\ run[N] \in F
    <2>. HIDE DEF F, settled
    <2>. QED  BY <1>2, <1>8, <1>11 DEF good
  <1>13. \A n \in D : run[N][n] = Body(run[N])[n]
    BY <1>2, <1>12
  <1>14. \A n \in D : run[N][n] = IF space[n].parent \in D
                                  THEN G[<<n, run[N][space[n].parent]>>] ELSE H[n]
    BY <1>13
  <1>. QED  BY <1>12, <1>14 DEF D, Inherited

(* The nearest node above that is no folder. *)
LEMMA AboveUnfolds ==
  ASSUME NEW space, IsSpace(space), NEW n \in DOMAIN space
  PROVE  Above(space)[n] =
           LET p == space[n].parent
           IN IF p \in {None, Lost} THEN None
              ELSE IF IsFolder(space[p]) THEN Above(space)[p] ELSE p
  <1>. DEFINE D == DOMAIN space
              T == D \cup {None}
              H == [o \in D |-> None]
              G == [x \in D \X T |-> IF IsFolder(space[space[x[1]].parent])
                                     THEN x[2] ELSE IF space[x[1]].parent \in D
                                     THEN space[x[1]].parent ELSE None]
              Body(f) == [o \in D |->
                 LET p == space[o].parent
                 IN IF p \in {None, Lost} THEN None
                    ELSE IF IsFolder(space[p]) THEN f[p] ELSE p]
              Solves(f) == f = Body(f)
              up == CHOOSE f : Solves(f)
  <1>1. Above(space) = up
    BY DEF Above
  <1>2. \A o \in D : space[o].parent \in D <=> space[o].parent \notin {None, Lost}
    BY ParentAssumption DEF IsSpace
  <1>3. \E f : Solves(f)
    <2>1. H \in [D -> T] /\ G \in [D \X T -> T]
      OBVIOUS
    <2>. HIDE DEF H, G, T
    <2>2. PICK f \in [D -> T] : Inherited(space, H, G, f)
      BY <2>1, GivenFromTheTop
    <2>3. \A o \in D : f[o] = Body(f)[o]
      <3>1. ASSUME NEW o \in D, space[o].parent \in D
            PROVE  f[o] = IF IsFolder(space[space[o].parent]) THEN f[space[o].parent]
                          ELSE space[o].parent
        <4>1. f[space[o].parent] \in T
          BY <3>1
        <4>. QED  BY <2>2, <3>1, <4>1 DEF G, Inherited
      <3>2. ASSUME NEW o \in D, space[o].parent \notin D PROVE f[o] = None
        BY <2>2, <3>2 DEF H, Inherited
      <3>. QED  BY <1>2, <3>1, <3>2
    <2>. HIDE DEF Body
    <2>4. f = [o \in D |-> f[o]] /\ Body(f) = [o \in D |-> Body(f)[o]]
      BY DEF Body
    <2>. QED  BY <2>3, <2>4
  <1>4. up = Body(up)
    <2>. HIDE DEF Body
    <2>. QED  BY <1>3
  <1>. HIDE DEF up
  <1>. QED  BY <1>1, <1>4

LEMMA AboveIsHigher ==
  ASSUME NEW space, IsSpace(space), NEW down, Leveled(space, down), NEW n \in DOMAIN space
  PROVE  \/ Above(space)[n] = None
         \/ /\ Above(space)[n] \in Mapped(space)
            /\ down[Above(space)[n]] < down[n]
  <1>. DEFINE S == {o \in DOMAIN space :
                      \/ Above(space)[o] = None
                      \/ /\ Above(space)[o] \in Mapped(space)
                         /\ down[Above(space)[o]] < down[o]}
  <1>1. ASSUME NEW o \in DOMAIN space,
               space[o].parent \in DOMAIN space => space[o].parent \in S
        PROVE  o \in S
    <2>. DEFINE p == space[o].parent
    <2>1. CASE p \in {None, Lost}
      BY <2>1, AboveUnfolds
    <2>2. CASE p \notin {None, Lost}
      <3>1. p \in DOMAIN space /\ p \in S /\ down[p] < down[o]
        BY <1>1, <2>2 DEF IsSpace, Leveled
      <3>2. CASE IsFolder(space[p])
        <4>1. Above(space)[o] = Above(space)[p]
          BY <2>2, <3>2, AboveUnfolds
        <4>2. CASE Above(space)[p] = None
          BY <4>1, <4>2
        <4>3. CASE Above(space)[p] \in Mapped(space) /\ down[Above(space)[p]] < down[p]
          <5>1. Above(space)[p] \in DOMAIN space
            BY <4>3 DEF Mapped
          <5>2. down[Above(space)[p]] \in Nat /\ down[p] \in Nat /\ down[o] \in Nat
            BY <3>1, <5>1 DEF Leveled, IsSpace
          <5>3. down[Above(space)[p]] < down[o]
            BY <3>1, <4>3, <5>2
          <5>. QED  BY <4>1, <4>3, <5>3
        <4>. QED  BY <3>1, <4>2, <4>3
      <3>3. CASE ~IsFolder(space[p])
        <4>1. Above(space)[o] = p
          BY <2>2, <3>3, AboveUnfolds
        <4>. QED  BY <3>1, <3>3, <4>1 DEF Mapped
      <3>. QED  BY <3>2, <3>3
    <2>. QED  BY <2>1, <2>2
  <1>. HIDE DEF S
  <1>2. n \in S
    BY <1>1, FromTheTop
  <1>. QED  BY <1>2 DEF S

-----------------------------------------------------------------------------
(* Paths. *)


\* The path of a node is its name, or that of its parent and its name, or none.
IsPath(space, path, n) ==
  /\ path[n].names \in Seq({space[m].name : m \in DOMAIN space})
  /\ path[n] = [names |-> path[n].names, source |-> path[n].source]
  /\ \/ /\ space[n].parent = None
        /\ path[n].source = 0 /\ path[n].names = <<space[n].name>>
     \/ /\ space[n].parent \in DOMAIN space /\ path[space[n].parent].source = 0
        /\ path[n].source = 0
        /\ path[n].names = Append(path[space[n].parent].names, space[n].name)
     \/ path[n].source = n /\ path[n].names = <<>>

LEMMA PathUnfolds ==
  ASSUME NEW space, IsSpace(space), NEW n \in DOMAIN space
  PROVE  IsPath(space, BrowsePaths(space), n)
  <1>. DEFINE D == DOMAIN space
              Names == {space[m].name : m \in DOMAIN space}
              T == [names : Seq(Names), source : Nat]
              Own(o) == [names |-> <<>>, source |-> o]
              Root(o) == [names |-> <<space[o].name>>, source |-> 0]
              Longer(o, t) == [names |-> Append(t.names, space[o].name), source |-> 0]
              H == [o \in D |-> IF space[o].parent = None THEN Root(o) ELSE Own(o)]
              G == [x \in D \X T |-> IF x[2].source = 0 THEN Longer(x[1], x[2]) ELSE Own(x[1])]
              Body(f) == [o \in D |->
                 LET p == space[o].parent
                 IN IF p = None THEN Root(o)
                    ELSE IF p # Lost /\ f[p].source = 0 THEN Longer(o, f[p])
                    ELSE Own(o)]
              Solves(f) == f = Body(f)
              path == CHOOSE f : Solves(f)
  <1>1. BrowsePaths(space) = path
    BY DEF BrowsePaths
  <1>2. \A o \in D : /\ space[o].parent \in D <=> space[o].parent \notin {None, Lost}
                     /\ o \in Nat
    BY ParentAssumption DEF IsSpace
  <1>3. \A o \in D : Own(o) \in T /\ Root(o) \in T /\ \A t \in T : Longer(o, t) \in T
    <2>1. \A o \in D : space[o].name \in Names
      OBVIOUS
    <2>. HIDE DEF Names
    <2>3. \A o \in D : <<>> \in Seq(Names) /\ <<space[o].name>> \in Seq(Names)
      BY <2>1
    <2>4. \A o \in D, t \in T : Append(t.names, space[o].name) \in Seq(Names)
      BY <2>1
    <2>. QED  BY <1>2, <2>3, <2>4
  <1>4. ASSUME NEW o \in D
        PROVE  /\ Root(o) = [names |-> Root(o).names, source |-> Root(o).source]
               /\ Root(o).source = 0 /\ Root(o).names = <<space[o].name>>
               /\ Own(o) = [names |-> Own(o).names, source |-> Own(o).source]
               /\ Own(o).source = o /\ Own(o).names = <<>>
               /\ \A t \in T :
                    LET next == Longer(o, t)
                    IN /\ next = [names |-> next.names, source |-> next.source]
                       /\ next.source = 0 /\ next.names = Append(t.names, space[o].name)
    OBVIOUS
  <1>. HIDE DEF T, Own, Root, Longer
  <1>5. \E f : Solves(f)
    <2>1. H \in [D -> T] /\ G \in [D \X T -> T]
      BY <1>3
    <2>. HIDE DEF H, G
    <2>2. PICK f \in [D -> T] : Inherited(space, H, G, f)
      BY <2>1, GivenFromTheTop
    <2>3. \A o \in D : f[o] = Body(f)[o]
      <3>1. ASSUME NEW o \in D, space[o].parent \in D
            PROVE  f[o] = IF f[space[o].parent].source = 0 THEN Longer(o, f[space[o].parent])
                          ELSE Own(o)
        <4>1. f[space[o].parent] \in T
          BY <3>1
        <4>. QED  BY <2>2, <3>1, <4>1 DEF G, Inherited
      <3>2. ASSUME NEW o \in D, space[o].parent \notin D
            PROVE  f[o] = IF space[o].parent = None THEN Root(o) ELSE Own(o)
        BY <2>2, <3>2 DEF H, Inherited
      <3>3. \A o \in D : space[o].parent \notin D => space[o].parent \in {None, Lost}
        BY <1>2
      <3>. QED  BY <1>2, <3>1, <3>2, <3>3
    <2>. HIDE DEF Body
    <2>4. f = [o \in D |-> f[o]] /\ Body(f) = [o \in D |-> Body(f)[o]]
      BY DEF Body
    <2>. QED  BY <2>3, <2>4
  <1>6. path = Body(path)
    <2>. HIDE DEF Body
    <2>. QED  BY <1>5
  <1>. HIDE DEF path
  <1>7. \A o \in D : path[o] = Body(path)[o]
    BY <1>6
  <1>8. ASSUME NEW o \in D
        PROVE  path[o] = LET p == space[o].parent
                         IN IF p = None THEN Root(o)
                            ELSE IF p # Lost /\ path[p].source = 0 THEN Longer(o, path[p])
                            ELSE Own(o)
    BY <1>7
  <1>. HIDE DEF Body
  <1>. DEFINE S == {o \in D : path[o] \in T}
  <1>9. ASSUME NEW o \in D, space[o].parent \in D => space[o].parent \in S
        PROVE  o \in S
    BY <1>2, <1>3, <1>8, <1>9
  <1>10. \A o \in D : path[o] \in T
    <2>. HIDE DEF S
    <2>1. D \subseteq S
      BY <1>9, FromTheTop
    <2>. QED  BY <2>1 DEF S
  <1>11. path[n].names \in Seq(Names)
    BY <1>10 DEF T
  <1>. DEFINE p == space[n].parent
  <1>12. CASE path[n] = Root(n) /\ p = None
    BY <1>1, <1>4, <1>11, <1>12 DEF IsPath
  <1>13. CASE path[n] = Own(n)
    BY <1>1, <1>4, <1>11, <1>13 DEF IsPath
  <1>14. CASE path[n] = Longer(n, path[p]) /\ p \in D /\ path[p].source = 0
    <2>1. path[p] \in T
      BY <1>10, <1>14
    <2>. QED  BY <1>1, <1>4, <1>11, <1>14, <2>1 DEF IsPath
  <1>. QED  BY <1>2, <1>8, <1>12, <1>13, <1>14

(* Where siblings differ by name, every node has a path of its own. *)
LEMMA PathsDiffer ==
  ASSUME NEW space, IsSpace(space), SiblingsDiffer(space), NEW n \in DOMAIN space,
         NEW o \in DOMAIN space, BrowsePaths(space)[n] = BrowsePaths(space)[o]
  PROVE  n = o
  <1>. DEFINE D == DOMAIN space
              path == BrowsePaths(space)
              Names == {space[m].name : m \in DOMAIN space}
              S == {m \in D : \A k \in D : path[m] = path[k] => m = k}
              IsTop(m) == space[m].parent = None /\ path[m].names = <<space[m].name>>
              HasPath(m) ==
                /\ space[m].parent \in D /\ path[space[m].parent].source = 0
                /\ path[m].names = Append(path[space[m].parent].names, space[m].name)
  <1>1. \A m \in D : IsPath(space, path, m)
    BY PathUnfolds
  <1>. HIDE DEF path
  <1>2. \A m \in D : /\ path[m].names \in Seq(Names)
                     /\ path[m] = [names |-> path[m].names, source |-> path[m].source]
                     /\ \/ path[m].source = 0 /\ IsTop(m)
                        \/ path[m].source = 0 /\ HasPath(m)
                        \/ path[m].source = m
    BY <1>1 DEF IsPath
  <1>3. \A m \in D : m \in Nat /\ m # 0 /\ space[m].name \in Names
    BY DEF IsSpace
  <1>4. None \notin D
    BY ParentAssumption DEF IsSpace
  <1>. HIDE DEF Names
  <1>5. \A m \in D : path[m].source = 0 => Len(path[m].names) > 0
    <2>1. ASSUME NEW m \in D, IsTop(m) PROVE Len(path[m].names) > 0
      <3>1. Len(<<space[m].name>>) = 1
        OBVIOUS
      <3>. QED  BY <2>1, <3>1
    <2>2. ASSUME NEW m \in D, HasPath(m) PROVE Len(path[m].names) > 0
      <3>. DEFINE above == path[space[m].parent].names
      <3>1. above \in Seq(Names) /\ space[m].name \in Names
        BY <1>2, <1>3, <2>2
      <3>. HIDE DEF above
      <3>2. Len(Append(above, space[m].name)) > 0
        BY <3>1
      <3>. QED  BY <2>2, <3>2 DEF above
    <2>. HIDE DEF IsTop, HasPath
    <2>. QED  BY <1>2, <1>3, <2>1, <2>2
  <1>6. ASSUME NEW s \in Seq(Names), NEW t \in Seq(Names), NEW x \in Names, NEW y \in Names,
               Append(s, x) = Append(t, y)
        PROVE  s = t /\ x = y
    <2>1. Len(s) = Len(t)
      BY <1>6
    <2>2. \A j \in 1 .. Len(s) : s[j] = t[j]
      BY <1>6, <2>1
    <2>3. x = y
      BY <1>6, <2>1
    <2>. QED  BY <2>1, <2>2, <2>3
  <1>7. ASSUME NEW m \in D, IsTop(m), NEW k \in D, HasPath(k) PROVE path[m] # path[k]
    <2>. DEFINE above == path[space[k].parent].names
    <2>1. above \in Seq(Names) /\ Len(above) > 0
      BY <1>2, <1>5, <1>7
    <2>2. path[m].names = <<space[m].name>> /\ path[k].names = Append(above, space[k].name)
      BY <1>7
    <2>. HIDE DEF above
    <2>3. Len(Append(above, space[k].name)) > 1 /\ Len(<<space[m].name>>) = 1
      BY <1>3, <2>1
    <2>. QED  BY <2>2, <2>3
  <1>8. ASSUME NEW m \in D, IsTop(m), NEW k \in D, IsTop(k), path[m] = path[k] PROVE m = k
    <2>1. <<space[m].name>> = <<space[k].name>>
      BY <1>8
    <2>2. space[m].name = space[k].name
      BY <2>1
    <2>. QED  BY <1>8, <2>2 DEF SiblingsDiffer
  <1>9. ASSUME NEW m \in D, HasPath(m), NEW k \in D, HasPath(k), path[m] = path[k],
               space[m].parent \in S
        PROVE  m = k
    <2>. DEFINE p == space[m].parent
                q == space[k].parent
    <2>1. Append(path[p].names, space[m].name) = Append(path[q].names, space[k].name)
      BY <1>9
    <2>2. path[p].names \in Seq(Names) /\ path[q].names \in Seq(Names)
      BY <1>2, <1>9
    <2>3. path[p].names = path[q].names /\ space[m].name = space[k].name
      <3>. DEFINE s == path[p].names
                  t == path[q].names
                  x == space[m].name
                  y == space[k].name
      <3>1. s \in Seq(Names) /\ t \in Seq(Names) /\ x \in Names /\ y \in Names
        BY <1>3, <2>2
      <3>2. Append(s, x) = Append(t, y)
        BY <2>1
      <3>. HIDE DEF s, t, x, y
      <3>3. s = t /\ x = y
        BY <1>6, <3>1, <3>2
      <3>. QED  BY <3>3 DEF s, t, x, y
    <2>4. path[p] = path[q]
      <3>1. p \in D /\ q \in D /\ path[p].source = path[q].source
        BY <1>9
      <3>2. /\ path[p] = [names |-> path[p].names, source |-> path[p].source]
            /\ path[q] = [names |-> path[q].names, source |-> path[q].source]
        BY <1>2, <3>1
      <3>. QED  BY <2>3, <3>1, <3>2
    <2>5. p = q
      BY <1>9, <2>4
    <2>. QED  BY <2>3, <2>5 DEF SiblingsDiffer
  <1>10. ASSUME NEW m \in D, space[m].parent \in D => space[m].parent \in S,
                NEW k \in D, path[m] = path[k]
         PROVE  m = k
    <2>1. IsTop(m) \/ HasPath(m) \/ path[m].source = m
      BY <1>2
    <2>2. IsTop(k) \/ HasPath(k) \/ path[k].source = k
      BY <1>2
    <2>3. HasPath(m) => space[m].parent \in S
      BY <1>10
    <2>4. path[m].source = m => path[k].source = k
      <3>. HIDE DEF IsTop, HasPath
      <3>. QED  BY <1>2, <1>3, <1>10
    <2>5. path[k].source = k => path[m].source = m
      <3>. HIDE DEF IsTop, HasPath
      <3>. QED  BY <1>2, <1>3, <1>10
    <2>6. path[m].source = path[k].source
      BY <1>10
    <2>. HIDE DEF IsTop, HasPath, S
    <2>. QED  BY <1>7, <1>8, <1>9, <1>10, <2>1, <2>2, <2>3, <2>4, <2>5, <2>6
  <1>11. ASSUME NEW m \in D, space[m].parent \in D => space[m].parent \in S PROVE m \in S
    BY <1>10, <1>11
  <1>. HIDE DEF S
  <1>12. n \in S
    BY <1>11, FromTheTop
  <1>. QED  BY <1>12 DEF S, path

-----------------------------------------------------------------------------
(* What a node shows. *)

ChildrenIn(space, n) == {c \in DOMAIN space : space[c].parent = n}

\* What a child contributes to what its parent shows.
Given(space, c) == IF IsFolder(space[c]) THEN NonFolderChildren(space)[c] ELSE <<c>>

(* Each child is listed once. *)
LEMMA SourcesAreOwn ==
  ASSUME NEW space, IsSpace(space), NEW n
  PROVE  IsInjective(Sources(space, n)) /\ ToSet(Sources(space, n)) = ChildrenIn(space, n)
  <1>. DEFINE all == [c \in DOMAIN space |-> c]
              kept == ChildrenIn(space, n)
              own == Picked(all, kept)
  <1>1. Len(space) \in Nat /\ DOMAIN space = 1 .. Len(space)
    BY DEF IsSpace
  <1>2. kept \in SUBSET (1 .. Len(space)) /\ \A c \in kept : all[c] = c
    BY <1>1 DEF ChildrenIn
  <1>3. Sources(space, n) = own
    BY DEF Sources, ChildrenIn
  <1>. HIDE DEF all, kept
  <1>4. ToSet(own) = kept
    <2>1. ASSUME NEW N \in Nat, kept \in SUBSET (1 .. N)
          PROVE  ToSet(Picked(all, kept)) = {all[p] : p \in kept}
      BY <2>1, PickedSet
    <2>2. {all[p] : p \in kept} = kept
      BY <1>2
    <2>. QED  BY <1>1, <1>2, <2>1, <2>2 DEF own
  <1>5. IsInjective(own)
    <2>1. ASSUME NEW N \in Nat, kept \in SUBSET (1 .. N) PROVE IsInjective(Picked(all, kept))
      BY <1>2, <2>1, PickedOnce
    <2>. QED  BY <1>1, <1>2, <2>1 DEF own
  <1>. QED  BY <1>3, <1>4, <1>5 DEF kept

(* What a node shows is what its children give. *)
LEMMA ShownIsGiven ==
  ASSUME NEW space, IsSpace(space), NEW n \in DOMAIN space
  PROVE  LET shown == NonFolderChildren(space)
         IN /\ shown[n] \in Seq(Mapped(space))
            /\ ToSet(shown[n]) = UNION {ToSet(Given(space, c)) : c \in ChildrenIn(space, n)}
            /\ /\ \A c \in ChildrenIn(space, n) : IsInjective(Given(space, c))
               /\ \A c, d \in ChildrenIn(space, n) :
                    c # d => ToSet(Given(space, c)) \cap ToSet(Given(space, d)) = {}
               => IsInjective(shown[n])
  <1>. DEFINE shown == NonFolderChildren(space)
              S == Mapped(space)
              kids == ChildrenIn(space, n)
              own == Sources(space, n)
              parts == [k \in DOMAIN own |-> Given(space, own[k])]
  <1>1. shown[n] \in Seq(S) /\ shown[n] = ShownBy(space, shown, n)
    BY ChildrenAreMapped
  <1>2. ShownBy(space, shown, n) = Concat(parts)
    BY DEF ShownBy, Given
  <1>3. PICK size \in Nat : own \in [1 .. size -> DOMAIN space]
    BY SourcesAreChildren
  <1>4. IsInjective(own) /\ ToSet(own) = kids
    BY SourcesAreOwn
  <1>5. \A c \in DOMAIN space : Given(space, c) \in Seq(S)
    <2>1. ASSUME NEW c \in DOMAIN space PROVE Given(space, c) \in Seq(S)
      <3>1. CASE IsFolder(space[c])
        BY <3>1, ChildrenAreMapped DEF Given
      <3>2. CASE ~IsFolder(space[c])
        <4>1. c \in S
          BY <3>2 DEF Mapped
        <4>. HIDE DEF S
        <4>2. <<c>> \in Seq(S)
          BY <4>1
        <4>. QED  BY <3>2, <4>2 DEF Given
      <3>. QED  BY <3>1, <3>2
    <2>. QED  BY <2>1
  <1>. HIDE DEF own, S, kids, shown
  <1>6. DOMAIN own = 1 .. size /\ \A k \in 1 .. size : own[k] \in DOMAIN space
    BY <1>3
  <1>7. parts \in [1 .. size -> Seq(S)] /\ \A k \in 1 .. size : parts[k] = Given(space, own[k])
    BY <1>5, <1>6
  <1>. HIDE DEF parts
  <1>8. /\ ToSet(Concat(parts)) = UNION {ToSet(parts[k]) : k \in 1 .. size}
        /\ /\ \A k \in 1 .. size : IsInjective(parts[k])
           /\ \A j, k \in 1 .. size : j # k => ToSet(parts[j]) \cap ToSet(parts[k]) = {}
           => IsInjective(Concat(parts))
    BY <1>3, <1>7, ConcatHolds
  <1>9. /\ \A k \in 1 .. size : own[k] \in kids
        /\ \A c \in kids : \E k \in 1 .. size : own[k] = c
        /\ \A j, k \in 1 .. size : own[j] = own[k] => j = k
    BY <1>4, <1>6 DEF ToSet, IsInjective
  <1>10. UNION {ToSet(parts[k]) : k \in 1 .. size} = UNION {ToSet(Given(space, c)) : c \in kids}
    <2>1. \A k \in 1 .. size : ToSet(parts[k]) = ToSet(Given(space, own[k]))
      BY <1>7
    <2>2. \A k \in 1 .. size : \E c \in kids : ToSet(parts[k]) = ToSet(Given(space, c))
      BY <1>9, <2>1
    <2>3. \A c \in kids : \E k \in 1 .. size : ToSet(parts[k]) = ToSet(Given(space, c))
      BY <1>9, <2>1
    <2>. QED  BY <2>2, <2>3
  <1>11. ASSUME \A c \in kids : IsInjective(Given(space, c)),
                \A c, d \in kids : c # d => ToSet(Given(space, c)) \cap ToSet(Given(space, d)) = {}
         PROVE  IsInjective(shown[n])
    <2>1. \A k \in 1 .. size : IsInjective(parts[k])
      BY <1>7, <1>9, <1>11
    <2>2. ASSUME NEW j \in 1 .. size, NEW k \in 1 .. size, j # k
          PROVE  ToSet(parts[j]) \cap ToSet(parts[k]) = {}
      <3>1. own[j] \in kids /\ own[k] \in kids /\ own[j] # own[k]
        BY <1>9, <2>2
      <3>2. ToSet(Given(space, own[j])) \cap ToSet(Given(space, own[k])) = {}
        BY <1>11, <3>1
      <3>. QED  BY <1>7, <3>2
    <2>3. \A j, k \in 1 .. size : j # k => ToSet(parts[j]) \cap ToSet(parts[k]) = {}
      BY <2>2
    <2>. QED  BY <1>1, <1>2, <1>8, <2>1, <2>3
  <1>12. ToSet(shown[n]) = UNION {ToSet(Given(space, c)) : c \in kids}
    BY <1>1, <1>2, <1>8, <1>10
  <1>. QED  BY <1>1, <1>11, <1>12 DEF S, kids, shown

\* A node and what is below it.
Under(space, c) ==
  {x \in DOMAIN space : \A S \in SUBSET DOMAIN space :
     c \in S /\ (\A y \in DOMAIN space : space[y].parent \in S => y \in S) => x \in S}

(* Whatever is below a node but not itself has its parent there. *)
LEMMA UnderIsBelow ==
  ASSUME NEW space, IsSpace(space), NEW c \in DOMAIN space
  PROVE  /\ c \in Under(space, c)
         /\ \A y \in DOMAIN space : space[y].parent \in Under(space, c) => y \in Under(space, c)
         /\ \A x \in Under(space, c) : x = c \/ space[x].parent \in Under(space, c)
         /\ space[c].parent \notin Under(space, c)
  <1>. DEFINE D == DOMAIN space
              U == Under(space, c)
              IsClosedSet(S) == \A y \in D : space[y].parent \in S => y \in S
  <1>1. c \in U
    BY DEF Under
  <1>2. \A S \in SUBSET D : c \in S /\ IsClosedSet(S) => U \subseteq S
    BY DEF Under
  <1>3. ASSUME NEW y \in D, space[y].parent \in U PROVE y \in U
    <2>1. ASSUME NEW S \in SUBSET D, c \in S, IsClosedSet(S) PROVE y \in S
      <3>1. space[y].parent \in S
        BY <1>2, <1>3, <2>1
      <3>. QED  BY <2>1, <3>1
    <2>. QED  BY <2>1 DEF Under
  <1>4. U \subseteq D
    BY DEF Under
  <1>. HIDE DEF U
  <1>5. \A x \in U : x = c \/ space[x].parent \in U
    <2>. DEFINE S == {y \in D : y = c \/ space[y].parent \in U}
    <2>1. ASSUME NEW y \in D, space[y].parent \in S PROVE y \in S
      <3>1. space[y].parent \in U
        BY <1>1, <1>3, <2>1
      <3>. QED  BY <3>1
    <2>2. c \in S /\ S \in SUBSET D
      OBVIOUS
    <2>3. U \subseteq S
      <3>. HIDE DEF S
      <3>. QED  BY <1>2, <2>1, <2>2
    <2>. QED  BY <2>3
  <1>6. space[c].parent \notin U
    <2>1. PICK down : Leveled(space, down)
      BY DEF IsSpace, Leveled
    <2>2. \A y \in D : down[y] \in Nat
      BY <2>1 DEF Leveled, IsSpace
    <2>3. \A y \in D : space[y].parent \in D => down[space[y].parent] < down[y]
      BY <2>1 DEF Leveled
    <2>. DEFINE S == {y \in D : down[c] <= down[y]}
    <2>4. ASSUME NEW y \in D, space[y].parent \in S PROVE y \in S
      <3>1. space[y].parent \in D /\ down[c] <= down[space[y].parent]
        BY <2>4
      <3>2. down[c] <= down[y]
        BY <2>2, <2>3, <3>1
      <3>. QED  BY <3>2
    <2>5. c \in S /\ S \in SUBSET D
      BY <2>2
    <2>6. U \subseteq S
      <3>. HIDE DEF S
      <3>. QED  BY <1>2, <2>4, <2>5
    <2>7. space[c].parent \in D => ~(down[c] <= down[space[c].parent])
      BY <2>2, <2>3
    <2>. QED  BY <1>4, <2>6, <2>7
  <1>. QED  BY <1>1, <1>3, <1>5, <1>6 DEF U

(* Nothing is below two siblings. *)
LEMMA SiblingsShareNothing ==
  ASSUME NEW space, IsSpace(space), NEW c \in DOMAIN space, NEW d \in DOMAIN space,
         space[c].parent = space[d].parent, c # d
  PROVE  Under(space, c) \cap Under(space, d) = {}
  <1>. DEFINE D == DOMAIN space
              C == Under(space, c)
              E == Under(space, d)
              S == {x \in C : x \notin E}
  <1>1. /\ c \in C /\ space[c].parent \notin C
        /\ \A y \in D : space[y].parent \in C => y \in C
    BY UnderIsBelow
  <1>2. /\ space[d].parent \notin E
        /\ \A x \in E : x = d \/ space[x].parent \in E
    BY UnderIsBelow
  <1>3. C \subseteq D
    BY DEF Under
  <1>4. \A T \in SUBSET D : c \in T /\ (\A y \in D : space[y].parent \in T => y \in T) => C \subseteq T
    BY DEF Under
  <1>. HIDE DEF C, E
  <1>5. c \in S
    BY <1>1, <1>2
  <1>6. ASSUME NEW y \in D, space[y].parent \in S PROVE y \in S
    <2>1. y \in C
      BY <1>1, <1>6
    <2>2. y # d
      BY <1>1, <1>6
    <2>3. y \notin E
      BY <1>2, <1>6, <2>2
    <2>. QED  BY <2>1, <2>3
  <1>7. C \subseteq S
    <2>1. S \in SUBSET D
      BY <1>3
    <2>. HIDE DEF S
    <2>. QED  BY <1>4, <1>5, <1>6, <2>1
  <1>. QED  BY <1>7 DEF C, E

(* What a node gives is below it. *)
LEMMA GivenIsUnder ==
  ASSUME NEW space, IsSpace(space), NEW c \in DOMAIN space
  PROVE  ToSet(Given(space, c)) \subseteq Under(space, c)
  <1>. DEFINE S == {n \in DOMAIN space : ToSet(Given(space, n)) \subseteq Under(space, n)}
  <1>1. ASSUME NEW n \in DOMAIN space,
               \A d \in DOMAIN space : space[d].parent = n => d \in S
        PROVE  n \in S
    <2>1. CASE ~IsFolder(space[n])
      <3>1. Given(space, n) = <<n>>
        BY <2>1 DEF Given
      <3>2. ToSet(<<n>>) = {n}
        BY DEF ToSet
      <3>3. n \in Under(space, n)
        BY UnderIsBelow
      <3>. QED  BY <3>1, <3>2, <3>3
    <2>2. CASE IsFolder(space[n])
      <3>1. ToSet(Given(space, n)) = UNION {ToSet(Given(space, d)) : d \in ChildrenIn(space, n)}
        BY <2>2, ShownIsGiven DEF Given
      <3>2. ASSUME NEW d \in ChildrenIn(space, n)
            PROVE  ToSet(Given(space, d)) \subseteq Under(space, n)
        <4>1. d \in DOMAIN space /\ space[d].parent = n
          BY DEF ChildrenIn
        <4>2. ToSet(Given(space, d)) \subseteq Under(space, d)
          BY <1>1, <4>1
        <4>3. d \in Under(space, n)
          BY <4>1, UnderIsBelow
        <4>4. Under(space, d) \subseteq Under(space, n)
          <5>. DEFINE U == Under(space, n)
          <5>1. \A y \in DOMAIN space : space[y].parent \in U => y \in U
            BY UnderIsBelow
          <5>2. U \in SUBSET DOMAIN space /\ d \in U
            BY <4>3 DEF Under
          <5>. HIDE DEF U
          <5>3. Under(space, d) \subseteq U
            BY <5>1, <5>2 DEF Under
          <5>. QED  BY <5>3 DEF U
        <4>. QED  BY <4>2, <4>4
      <3>. QED  BY <3>1, <3>2
    <2>. QED  BY <2>1, <2>2
  <1>. HIDE DEF S
  <1>2. c \in S
    BY <1>1, FromTheBottom
  <1>. QED  BY <1>2 DEF S

(* Nothing is shown twice. *)
LEMMA ShownOnce ==
  ASSUME NEW space, IsSpace(space), NEW n \in DOMAIN space
  PROVE  IsInjective(NonFolderChildren(space)[n])
  <1>. DEFINE S == {m \in DOMAIN space : IsInjective(NonFolderChildren(space)[m])}
  <1>1. ASSUME NEW m \in DOMAIN space,
               \A d \in DOMAIN space : space[d].parent = m => d \in S
        PROVE  m \in S
    <2>1. ASSUME NEW c \in ChildrenIn(space, m) PROVE IsInjective(Given(space, c))
      <3>1. CASE IsFolder(space[c])
        BY <1>1, <2>1, <3>1 DEF Given, ChildrenIn
      <3>2. CASE ~IsFolder(space[c])
        <4>1. Given(space, c) = <<c>>
          BY <3>2 DEF Given
        <4>2. IsInjective(<<c>>)
          BY DEF IsInjective
        <4>. QED  BY <4>1, <4>2
      <3>. QED  BY <3>1, <3>2
    <2>2. ASSUME NEW c \in ChildrenIn(space, m), NEW d \in ChildrenIn(space, m), c # d
          PROVE  ToSet(Given(space, c)) \cap ToSet(Given(space, d)) = {}
      <3>1. /\ c \in DOMAIN space /\ d \in DOMAIN space
            /\ space[c].parent = space[d].parent
        BY DEF ChildrenIn
      <3>2. /\ ToSet(Given(space, c)) \subseteq Under(space, c)
            /\ ToSet(Given(space, d)) \subseteq Under(space, d)
        BY <3>1, GivenIsUnder
      <3>3. Under(space, c) \cap Under(space, d) = {}
        BY <2>2, <3>1, SiblingsShareNothing
      <3>. QED  BY <3>2, <3>3
    <2>. QED  BY <2>1, <2>2, ShownIsGiven
  <1>. HIDE DEF S
  <1>2. n \in S
    BY <1>1, FromTheBottom
  <1>. QED  BY <1>2 DEF S

(* What a node shows hangs there: the nearest node above that is no folder  *)
(* is the node, or that of the folder.                                     *)
LEMMA ShownHangs ==
  ASSUME NEW space, IsSpace(space), NEW n \in DOMAIN space,
         NEW o \in ToSet(NonFolderChildren(space)[n])
  PROVE  Above(space)[o] = IF IsFolder(space[n]) THEN Above(space)[n] ELSE n
  <1>. DEFINE D == DOMAIN space
              Holder(m) == IF IsFolder(space[m]) THEN Above(space)[m] ELSE m
              shown == NonFolderChildren(space)
              S == {m \in D : \A k \in ToSet(shown[m]) : Above(space)[k] = Holder(m)}
  <1>1. ASSUME NEW m \in D, \A d \in D : space[d].parent = m => d \in S PROVE m \in S
    <2>1. ASSUME NEW k \in ToSet(shown[m]) PROVE Above(space)[k] = Holder(m)
      <3>1. ToSet(shown[m]) = UNION {ToSet(Given(space, c)) : c \in ChildrenIn(space, m)}
        BY ShownIsGiven
      <3>2. PICK c \in ChildrenIn(space, m) : k \in ToSet(Given(space, c))
        BY <2>1, <3>1
      <3>3. c \in D /\ space[c].parent = m
        BY DEF ChildrenIn
      <3>4. Above(space)[c] = Holder(m)
        <4>1. m \notin {None, Lost}
          BY ParentAssumption DEF IsSpace
        <4>. QED  BY <3>3, <4>1, AboveUnfolds
      <3>5. CASE IsFolder(space[c])
        <4>1. k \in ToSet(shown[c])
          BY <3>2, <3>5 DEF Given
        <4>2. c \in S
          BY <1>1, <3>3
        <4>3. Above(space)[k] = Holder(c)
          <5>. HIDE DEF Holder, shown
          <5>. QED  BY <4>1, <4>2
        <4>. QED  BY <3>4, <3>5, <4>3
      <3>6. CASE ~IsFolder(space[c])
        <4>1. k = c
          BY <3>2, <3>6 DEF Given, ToSet
        <4>. QED  BY <3>4, <4>1
      <3>. QED  BY <3>5, <3>6
    <2>. HIDE DEF Holder, shown
    <2>. QED  BY <2>1
  <1>. HIDE DEF S, Holder
  <1>2. n \in S
    BY <1>1, FromTheBottom
  <1>3. Above(space)[o] = Holder(n)
    BY <1>2 DEF S
  <1>. QED  BY <1>3 DEF Holder

(* And whatever hangs there is shown. *)
LEMMA HangingIsShown ==
  ASSUME NEW space, IsSpace(space), NEW o \in DOMAIN space, Above(space)[o] \in DOMAIN space
  PROVE  ToSet(Given(space, o)) \subseteq ToSet(NonFolderChildren(space)[Above(space)[o]])
  <1>. DEFINE D == DOMAIN space
              shown == NonFolderChildren(space)
              up == Above(space)
              S == {m \in D : up[m] \in D => ToSet(Given(space, m)) \subseteq ToSet(shown[up[m]])}
  <1>1. ASSUME NEW m \in D, space[m].parent \in D => space[m].parent \in S PROVE m \in S
    <2>. SUFFICES ASSUME up[m] \in D
                  PROVE  ToSet(Given(space, m)) \subseteq ToSet(shown[up[m]])
      OBVIOUS
    <2>. DEFINE p == space[m].parent
    <2>1. None \notin D
      BY ParentAssumption DEF IsSpace
    <2>2. /\ p \notin {None, Lost}
          /\ up[m] = IF IsFolder(space[p]) THEN up[p] ELSE p
      BY <2>1, AboveUnfolds
    <2>3. p \in D /\ p \in S
      BY <1>1, <2>2 DEF IsSpace
    <2>4. m \in ChildrenIn(space, p)
      BY DEF ChildrenIn
    <2>5. ToSet(Given(space, m)) \subseteq ToSet(shown[p])
      <3>1. ToSet(shown[p]) = UNION {ToSet(Given(space, c)) : c \in ChildrenIn(space, p)}
        BY <2>3, ShownIsGiven
      <3>. QED  BY <2>4, <3>1
    <2>6. CASE IsFolder(space[p])
      <3>1. Given(space, p) = shown[p]
        BY <2>6 DEF Given
      <3>2. ToSet(Given(space, p)) \subseteq ToSet(shown[up[p]])
        BY <2>2, <2>3, <2>6
      <3>. HIDE DEF shown, up
      <3>. QED  BY <2>2, <2>5, <2>6, <3>1, <3>2
    <2>. QED  BY <2>2, <2>5, <2>6
  <1>. HIDE DEF S
  <1>2. o \in S
    BY <1>1, FromTheTop
  <1>. QED  BY <1>2 DEF S

-----------------------------------------------------------------------------
(* What mirrors a space. *)

(* The elements of a model, their children and its roots. *)
LEMMA ModelParts ==
  ASSUME NEW space, IsSpace(space)
  PROVE  LET ids == NodeIds(space)
             last == LastOf(space, ids)
             shown == NonFolderChildren(space)
             m == Build(space)
         IN /\ Ids(m) = {ids[n] : n \in Mapped(space)}
            /\ \A id \in Ids(m) :
                 Children(m, id) = [k \in DOMAIN shown[last[id]] |-> ids[shown[last[id]][k]]]
            /\ ToSet(m.rootIds) =
                 {id \in Ids(m) : /\ m.nodesById[id].kind = "instance"
                                  /\ \A p \in Ids(m) : id \notin ToSet(Children(m, p))}
  <1>. DEFINE ids == NodeIds(space)
              last == LastOf(space, ids)
              first == FirstOf(space, ids)
              shown == NonFolderChildren(space)
              order == Picked(ids, first)
              own == {ids[n] : n \in Mapped(space)}
              m == Build(space)
              kids(id) == [k \in DOMAIN shown[last[id]] |-> ids[shown[last[id]][k]]]
              byId == [id \in DOMAIN last |->
                         [source |-> last[id], name |-> space[last[id]].name,
                          kind |-> InferKind(space[last[id]])]]
              children == [id \in DOMAIN last |-> kids(id)]
              tops == {k \in DOMAIN order :
                  /\ byId[order[k]].kind = "instance"
                  /\ \A p \in DOMAIN children : ~Contains(children[p], order[k])}
              IsRoot(id) == /\ m.nodesById[id].kind = "instance"
                            /\ \A p \in Ids(m) : id \notin ToSet(Children(m, p))
  <1>1. DOMAIN last = own
    BY DEF LastOf
  <1>2. /\ m.order = order /\ m.childrenById = children /\ m.nodesById = byId
        /\ m.rootIds = Picked(order, tops)
    BY DEF Build, BuildWith, ModelOf, RootIds
  <1>3. IsClosed(m)
    BY ModelIsClosed
  <1>. HIDE DEF m
  <1>4. Ids(m) = own /\ \A id \in own : Children(m, id) = kids(id)
    BY <1>1, <1>2 DEF Ids, Children
  <1>5. \A id \in own, p \in own : Contains(children[p], id) <=> id \in ToSet(Children(m, p))
    <2>1. ASSUME NEW id \in own, NEW p \in own
          PROVE  Contains(children[p], id) <=> id \in ToSet(Children(m, p))
      <3>. DEFINE s == Children(m, p)
      <3>1. children[p] = s /\ s \in Seq(Ids(m))
        BY <1>1, <1>3, <1>4 DEF IsClosed
      <3>. HIDE DEF s, children
      <3>2. DOMAIN s = 1 .. Len(s)
        BY <3>1
      <3>. QED  BY <3>1, <3>2 DEF Contains, ToSet, s
    <2>. QED  BY <2>1
  <1>6. order \in Seq(own) /\ own \subseteq ToSet(order)
    BY <1>2, <1>3, <1>4 DEF IsClosed
  <1>7. DOMAIN children = own /\ byId = m.nodesById
    BY <1>1, <1>2
  <1>. HIDE DEF byId, children, order, own
  <1>8. \A k \in DOMAIN order : order[k] \in own /\ (k \in tops <=> IsRoot(order[k]))
    <2>1. \A k \in DOMAIN order : order[k] \in own
      BY <1>6
    <2>. QED  BY <1>4, <1>5, <1>7, <2>1
  <1>. HIDE DEF tops, IsRoot
  <1>9. Len(order) \in Nat /\ tops \in SUBSET (1 .. Len(order)) /\ DOMAIN order = 1 .. Len(order)
    <2>1. tops \subseteq DOMAIN order
      BY DEF tops
    <2>. QED  BY <1>6, <2>1
  <1>10. ToSet(m.rootIds) = {order[k] : k \in tops}
    <2>1. ToSet(Picked(order, tops)) = {order[k] : k \in tops}
      BY <1>9, PickedSet
    <2>. QED  BY <1>2, <2>1
  <1>11. {order[k] : k \in tops} = {id \in own : IsRoot(id)}
    <2>1. \A k \in tops : order[k] \in own /\ IsRoot(order[k])
      BY <1>8, <1>9
    <2>2. \A id \in own : \E k \in DOMAIN order : order[k] = id
      BY <1>6 DEF ToSet
    <2>. QED  BY <1>8, <2>1, <2>2
  <1>. QED  BY <1>4, <1>10, <1>11 DEF m, own, kids, IsRoot

\* The elements whose child an element is.
ParentsOf(m, id) == {p \in Ids(m) : id \in ToSet(Children(m, p))}

LEMMA ParentIsFirst ==
  ASSUME NEW m, IsClosed(m), NEW id
  PROVE  /\ ParentIdOf(m, id) = FirstIn(m, ParentsOf(m, id))
         /\ IF ParentsOf(m, id) = {} THEN ParentIdOf(m, id) = None
            ELSE ParentIdOf(m, id) \in ParentsOf(m, id)
  <1>1. ASSUME NEW p \in Ids(m)
        PROVE  Contains(Children(m, p), id) <=> id \in ToSet(Children(m, p))
    <2>. DEFINE s == Children(m, p)
    <2>1. s \in Seq(Ids(m))
      BY DEF IsClosed
    <2>. HIDE DEF s
    <2>2. DOMAIN s = 1 .. Len(s)
      BY <2>1
    <2>. QED  BY <2>2 DEF Contains, ToSet, s
  <1>2. {p \in Ids(m) : Contains(Children(m, p), id)} = ParentsOf(m, id)
    BY <1>1 DEF ParentsOf
  <1>3. ParentIdOf(m, id) = FirstIn(m, ParentsOf(m, id))
    BY <1>2 DEF ParentIdOf
  <1>4. ParentsOf(m, id) \in SUBSET Ids(m)
    BY DEF ParentsOf
  <1>. QED  BY <1>3, <1>4, FirstIsAmongThem

(* Whoever has no parent is a root, if it is an instance, and only then.    *)
LEMMA RootsHaveNoParent ==
  ASSUME NEW space, IsSpace(space), None \notin Ids(Build(space))
  PROVE  LET m == Build(space)
         IN ToSet(m.rootIds) = {id \in {i \in Ids(m) : ParentIdOf(m, i) = None} :
                                  m.nodesById[id].kind = "instance"}
  <1>. DEFINE m == Build(space)
  <1>1. IsClosed(m)
    BY ModelIsClosed
  <1>2. ToSet(m.rootIds) =
          {id \in Ids(m) : /\ m.nodesById[id].kind = "instance"
                           /\ \A p \in Ids(m) : id \notin ToSet(Children(m, p))}
    BY ModelParts
  <1>3. None \notin Ids(m)
    OBVIOUS
  <1>. HIDE DEF m
  <1>4. ASSUME NEW id \in Ids(m)
        PROVE  ParentIdOf(m, id) = None <=> \A p \in Ids(m) : id \notin ToSet(Children(m, p))
    <2>1. ParentsOf(m, id) = {} <=> \A p \in Ids(m) : id \notin ToSet(Children(m, p))
      BY DEF ParentsOf
    <2>2. ParentsOf(m, id) # {} => ParentIdOf(m, id) \in Ids(m)
      BY <1>1, ParentIsFirst DEF ParentsOf
    <2>3. ParentsOf(m, id) = {} => ParentIdOf(m, id) = None
      BY <1>1, ParentIsFirst
    <2>. QED  BY <1>3, <2>1, <2>2, <2>3
  <1>. QED  BY <1>2, <1>4 DEF m

(* Where siblings differ by name, only properties share ids. *)
LEMMA InstancesDiffer ==
  ASSUME NEW space, IsSpace(space), SiblingsDiffer(space), NEW n \in DOMAIN space,
         NEW o \in DOMAIN space, InferKind(space[n]) # "property",
         NodeIds(space)[n] = NodeIds(space)[o]
  PROVE  n = o
  <1>. DEFINE path == BrowsePaths(space)
              ids == NodeIds(space)
              kind(k) == InferKind(space[k])
  <1>1. ASSUME NEW k \in DOMAIN space
        PROVE  \/ ids[k] = StableId(kind(k), path[k])
               \/ /\ kind(k) = "property"
                  /\ \E p, w : ids[k] = PropertyId(p, w)
    BY DEF NodeIds
  <1>2. ids[n] = StableId(kind(n), path[n]) /\ ids[n].kind = kind(n) /\ ids[n].path = path[n]
    BY <1>1 DEF StableId
  <1>3. ids[o] = StableId(kind(o), path[o])
    <2>1. \A p, w : PropertyId(p, w).kind = "property"
      BY DEF PropertyId
    <2>. QED  BY <1>1, <1>2, <2>1
  <1>4. ids[o].path = path[o]
    BY <1>3 DEF StableId
  <1>5. path[n] = path[o]
    <2>. HIDE DEF ids, path
    <2>. QED  BY <1>2, <1>4 DEF ids
  <1>. QED  BY <1>5, PathsDiffer

\* No two nodes of the model share an id.
Distinct(space) ==
  \A n, o \in Mapped(space) : NodeIds(space)[n] = NodeIds(space)[o] => n = o

(* What a node shows is what hangs there. *)
LEMMA ShownIsHanging ==
  ASSUME NEW space, IsSpace(space), NEW n \in Mapped(space), NEW o \in Mapped(space)
  PROVE  o \in ToSet(NonFolderChildren(space)[n]) <=> Above(space)[o] = n
  <1>1. n \in DOMAIN space /\ ~IsFolder(space[n]) /\ o \in DOMAIN space /\ ~IsFolder(space[o])
    BY DEF Mapped
  <1>2. ASSUME o \in ToSet(NonFolderChildren(space)[n]) PROVE Above(space)[o] = n
    BY <1>1, <1>2, ShownHangs
  <1>3. ASSUME Above(space)[o] = n PROVE o \in ToSet(NonFolderChildren(space)[n])
    <2>1. ToSet(Given(space, o)) \subseteq ToSet(NonFolderChildren(space)[n])
      BY <1>1, <1>3, HangingIsShown
    <2>2. Given(space, o) = <<o>> /\ ToSet(<<o>>) = {o}
      BY <1>1 DEF Given, ToSet
    <2>. QED  BY <2>1, <2>2
  <1>. QED  BY <1>2, <1>3

(* The children of an element, where ids are distinct. *)
LEMMA ChildrenAreShown ==
  ASSUME NEW space, IsSpace(space), Distinct(space), NEW n \in Mapped(space)
  PROVE  LET ids == NodeIds(space)
             kids == Children(Build(space), ids[n])
         IN /\ IsInjective(kids)
            /\ \A o \in Mapped(space) : ids[o] \in ToSet(kids) <=> Above(space)[o] = n
            /\ \A k \in DOMAIN kids : \E o \in Mapped(space) :
                 Above(space)[o] = n /\ kids[k] = ids[o]
  <1>. DEFINE ids == NodeIds(space)
              m == Build(space)
              kids == Children(m, ids[n])
              own == NonFolderChildren(space)[n]
              M == Mapped(space)
  <1>1. LastOf(space, ids)[ids[n]] = n
    BY FirstAndLast DEF Distinct
  <1>2. ids[n] \in Ids(m)
    BY ModelParts
  <1>3. kids = [k \in DOMAIN own |-> ids[own[k]]]
    BY <1>1, <1>2, ModelParts
  <1>4. own \in Seq(M) /\ IsInjective(own)
    BY ChildrenAreMapped, ShownOnce DEF Mapped
  <1>5. \A o \in M : o \in ToSet(own) <=> Above(space)[o] = n
    BY ShownIsHanging
  <1>6. \A a, b \in M : ids[a] = ids[b] => a = b
    BY DEF Distinct
  <1>. HIDE DEF ids, m, kids, own, M
  <1>7. \A k \in DOMAIN own : own[k] \in M /\ own[k] \in ToSet(own)
    BY <1>4 DEF ToSet
  <1>8. DOMAIN kids = DOMAIN own /\ \A k \in DOMAIN own : kids[k] = ids[own[k]]
    BY <1>3
  <1>9. IsInjective(kids)
    BY <1>4, <1>6, <1>7, <1>8 DEF IsInjective
  <1>10. ASSUME NEW o \in M PROVE ids[o] \in ToSet(kids) <=> o \in ToSet(own)
    <2>1. ASSUME ids[o] \in ToSet(kids) PROVE o \in ToSet(own)
      <3>1. PICK k \in DOMAIN kids : kids[k] = ids[o]
        BY <2>1 DEF ToSet
      <3>. QED  BY <1>6, <1>7, <1>8, <3>1
    <2>2. ASSUME o \in ToSet(own) PROVE ids[o] \in ToSet(kids)
      <3>1. PICK k \in DOMAIN own : own[k] = o
        BY <2>2 DEF ToSet
      <3>2. k \in DOMAIN kids /\ kids[k] = ids[o]
        BY <1>8, <3>1
      <3>. QED  BY <3>2 DEF ToSet
    <2>. QED  BY <2>1, <2>2
  <1>11. ASSUME NEW k \in DOMAIN kids
         PROVE  \E o \in M : Above(space)[o] = n /\ kids[k] = ids[o]
    BY <1>5, <1>7, <1>8
  <1>. QED  BY <1>5, <1>9, <1>10, <1>11 DEF ids, m, kids, M

(* The parent of an element, where ids are distinct. *)
LEMMA ParentIsAbove ==
  ASSUME NEW space, IsSpace(space), Distinct(space), NEW o \in Mapped(space)
  PROVE  LET ids == NodeIds(space)
             n == Above(space)[o]
         IN /\ n \in Mapped(space) \cup {None}
            /\ ParentIdOf(Build(space), ids[o]) = IF n = None THEN None ELSE ids[n]
  <1>. DEFINE ids == NodeIds(space)
              m == Build(space)
              n == Above(space)[o]
              M == Mapped(space)
              P == ParentsOf(m, ids[o])
  <1>1. Ids(m) = {ids[a] : a \in M}
    BY ModelParts
  <1>2. IsClosed(m)
    BY ModelIsClosed
  <1>3. \A a \in M : ids[o] \in ToSet(Children(m, ids[a])) <=> n = a
    BY ChildrenAreShown
  <1>4. n \in M \cup {None}
    <2>1. PICK down : Leveled(space, down)
      BY DEF IsSpace, Leveled
    <2>. QED  BY <2>1, AboveIsHigher DEF Mapped
  <1>5. None \notin M
    BY ParentAssumption DEF Mapped, IsSpace
  <1>6. P = IF n = None THEN {} ELSE {ids[n]}
    <2>. HIDE DEF ids, m, M, n
    <2>1. P = {p \in Ids(m) : ids[o] \in ToSet(Children(m, p))}
      BY DEF ParentsOf
    <2>2. \A p \in P : \E a \in M : p = ids[a] /\ a = n
      BY <1>1, <1>3, <2>1
    <2>3. n \in M => ids[n] \in P
      BY <1>1, <1>3, <2>1
    <2>. QED  BY <1>4, <1>5, <2>2, <2>3
  <1>7. IF P = {} THEN ParentIdOf(m, ids[o]) = None ELSE ParentIdOf(m, ids[o]) \in P
    <2>. HIDE DEF ids, m
    <2>. QED  BY <1>2, ParentIsFirst
  <1>8. ParentIdOf(m, ids[o]) = IF n = None THEN None ELSE ids[n]
    <2>. HIDE DEF m, ids, n, P
    <2>. QED  BY <1>6, <1>7
  <1>. QED  BY <1>4, <1>8

(* A client that goes down from the parentless elements meets them all. *)
LEMMA AllAreBelow ==
  ASSUME NEW space, IsSpace(space), Distinct(space), None \notin Ids(Build(space))
  PROVE  LET m == Build(space)
         IN Below(m, {id \in Ids(m) : ParentIdOf(m, id) = None}, Len(space)) = Ids(m)
  <1>. DEFINE ids == NodeIds(space)
              m == Build(space)
              M == Mapped(space)
              N == Len(space)
              up == Above(space)
              top == {id \in Ids(m) : ParentIdOf(m, id) = None}
  <1>1. PICK down : Leveled(space, down)
    BY DEF IsSpace, Leveled
  <1>2. /\ N \in Nat /\ None \notin DOMAIN space
        /\ \A n \in DOMAIN space : down[n] \in 1 .. N /\ down[n] \in 0 .. N
    BY <1>1, ParentAssumption DEF IsSpace, Leveled
  <1>3. IsClosed(m) /\ Ids(m) = {ids[n] : n \in M}
    BY ModelIsClosed, ModelParts
  <1>4. ASSUME NEW n \in M
        PROVE  IF up[n] = None THEN ids[n] \in top
               ELSE /\ up[n] \in M /\ down[up[n]] < down[n]
                    /\ ids[n] \in ToSet(Children(m, ids[up[n]]))
    <2>1. CASE up[n] = None
      <3>1. ParentIdOf(m, ids[n]) = None
        BY <2>1, ParentIsAbove
      <3>. QED  BY <1>3, <2>1, <3>1
    <2>2. CASE up[n] # None
      <3>1. up[n] \in M /\ down[up[n]] < down[n]
        BY <1>1, <2>2, AboveIsHigher DEF Mapped
      <3>. QED  BY <2>2, <3>1, ChildrenAreShown
    <2>. QED  BY <2>1, <2>2
  <1>. HIDE DEF N, m, ids, up, top
  <1>5. top \in SUBSET Ids(m)
    BY DEF top
  <1>6. M \subseteq DOMAIN space
    BY DEF Mapped
  <1>. HIDE DEF M
  <1>. DEFINE good == {k \in Nat : \A n \in M : down[n] <= k => ids[n] \in Below(m, top, k)}
  <1>7. 0 \in good
    BY <1>2, <1>6
  <1>8. ASSUME NEW k \in Nat, k < N, k \in good PROVE k + 1 \in good
    <2>1. /\ Below(m, top, k) \subseteq Ids(m)
          /\ Below(m, top, k + 1) = Below(m, top, k) \cup Led(m, Below(m, top, k))
      BY <1>3, <1>5, BelowSteps
    <2>2. top \subseteq Below(m, top, k + 1)
      <3>1. k + 1 \in Nat /\ 0 \in 0 .. k + 1
        OBVIOUS
      <3>2. Below(m, top, 0) \subseteq Below(m, top, k + 1)
        BY <1>3, <1>5, <3>1, BelowGrows
      <3>. QED  BY <1>3, <1>5, <3>2, BelowSteps
    <2>3. ASSUME NEW n \in M, down[n] <= k + 1 PROVE ids[n] \in Below(m, top, k + 1)
      <3>1. CASE up[n] = None
        BY <1>4, <2>2, <3>1
      <3>2. CASE up[n] # None
        <4>1. up[n] \in M /\ down[up[n]] < down[n] /\ ids[n] \in ToSet(Children(m, ids[up[n]]))
          BY <1>4, <3>2
        <4>2. down[up[n]] <= k
          BY <1>2, <1>6, <2>3, <4>1
        <4>3. ids[up[n]] \in Below(m, top, k)
          BY <1>8, <4>1, <4>2
        <4>4. ids[n] \in Led(m, Below(m, top, k))
          BY <4>1, <4>3 DEF Led
        <4>. QED  BY <2>1, <4>4
      <3>. QED  BY <3>1, <3>2
    <2>. QED  BY <2>3
  <1>. HIDE DEF good
  <1>9. N \in good
    <2>1. 0 .. N \subseteq good
      BY <1>2, <1>7, <1>8, InductionUpTo
    <2>. QED  BY <1>2, <2>1
  <1>10. \A n \in M : ids[n] \in Below(m, top, N)
    BY <1>2, <1>6, <1>9 DEF good
  <1>11. Below(m, top, N) \subseteq Ids(m)
    BY <1>2, <1>3, <1>5, BelowSteps
  <1>12. Below(m, top, N) = Ids(m)
    BY <1>3, <1>10, <1>11
  <1>. QED  BY <1>12 DEF m, top, N

\* Some element of `related' has the relation to the element id.
Is(relation, id, related) ==
  \E k \in DOMAIN related : related[k] = [relation |-> relation, object |-> id]

(* Where ids are distinct, /related tells of an element the parent and the  *)
(* children that it has in the space, once each.                           *)
LEMMA RelatedMirrors ==
  ASSUME NEW space, IsSpace(space), Distinct(space), None \notin Ids(Build(space)),
         NEW n \in Mapped(space), NEW related,
         related = Related(Build(space), NodeIds(space)[n])
  PROVE  /\ \A j, k \in DOMAIN related : related[j].object = related[k].object => j = k
         /\ \A o \in Mapped(space) :
              /\ Above(space)[o] = n <=> Is("HasComponent", NodeIds(space)[o], related)
              /\ Above(space)[n] = o <=> Is("IsComponentOf", NodeIds(space)[o], related)
  <1>. DEFINE ids == NodeIds(space)
              m == Build(space)
              M == Mapped(space)
              up == Above(space)
              kids == Children(m, ids[n])
              size == Len(kids)
              parent == ParentIdOf(m, ids[n])
              child(k) == [relation |-> "HasComponent", object |-> kids[k]]
              above == [relation |-> "IsComponentOf", object |-> parent]
              entry(relation, o) == [relation |-> relation, object |-> ids[o]]
  <1>1. PICK down : Leveled(space, down)
    BY DEF IsSpace, Leveled
  <1>2. /\ None \notin M /\ \A a \in M : down[a] \in Nat
        /\ \A a \in M : up[a] \in M => down[up[a]] < down[a]
    <2>1. \A a \in M : a \in DOMAIN space /\ a \in Nat
      BY DEF Mapped, IsSpace
    <2>2. None \notin M
      BY <2>1, ParentAssumption
    <2>3. \A a \in M : down[a] \in Nat
      BY <1>1, <2>1 DEF Leveled, IsSpace
    <2>4. \A a \in M : up[a] \in M => down[up[a]] < down[a]
      BY <1>1, <2>1, <2>2, AboveIsHigher
    <2>. QED  BY <2>2, <2>3, <2>4
  <1>3. IsClosed(m) /\ Ids(m) = {ids[a] : a \in M} /\ None \notin Ids(m)
    BY ModelIsClosed, ModelParts
  <1>4. \A a, b \in M : ids[a] = ids[b] => a = b
    BY DEF Distinct
  <1>5. /\ IsInjective(kids)
        /\ \A o \in M : ids[o] \in ToSet(kids) <=> up[o] = n
        /\ \A k \in DOMAIN kids : \E o \in M : up[o] = n /\ kids[k] = ids[o]
    BY ChildrenAreShown
  <1>6. up[n] \in M \cup {None} /\ parent = IF up[n] = None THEN None ELSE ids[up[n]]
    BY ParentIsAbove
  <1>7. /\ size \in Nat /\ DOMAIN kids = 1 .. size
        /\ parent = None => DOMAIN related = 1 .. size
        /\ \A k \in 1 .. size : related[k] = child(k)
        /\ parent # None => DOMAIN related = 1 .. size + 1 /\ related[size + 1] = above
    <2>1. ids[n] \in Ids(m)
      BY <1>3
    <2>. HIDE DEF m, ids
    <2>. QED  BY <1>3, <2>1, RelatedParts DEF m, ids
  <1>8. /\ \A k : child(k).relation = "HasComponent" /\ child(k).object = kids[k]
        /\ above.relation = "IsComponentOf" /\ above.object = parent
        /\ \A r, o : entry(r, o).relation = r /\ entry(r, o).object = ids[o]
    OBVIOUS
  <1>9. /\ \A k, o : kids[k] = ids[o] => child(k) = entry("HasComponent", o)
        /\ \A o : parent = ids[o] => above = entry("IsComponentOf", o)
    OBVIOUS
  <1>10. \A r, o : Is(r, ids[o], related) <=> \E k \in DOMAIN related : related[k] = entry(r, o)
    BY DEF Is
  <1>11. up[n] \in M => parent = ids[up[n]] /\ parent # None
    BY <1>2, <1>3, <1>6
  <1>. HIDE DEF ids, m, M, up, kids, size, parent, child, above, entry
  <1>12. ASSUME NEW k \in DOMAIN related
         PROVE  \/ k \in 1 .. size /\ related[k] = child(k)
                \/ k = size + 1 /\ parent # None /\ related[k] = above
    <2>1. CASE parent = None
      BY <1>7, <2>1
    <2>2. CASE parent # None
      BY <1>7, <2>2
    <2>. QED  BY <2>1, <2>2
  <1>13. ASSUME NEW k \in 1 .. size, parent # None PROVE kids[k] # parent
    <2>1. PICK o \in M : up[o] = n /\ kids[k] = ids[o]
      BY <1>5, <1>7
    <2>2. n \in M
      BY DEF M
    <2>3. up[n] \in M /\ parent = ids[up[n]]
      BY <1>6, <1>13
    <2>4. down[up[n]] < down[n] /\ down[n] < down[o]
      BY <1>2, <2>1, <2>2, <2>3
    <2>5. up[n] # o
      BY <1>2, <2>2, <2>3, <2>4
    <2>. QED  BY <1>4, <2>1, <2>3, <2>5
  <1>14. ASSUME NEW j \in DOMAIN related, NEW k \in DOMAIN related,
                related[j].object = related[k].object
         PROVE  j = k
    <2>1. CASE j \in 1 .. size /\ related[j] = child(j)
      <3>1. k \in 1 .. size /\ related[k] = child(k)
        BY <1>8, <1>12, <1>13, <1>14, <2>1
      <3>2. kids[j] = kids[k]
        BY <1>8, <1>14, <2>1, <3>1
      <3>. QED  BY <1>5, <1>7, <2>1, <3>1, <3>2 DEF IsInjective
    <2>2. CASE j = size + 1 /\ parent # None /\ related[j] = above
      BY <1>8, <1>12, <1>13, <1>14, <2>2
    <2>. QED  BY <1>12, <2>1, <2>2
  <1>15. ASSUME NEW o \in M PROVE up[o] = n <=> Is("HasComponent", ids[o], related)
    <2>1. ASSUME up[o] = n PROVE Is("HasComponent", ids[o], related)
      <3>1. PICK k \in DOMAIN kids : kids[k] = ids[o]
        BY <1>5, <2>1 DEF ToSet
      <3>2. k \in DOMAIN related /\ related[k] = child(k)
        <4>1. k \in 1 .. size /\ k \in 1 .. size + 1
          BY <1>7
        <4>. QED  BY <1>7, <4>1
      <3>3. related[k] = entry("HasComponent", o)
        BY <1>9, <3>1, <3>2
      <3>. QED  BY <1>10, <3>2, <3>3
    <2>2. ASSUME Is("HasComponent", ids[o], related) PROVE up[o] = n
      <3>1. PICK k \in DOMAIN related : related[k] = entry("HasComponent", o)
        BY <1>10, <2>2
      <3>2. related[k].relation = "HasComponent" /\ related[k].object = ids[o]
        BY <1>8, <3>1
      <3>3. k \in 1 .. size /\ related[k] = child(k)
        BY <1>8, <1>12, <3>2
      <3>4. k \in DOMAIN kids /\ kids[k] = ids[o]
        BY <1>7, <1>8, <3>2, <3>3
      <3>5. ids[o] \in ToSet(kids)
        BY <3>4 DEF ToSet
      <3>. QED  BY <1>5, <3>5
    <2>. QED  BY <2>1, <2>2
  <1>16. ASSUME NEW o \in M PROVE up[n] = o <=> Is("IsComponentOf", ids[o], related)
    <2>1. ASSUME up[n] = o PROVE Is("IsComponentOf", ids[o], related)
      <3>1. parent = ids[o] /\ parent # None
        BY <1>11, <2>1
      <3>2. size + 1 \in DOMAIN related /\ related[size + 1] = above
        BY <1>7, <3>1
      <3>3. related[size + 1] = entry("IsComponentOf", o)
        BY <1>9, <3>1, <3>2
      <3>. QED  BY <1>10, <3>2, <3>3
    <2>2. ASSUME Is("IsComponentOf", ids[o], related) PROVE up[n] = o
      <3>1. PICK k \in DOMAIN related : related[k] = entry("IsComponentOf", o)
        BY <1>10, <2>2
      <3>2. related[k].relation = "IsComponentOf" /\ related[k].object = ids[o]
        BY <1>8, <3>1
      <3>3. parent # None /\ parent = ids[o]
        BY <1>8, <1>12, <3>2
      <3>4. up[n] \in M /\ parent = ids[up[n]]
        BY <1>6, <3>3
      <3>. QED  BY <1>4, <3>3, <3>4
    <2>. QED  BY <2>1, <2>2
  <1>17. \A o \in M : up[o] = n <=> Is("HasComponent", ids[o], related)
    BY <1>15
  <1>18. \A o \in M : up[n] = o <=> Is("IsComponentOf", ids[o], related)
    BY <1>16
  <1>. QED  BY <1>14, <1>17, <1>18 DEF M, up, ids

(* Whatever the space: the model that is built of it mirrors it.            *)
THEOREM ModelMirrors ==
  ASSUME NEW space, IsSpace(space), \A n \in DOMAIN space : NodeIds(space)[n] # None
  PROVE  MirrorsSpace(space, Build(space))
  <1>. DEFINE ids == NodeIds(space)
              m == Build(space)
              M == Mapped(space)
              up == Above(space)
              top == {id \in Ids(m) : ParentIdOf(m, id) = None}
              is(relation, n, related) ==
                \E k \in DOMAIN related : related[k] = [relation |-> relation, object |-> ids[n]]
              mirrored(n, related) ==
                /\ \A j, k \in DOMAIN related :
                     related[j].object = related[k].object => j = k
                /\ \A o \in M :
                     /\ up[o] = n <=> is("HasComponent", o, related)
                     /\ up[n] = o <=> is("IsComponentOf", o, related)
  <1>1. Ids(m) = {ids[n] : n \in M}
    BY ModelParts
  <1>2. None \notin Ids(m)
    BY <1>1 DEF Mapped
  <1>3. \A id \in Ids(m) : ToSet(Children(m, id)) \subseteq Ids(m)
    BY ModelIsClosed DEF IsClosed, ToSet
  <1>4. ToSet(m.rootIds) = {id \in top : m.nodesById[id].kind = "instance"}
    BY <1>2, RootsHaveNoParent
  <1>5. SiblingsDiffer(space) =>
          \A n, o \in M : InferKind(space[n]) # "property" /\ ids[n] = ids[o] => n = o
    BY InstancesDiffer DEF Mapped
  <1>6. ASSUME Distinct(space)
        PROVE  /\ Below(m, top, Len(space)) = Ids(m)
               /\ \A n \in M : mirrored(n, Related(m, ids[n]))
    <2>1. Below(m, top, Len(space)) = Ids(m)
      BY <1>2, <1>6, AllAreBelow
    <2>2. ASSUME NEW n \in M, NEW related, related = Related(m, ids[n])
          PROVE  mirrored(n, related)
      <3>1. \A relation, o : Is(relation, ids[o], related) <=> is(relation, o, related)
        BY DEF Is
      <3>2. /\ \A j, k \in DOMAIN related : related[j].object = related[k].object => j = k
            /\ \A o \in M : /\ up[o] = n <=> Is("HasComponent", ids[o], related)
                            /\ up[n] = o <=> Is("IsComponentOf", ids[o], related)
        BY <1>2, <1>6, <2>2, RelatedMirrors
      <3>. HIDE DEF is, M, up, ids
      <3>. QED  BY <3>1, <3>2
    <2>. HIDE DEF mirrored
    <2>. QED  BY <2>1, <2>2
  <1>7. Distinct(space) <=> \A n, o \in M : ids[n] = ids[o] => n = o
    BY DEF Distinct
  <1>. QED  BY <1>3, <1>4, <1>5, <1>6, <1>7 DEF MirrorsSpace, Mirrors

-----------------------------------------------------------------------------
(* The invariant of the walk, for the model m that is asked and the call c. *)

Roots(m, c) == IF c.root = None THEN m.rootIds ELSE << FindNode(m, c.root) >>

\* The tree t, in which the level of the entries from `from' on is the last:
\* nothing hangs below it yet.
Entries(m) == [id : Ids(m), up : Nat, mark : {"none", "repeated", "error", "truncated"}]
IsTree(m, c, t, from) ==
  /\ t \in Seq(Entries(m)) /\ Len(t) <= c.maxNodes
  /\ from \in 1 .. Len(t) + 1
  /\ \A i \in DOMAIN t : t[i].up < i /\ t[i].up < from

\* An entry whose level is over shows its children, or says why not.
Earlier(t, i) ==
  \E j \in 1 .. i - 1 : t[j].id = t[i].id /\ t[j].mark # "repeated"
Reason(m, c, t, i) ==
  \/ t[i].mark = "none" /\ Shows(t, i, Children(m, t[i].id))
  \/ t[i].mark = "repeated" /\ Shows(t, i, <<>>) /\ Earlier(t, i)
  \/ t[i].mark = "error" /\ Shows(t, i, <<>>)
  \/ /\ t[i].mark = "truncated" /\ Shows(t, i, <<>>)
     /\ Len(t) + Len(Children(m, t[i].id)) > c.maxNodes

\* At the top there are the roots; `cut' says that something was cut off.
Topped(m, c, t, cut) ==
  /\ ToSet(Roots(m, c)) \subseteq Ids(m)
  /\ \E kept \in 0 .. Len(Roots(m, c)) :
       /\ Shows(t, 0, SubSeq(Roots(m, c), 1, kept))
       /\ cut <=> kept < Len(Roots(m, c)) \/ \E i \in DOMAIN t : t[i].mark = "truncated"

\* The level of each entry, which is as many steps from the roots; that of
\* the last ones is d.
IsLevel(t, lv) ==
  \A i \in DOMAIN t : lv[i] = IF t[i].up = 0 THEN 1 ELSE lv[t[i].up] + 1
Levelled(m, c, t, from, d) ==
  \E lv \in [DOMAIN t -> Nat] :
    /\ IsLevel(t, lv)
    /\ \A i \in DOMAIN t :
         /\ IF i < from THEN lv[i] < d ELSE lv[i] = d
         /\ t[i].id \in Below(m, ToSet(Roots(m, c)), lv[i] - 1)

Sound(m, c, t, from, d, cut) ==
  /\ IsTree(m, c, t, from)
  /\ Topped(m, c, t, cut)
  /\ Levelled(m, c, t, from, d)
  /\ \A i \in 1 .. from - 1 : Reason(m, c, t, i)
  /\ d \in Nat \ {0} /\ (c.maxDepth = 0 \/ d <= c.maxDepth)

\* The ids of the first n entries, each of which was expanded.
AreExpanded(t, n, seen) ==
  /\ seen = {t[i].id : i \in 1 .. n}
  /\ \A id \in seen : \E i \in 1 .. n : t[i].id = id /\ t[i].mark # "repeated"

\* A tree whose last level is complete and about to begin.
Grew(m, c, t, from, d, cut, seen) ==
  /\ Sound(m, c, t, from, d, cut)
  /\ \A i \in from .. Len(t) : t[i].mark = "none"
  /\ AreExpanded(t, from - 1, seen) /\ d <= Cardinality(seen) + 1

\* In a level, an element is asked for once, each batch as a whole.
InLevel ==
  /\ Sound(Asks, call, tree, level, depth, truncated)
  /\ call.maxDepth = 0 \/ depth < call.maxDepth
  /\ AreExpanded(tree, Len(tree), expanded) /\ depth <= Cardinality(expanded)
  /\ toExpand \in SUBSET (level .. Len(tree))
  /\ \A i \in level .. Len(tree) :
       IF i \in toExpand THEN tree[i].mark = "none"
       ELSE tree[i].mark = "repeated" /\ Earlier(tree, i)
  /\ DOMAIN answers \subseteq toExpand
  /\ \A i \in DOMAIN answers :
       /\ answers[i] \in {None, Children(Asks, tree[i].id)}
       /\ \A j \in toExpand :
            BatchOf(toExpand, i) = BatchOf(toExpand, j) => j \in DOMAIN answers

\* A walk ends above the depth it was given, or with a level of repetitions.
AtEnd ==
  /\ Sound(Asks, call, tree, level, depth, truncated)
  /\ depth <= Cardinality(Ids(Asks)) + 1
  /\ \/ /\ call.maxDepth # 0 /\ depth >= call.maxDepth
        /\ \A i \in level .. Len(tree) : tree[i].mark = "none"
     \/ \A i \in level .. Len(tree) : tree[i].mark = "repeated" /\ Earlier(tree, i)

\* The servers, and what a connect may make of the binding.
Tokens == {First.token} \cup {c.token : c \in Connects}
Bindings == {First} \cup {Binding(s, k) : s \in Servers, k \in Tokens}
ServersInv ==
  /\ spaces \in Spaces
  /\ models = [s \in Servers |-> Build(spaces[s])]
  /\ binding \in Bindings
  /\ connects \in Seq([binding : Bindings,
                       step : {"info", "namespaces", "connected", "connection_failed",
                               "auth_failed"}])

WalkInv ==
  /\ stage \in {"idle", "roots"} => expanded = {}
  /\ stage # "idle" => call \in Calls /\ asked \in Bindings
  /\ stage = "level" => InLevel
  /\ stage = "done" => AtEnd

IInv == ServersInv /\ WalkInv

-----------------------------------------------------------------------------
(* Trees. *)

LEMMA RootsAreCut ==
  ASSUME NEW m, IsClosed(m), NEW c
  PROVE  /\ Roots(m, c) \in Seq(Ids(m) \cup {None})
         /\ \A n \in 0 .. Len(Roots(m, c)) :
              LET top == SubSeq(Roots(m, c), 1, n)
              IN n \in Nat /\ Len(top) = n /\ DOMAIN top = 1 .. n /\ \A k \in 1 .. n : top[k] = Roots(m, c)[k]
  <1>. DEFINE S == Ids(m) \cup {None}
              roots == Roots(m, c)
  <1>1. roots \in Seq(S)
    <2>1. m.rootIds \in Seq(S)
      BY DEF IsClosed
    <2>2. FindNode(m, c.root) \in S
      BY FindNodeFinds
    <2>. HIDE DEF S
    <2>3. << FindNode(m, c.root) >> \in Seq(S)
      BY <2>2
    <2>. QED  BY <2>1, <2>3 DEF Roots
  <1>. HIDE DEF roots, S
  <1>2. Len(roots) \in Nat
    BY <1>1
  <1>3. ASSUME NEW n \in 0 .. Len(roots)
        PROVE  LET top == SubSeq(roots, 1, n)
               IN n \in Nat /\ Len(top) = n /\ DOMAIN top = 1 .. n /\ \A k \in 1 .. n : top[k] = roots[k]
    <2>1. n \in Nat /\ n <= Len(roots)
      BY <1>2
    <2>. QED  BY <1>1, <1>2, <2>1
  <1>. QED  BY <1>1, <1>3 DEF roots, S

LEMMA AskedIsClosed ==
  ASSUME ServersInv, asked \in Bindings
  PROVE  IsClosed(Asks)
  <1>1. asked.server \in Servers
    BY WalkAssumption DEF Bindings, Binding
  <1>2. spaces \in Spaces /\ models = [s \in Servers |-> Build(spaces[s])]
    BY DEF ServersInv
  <1>3. IsSpace(spaces[asked.server])
    BY <1>1, <1>2, WalkAssumption
  <1>. QED  BY <1>1, <1>2, <1>3, ModelIsClosed DEF Asks

(* What an entry shows is not changed by marks, nor by entries that are    *)
(* added below others.                                                     *)
LEMMA ShowsKept ==
  ASSUME NEW S, NEW t \in Seq(S), NEW u \in Seq(S), Len(t) <= Len(u), NEW i \in Nat, NEW ids,
         \A j \in DOMAIN t : u[j].id = t[j].id /\ u[j].up = t[j].up,
         \A j \in DOMAIN u \ DOMAIN t : u[j].up # i,
         NEW n \in Nat, Len(ids) = n, DOMAIN ids = 1 .. n,
         Shows(t, i, ids)
  PROVE  Shows(u, i, ids)
  <1>1. /\ Len(t) \in Nat /\ DOMAIN t = 1 .. Len(t)
        /\ Len(u) \in Nat /\ DOMAIN u = 1 .. Len(u)
    OBVIOUS
  <1>2. PICK first \in 0 .. Len(t) :
          /\ {j \in DOMAIN t : t[j].up = i} = first + 1 .. first + n
          /\ \A k \in 1 .. n : t[first + k].id = ids[k]
    BY DEF Shows
  <1>3. DOMAIN t \subseteq DOMAIN u /\ first \in 0 .. Len(u) /\ first \in Nat
    BY <1>1
  <1>4. {j \in DOMAIN u : u[j].up = i} = {j \in DOMAIN t : t[j].up = i}
    <2>1. ASSUME NEW j \in DOMAIN u PROVE u[j].up = i <=> j \in DOMAIN t /\ t[j].up = i
      OBVIOUS
    <2>. QED  BY <1>3, <2>1
  <1>5. ASSUME NEW k \in 1 .. n PROVE u[first + k].id = ids[k]
    <2>1. first + k \in first + 1 .. first + n
      BY <1>3
    <2>2. first + k \in DOMAIN t
      BY <1>2, <2>1
    <2>. QED  BY <1>2, <2>2
  <1>. QED  BY <1>2, <1>3, <1>4, <1>5 DEF Shows

\* An entry with nothing below it.
LEMMA ShowsNothing ==
  ASSUME NEW t, Len(t) \in Nat, NEW i, \A j \in DOMAIN t : t[j].up # i
  PROVE  Shows(t, i, <<>>)
  <1>1. 0 \in 0 .. Len(t) /\ Len(<<>>) = 0 /\ DOMAIN <<>> = {} /\ 0 + 1 .. 0 + 0 = {}
    OBVIOUS
  <1>2. {j \in DOMAIN t : t[j].up = i} = {}
    OBVIOUS
  <1>. QED  BY <1>1, <1>2 DEF Shows

(* A reason that was given holds as the tree grows. *)
LEMMA ReasonKept ==
  ASSUME NEW m, IsClosed(m), NEW c, c.maxNodes \in Nat,
         NEW t \in Seq(Entries(m)), NEW u \in Seq(Entries(m)), Len(t) <= Len(u),
         \A j \in DOMAIN t : u[j].id = t[j].id /\ u[j].up = t[j].up,
         NEW i \in DOMAIN t, u[i].mark = t[i].mark,
         \A j \in 1 .. i - 1 : t[j].mark # "repeated" => u[j].mark # "repeated",
         \A j \in DOMAIN u \ DOMAIN t : u[j].up # i,
         Reason(m, c, t, i)
  PROVE  Reason(m, c, u, i)
  <1>. DEFINE kids == Children(m, t[i].id)
  <1>1. /\ Len(t) \in Nat /\ DOMAIN t = 1 .. Len(t) /\ i \in Nat
        /\ Len(u) \in Nat /\ DOMAIN u = 1 .. Len(u)
        /\ t[i].id \in Ids(m)
    <2>1. /\ Len(t) \in Nat /\ DOMAIN t = 1 .. Len(t) /\ i \in Nat
          /\ Len(u) \in Nat /\ DOMAIN u = 1 .. Len(u)
      OBVIOUS
    <2>2. t[i] \in Entries(m)
      OBVIOUS
    <2>. QED  BY <2>1, <2>2 DEF Entries
  <1>2. kids \in Seq(Ids(m)) /\ Children(m, u[i].id) = kids
    BY <1>1 DEF IsClosed
  <1>. HIDE DEF kids
  <1>3. Len(kids) \in Nat /\ DOMAIN kids = 1 .. Len(kids)
    BY <1>2
  <1>4. Shows(t, i, kids) => Shows(u, i, kids)
    BY <1>1, <1>3, ShowsKept
  <1>5. Shows(t, i, <<>>) => Shows(u, i, <<>>)
    <2>1. Len(<<>>) = 0 /\ DOMAIN <<>> = 1 .. 0 /\ 0 \in Nat
      OBVIOUS
    <2>. QED  BY <1>1, <2>1, ShowsKept
  <1>6. Earlier(t, i) => Earlier(u, i)
    <2>1. \A j \in 1 .. i - 1 : j \in DOMAIN t
      BY <1>1
    <2>. QED  BY <2>1 DEF Earlier
  <1>7. Len(t) + Len(kids) > c.maxNodes => Len(u) + Len(kids) > c.maxNodes
    BY <1>1, <1>3
  <1>. QED  BY <1>2, <1>4, <1>5, <1>6, <1>7 DEF Reason, kids

(* The level of an entry is the one its tree gives it. *)
LEMMA LevelIsGiven ==
  ASSUME NEW S, tree \in Seq(S), \A i \in DOMAIN tree : tree[i].up \in Nat /\ tree[i].up < i,
         NEW lv \in [DOMAIN tree -> Nat], IsLevel(tree, lv), NEW i \in DOMAIN tree
  PROVE  LevelOf(i) = lv[i]
  <1>. DEFINE D == DOMAIN tree
              Body(f) == [j \in D |-> IF tree[j].up = 0 THEN 1 ELSE f[tree[j].up] + 1]
              Solves(f) == f = Body(f)
              l == CHOOSE f : Solves(f)
  <1>1. Len(tree) \in Nat /\ D = 1 .. Len(tree)
    OBVIOUS
  <1>2. LevelOf(i) = l[i]
    BY DEF LevelOf
  <1>3. Solves(lv)
    <2>1. lv = [j \in D |-> lv[j]]
      OBVIOUS
    <2>. QED  BY <2>1 DEF IsLevel
  <1>4. Solves(l)
    <2>. HIDE DEF Solves
    <2>. QED  BY <1>3
  <1>. HIDE DEF l
  <1>5. \A j \in D : l[j] = IF tree[j].up = 0 THEN 1 ELSE l[tree[j].up] + 1
    BY <1>4
  <1>. DEFINE good == {k \in Nat : \A j \in D : j <= k => l[j] = lv[j]}
  <1>6. 0 \in good
    BY <1>1
  <1>7. ASSUME NEW k \in Nat, k < Len(tree), k \in good PROVE k + 1 \in good
    <2>1. ASSUME NEW j \in D, j <= k + 1 PROVE l[j] = lv[j]
      <3>1. tree[j].up # 0 => tree[j].up \in D /\ tree[j].up <= k
        BY <1>1, <2>1
      <3>2. tree[j].up # 0 => l[tree[j].up] = lv[tree[j].up]
        BY <1>7, <3>1
      <3>. QED  BY <1>5, <3>2 DEF IsLevel
    <2>. QED  BY <2>1
  <1>. HIDE DEF good
  <1>8. Len(tree) \in good
    <2>1. 0 .. Len(tree) \subseteq good
      BY <1>1, <1>6, <1>7, InductionUpTo
    <2>. QED  BY <1>1, <2>1
  <1>9. i \in D /\ i <= Len(tree)
    BY <1>1
  <1>. QED  BY <1>2, <1>8, <1>9 DEF good

-----------------------------------------------------------------------------
(* A level begins. *)

(* An entry of the last level that is not fresh repeats one that is, or one *)
(* of the levels before.                                                   *)
LEMMA OthersRepeat ==
  ASSUME NEW m, NEW c, NEW t, NEW from, IsTree(m, c, t, from), NEW seen,
         AreExpanded(t, from - 1, seen),
         NEW i \in from .. Len(t), i \notin Fresh(t, from, seen)
  PROVE  \E j \in 1 .. i - 1 :
           /\ t[j].id = t[i].id
           /\ (j < from /\ t[j].mark # "repeated") \/ j \in Fresh(t, from, seen)
  <1>1. from \in Nat /\ from >= 1 /\ Len(t) \in Nat /\ i \in Nat /\ from <= i /\ i <= Len(t)
    BY DEF IsTree
  <1>2. CASE t[i].id \in seen
    <2>1. PICK j \in 1 .. from - 1 : t[j].id = t[i].id /\ t[j].mark # "repeated"
      BY <1>2 DEF AreExpanded
    <2>2. j \in 1 .. i - 1 /\ j < from
      BY <1>1
    <2>. QED  BY <2>1, <2>2
  <1>3. CASE t[i].id \notin seen
    <2>. DEFINE same == {j \in from .. i - 1 : t[j].id = t[i].id}
    <2>1. same # {} /\ same \in SUBSET Nat
      BY <1>1, <1>3 DEF Fresh
    <2>2. PICK j \in same : \A k \in same : j <= k
      <3>. HIDE DEF same
      <3>. QED  BY <2>1, LeastNatural
    <2>3. j \in from .. i - 1 /\ t[j].id = t[i].id
      OBVIOUS
    <2>4. j \in 1 .. i - 1 /\ j \in from .. Len(t)
      BY <1>1, <2>3
    <2>5. ASSUME NEW k \in from .. j - 1 PROVE t[k].id # t[j].id
      <3>1. k \in from .. i - 1 /\ k \in Nat /\ j \in Nat /\ ~(j <= k)
        BY <1>1, <2>3
      <3>2. k \notin same
        BY <2>2, <3>1
      <3>. QED  BY <2>3, <3>1, <3>2
    <2>6. j \in Fresh(t, from, seen)
      BY <1>3, <2>3, <2>4, <2>5 DEF Fresh
    <2>. QED  BY <2>3, <2>4, <2>6
  <1>. QED  BY <1>2, <1>3

(* The marks of repeated entries leave the tree sound. *)
LEMMA MarkedIsSound ==
  ASSUME NEW m, IsClosed(m), NEW c, c.maxNodes \in Nat, NEW t, NEW from, NEW d, NEW cut,
         Sound(m, c, t, from, d, cut), \A i \in from .. Len(t) : t[i].mark = "none",
         NEW kept \in SUBSET (from .. Len(t)), NEW u,
         u = [i \in DOMAIN t |-> IF i < from \/ i \in kept THEN t[i]
                                 ELSE Entry(t[i].id, t[i].up, "repeated")]
  PROVE  /\ Sound(m, c, u, from, d, cut)
         /\ Len(u) = Len(t) /\ \A i \in DOMAIN t : u[i].id = t[i].id
         /\ \A i \in 1 .. Len(t) :
              u[i].mark = IF i < from \/ i \in kept THEN t[i].mark ELSE "repeated"
  <1>1. /\ t \in Seq(Entries(m)) /\ Len(t) <= c.maxNodes /\ from \in 1 .. Len(t) + 1
        /\ \A i \in DOMAIN t : t[i].up < i /\ t[i].up < from
    BY DEF Sound, IsTree
  <1>2. Len(t) \in Nat /\ DOMAIN t = 1 .. Len(t) /\ from \in Nat
    BY <1>1
  <1>3. \A i \in DOMAIN t : /\ t[i] \in Entries(m) /\ t[i].id \in Ids(m) /\ t[i].up \in Nat
                            /\ Entry(t[i].id, t[i].up, "repeated") \in Entries(m)
    <2>1. \A i \in DOMAIN t : t[i] \in Entries(m)
      BY <1>1
    <2>. QED  BY <2>1 DEF Entries, Entry
  <1>4. \A i \in DOMAIN t :
          /\ u[i] \in Entries(m) /\ u[i].id = t[i].id /\ u[i].up = t[i].up
          /\ u[i].mark = IF i < from \/ i \in kept THEN t[i].mark ELSE "repeated"
    BY <1>3 DEF Entry
  <1>5. u \in Seq(Entries(m)) /\ DOMAIN u = DOMAIN t /\ Len(u) = Len(t)
    <2>1. u = [i \in 1 .. Len(t) |-> u[i]]
      BY <1>2
    <2>. QED  BY <1>2, <1>4, <2>1
  <1>6. IsTree(m, c, u, from)
    BY <1>1, <1>4, <1>5 DEF IsTree
  <1>7. Topped(m, c, u, cut)
    <2>1. PICK n \in 0 .. Len(Roots(m, c)) :
            /\ Shows(t, 0, SubSeq(Roots(m, c), 1, n))
            /\ cut <=> n < Len(Roots(m, c)) \/ \E i \in DOMAIN t : t[i].mark = "truncated"
      BY DEF Sound, Topped
    <2>2. \A i \in DOMAIN t : u[i].mark = "truncated" <=> t[i].mark = "truncated"
      BY <1>2, <1>4
    <2>. DEFINE top == SubSeq(Roots(m, c), 1, n)
    <2>3. n \in Nat /\ Len(top) = n /\ DOMAIN top = 1 .. n
      BY RootsAreCut
    <2>. HIDE DEF top
    <2>4. Shows(u, 0, top)
      <3>1. \A j \in DOMAIN t : u[j].id = t[j].id /\ u[j].up = t[j].up
        BY <1>4
      <3>2. \A j \in DOMAIN u \ DOMAIN t : u[j].up # 0
        BY <1>5
      <3>3. Len(t) <= Len(u) /\ 0 \in Nat
        BY <1>2, <1>5
      <3>4. Shows(t, 0, top)
        BY <2>1 DEF top
      <3>. QED  BY <1>1, <1>5, <2>3, <3>1, <3>2, <3>3, <3>4, ShowsKept
    <2>5. ToSet(Roots(m, c)) \subseteq Ids(m)
      BY DEF Sound, Topped
    <2>. QED  BY <1>5, <2>1, <2>2, <2>4, <2>5 DEF Topped, top
  <1>8. Levelled(m, c, u, from, d)
    <2>1. PICK lv \in [DOMAIN t -> Nat] :
            /\ IsLevel(t, lv)
            /\ \A i \in DOMAIN t :
                 /\ IF i < from THEN lv[i] < d ELSE lv[i] = d
                 /\ t[i].id \in Below(m, ToSet(Roots(m, c)), lv[i] - 1)
      BY DEF Sound, Levelled
    <2>2. IsLevel(u, lv)
      BY <1>4, <1>5, <2>1 DEF IsLevel
    <2>3. ASSUME NEW i \in DOMAIN u
          PROVE  /\ IF i < from THEN lv[i] < d ELSE lv[i] = d
                 /\ u[i].id \in Below(m, ToSet(Roots(m, c)), lv[i] - 1)
      BY <1>4, <1>5, <2>1
    <2>4. lv \in [DOMAIN u -> Nat]
      BY <1>5
    <2>. QED  BY <2>2, <2>3, <2>4 DEF Levelled
  <1>9. ASSUME NEW i \in 1 .. from - 1 PROVE Reason(m, c, u, i)
    <2>1. i \in DOMAIN t /\ i < from /\ i \in Nat /\ Reason(m, c, t, i)
      BY <1>1, <1>2 DEF Sound
    <2>2. \A j \in 1 .. i - 1 : j \in DOMAIN t /\ j < from
      BY <1>2, <2>1
    <2>3. u[i].mark = t[i].mark /\ \A j \in 1 .. i - 1 : u[j].mark = t[j].mark
      BY <1>4, <2>1, <2>2
    <2>4. Len(t) <= Len(u) /\ \A j \in DOMAIN u \ DOMAIN t : u[j].up # i
      BY <1>2, <1>5
    <2>5. \A j \in DOMAIN t : u[j].id = t[j].id /\ u[j].up = t[j].up
      BY <1>4
    <2>6. \A j \in 1 .. i - 1 : t[j].mark # "repeated" => u[j].mark # "repeated"
      BY <2>3
    <2>7. t \in Seq(Entries(m)) /\ u \in Seq(Entries(m)) /\ u[i].mark = t[i].mark
      BY <1>1, <1>5, <2>3
    <2>. QED  BY <2>1, <2>4, <2>5, <2>6, <2>7, ReasonKept
  <1>. QED  BY <1>2, <1>4, <1>5, <1>6, <1>7, <1>8, <1>9 DEF Sound

(* A level that begins is sound, and so is a walk that ends instead. *)
LEMMA BeginKeeps ==
  ASSUME IsClosed(Asks), call \in Calls, NEW t, NEW from, NEW d,
         Grew(Asks, call, t, from, d, truncated', expanded),
         BeginLevel(t, from, d), UNCHANGED <<models, call, asked>>
  PROVE  /\ stage' \in {"level", "done"}
         /\ stage' = "level" => InLevel'
         /\ stage' = "done" => AtEnd'
  <1>. DEFINE m == Asks
              fresh == Fresh(t, from, expanded)
              ends == from > Len(t) \/ (call.maxDepth # 0 /\ d >= call.maxDepth)
              begun == expanded \cup {t[i].id : i \in fresh}
  <1>1. Asks' = m /\ call' = call /\ level' = from /\ depth' = d
    BY DEF Asks, BeginLevel
  <1>2. /\ t \in Seq(Entries(m)) /\ Len(t) \in Nat /\ DOMAIN t = 1 .. Len(t)
        /\ from \in 1 .. Len(t) + 1 /\ from \in Nat
        /\ \A i \in DOMAIN t : t[i].id \in Ids(m)
    <2>1. t \in Seq(Entries(m)) /\ from \in 1 .. Len(t) + 1 /\ IsTree(m, call, t, from)
      BY DEF Grew, Sound, IsTree
    <2>2. \A i \in DOMAIN t : t[i] \in Entries(m)
      BY <2>1
    <2>. QED  BY <2>1, <2>2 DEF Entries
  <1>3. call.maxNodes \in Nat /\ call.maxDepth \in Nat /\ d \in Nat
    BY WalkAssumption DEF Grew, Sound
  <1>4. /\ Sound(m, call, t, from, d, truncated') /\ \A i \in from .. Len(t) : t[i].mark = "none"
        /\ IsTree(m, call, t, from)
        /\ AreExpanded(t, from - 1, expanded) /\ d <= Cardinality(expanded) + 1
    BY DEF Grew, Sound
  <1>5. expanded \in SUBSET Ids(m) /\ begun \in SUBSET Ids(m) /\ fresh \in SUBSET (from .. Len(t))
    <2>1. \A i \in 1 .. from - 1 : i \in DOMAIN t
      BY <1>2
    <2>2. expanded \in SUBSET Ids(m)
      BY <1>2, <1>4, <2>1 DEF AreExpanded
    <2>3. fresh \in SUBSET (from .. Len(t)) /\ \A i \in fresh : i \in DOMAIN t
      BY <1>2 DEF Fresh
    <2>. QED  BY <1>2, <2>2, <2>3
  <1>6. /\ IsFiniteSet(Ids(m)) /\ Cardinality(Ids(m)) \in Nat
        /\ Cardinality(expanded) \in Nat /\ Cardinality(expanded) <= Cardinality(Ids(m))
        /\ IsFiniteSet(begun) /\ Cardinality(begun) \in Nat
        /\ Cardinality(begun) <= Cardinality(Ids(m)) /\ IsFiniteSet(expanded)
    <2>1. IsFiniteSet(Ids(m))
      BY DEF IsClosed
    <2>. HIDE DEF begun
    <2>. QED  BY <1>5, <2>1, FS_Subset, FS_CardinalityType
  <1>7. CASE ends
    <2>1. stage' = "done" /\ tree' = t
      BY <1>7 DEF BeginLevel
    <2>2. from > Len(t) => from .. Len(t) = {}
      BY <1>2
    <2>3. AtEnd'
      BY <1>1, <1>3, <1>4, <1>6, <1>7, <2>1, <2>2 DEF AtEnd
    <2>. QED  BY <2>1, <2>3
  <1>8. CASE ~ends
    <2>. DEFINE u == [i \in DOMAIN t |-> IF i < from \/ i \in fresh THEN t[i]
                                         ELSE Entry(t[i].id, t[i].up, "repeated")]
    <2>1. /\ tree' = u /\ expanded' = begun /\ toExpand' = fresh /\ answers' = <<>>
          /\ stage' = IF fresh = {} THEN "done" ELSE "level"
      BY <1>8 DEF BeginLevel
    <2>2. /\ Sound(m, call, u, from, d, truncated')
          /\ Len(u) = Len(t) /\ \A i \in DOMAIN t : u[i].id = t[i].id
          /\ \A i \in 1 .. Len(t) :
               u[i].mark = IF i < from \/ i \in fresh THEN t[i].mark ELSE "repeated"
      <3>1. u = [i \in DOMAIN t |-> IF i < from \/ i \in fresh THEN t[i]
                                    ELSE Entry(t[i].id, t[i].up, "repeated")]
        OBVIOUS
      <3>2. fresh \in SUBSET (from .. Len(t)) /\ IsClosed(m)
        BY <1>5
      <3>. HIDE DEF u, fresh, m
      <3>. QED  BY <1>3, <1>4, <3>1, <3>2, MarkedIsSound
    <2>. HIDE DEF u
    <2>3. ASSUME NEW i \in from .. Len(t), i \notin fresh
          PROVE  \E j \in 1 .. i - 1 :
                   /\ t[j].id = t[i].id
                   /\ (j < from /\ t[j].mark # "repeated") \/ j \in fresh
      BY <1>4, <2>3, OthersRepeat
    <2>. HIDE DEF fresh
    <2>4. ASSUME NEW i \in from .. Len(t), i \notin fresh
          PROVE  u[i].mark = "repeated" /\ Earlier(u, i)
      <3>1. PICK j \in 1 .. i - 1 : /\ t[j].id = t[i].id
                                    /\ (j < from /\ t[j].mark # "repeated") \/ j \in fresh
        BY <2>3, <2>4
      <3>2. i \in DOMAIN t /\ j \in DOMAIN t /\ ~(i < from)
        BY <1>2
      <3>3. j \in fresh => t[j].mark = "none"
        BY <1>4, <1>5
      <3>4. u[j].id = u[i].id /\ u[j].mark # "repeated"
        BY <1>2, <2>2, <3>1, <3>2, <3>3
      <3>5. u[i].mark = "repeated"
        BY <1>2, <2>2, <2>4, <3>2
      <3>. QED  BY <3>4, <3>5 DEF Earlier
    <2>5. \A i \in fresh : i \in 1 .. Len(t) /\ u[i].mark = "none"
      <3>1. ASSUME NEW i \in fresh PROVE i \in 1 .. Len(t) /\ i \in from .. Len(t)
        BY <1>2, <1>5
      <3>. QED  BY <1>4, <2>2, <3>1
    <2>6. AreExpanded(u, Len(u), begun)
      <3>1. ASSUME NEW i \in 1 .. Len(t)
            PROVE  /\ u[i].id \in begun
                   /\ \E j \in 1 .. Len(u) : u[j].id = u[i].id /\ u[j].mark # "repeated"
        <4>1. CASE i < from
          <5>1. i \in 1 .. from - 1
            BY <1>2, <4>1
          <5>2. u[i].id = t[i].id /\ t[i].id \in expanded
            BY <1>2, <1>4, <2>2, <5>1 DEF AreExpanded
          <5>3. PICK j \in 1 .. from - 1 : t[j].id = t[i].id /\ t[j].mark # "repeated"
            BY <1>4, <5>2 DEF AreExpanded
          <5>4. j \in 1 .. Len(t) /\ j < from
            BY <1>2
          <5>. QED  BY <1>2, <2>2, <5>2, <5>3, <5>4
        <4>2. CASE i \in fresh
          <5>1. u[i].id = t[i].id /\ u[i].mark # "repeated"
            BY <1>2, <2>2, <2>5, <4>2
          <5>. QED  BY <2>2, <4>2, <5>1
        <4>3. CASE ~(i < from) /\ i \notin fresh
          <5>1. i \in from .. Len(t)
            BY <1>2, <4>3
          <5>2. PICK j \in 1 .. i - 1 : /\ t[j].id = t[i].id
                                        /\ (j < from /\ t[j].mark # "repeated") \/ j \in fresh
            BY <2>3, <4>3, <5>1
          <5>3. j \in 1 .. Len(t)
            BY <1>2, <5>1
          <5>4. u[j].id = u[i].id /\ u[j].mark # "repeated" /\ u[i].id = t[j].id
            <6>1. j \in fresh => u[j].mark = "none"
              BY <2>5
            <6>. QED  BY <1>2, <2>2, <5>2, <5>3, <6>1
          <5>5. j < from => t[j].id \in expanded
            <6>1. j < from => j \in 1 .. from - 1
              BY <1>2, <5>3
            <6>. QED  BY <1>4, <6>1 DEF AreExpanded
          <5>6. u[i].id \in begun
            BY <5>2, <5>4, <5>5
          <5>. QED  BY <2>2, <5>3, <5>4, <5>6
        <4>. QED  BY <4>1, <4>2, <4>3
      <3>2. \A id \in begun : \E i \in 1 .. Len(t) : u[i].id = id
        <4>1. ASSUME NEW i \in fresh PROVE i \in 1 .. Len(t) /\ u[i].id = t[i].id
          BY <1>2, <2>2, <2>5
        <4>2. ASSUME NEW i \in 1 .. from - 1 PROVE i \in 1 .. Len(t) /\ u[i].id = t[i].id
          BY <1>2, <2>2
        <4>3. \A id \in expanded : \E i \in 1 .. from - 1 : t[i].id = id
          BY <1>4 DEF AreExpanded
        <4>. QED  BY <4>1, <4>2, <4>3
      <3>3. begun = {u[i].id : i \in 1 .. Len(u)}
        <4>. HIDE DEF begun
        <4>. QED  BY <2>2, <3>1, <3>2
      <3>4. \A id \in begun : \E j \in 1 .. Len(u) : u[j].id = id /\ u[j].mark # "repeated"
        <4>. HIDE DEF begun
        <4>. QED  BY <3>1, <3>2
      <3>. QED  BY <3>3, <3>4 DEF AreExpanded
    <2>7. CASE fresh = {}
      <3>1. \A i \in level' .. Len(tree') : tree'[i].mark = "repeated" /\ Earlier(tree', i)
        BY <1>1, <2>1, <2>2, <2>4, <2>7
      <3>2. AtEnd'
        BY <1>1, <1>3, <1>4, <1>6, <2>1, <2>2, <3>1 DEF AtEnd
      <3>. QED  BY <2>1, <2>7, <3>2
    <2>8. CASE fresh # {}
      <3>1. PICK f \in fresh : TRUE
        BY <2>8
      <3>2. t[f].id \in begun /\ t[f].id \notin expanded
        BY DEF Fresh, fresh
      <3>3. Cardinality(begun) > Cardinality(expanded)
        <4>1. expanded \in SUBSET begun
          OBVIOUS
        <4>. HIDE DEF begun
        <4>. QED  BY <1>6, <3>2, <4>1, FS_Subset
      <3>4. d <= Cardinality(begun)
        <4>. HIDE DEF begun
        <4>. QED  BY <1>3, <1>4, <1>6, <3>3
      <3>5. \A i \in from .. Len(u) :
              IF i \in fresh THEN u[i].mark = "none"
              ELSE u[i].mark = "repeated" /\ Earlier(u, i)
        BY <2>2, <2>4, <2>5
      <3>6. DOMAIN <<>> = {}
        OBVIOUS
      <3>7. call.maxDepth = 0 \/ d < call.maxDepth
        BY <1>3, <1>8
      <3>8. /\ Sound(Asks, call, tree, level, depth, truncated)'
            /\ (call.maxDepth = 0 \/ depth < call.maxDepth)'
            /\ AreExpanded(tree', Len(tree'), expanded') /\ depth' <= Cardinality(expanded')
            /\ toExpand' \in SUBSET (level' .. Len(tree'))
            /\ \A i \in level' .. Len(tree') :
                 IF i \in toExpand' THEN tree'[i].mark = "none"
                 ELSE tree'[i].mark = "repeated" /\ Earlier(tree', i)
        <4>. HIDE DEF begun
        <4>. QED  BY <1>1, <1>5, <2>1, <2>2, <2>6, <3>4, <3>5, <3>7
      <3>9. DOMAIN answers' = {}
        BY <2>1, <3>6
      <3>10. InLevel'
        BY <3>8, <3>9 DEF InLevel
      <3>. QED  BY <2>1, <2>8, <3>10
    <2>. QED  BY <2>7, <2>8
  <1>. QED  BY <1>7, <1>8

-----------------------------------------------------------------------------
(* The answers of a level are merged. *)

\* The tree when the children of the entries up to k were added.
GrownTo(m, c, k, t) ==
  /\ t \in Seq(Entries(m)) /\ Len(tree) <= Len(t) /\ Len(t) <= c.maxNodes
  /\ \A i \in DOMAIN tree :
       /\ t[i].id = tree[i].id /\ t[i].up = tree[i].up
       /\ i > k \/ i \notin toExpand => t[i].mark = tree[i].mark
       /\ t[i].mark = "repeated" => tree[i].mark = "repeated"
  /\ \A j \in DOMAIN t \ DOMAIN tree :
       /\ t[j].up \in level .. k /\ t[j].mark = "none"
       /\ t[j].id \in ToSet(Children(m, tree[t[j].up].id))
  /\ \A i \in level .. k : Reason(m, c, t, i)

\* What is known of a level when an answer is merged.
LEMMA LevelFacts ==
  ASSUME IsClosed(Asks), call \in Calls, InLevel
  PROVE  /\ tree \in Seq(Entries(Asks)) /\ Len(tree) \in Nat /\ DOMAIN tree = 1 .. Len(tree)
         /\ call.maxNodes \in Nat /\ Len(tree) <= call.maxNodes
         /\ level \in Nat /\ level >= 1 /\ level <= Len(tree) + 1 /\ depth \in Nat
         /\ toExpand \subseteq level .. Len(tree)
         /\ \A i \in DOMAIN tree :
              /\ tree[i].id \in Ids(Asks) /\ tree[i].up \in Nat
              /\ tree[i].up < i /\ tree[i].up < level
              /\ Children(Asks, tree[i].id) \in Seq(Ids(Asks))
  <1>1. /\ IsTree(Asks, call, tree, level) /\ toExpand \subseteq level .. Len(tree)
        /\ depth \in Nat
    BY DEF InLevel, Sound
  <1>2. call.maxNodes \in Nat
    BY WalkAssumption
  <1>3. /\ tree \in Seq(Entries(Asks)) /\ Len(tree) \in Nat /\ DOMAIN tree = 1 .. Len(tree)
        /\ Len(tree) <= call.maxNodes /\ level \in Nat /\ level >= 1 /\ level <= Len(tree) + 1
        /\ \A i \in DOMAIN tree : tree[i].up < i /\ tree[i].up < level
    BY <1>1 DEF IsTree
  <1>4. \A i \in DOMAIN tree : tree[i] \in Entries(Asks)
    BY <1>3
  <1>5. \A i \in DOMAIN tree : tree[i].id \in Ids(Asks) /\ tree[i].up \in Nat
    BY <1>4 DEF Entries
  <1>6. \A i \in DOMAIN tree : Children(Asks, tree[i].id) \in Seq(Ids(Asks))
    BY <1>5 DEF IsClosed
  <1>. QED  BY <1>1, <1>2, <1>3, <1>5, <1>6

\* A tree that has grown to k has nothing below the entries after k.
LEMMA NothingBelow ==
  ASSUME IsClosed(Asks), call \in Calls, InLevel,
         NEW k \in Nat, k < Len(tree), NEW t, GrownTo(Asks, call, k, t), k + 1 >= level
  PROVE  \A j \in DOMAIN t : t[j].up # k + 1
  <1>1. ASSUME NEW j \in DOMAIN t, j \in DOMAIN tree PROVE t[j].up # k + 1
    <2>1. t[j].up = tree[j].up /\ tree[j].up < level /\ tree[j].up \in Nat /\ level \in Nat
      BY <1>1, LevelFacts DEF GrownTo
    <2>. QED  BY <2>1
  <1>2. ASSUME NEW j \in DOMAIN t \ DOMAIN tree PROVE t[j].up # k + 1
    <2>1. t[j].up \in level .. k /\ level \in Nat
      BY LevelFacts DEF GrownTo
    <2>. QED  BY <2>1
  <1>. QED  BY <1>1, <1>2

(* An answer adds the children of its entry, or says why not. *)
LEMMA AnswerGrows ==
  ASSUME IsClosed(Asks), call \in Calls, InLevel,
         NEW k \in Nat, k < Len(tree), NEW t, GrownTo(Asks, call, k, t),
         k + 1 \in toExpand,
         NEW answer \in {None, Children(Asks, tree[k + 1].id)}
  PROVE  GrownTo(Asks, call, k + 1, Grown(t, k + 1, answer))
  <1>. DEFINE m == Asks
              i == k + 1
              kids == Children(m, tree[i].id)
              u == Grown(t, i, answer)
  <1>1. /\ tree \in Seq(Entries(m)) /\ Len(tree) \in Nat /\ DOMAIN tree = 1 .. Len(tree)
        /\ call.maxNodes \in Nat /\ level \in Nat /\ level >= 1
        /\ i \in Nat /\ i >= level /\ i <= Len(tree) /\ i \in DOMAIN tree /\ i # 0
        /\ kids \in Seq(Ids(m))
    BY LevelFacts
  <1>2. /\ t \in Seq(Entries(m)) /\ Len(tree) <= Len(t) /\ Len(t) <= call.maxNodes
        /\ \A j \in DOMAIN tree :
             /\ t[j].id = tree[j].id /\ t[j].up = tree[j].up
             /\ j > k \/ j \notin toExpand => t[j].mark = tree[j].mark
             /\ t[j].mark = "repeated" => tree[j].mark = "repeated"
        /\ \A j \in DOMAIN t \ DOMAIN tree :
             /\ t[j].up \in level .. k /\ t[j].mark = "none"
             /\ t[j].id \in ToSet(Children(m, tree[t[j].up].id))
        /\ \A j \in level .. k : Reason(m, call, t, j)
    BY DEF GrownTo
  <1>3. /\ Len(t) \in Nat /\ DOMAIN t = 1 .. Len(t) /\ DOMAIN tree \subseteq DOMAIN t
        /\ Len(kids) \in Nat /\ DOMAIN kids = 1 .. Len(kids)
    BY <1>1, <1>2
  <1>4. \A j \in DOMAIN t : t[j].up # i
    BY <1>1, NothingBelow
  <1>5. \A j \in level .. k : j \in DOMAIN t /\ j \in DOMAIN tree /\ j < i /\ j # i
    BY <1>1, <1>3
  <1>6. Shows(t, i, <<>>)
    BY <1>3, <1>4, ShowsNothing
  <1>7. ASSUME NEW mark \in {"error", "truncated"}, u = [t EXCEPT ![i].mark = mark],
               mark = "truncated" => Len(t) + Len(kids) > call.maxNodes
        PROVE  GrownTo(m, call, i, u)
    <2>1. /\ u \in Seq(Entries(m)) /\ Len(u) = Len(t) /\ DOMAIN u = DOMAIN t
          /\ \A j \in DOMAIN t : /\ u[j].id = t[j].id /\ u[j].up = t[j].up
                                 /\ u[j].mark = IF j = i THEN mark ELSE t[j].mark
      <3>1. \A j \in DOMAIN t : t[j] \in Entries(m)
        BY <1>2
      <3>2. t[i] \in Entries(m) /\ [t[i] EXCEPT !.mark = mark] \in Entries(m)
        BY <1>1, <1>3, <3>1 DEF Entries
      <3>3. u = [t EXCEPT ![i] = [t[i] EXCEPT !.mark = mark]]
        BY <1>7
      <3>. DEFINE E == Entries(m)
                  marked == [t[i] EXCEPT !.mark = mark]
      <3>4. u = [j \in 1 .. Len(t) |-> IF j = i THEN marked ELSE t[j]]
        BY <1>3, <3>3
      <3>7. u \in Seq(E) /\ Len(u) = Len(t) /\ DOMAIN u = DOMAIN t
        <4>1. marked \in E /\ \A j \in 1 .. Len(t) : t[j] \in E
          BY <1>3, <3>1, <3>2
        <4>. HIDE DEF u, i, E, marked
        <4>. QED  BY <1>3, <3>4, <4>1
      <3>. HIDE DEF u, i
      <3>5. \A j \in DOMAIN t : u[j] = IF j = i THEN [t[i] EXCEPT !.mark = mark] ELSE t[j]
        BY <3>3
      <3>6. [t[i] EXCEPT !.mark = mark].id = t[i].id /\ [t[i] EXCEPT !.mark = mark].up = t[i].up
            /\ [t[i] EXCEPT !.mark = mark].mark = mark
        BY <3>2 DEF Entries
      <3>. QED  BY <3>7, <3>5, <3>6
    <2>. HIDE DEF u
    <2>2. ASSUME NEW j \in level .. k PROVE Reason(m, call, u, j)
      <3>1. j \in DOMAIN t /\ u[j].mark = t[j].mark /\ Reason(m, call, t, j)
        BY <1>2, <1>5, <2>1
      <3>2. \A h \in 1 .. j - 1 : t[h].mark # "repeated" => u[h].mark # "repeated"
        <4>1. \A h \in 1 .. j - 1 : h \in DOMAIN t
          BY <1>3, <3>1
        <4>. QED  BY <2>1, <4>1
      <3>3. Len(t) <= Len(u) /\ \A h \in DOMAIN u \ DOMAIN t : u[h].up # j
        BY <1>3, <2>1
      <3>4. \A h \in DOMAIN t : u[h].id = t[h].id /\ u[h].up = t[h].up
        BY <2>1
      <3>5. IsClosed(m) /\ call.maxNodes \in Nat /\ t \in Seq(Entries(m)) /\ u \in Seq(Entries(m))
        BY <1>1, <1>2, <2>1
      <3>. HIDE DEF m
      <3>. QED  BY <3>1, <3>2, <3>3, <3>4, <3>5, ReasonKept
    <2>3. Reason(m, call, u, i)
      <3>1. u[i].mark = mark /\ u[i].id = tree[i].id
        BY <1>1, <1>2, <1>3, <2>1
      <3>2. \A j \in DOMAIN u : u[j].up # i
        BY <1>4, <2>1
      <3>3. Shows(u, i, <<>>)
        BY <1>3, <2>1, <3>2, ShowsNothing
      <3>4. mark = "truncated" => Len(u) + Len(Children(m, u[i].id)) > call.maxNodes
        BY <1>7, <2>1, <3>1
      <3>. QED  BY <1>7, <3>1, <3>3, <3>4 DEF Reason
    <2>4. \A j \in level .. i : j = i \/ j \in level .. k
      BY <1>1
    <2>5. \A j \in DOMAIN tree :
             /\ u[j].id = tree[j].id /\ u[j].up = tree[j].up
             /\ j > i \/ j \notin toExpand => u[j].mark = tree[j].mark
             /\ u[j].mark = "repeated" => tree[j].mark = "repeated"
      <3>1. ASSUME NEW j \in DOMAIN tree, j > i \/ j \notin toExpand
            PROVE  u[j].mark = tree[j].mark
        <4>1. j # i /\ (j > k \/ j \notin toExpand)
          BY <1>1, <3>1
        <4>. QED  BY <1>2, <1>3, <2>1, <4>1
      <3>. QED  BY <1>2, <1>3, <2>1, <3>1
    <2>6. \A j \in DOMAIN u \ DOMAIN tree :
             /\ u[j].up \in level .. i /\ u[j].mark = "none"
             /\ u[j].id \in ToSet(Children(m, tree[u[j].up].id))
      <3>1. ASSUME NEW j \in DOMAIN u \ DOMAIN tree PROVE j # i /\ j \in DOMAIN t \ DOMAIN tree
        BY <1>1, <2>1
      <3>2. level .. k \subseteq level .. i
        BY <1>1
      <3>. QED  BY <1>2, <2>1, <3>1, <3>2
    <2>. QED  BY <1>2, <2>1, <2>2, <2>3, <2>4, <2>5, <2>6 DEF GrownTo
  <1>8. ASSUME NEW added, added = [h \in DOMAIN kids |-> Entry(kids[h], i, "none")], u = t \o added,
               Len(t) + Len(kids) <= call.maxNodes
        PROVE  GrownTo(m, call, i, u)
    <2>1. /\ added \in Seq(Entries(m)) /\ Len(added) = Len(kids)
          /\ \A h \in 1 .. Len(kids) :
               added[h].id = kids[h] /\ added[h].up = i /\ added[h].mark = "none"
      <3>1. \A h \in DOMAIN kids : /\ Entry(kids[h], i, "none") \in Entries(m)
                                   /\ Entry(kids[h], i, "none").id = kids[h]
                                   /\ Entry(kids[h], i, "none").up = i
                                   /\ Entry(kids[h], i, "none").mark = "none"
        BY <1>1, <1>3 DEF Entry, Entries
      <3>. DEFINE e(h) == Entry(kids[h], i, "none")
                  n == Len(kids)
                  E == Entries(m)
      <3>2. n \in Nat /\ DOMAIN kids = 1 .. n /\ added = [h \in 1 .. n |-> e(h)]
        BY <1>3, <1>8
      <3>3. \A h \in 1 .. n : /\ e(h) \in E /\ e(h).id = kids[h]
                              /\ e(h).up = i /\ e(h).mark = "none"
        BY <3>1, <3>2
      <3>. HIDE DEF kids, i, m, u, e, n, E
      <3>4. added \in Seq(E) /\ Len(added) = n
        BY <3>2, <3>3
      <3>5. \A h \in 1 .. n : /\ added[h].id = kids[h]
                              /\ added[h].up = i /\ added[h].mark = "none"
        BY <3>2, <3>3
      <3>. QED  BY <3>4, <3>5 DEF n, E
    <2>2. /\ u \in Seq(Entries(m)) /\ Len(u) = Len(t) + Len(kids)
          /\ \A j \in 1 .. Len(t) : u[j] = t[j]
          /\ \A h \in 1 .. Len(kids) : u[Len(t) + h] = added[h]
      <3>1. t \in Seq(Entries(m)) /\ added \in Seq(Entries(m)) /\ u = t \o added
        BY <1>2, <1>8, <2>1
      <3>. DEFINE E == Entries(m)
      <3>. HIDE DEF u, m, kids, E
      <3>2. t \o added \in Seq(E) /\ Len(t \o added) = Len(t) + Len(added)
        BY <3>1, Joined DEF E
      <3>3. \A j \in 1 .. Len(t) : (t \o added)[j] = t[j]
        BY <3>1, Joined
      <3>4. \A h \in 1 .. Len(added) : (t \o added)[Len(t) + h] = added[h]
        BY <3>1, Joined
      <3>. QED  BY <2>1, <3>1, <3>2, <3>3, <3>4 DEF E
    <2>. HIDE DEF u
    <2>3. DOMAIN u = 1 .. Len(t) + Len(kids) /\ DOMAIN t \subseteq DOMAIN u
      BY <1>3, <2>2
    <2>4. ASSUME NEW j \in DOMAIN u \ DOMAIN t
          PROVE  \E h \in 1 .. Len(kids) : j = Len(t) + h /\ u[j] = added[h]
      <3>1. j - Len(t) \in 1 .. Len(kids) /\ j = Len(t) + (j - Len(t))
        BY <1>3, <2>3
      <3>. QED  BY <2>2, <3>1
    <2>5. ASSUME NEW j \in DOMAIN u \ DOMAIN t
          PROVE  u[j].up = i /\ u[j].mark = "none" /\ u[j].id \in ToSet(kids)
      <3>1. PICK h \in 1 .. Len(kids) : j = Len(t) + h /\ u[j] = added[h]
        BY <2>4
      <3>2. h \in DOMAIN kids /\ added[h].id = kids[h] /\ added[h].up = i /\ added[h].mark = "none"
        BY <1>3, <2>1
      <3>. HIDE DEF i, kids
      <3>. QED  BY <3>1, <3>2 DEF ToSet
    <2>6. ASSUME NEW j \in level .. k PROVE Reason(m, call, u, j)
      <3>1. j \in DOMAIN t /\ u[j].mark = t[j].mark /\ Reason(m, call, t, j)
        BY <1>2, <1>3, <1>5, <2>2
      <3>2. \A h \in 1 .. j - 1 : t[h].mark # "repeated" => u[h].mark # "repeated"
        <4>1. \A h \in 1 .. j - 1 : h \in 1 .. Len(t)
          BY <1>3, <3>1
        <4>. QED  BY <2>2, <4>1
      <3>3. Len(t) <= Len(u) /\ \A h \in DOMAIN u \ DOMAIN t : u[h].up # j
        BY <1>3, <1>5, <2>2, <2>5
      <3>4. \A h \in DOMAIN t : u[h].id = t[h].id /\ u[h].up = t[h].up
        BY <1>3, <2>2
      <3>5. IsClosed(m) /\ call.maxNodes \in Nat /\ t \in Seq(Entries(m)) /\ u \in Seq(Entries(m))
        BY <1>1, <1>2, <2>2
      <3>. HIDE DEF m
      <3>. QED  BY <3>1, <3>2, <3>3, <3>4, <3>5, ReasonKept
    <2>7. Reason(m, call, u, i)
      <3>1. u[i].mark = "none" /\ u[i].id = tree[i].id
        <4>1. tree[i].mark = "none" /\ i > k
          BY <1>1 DEF InLevel
        <4>. QED  BY <1>1, <1>2, <1>3, <2>2, <4>1
      <3>2. {j \in DOMAIN u : u[j].up = i} = Len(t) + 1 .. Len(t) + Len(kids)
        <4>1. ASSUME NEW j \in DOMAIN u, u[j].up = i PROVE j \in Len(t) + 1 .. Len(t) + Len(kids)
          <5>1. j \notin DOMAIN t
            BY <1>3, <1>4, <2>2, <4>1
          <5>. QED  BY <1>3, <2>3, <5>1
        <4>2. ASSUME NEW j \in Len(t) + 1 .. Len(t) + Len(kids) PROVE j \in DOMAIN u /\ u[j].up = i
          <5>1. j \in DOMAIN u \ DOMAIN t
            BY <1>3, <2>3
          <5>. QED  BY <2>5, <5>1
        <4>. QED  BY <4>1, <4>2
      <3>3. \A h \in DOMAIN kids : u[Len(t) + h].id = kids[h]
        BY <1>3, <2>1, <2>2
      <3>4. Len(t) \in 0 .. Len(u)
        BY <1>3, <2>2
      <3>5. Shows(u, i, kids)
        BY <3>2, <3>3, <3>4 DEF Shows
      <3>. QED  BY <3>1, <3>5 DEF Reason
    <2>8. \A j \in level .. i : j = i \/ j \in level .. k
      BY <1>1
    <2>9. \A j \in DOMAIN tree :
             /\ u[j].id = tree[j].id /\ u[j].up = tree[j].up
             /\ j > i \/ j \notin toExpand => u[j].mark = tree[j].mark
             /\ u[j].mark = "repeated" => tree[j].mark = "repeated"
      <3>1. ASSUME NEW j \in DOMAIN tree PROVE u[j] = t[j] /\ (j > i => j > k)
        BY <1>1, <1>3, <2>2
      <3>. QED  BY <1>2, <3>1
    <2>10. ASSUME NEW j \in DOMAIN u \ DOMAIN tree
           PROVE  /\ u[j].up \in level .. i /\ u[j].mark = "none"
                  /\ u[j].id \in ToSet(Children(m, tree[u[j].up].id))
      <3>1. CASE j \in DOMAIN t
        <4>1. u[j] = t[j] /\ level .. k \subseteq level .. i
          BY <1>1, <1>3, <2>2, <3>1
        <4>. QED  BY <1>2, <3>1, <4>1
      <3>2. CASE j \notin DOMAIN t
        <4>1. i \in level .. i
          BY <1>1
        <4>. QED  BY <2>5, <3>2, <4>1
      <3>. QED  BY <3>1, <3>2
    <2>11. Len(tree) <= Len(u) /\ Len(u) <= call.maxNodes
      BY <1>1, <1>2, <1>3, <1>8, <2>2
    <2>. QED  BY <2>2, <2>6, <2>7, <2>8, <2>9, <2>10, <2>11 DEF GrownTo
  <1>9. CASE answer = None
    <2>1. u = [t EXCEPT ![i].mark = "error"]
      BY <1>9 DEF Grown
    <2>. QED  BY <1>7, <2>1
  <1>10. CASE answer # None /\ Len(t) + Len(answer) > call.maxNodes /\ answer # <<>>
    <2>1. u = [t EXCEPT ![i].mark = "truncated"] /\ answer = kids
      BY <1>10 DEF Grown
    <2>. QED  BY <1>7, <1>10, <2>1
  <1>11. CASE answer # None /\ ~(Len(t) + Len(answer) > call.maxNodes /\ answer # <<>>)
    <2>1. u = t \o [h \in DOMAIN kids |-> Entry(kids[h], i, "none")] /\ answer = kids
      BY <1>11 DEF Grown
    <2>2. Len(t) + Len(kids) <= call.maxNodes
      <3>1. kids = <<>> => Len(kids) = 0
        OBVIOUS
      <3>. HIDE DEF kids, u
      <3>. QED  BY <1>1, <1>2, <1>3, <1>11, <2>1, <3>1
    <2>. QED  BY <1>8, <2>1, <2>2
  <1>. QED  BY <1>9, <1>10, <1>11

(* An entry that was not asked for was shown before. *)
LEMMA RepeatedGrows ==
  ASSUME IsClosed(Asks), call \in Calls, InLevel,
         NEW k \in Nat, k < Len(tree), NEW t, GrownTo(Asks, call, k, t),
         k + 1 \notin toExpand
  PROVE  GrownTo(Asks, call, k + 1, t)
  <1>. DEFINE m == Asks
              i == k + 1
  <1>1. /\ Len(tree) \in Nat /\ DOMAIN tree = 1 .. Len(tree)
        /\ level \in Nat /\ level >= 1 /\ i \in DOMAIN tree
    BY LevelFacts
  <1>2. /\ t \in Seq(Entries(m)) /\ Len(tree) <= Len(t) /\ Len(t) <= call.maxNodes
        /\ \A j \in DOMAIN tree :
             /\ t[j].id = tree[j].id /\ t[j].up = tree[j].up
             /\ j > k \/ j \notin toExpand => t[j].mark = tree[j].mark
             /\ t[j].mark = "repeated" => tree[j].mark = "repeated"
        /\ \A j \in DOMAIN t \ DOMAIN tree :
             /\ t[j].up \in level .. k /\ t[j].mark = "none"
             /\ t[j].id \in ToSet(Children(m, tree[t[j].up].id))
        /\ \A j \in level .. k : Reason(m, call, t, j)
    BY DEF GrownTo
  <1>3. ASSUME i >= level PROVE Reason(m, call, t, i)
    <2>1. i \in level .. Len(tree)
      BY <1>1, <1>3
    <2>2. tree[i].mark = "repeated" /\ Earlier(tree, i)
      BY <2>1 DEF InLevel
    <2>3. t[i].mark = "repeated"
      BY <1>1, <1>2, <2>2
    <2>4. Earlier(t, i)
      <3>1. PICK j \in 1 .. i - 1 : tree[j].id = tree[i].id /\ tree[j].mark # "repeated"
        BY <2>2 DEF Earlier
      <3>2. j \in DOMAIN tree
        BY <1>1
      <3>. QED  BY <1>1, <1>2, <3>1, <3>2 DEF Earlier
    <2>5. \A j \in DOMAIN t : t[j].up # i
      BY <1>3, NothingBelow
    <2>6. Shows(t, i, <<>>)
      <3>1. Len(t) \in Nat
        BY <1>2
      <3>. QED  BY <2>5, <3>1, ShowsNothing
    <2>. QED  BY <2>3, <2>4, <2>6 DEF Reason
  <1>4. level .. k \subseteq level .. i /\ \A j \in level .. i : j \in level .. k \/ (j = i /\ i >= level)
    BY <1>1
  <1>5. \A j \in DOMAIN tree : j > i => j > k
    BY <1>1
  <1>. QED  BY <1>2, <1>3, <1>4, <1>5 DEF GrownTo

(* The answers that are merged add all that is below the level. *)
LEMMA MergeGrows ==
  ASSUME IsClosed(Asks), call \in Calls, InLevel,
         NEW all, \A i \in toExpand : all[i] \in {None, Children(Asks, tree[i].id)},
         Merged(all)
  PROVE  \E grown :
           /\ GrownTo(Asks, call, Len(tree), grown)
           /\ truncated' = (truncated \/ \E i \in DOMAIN grown : grown[i].mark = "truncated")
           /\ BeginLevel(grown, Len(tree) + 1, depth + 1)
  <1>. DEFINE n == Len(tree)
              T == Seq(Entries(Asks))
              Step(k, t) == IF k \in toExpand THEN Grown(t, k, all[k]) ELSE t
              G == [x \in (1 .. n) \X T |-> IF Step(x[1], x[2]) \in T THEN Step(x[1], x[2]) ELSE x[2]]
              Body(f) == [i \in 0 .. n |-> IF i = 0 THEN tree
                            ELSE IF i \in toExpand THEN Grown(f[i - 1], i, all[i]) ELSE f[i - 1]]
              Solves(f) == f = Body(f)
              upTo == CHOOSE f : Solves(f)
  <1>1. /\ truncated' = (truncated \/ \E i \in DOMAIN upTo[n] : upTo[n][i].mark = "truncated")
        /\ BeginLevel(upTo[n], n + 1, depth + 1)
    BY DEF Merged
  <1>2. n \in Nat /\ tree \in T
    BY LevelFacts
  <1>3. GrownTo(Asks, call, 0, tree)
    <2>1. \A i \in level .. 0 : FALSE
      BY LevelFacts
    <2>. QED  BY <1>2, <2>1, LevelFacts DEF GrownTo
  <1>4. ASSUME NEW k \in Nat, k < n, NEW t, GrownTo(Asks, call, k, t)
        PROVE  Step(k + 1, t) \in T /\ GrownTo(Asks, call, k + 1, Step(k + 1, t))
    <2>1. GrownTo(Asks, call, k + 1, Step(k + 1, t))
      BY <1>4, AnswerGrows, RepeatedGrows
    <2>. QED  BY <2>1 DEF GrownTo
  <1>5. ASSUME NEW f, f[0] = tree,
               \A k \in Nat : k < n /\ GrownTo(Asks, call, k, f[k]) => f[k + 1] = Step(k + 1, f[k])
        PROVE  \A k \in 0 .. n : GrownTo(Asks, call, k, f[k])
    <2>. DEFINE good == {k \in Nat : k <= n => GrownTo(Asks, call, k, f[k])}
    <2>1. 0 \in good
      BY <1>3, <1>5
    <2>2. ASSUME NEW k \in Nat, k < n, k \in good PROVE k + 1 \in good
      <3>1. GrownTo(Asks, call, k, f[k])
        BY <2>2
      <3>2. f[k + 1] = Step(k + 1, f[k]) /\ GrownTo(Asks, call, k + 1, Step(k + 1, f[k]))
        BY <1>4, <1>5, <2>2, <3>1
      <3>. QED  BY <3>2
    <2>. HIDE DEF good
    <2>3. 0 .. n \subseteq good
      BY <1>2, <2>1, <2>2, InductionUpTo
    <2>4. \A k \in 0 .. n : k \in good /\ k <= n
      BY <1>2, <2>3
    <2>. QED  BY <2>4 DEF good
  <1>6. \E f : Solves(f)
    <2>1. G \in [(1 .. n) \X T -> T]
      <3>. HIDE DEF Step
      <3>. QED  OBVIOUS
    <2>2. \A k \in 1 .. n, t \in T : Step(k, t) \in T => G[<<k, t>>] = Step(k, t)
      <3>. HIDE DEF Step
      <3>. QED  OBVIOUS
    <2>. HIDE DEF G
    <2>3. PICK f : Run(T, tree, G, n, f)
      <3>. HIDE DEF T, n
      <3>. QED  BY <1>2, <2>1, Runs
    <2>4. /\ f \in [0 .. n -> T] /\ f = [k \in 0 .. n |-> f[k]]
          /\ f[0] = tree /\ \A k \in 1 .. n : f[k] = G[<<k, f[k - 1]>>]
      <3>. HIDE DEF T
      <3>. QED  BY <2>3 DEF Run
    <2>5. ASSUME NEW k \in Nat, k < n, GrownTo(Asks, call, k, f[k])
          PROVE  f[k + 1] = Step(k + 1, f[k])
      <3>1. k + 1 \in 1 .. n /\ k \in 0 .. n /\ (k + 1) - 1 = k
        BY <1>2, <2>5
      <3>2. f[k] \in T /\ f[k + 1] = G[<<k + 1, f[k]>>]
        <4>. HIDE DEF T
        <4>. QED  BY <2>4, <3>1
      <3>3. Step(k + 1, f[k]) \in T
        BY <1>4, <2>5
      <3>. HIDE DEF Step, T
      <3>. QED  BY <2>2, <3>1, <3>2, <3>3
    <2>6. \A k \in 0 .. n : GrownTo(Asks, call, k, f[k])
      <3>. HIDE DEF Step
      <3>. QED  BY <1>5, <2>4, <2>5
    <2>7. ASSUME NEW k \in 0 .. n
          PROVE  f[k] = IF k = 0 THEN tree
                        ELSE IF k \in toExpand THEN Grown(f[k - 1], k, all[k]) ELSE f[k - 1]
      <3>1. CASE k = 0
        BY <2>4, <3>1
      <3>2. CASE k # 0
        <4>1. k - 1 \in Nat /\ k - 1 < n /\ k - 1 \in 0 .. n /\ (k - 1) + 1 = k
          BY <1>2, <3>2
        <4>2. f[k] = Step(k, f[k - 1])
          <5>. HIDE DEF Step
          <5>. QED  BY <2>5, <2>6, <4>1
        <4>. QED  BY <3>2, <4>2
      <3>. QED  BY <3>1, <3>2
    <2>. QED  BY <2>4, <2>7
  <1>7. upTo = Body(upTo)
    <2>. HIDE DEF Body
    <2>. QED  BY <1>6
  <1>. HIDE DEF upTo
  <1>8. /\ upTo[0] = tree
        /\ \A k \in Nat : k < n => upTo[k + 1] = Step(k + 1, upTo[k])
    <2>1. \A k \in 0 .. n : upTo[k] = IF k = 0 THEN tree
                        ELSE IF k \in toExpand THEN Grown(upTo[k - 1], k, all[k]) ELSE upTo[k - 1]
      BY <1>7
    <2>2. 0 \in 0 .. n
      BY <1>2
    <2>3. ASSUME NEW k \in Nat, k < n PROVE upTo[k + 1] = Step(k + 1, upTo[k])
      <3>1. k + 1 \in 0 .. n /\ k + 1 # 0 /\ (k + 1) - 1 = k
        BY <1>2, <2>3
      <3>. QED  BY <2>1, <3>1
    <2>. QED  BY <2>1, <2>2, <2>3
  <1>9. GrownTo(Asks, call, n, upTo[n])
    <2>1. n \in 0 .. n
      BY <1>2
    <2>. HIDE DEF Step, n
    <2>. QED  BY <1>5, <1>8, <2>1
  <1>. QED  BY <1>1, <1>9

(* The tree that is merged is complete up to the next level.               *)
LEMMA LevelGrew ==
  ASSUME IsClosed(Asks), call \in Calls, InLevel,
         NEW g, GrownTo(Asks, call, Len(tree), g),
         NEW cut, cut = (truncated \/ \E i \in DOMAIN g : g[i].mark = "truncated")
  PROVE  Grew(Asks, call, g, Len(tree) + 1, depth + 1, cut, expanded)
  <1>. DEFINE m == Asks
              n == Len(tree)
              roots == Roots(m, call)
              starts == ToSet(roots)
  <1>1. /\ tree \in Seq(Entries(m)) /\ n \in Nat /\ DOMAIN tree = 1 .. n
        /\ call.maxNodes \in Nat /\ call.maxDepth \in Nat
        /\ level \in Nat /\ level >= 1 /\ level <= n + 1 /\ depth \in Nat
        /\ \A i \in DOMAIN tree :
             /\ tree[i].id \in Ids(m) /\ tree[i].up \in Nat
             /\ tree[i].up < i /\ tree[i].up < level
    BY LevelFacts, WalkAssumption
  <1>2. /\ g \in Seq(Entries(m)) /\ n <= Len(g) /\ Len(g) <= call.maxNodes
        /\ \A i \in DOMAIN tree :
             /\ g[i].id = tree[i].id /\ g[i].up = tree[i].up
             /\ i > n \/ i \notin toExpand => g[i].mark = tree[i].mark
             /\ g[i].mark = "repeated" => tree[i].mark = "repeated"
        /\ \A j \in DOMAIN g \ DOMAIN tree :
             /\ g[j].up \in level .. n /\ g[j].mark = "none"
             /\ g[j].id \in ToSet(Children(m, tree[g[j].up].id))
        /\ \A i \in level .. n : Reason(m, call, g, i)
    BY DEF GrownTo
  <1>3. /\ Len(g) \in Nat /\ DOMAIN g = 1 .. Len(g) /\ DOMAIN tree \subseteq DOMAIN g
        /\ \A j \in DOMAIN g \ DOMAIN tree : j > n
    BY <1>1, <1>2
  <1>4. /\ Sound(m, call, tree, level, depth, truncated) /\ Topped(m, call, tree, truncated)
        /\ Levelled(m, call, tree, level, depth) /\ starts \subseteq Ids(m)
        /\ \A i \in 1 .. level - 1 : Reason(m, call, tree, i)
        /\ depth \in Nat \ {0}
        /\ call.maxDepth = 0 \/ depth < call.maxDepth
        /\ AreExpanded(tree, n, expanded) /\ depth <= Cardinality(expanded)
    BY DEF InLevel, Sound, Topped
  <1>5. \A i \in DOMAIN tree :
          /\ i \in toExpand => tree[i].mark = "none" /\ i >= level
          /\ i \notin toExpand => g[i].mark = tree[i].mark
    <2>1. \A i \in toExpand : i \in level .. n /\ tree[i].mark = "none"
      BY DEF InLevel
    <2>. QED  BY <1>1, <1>2, <2>1
  <1>6. IsTree(m, call, g, n + 1)
    <2>1. n + 1 \in 1 .. Len(g) + 1
      BY <1>1, <1>2, <1>3
    <2>2. ASSUME NEW i \in DOMAIN g PROVE g[i].up < i /\ g[i].up < n + 1
      <3>1. CASE i \in DOMAIN tree
        BY <1>1, <1>2, <3>1
      <3>2. CASE i \notin DOMAIN tree
        <4>1. g[i].up \in level .. n /\ i > n /\ i \in Nat
          BY <1>2, <1>3, <3>2
        <4>. QED  BY <1>1, <4>1
      <3>. QED  BY <3>1, <3>2
    <2>. QED  BY <1>2, <2>1, <2>2 DEF IsTree
  <1>7. Topped(m, call, g, cut)
    <2>1. PICK k \in 0 .. Len(roots) :
            /\ Shows(tree, 0, SubSeq(roots, 1, k))
            /\ truncated <=> k < Len(roots) \/ \E i \in DOMAIN tree : tree[i].mark = "truncated"
      BY <1>4 DEF Topped
    <2>2. \A i \in DOMAIN tree : tree[i].mark = "truncated" => g[i].mark = "truncated"
      BY <1>5
    <2>3. cut <=> k < Len(roots) \/ \E i \in DOMAIN g : g[i].mark = "truncated"
      BY <1>3, <2>1, <2>2
    <2>. DEFINE top == SubSeq(roots, 1, k)
    <2>4. k \in Nat /\ Len(top) = k /\ DOMAIN top = 1 .. k
      BY RootsAreCut
    <2>5. Shows(tree, 0, top)
      BY <2>1
    <2>6. \A j \in DOMAIN g \ DOMAIN tree : g[j].up # 0
      <3>1. \A j \in DOMAIN g \ DOMAIN tree : g[j].up \in level .. n
        BY <1>2
      <3>. QED  BY <1>1, <3>1
    <2>. HIDE DEF top
    <2>7. Shows(g, 0, top)
      <3>1. 0 \in Nat /\ Len(tree) <= Len(g)
        BY <1>2
      <3>. QED  BY <1>1, <1>2, <2>4, <2>5, <2>6, <3>1, ShowsKept
    <2>. QED  BY <1>4, <2>3, <2>7 DEF Topped, top
  <1>8. Levelled(m, call, g, n + 1, depth + 1)
    <2>1. PICK lv \in [DOMAIN tree -> Nat] :
            /\ IsLevel(tree, lv)
            /\ \A i \in DOMAIN tree :
                 /\ IF i < level THEN lv[i] < depth ELSE lv[i] = depth
                 /\ tree[i].id \in Below(m, starts, lv[i] - 1)
      BY <1>4 DEF Levelled
    <2>. DEFINE ll == [i \in DOMAIN g |-> IF i \in DOMAIN tree THEN lv[i] ELSE depth + 1]
    <2>2. ll \in [DOMAIN g -> Nat] /\ \A i \in DOMAIN tree : ll[i] = lv[i] /\ lv[i] \in Nat
      BY <1>1, <1>3
    <2>3. \A i \in DOMAIN g \ DOMAIN tree : ll[i] = depth + 1
      OBVIOUS
    <2>. HIDE DEF ll
    <2>4. ASSUME NEW i \in DOMAIN g, i \in DOMAIN tree
          PROVE  /\ ll[i] = IF g[i].up = 0 THEN 1 ELSE ll[g[i].up] + 1
                 /\ ll[i] < depth + 1 /\ i < n + 1
                 /\ g[i].id \in Below(m, starts, ll[i] - 1)
      <3>1. g[i].up = tree[i].up /\ (tree[i].up # 0 => tree[i].up \in DOMAIN tree)
        BY <1>1, <1>2, <2>4
      <3>2. lv[i] = IF tree[i].up = 0 THEN 1 ELSE lv[tree[i].up] + 1
        BY <2>1, <2>4 DEF IsLevel
      <3>3. ll[i] = IF g[i].up = 0 THEN 1 ELSE ll[g[i].up] + 1
        BY <2>2, <2>4, <3>1, <3>2
      <3>4. ll[i] < depth + 1 /\ i < n + 1
        BY <1>1, <2>1, <2>2, <2>4
      <3>5. g[i].id \in Below(m, starts, ll[i] - 1)
        BY <1>2, <2>1, <2>2, <2>4
      <3>. QED  BY <3>3, <3>4, <3>5
    <2>5. ASSUME NEW i \in DOMAIN g, i \notin DOMAIN tree
          PROVE  /\ ll[i] = IF g[i].up = 0 THEN 1 ELSE ll[g[i].up] + 1
                 /\ ll[i] = depth + 1 /\ ~(i < n + 1)
                 /\ g[i].id \in Below(m, starts, ll[i] - 1)
      <3>1. /\ g[i].up \in level .. n /\ g[i].id \in ToSet(Children(m, tree[g[i].up].id))
            /\ i > n /\ i \in Nat
        BY <1>2, <1>3, <2>5
      <3>2. g[i].up \in DOMAIN tree /\ ~(g[i].up < level) /\ g[i].up # 0
        BY <1>1, <3>1
      <3>3. lv[g[i].up] = depth /\ tree[g[i].up].id \in Below(m, starts, depth - 1)
        BY <2>1, <3>2
      <3>4. depth - 1 \in Nat /\ (depth - 1) + 1 = depth /\ (depth + 1) - 1 = depth
        BY <1>4
      <3>5. g[i].id \in Led(m, Below(m, starts, depth - 1))
        BY <3>1, <3>3 DEF Led
      <3>6. g[i].id \in Below(m, starts, depth)
        <4>1. IsClosed(m) /\ starts \in SUBSET Ids(m)
          BY <1>4
        <4>. HIDE DEF m, starts
        <4>2. \A k \in Nat : Below(m, starts, k + 1) =
                              Below(m, starts, k) \cup Led(m, Below(m, starts, k))
          BY <4>1, BelowSteps
        <4>3. Below(m, starts, (depth - 1) + 1) =
                Below(m, starts, depth - 1) \cup Led(m, Below(m, starts, depth - 1))
          BY <3>4, <4>2
        <4>. QED  BY <3>4, <3>5, <4>3
      <3>. QED  BY <1>1, <2>2, <2>3, <2>5, <3>1, <3>2, <3>3, <3>4, <3>6
    <2>6. IsLevel(g, ll)
      BY <2>4, <2>5 DEF IsLevel
    <2>. QED  BY <2>2, <2>4, <2>5, <2>6 DEF Levelled
  <1>9. ASSUME NEW i \in 1 .. (n + 1) - 1 PROVE Reason(m, call, g, i)
    <2>1. i \in DOMAIN tree /\ i \in Nat /\ i <= n
      BY <1>1
    <2>2. CASE i < level
      <3>1. i \in 1 .. level - 1 /\ i \notin toExpand
        BY <1>1, <1>5, <2>1, <2>2
      <3>2. Reason(m, call, tree, i) /\ g[i].mark = tree[i].mark
        BY <1>4, <1>5, <2>1, <3>1
      <3>3. \A j \in 1 .. i - 1 : tree[j].mark # "repeated" => g[j].mark # "repeated"
        <4>1. \A j \in 1 .. i - 1 : j \in DOMAIN tree
          BY <1>1, <2>1
        <4>. QED  BY <1>2, <4>1
      <3>4. \A j \in DOMAIN g \ DOMAIN tree : g[j].up # i
        <4>1. \A j \in DOMAIN g \ DOMAIN tree : g[j].up \in level .. n
          BY <1>2
        <4>. QED  BY <1>1, <2>1, <2>2, <4>1
      <3>5. \A j \in DOMAIN tree : g[j].id = tree[j].id /\ g[j].up = tree[j].up
        BY <1>2
      <3>6. /\ IsClosed(m) /\ call.maxNodes \in Nat /\ tree \in Seq(Entries(m))
            /\ g \in Seq(Entries(m)) /\ Len(tree) <= Len(g)
        BY <1>1, <1>2
      <3>. HIDE DEF m
      <3>. QED  BY <2>1, <3>2, <3>3, <3>4, <3>5, <3>6, ReasonKept
    <2>3. CASE ~(i < level)
      <3>1. i \in level .. n
        BY <1>1, <2>1, <2>3
      <3>. QED  BY <1>2, <3>1
    <2>. QED  BY <2>2, <2>3
  <1>10. Sound(m, call, g, n + 1, depth + 1, cut)
    <2>1. depth + 1 \in Nat \ {0} /\ (call.maxDepth = 0 \/ depth + 1 <= call.maxDepth)
      BY <1>1, <1>4
    <2>. QED  BY <1>6, <1>7, <1>8, <1>9, <2>1 DEF Sound
  <1>11. \A i \in n + 1 .. Len(g) : g[i].mark = "none"
    <2>1. \A i \in n + 1 .. Len(g) : i \in DOMAIN g \ DOMAIN tree
      BY <1>1, <1>3
    <2>. QED  BY <1>2, <2>1
  <1>12. AreExpanded(g, (n + 1) - 1, expanded) /\ depth + 1 <= Cardinality(expanded) + 1
    <2>1. (n + 1) - 1 = n /\ \A i \in 1 .. n : i \in DOMAIN tree
      BY <1>1
    <2>2. /\ expanded = {tree[i].id : i \in 1 .. n}
          /\ \A id \in expanded : \E i \in 1 .. n : tree[i].id = id /\ tree[i].mark # "repeated"
      BY <1>4 DEF AreExpanded
    <2>3. expanded = {g[i].id : i \in 1 .. n}
      BY <1>2, <2>1, <2>2
    <2>4. ASSUME NEW id \in expanded
          PROVE  \E i \in 1 .. n : g[i].id = id /\ g[i].mark # "repeated"
      <3>1. PICK i \in 1 .. n : tree[i].id = id /\ tree[i].mark # "repeated"
        BY <2>2
      <3>2. i \in DOMAIN tree
        BY <2>1
      <3>3. g[i].id = tree[i].id /\ (g[i].mark = "repeated" => tree[i].mark = "repeated")
        BY <1>2, <3>2
      <3>. QED  BY <3>1, <3>3
    <2>5. depth + 1 <= Cardinality(expanded) + 1
      <3>1. IsFiniteSet(expanded)
        <4>1. expanded \subseteq Ids(m)
          BY <1>1, <2>1, <2>2
        <4>. QED  BY <4>1, FS_Subset DEF IsClosed
      <3>2. Cardinality(expanded) \in Nat
        BY <3>1, FS_CardinalityType
      <3>. QED  BY <1>1, <1>4, <3>2
    <2>. QED  BY <2>1, <2>3, <2>4, <2>5 DEF AreExpanded
  <1>. QED  BY <1>10, <1>11, <1>12 DEF Grew

(* The roots that are kept are a first level. *)
LEMMA RootsGrew ==
  ASSUME NEW m, IsClosed(m), call \in Calls, NEW starts \in SUBSET Ids(m),
         NEW roots, roots = Roots(m, call), starts = ToSet(roots), Len(roots) \in Nat,
         NEW kept \in 0 .. Len(roots), kept <= call.maxNodes,
         NEW t \in Seq(Entries(m)), Len(t) = kept,
         \A i \in 1 .. kept :
           t[i].id = roots[i] /\ roots[i] \in starts /\ t[i].up = 0 /\ t[i].mark = "none",
         NEW cut, cut = (kept < Len(roots))
  PROVE  Grew(m, call, t, 1, 1, cut, {})
  <1>1. call.maxNodes \in Nat /\ call.maxDepth \in Nat
    BY WalkAssumption
  <1>2. kept \in Nat /\ DOMAIN t = 1 .. kept
    OBVIOUS
  <1>5. IsTree(m, call, t, 1)
    <2>1. 1 \in 1 .. Len(t) + 1
      BY <1>2
    <2>2. \A i \in DOMAIN t : t[i].up < i /\ t[i].up < 1
      BY <1>2
    <2>. QED  BY <2>1, <2>2 DEF IsTree
  <1>6. Topped(m, call, t, cut)
    <2>. DEFINE top == SubSeq(roots, 1, kept)
    <2>2. Len(top) = kept /\ DOMAIN top = 1 .. kept /\ \A k \in 1 .. kept : top[k] = roots[k]
      BY RootsAreCut
    <2>. HIDE DEF top
    <2>3. Shows(t, 0, top)
      <3>1. {j \in DOMAIN t : t[j].up = 0} = 0 + 1 .. 0 + kept
        BY <1>2
      <3>2. \A k \in 1 .. kept : t[0 + k].id = top[k]
        BY <1>2, <2>2
      <3>3. 0 \in 0 .. Len(t)
        BY <1>2
      <3>. QED  BY <2>2, <3>1, <3>2, <3>3 DEF Shows
    <2>5. \A i \in DOMAIN t : t[i].mark # "truncated"
      BY <1>2
    <2>6. cut <=> kept < Len(roots) \/ \E i \in DOMAIN t : t[i].mark = "truncated"
      BY <2>5
    <2>. QED  BY <2>3, <2>6 DEF Topped, top
  <1>7. Levelled(m, call, t, 1, 1)
    <2>. DEFINE lv == [i \in DOMAIN t |-> 1]
    <2>1. lv \in [DOMAIN t -> Nat] /\ \A i \in DOMAIN t : lv[i] = 1 /\ lv[i] - 1 = 0
      OBVIOUS
    <2>2. Below(m, starts, 0) = starts
      BY BelowSteps
    <2>3. IsLevel(t, lv)
      BY <1>2, <2>1 DEF IsLevel
    <2>. HIDE DEF lv
    <2>4. ASSUME NEW i \in DOMAIN t
          PROVE  ~(i < 1) /\ lv[i] = 1 /\ t[i].id \in Below(m, starts, lv[i] - 1)
      <3>1. i \in 1 .. kept /\ ~(i < 1)
        BY <1>2
      <3>2. t[i].id \in starts
        BY <3>1
      <3>. QED  BY <2>1, <2>2, <3>1, <3>2
    <2>. QED  BY <2>1, <2>3, <2>4 DEF Levelled
  <1>8. Sound(m, call, t, 1, 1, cut)
    <2>1. 1 .. 1 - 1 = {} /\ (call.maxDepth = 0 \/ 1 <= call.maxDepth)
      BY <1>1
    <2>. QED  BY <1>5, <1>6, <1>7, <2>1 DEF Sound
  <1>9. AreExpanded(t, 1 - 1, {}) /\ 1 <= Cardinality({}) + 1
    <2>1. Cardinality({}) = 0 /\ 1 .. 1 - 1 = {}
      BY FS_EmptySet
    <2>. QED  BY <2>1 DEF AreExpanded
  <1>. QED  BY <1>2, <1>8, <1>9 DEF Grew

-----------------------------------------------------------------------------
(* The steps of the walk keep its invariant. *)

(* The walk that begins. *)
LEMMA RootsAnsweredKeeps ==
  ASSUME IInv, RootsAnswered
  PROVE  WalkInv'
  <1>. DEFINE roots == Roots(Asks, call)
              kept == IF Len(roots) < call.maxNodes THEN Len(roots) ELSE call.maxNodes
              t == [i \in 1 .. kept |-> Entry(roots[i], 0, "none")]
  <1>1. /\ stage = "roots" /\ expanded = {} /\ call \in Calls /\ asked \in Bindings
        /\ UNCHANGED <<models, call, asked>>
    BY DEF IInv, WalkInv, RootsAnswered, serverVars
  <1>2. IsClosed(Asks)
    BY <1>1, AskedIsClosed DEF IInv
  <1>3. IF roots = <<None>> THEN stage' = "notFound"
        ELSE truncated' = (kept < Len(roots)) /\ BeginLevel(t, 1, 1)
    BY DEF RootsAnswered, Roots, Objects
  <1>4. CASE roots = <<None>>
    BY <1>1, <1>3, <1>4 DEF WalkInv
  <1>5. CASE roots # <<None>>
    <2>. DEFINE m == Asks
                starts == ToSet(roots)
    <2>1. call.maxNodes \in Nat
      BY <1>1, WalkAssumption
    <2>2. roots \in Seq(Ids(m))
      <3>1. m.rootIds \in Seq(Ids(m)) /\ FindNode(m, call.root) \in Ids(m) \cup {None}
        BY <1>2, FindNodeFinds DEF IsClosed
      <3>2. CASE call.root = None
        BY <3>1, <3>2 DEF Roots
      <3>3. CASE call.root # None
        <4>1. roots = << FindNode(m, call.root) >>
          BY <3>3 DEF Roots
        <4>2. FindNode(m, call.root) \in Ids(m)
          BY <1>5, <3>1, <4>1
        <4>. HIDE DEF roots, m
        <4>. QED  BY <4>1, <4>2
      <3>. QED  BY <3>2, <3>3
    <2>. HIDE DEF roots, m
    <2>3. /\ Len(roots) \in Nat /\ kept \in 0 .. Len(roots) /\ kept <= call.maxNodes
          /\ \A i \in DOMAIN roots : roots[i] \in Ids(m)
      BY <2>1, <2>2
    <2>4. starts \in SUBSET Ids(m) /\ \A i \in 1 .. kept : roots[i] \in Ids(m) /\ roots[i] \in starts
      <3>1. \A i \in 1 .. kept : i \in DOMAIN roots
        BY <2>1, <2>2
      <3>. QED  BY <2>3, <3>1 DEF ToSet
    <2>5. \A i \in 1 .. kept :
            /\ Entry(roots[i], 0, "none") \in Entries(m)
            /\ Entry(roots[i], 0, "none").id = roots[i]
            /\ Entry(roots[i], 0, "none").up = 0
            /\ Entry(roots[i], 0, "none").mark = "none"
      BY <2>4 DEF Entry, Entries
    <2>6. t \in Seq(Entries(m)) /\ Len(t) = kept /\ \A i \in 1 .. kept : t[i] = Entry(roots[i], 0, "none")
      <3>. HIDE DEF kept
      <3>. QED  BY <2>3, <2>5
    <2>7. Grew(m, call, t, 1, 1, truncated', {})
      <3>. DEFINE cut == truncated'
      <3>1. cut = (kept < Len(roots)) /\ IsClosed(m) /\ roots = Roots(m, call)
        BY <1>2, <1>3, <1>5 DEF roots, m
      <3>. HIDE DEF t, kept, starts, cut
      <3>2. \A i \in 1 .. kept :
           t[i].id = roots[i] /\ roots[i] \in starts /\ t[i].up = 0 /\ t[i].mark = "none"
        BY <2>4, <2>5, <2>6
      <3>3. starts = ToSet(roots)
        BY DEF starts
      <3>4. Grew(m, call, t, 1, 1, cut, {})
        BY <1>1, <2>3, <2>4, <2>6, <3>1, <3>2, <3>3, RootsGrew
      <3>. QED  BY <3>4 DEF cut
    <2>8. Grew(Asks, call, t, 1, 1, truncated', expanded)
      BY <1>1, <2>7 DEF m
    <2>9. /\ stage' \in {"level", "done"}
          /\ stage' = "level" => InLevel'
          /\ stage' = "done" => AtEnd'
      <3>1. BeginLevel(t, 1, 1)
        BY <1>3, <1>5
      <3>. HIDE DEF t
      <3>. QED  BY <1>1, <1>2, <2>8, <3>1, BeginKeeps
    <2>. QED  BY <1>1, <2>9 DEF WalkInv
  <1>. QED  BY <1>4, <1>5

(* Batches have natural numbers: unless all are sent, one is the next.     *)
LEMMA BatchesAreNumbers ==
  ASSUME NEW a \in Nat, NEW b \in Nat, NEW positions \in SUBSET (a .. b)
  PROVE  Batches(positions) \subseteq Nat
  <1>1. ASSUME NEW i \in positions PROVE BatchOf(positions, i) \in Nat
    <2>. DEFINE before == {j \in positions : j < i}
    <2>1. IsFiniteSet(before)
      <3>1. before \in SUBSET (a .. b)
        OBVIOUS
      <3>2. IsFiniteSet(a .. b)
        BY FS_Interval
      <3>. HIDE DEF before
      <3>. QED  BY <3>1, <3>2, FS_Subset
    <2>2. Cardinality(before) \in Nat
      BY <2>1, FS_CardinalityType
    <2>3. BatchOf(positions, i) = (Cardinality(before) \div BatchSize) + 1
      BY DEF BatchOf
    <2>. HIDE DEF before
    <2>4. Cardinality(before) \div BatchSize \in Nat
      BY <2>2, WalkAssumption
    <2>. QED  BY <2>3, <2>4
  <1>. QED  BY <1>1 DEF Batches

(* A batch is answered, and with the last one the level is over. *)
LEMMA BatchAnsweredKeeps ==
  ASSUME IInv, NEW b \in inFlight, BatchAnswered(b)
  PROVE  WalkInv'
  <1>. DEFINE batch == {i \in toExpand : BatchOf(toExpand, i) = b}
              unsent == Batches(toExpand) \
                          (inFlight \cup {BatchOf(toExpand, i) : i \in DOMAIN answers})
              next == {c \in unsent : \A o \in unsent : c <= o}
              All(failing) ==
                [i \in DOMAIN answers \cup batch |->
                   IF i \in DOMAIN answers THEN answers[i]
                   ELSE IF i \in failing THEN None ELSE ChildrenOf(tree[i].id)]
  <1>1. /\ stage = "level" /\ InLevel /\ call \in Calls /\ asked \in Bindings
        /\ UNCHANGED <<models, call, asked>>
    BY DEF IInv, WalkInv, BatchAnswered, serverVars
  <1>2. IsClosed(Asks)
    BY <1>1, AskedIsClosed DEF IInv
  <1>3. PICK failing \in SUBSET batch :
          IF inFlight = {b} /\ next = {} THEN Merged(All(failing))
          ELSE /\ answers' = All(failing)
               /\ inFlight' = (inFlight \ {b}) \cup next
               /\ UNCHANGED <<stage, tree, level, depth, expanded, toExpand, truncated>>
    BY DEF BatchAnswered
  <1>. DEFINE all == All(failing)
  <1>4. /\ DOMAIN answers \subseteq toExpand
        /\ \A i \in DOMAIN answers :
             /\ answers[i] \in {None, Children(Asks, tree[i].id)}
             /\ \A j \in toExpand :
                  BatchOf(toExpand, i) = BatchOf(toExpand, j) => j \in DOMAIN answers
    BY <1>1 DEF InLevel
  <1>5. /\ DOMAIN all = DOMAIN answers \cup batch /\ DOMAIN all \subseteq toExpand
        /\ \A i \in DOMAIN all : all[i] \in {None, Children(Asks, tree[i].id)}
    <2>1. DOMAIN all = DOMAIN answers \cup batch /\ DOMAIN all \subseteq toExpand
      BY <1>4
    <2>2. ASSUME NEW i \in toExpand PROVE ChildrenOf(tree[i].id) = Children(Asks, tree[i].id)
      <3>1. i \in DOMAIN tree /\ tree[i].id \in Ids(Asks)
        BY <1>1, <1>2, LevelFacts
      <3>. QED  BY <1>2, <3>1, ChildrenAreAsked
    <2>3. ASSUME NEW i \in DOMAIN all PROVE all[i] \in {None, Children(Asks, tree[i].id)}
      <3>1. all[i] = IF i \in DOMAIN answers THEN answers[i]
                     ELSE IF i \in failing THEN None ELSE ChildrenOf(tree[i].id)
        OBVIOUS
      <3>. HIDE DEF all, batch
      <3>. QED  BY <1>4, <2>1, <2>2, <3>1
    <2>. QED  BY <2>1, <2>3
  <1>6. CASE inFlight = {b} /\ next = {}
    <2>1. unsent = {}
      <3>1. unsent \in SUBSET Nat
        <4>1. /\ level \in Nat /\ Len(tree) \in Nat
              /\ toExpand \in SUBSET (level .. Len(tree))
          BY <1>1, <1>2, LevelFacts
        <4>2. Batches(toExpand) \subseteq Nat
          BY <4>1, BatchesAreNumbers
        <4>. QED  BY <4>2
      <3>2. unsent # {} => \E c \in unsent : \A o \in unsent : c <= o
        <4>. HIDE DEF unsent
        <4>. QED  BY <3>1, LeastNatural
      <3>. QED  BY <1>6, <3>2
    <2>2. ASSUME NEW i \in toExpand PROVE i \in DOMAIN all
      <3>1. BatchOf(toExpand, i) \in Batches(toExpand)
        BY DEF Batches
      <3>2. \/ BatchOf(toExpand, i) = b
            \/ \E j \in DOMAIN answers : BatchOf(toExpand, i) = BatchOf(toExpand, j)
        BY <1>6, <2>1, <3>1
      <3>3. ASSUME NEW j \in DOMAIN answers, BatchOf(toExpand, i) = BatchOf(toExpand, j)
            PROVE  i \in DOMAIN answers
        BY <1>4, <3>3
      <3>. QED  BY <1>5, <3>2, <3>3
    <2>3. \A i \in toExpand : all[i] \in {None, Children(Asks, tree[i].id)}
      BY <1>5, <2>2
    <2>4. Merged(all)
      BY <1>3, <1>6
    <2>. HIDE DEF all
    <2>5. PICK grown :
            /\ GrownTo(Asks, call, Len(tree), grown)
            /\ truncated' = (truncated \/ \E i \in DOMAIN grown : grown[i].mark = "truncated")
            /\ BeginLevel(grown, Len(tree) + 1, depth + 1)
      BY <1>1, <1>2, <2>3, <2>4, MergeGrows
    <2>6. Grew(Asks, call, grown, Len(tree) + 1, depth + 1, truncated', expanded)
      <3>. DEFINE cut == truncated'
      <3>1. cut = (truncated \/ \E i \in DOMAIN grown : grown[i].mark = "truncated")
        BY <2>5
      <3>. HIDE DEF cut
      <3>2. Grew(Asks, call, grown, Len(tree) + 1, depth + 1, cut, expanded)
        BY <1>1, <1>2, <2>5, <3>1, LevelGrew
      <3>. QED  BY <3>2 DEF cut
    <2>7. /\ stage' \in {"level", "done"}
          /\ stage' = "level" => InLevel'
          /\ stage' = "done" => AtEnd'
      BY <1>1, <1>2, <2>5, <2>6, BeginKeeps
    <2>. QED  BY <1>1, <2>7 DEF WalkInv
  <1>7. CASE ~(inFlight = {b} /\ next = {})
    <2>1. /\ answers' = all
          /\ UNCHANGED <<stage, tree, level, depth, expanded, toExpand, truncated>>
      BY <1>3, <1>7
    <2>2. ASSUME NEW i \in DOMAIN all, NEW j \in toExpand,
                 BatchOf(toExpand, i) = BatchOf(toExpand, j)
          PROVE  j \in DOMAIN all
      <3>. HIDE DEF all
      <3>1. CASE i \in DOMAIN answers
        BY <1>4, <1>5, <2>2, <3>1
      <3>2. CASE i \in batch
        BY <1>5, <2>2, <3>2
      <3>. QED  BY <1>5, <3>1, <3>2
    <2>. HIDE DEF all
    <2>3. Asks' = Asks
      BY <1>1 DEF Asks
    <2>4. InLevel'
      BY <1>1, <1>5, <2>1, <2>2, <2>3 DEF InLevel, BatchOf
    <2>. QED  BY <1>1, <2>1, <2>4 DEF WalkInv
  <1>. QED  BY <1>6, <1>7

(* Connects do not disturb the walk. *)
LEMMA WalkIsUndisturbed ==
  ASSUME IInv, UNCHANGED <<models, walkVars>>
  PROVE  WalkInv'
  <1>1. Asks' = Asks
    BY DEF Asks, walkVars
  <1>2. InLevel => InLevel'
    BY <1>1 DEF InLevel, walkVars, BatchOf, Earlier
  <1>3. AtEnd => AtEnd'
    BY <1>1 DEF AtEnd, walkVars, Earlier
  <1>. QED  BY <1>1, <1>2, <1>3 DEF IInv, WalkInv, walkVars

-----------------------------------------------------------------------------
(* The invariant. *)

LEMMA InitInv ==
  ASSUME Init
  PROVE  IInv
  <1>1. PICK browsed \in Spaces : Serving(browsed)
    BY DEF Init
  <1>2. ServersInv
    BY <1>1 DEF Serving, ServersInv, Bindings
  <1>3. WalkInv
    BY <1>1 DEF Serving, WalkInv
  <1>. QED  BY <1>2, <1>3 DEF IInv

Steps == {"info", "namespaces", "connected", "connection_failed", "auth_failed"}

LEMMA ConnectKeeps ==
  ASSUME ServersInv, NEW c \in Connects, Connect(c)
  PROVE  ServersInv'
  <1>. DEFINE next == ConnectTo(c.server, c.token)
              added == [binding |-> next, step |-> IF c.verify THEN "info" ELSE "connected"]
  <1>1. /\ connects' = Append(connects, added)
        /\ binding' = IF c.verify THEN binding ELSE next
        /\ UNCHANGED <<spaces, models>>
    BY DEF Connect, serverVars
  <1>2. \A bound \in Bindings : bound.token \in Tokens
    BY DEF Bindings, Binding, Tokens
  <1>3. next \in Bindings
    <2>1. c.server \in Servers /\ c.token \in Tokens /\ binding.token \in Tokens
      BY <1>2, WalkAssumption DEF ServersInv, Tokens
    <2>. HIDE DEF Bindings
    <2>. QED  BY <2>1 DEF ConnectTo, Bindings
  <1>. HIDE DEF next
  <1>4. added \in [binding : Bindings, step : Steps]
    BY <1>3 DEF Steps
  <1>. DEFINE C == [binding : Bindings, step : Steps]
  <1>5. connects' \in Seq(C)
    <2>1. connects \in Seq(C) /\ added \in C
      BY <1>4 DEF ServersInv, Steps
    <2>. HIDE DEF C, added
    <2>. QED  BY <1>1, <2>1
  <1>. QED  BY <1>1, <1>3, <1>5 DEF ServersInv, Steps

LEMMA VerifiedKeeps ==
  ASSUME ServersInv, NEW i \in DOMAIN connects, Verified(i)
  PROVE  ServersInv'
  <1>. DEFINE C == [binding : Bindings, step : Steps]
  <1>1. connects \in Seq(C) /\ connects[i] \in C
    <2>1. connects \in Seq(C)
      BY DEF ServersInv, Steps
    <2>. HIDE DEF C
    <2>. QED  BY <2>1
  <1>2. connects[i].binding \in Bindings
    BY <1>1
  <1>3. \E step \in Steps : connects' = [connects EXCEPT ![i].step = step]
    BY DEF Verified, Steps
  <1>4. binding' \in Bindings /\ UNCHANGED <<spaces, models>>
    BY <1>2 DEF Verified, ServersInv, serverVars
  <1>5. PICK step \in Steps : connects' = [connects EXCEPT ![i].step = step]
    BY <1>3
  <1>6. [connects[i] EXCEPT !.step = step] \in C
    BY <1>1
  <1>7. connects' = [connects EXCEPT ![i] = [connects[i] EXCEPT !.step = step]]
    BY <1>5
  <1>8. connects' \in Seq(C)
    <2>. DEFINE stepped == [connects[i] EXCEPT !.step = step]
    <2>1. stepped \in C
      BY <1>6
    <2>2. connects' = [connects EXCEPT ![i] = stepped]
      BY <1>7
    <2>. HIDE DEF C, stepped
    <2>. QED  BY <1>1, <2>1, <2>2
  <1>. QED  BY <1>4, <1>8 DEF ServersInv, Steps

LEMMA NextInv ==
  ASSUME IInv, [Next]_vars
  PROVE  IInv'
  <1>1. ServersInv /\ WalkInv
    BY DEF IInv
  <1>2. ASSUME NEW c \in Connects, Connect(c) PROVE IInv'
    <2>1. UNCHANGED <<models, walkVars>>
      BY <1>2 DEF Connect, serverVars
    <2>. QED  BY <1>1, <1>2, <2>1, ConnectKeeps, WalkIsUndisturbed DEF IInv
  <1>3. ASSUME NEW i \in DOMAIN connects, Verified(i) PROVE IInv'
    <2>1. UNCHANGED <<models, walkVars>>
      BY <1>3 DEF Verified, serverVars
    <2>. QED  BY <1>1, <1>3, <2>1, VerifiedKeeps, WalkIsUndisturbed DEF IInv
  <1>4. ASSUME UNCHANGED <<serverVars, binding, connects>> PROVE ServersInv'
    BY <1>1, <1>4 DEF ServersInv, serverVars
  <1>5. ASSUME NEW c \in Calls, Explore(c) PROVE IInv'
    <2>1. WalkInv'
      BY <1>1, <1>5 DEF Explore, ServersInv, WalkInv
    <2>2. ServersInv'
      BY <1>4, <1>5 DEF Explore
    <2>. QED  BY <2>1, <2>2 DEF IInv
  <1>6. ASSUME RootsAnswered PROVE IInv'
    <2>1. ServersInv'
      BY <1>4, <1>6 DEF RootsAnswered
    <2>. QED  BY <1>6, <2>1, RootsAnsweredKeeps DEF IInv
  <1>7. ASSUME RootsFail PROVE IInv'
    <2>1. WalkInv'
      BY <1>1, <1>7 DEF RootsFail, WalkInv
    <2>2. ServersInv'
      BY <1>4, <1>7 DEF RootsFail
    <2>. QED  BY <2>1, <2>2 DEF IInv
  <1>8. ASSUME NEW b \in inFlight, BatchAnswered(b) PROVE IInv'
    <2>1. ServersInv'
      BY <1>4, <1>8 DEF BatchAnswered
    <2>. QED  BY <1>8, <2>1, BatchAnsweredKeeps DEF IInv
  <1>9. CASE UNCHANGED vars
    <2>1. UNCHANGED <<serverVars, binding, connects>> /\ UNCHANGED <<models, walkVars>>
      BY <1>9 DEF vars, serverVars
    <2>. QED  BY <1>4, <2>1, WalkIsUndisturbed DEF IInv
  <1>. QED  BY <1>2, <1>3, <1>5, <1>6, <1>7, <1>8, <1>9 DEF Next

-----------------------------------------------------------------------------
(* What the invariant says of a walk that is done. *)

(* What an entry shows is in the tree. *)
LEMMA ShownAreInTree ==
  ASSUME NEW t, NEW i, NEW ids, Len(ids) \in Nat, DOMAIN ids = 1 .. Len(ids),
         Len(t) \in Nat, Shows(t, i, ids)
  PROVE  \A k \in DOMAIN ids : \E j \in DOMAIN t : t[j].id = ids[k]
  <1>. DEFINE n == Len(ids)
  <1>1. PICK first \in 0 .. Len(t) :
          /\ {j \in DOMAIN t : t[j].up = i} = first + 1 .. first + n
          /\ \A k \in 1 .. n : t[first + k].id = ids[k]
    BY DEF Shows
  <1>2. ASSUME NEW k \in 1 .. n PROVE \E j \in DOMAIN t : t[j].id = ids[k]
    <2>1. first + k \in first + 1 .. first + n
      OBVIOUS
    <2>2. first + k \in DOMAIN t
      BY <1>1, <2>1
    <2>. QED  BY <1>1, <2>2
  <1>. QED  BY <1>2

(* Entries above the last level have their reasons; those of the last one  *)
(* are as deep as was asked for, or repeat others.                         *)
LEMMA EndIsShown ==
  ASSUME ServersInv, AtEnd, call \in Calls, asked \in Bindings
  PROVE  /\ \A i \in DOMAIN tree : Explained(i)
         /\ ~truncated /\ call.maxDepth = 0 /\ (\A i \in DOMAIN tree : tree[i].mark # "error") =>
              {tree[i].id : i \in DOMAIN tree} =
                Below(Asks, ToSet(Roots(Asks, call)), Cardinality(Ids(Asks)))
  <1>. DEFINE m == Asks
              roots == Roots(m, call)
              starts == ToSet(roots)
              S == {tree[i].id : i \in DOMAIN tree}
              n == Cardinality(Ids(m))
  <1>1. IsClosed(m)
    BY AskedIsClosed
  <1>2. /\ Sound(m, call, tree, level, depth, truncated)
        /\ depth <= n + 1
        /\ \/ /\ call.maxDepth # 0 /\ depth >= call.maxDepth
              /\ \A i \in level .. Len(tree) : tree[i].mark = "none"
           \/ \A i \in level .. Len(tree) : tree[i].mark = "repeated" /\ Earlier(tree, i)
    BY DEF AtEnd
  <1>3. /\ IsTree(m, call, tree, level) /\ Topped(m, call, tree, truncated)
        /\ Levelled(m, call, tree, level, depth)
        /\ \A i \in 1 .. level - 1 : Reason(m, call, tree, i)
        /\ depth \in Nat \ {0} /\ (call.maxDepth = 0 \/ depth <= call.maxDepth)
    BY <1>2 DEF Sound
  <1>4. /\ tree \in Seq(Entries(m)) /\ Len(tree) \in Nat /\ DOMAIN tree = 1 .. Len(tree)
        /\ level \in Nat /\ level >= 1
        /\ \A i \in DOMAIN tree : tree[i].up < i /\ tree[i].up < level
    BY <1>3 DEF IsTree
  <1>5. \A i \in DOMAIN tree : tree[i].id \in Ids(m) /\ tree[i].up \in Nat
    <2>1. \A i \in DOMAIN tree : tree[i] \in Entries(m)
      BY <1>4
    <2>. QED  BY <2>1 DEF Entries
  <1>6. starts \in SUBSET Ids(m)
    BY <1>3 DEF Topped
  <1>7. call.maxDepth \in Nat /\ n \in Nat
    <2>1. n \in Nat
      BY <1>1, FS_CardinalityType DEF IsClosed
    <2>. QED  BY <2>1, WalkAssumption
  <1>8. PICK lv \in [DOMAIN tree -> Nat] :
          /\ IsLevel(tree, lv)
          /\ \A i \in DOMAIN tree :
               /\ IF i < level THEN lv[i] < depth ELSE lv[i] = depth
               /\ tree[i].id \in Below(m, starts, lv[i] - 1)
    BY <1>3 DEF Levelled
  <1>9. \A i \in DOMAIN tree : LevelOf(i) = lv[i]
    BY <1>4, <1>5, <1>8, LevelIsGiven
  <1>10. ASSUME NEW i \in DOMAIN tree PROVE Explained(i)
    <2>. DEFINE kids == Children(models[asked.server], tree[i].id)
                deepest == call.maxDepth # 0 /\ LevelOf(i) >= call.maxDepth
                nothing == Shows(tree, i, <<>>)
                earlier == \E j \in 1 .. i - 1 :
                             tree[j].id = tree[i].id /\ tree[j].mark # "repeated"
    <2>1. kids = Children(m, tree[i].id) /\ (earlier <=> Earlier(tree, i))
      BY DEF Asks, Earlier
    <2>2. /\ tree[i].mark = "none" => IF deepest THEN nothing ELSE Shows(tree, i, kids)
          /\ tree[i].mark = "repeated" => nothing /\ earlier
          /\ tree[i].mark = "truncated" => nothing /\ Len(tree) + Len(kids) > call.maxNodes
          /\ tree[i].mark \notin {"none", "repeated", "truncated"} => nothing
      <3>1. CASE i < level
        <4>1. i \in 1 .. level - 1
          BY <1>4, <3>1
        <4>2. Reason(m, call, tree, i)
          BY <1>3, <4>1
        <4>3. ~deepest
          BY <1>3, <1>7, <1>8, <1>9, <3>1
        <4>. HIDE DEF kids, deepest, nothing, earlier
        <4>. QED  BY <2>1, <4>2, <4>3 DEF Reason, nothing
      <3>2. CASE ~(i < level)
        <4>1. i \in level .. Len(tree)
          BY <1>4, <3>2
        <4>2. nothing
          <5>1. \A j \in DOMAIN tree : tree[j].up # i
            BY <1>4, <1>5, <3>2
          <5>. QED  BY <1>4, <5>1, ShowsNothing
        <4>3. CASE tree[i].mark = "none"
          <5>1. call.maxDepth # 0 /\ depth >= call.maxDepth
            BY <1>2, <4>1, <4>3
          <5>2. deepest
            BY <1>8, <1>9, <3>2, <5>1
          <5>. QED  BY <4>2, <4>3, <5>2
        <4>4. CASE tree[i].mark # "none"
          <5>1. tree[i].mark = "repeated" /\ Earlier(tree, i)
            BY <1>2, <4>1, <4>4
          <5>. QED  BY <2>1, <4>2, <5>1
        <4>. QED  BY <4>3, <4>4
      <3>. QED  BY <3>1, <3>2
    <2>3. CASE tree[i].mark = "none"
      BY <2>2, <2>3 DEF Explained
    <2>4. CASE tree[i].mark = "repeated"
      BY <2>2, <2>4 DEF Explained
    <2>5. CASE tree[i].mark = "truncated"
      BY <2>2, <2>5 DEF Explained
    <2>6. CASE tree[i].mark \notin {"none", "repeated", "truncated"}
      BY <2>2, <2>6 DEF Explained
    <2>. QED  BY <2>3, <2>4, <2>5, <2>6
  <1>11. ASSUME ~truncated, call.maxDepth = 0, \A i \in DOMAIN tree : tree[i].mark # "error"
         PROVE  S = Below(m, starts, n)
    <2>1. PICK k \in 0 .. Len(roots) :
            /\ Shows(tree, 0, SubSeq(roots, 1, k))
            /\ truncated <=> k < Len(roots) \/ \E i \in DOMAIN tree : tree[i].mark = "truncated"
      BY <1>3 DEF Topped
    <2>2. roots \in Seq(Ids(m) \cup {None})
      BY <1>1, RootsAreCut
    <2>3. Len(roots) \in Nat /\ DOMAIN roots = 1 .. Len(roots)
      BY <2>2
    <2>4. k = Len(roots) /\ \A i \in DOMAIN tree : tree[i].mark # "truncated"
      <3>1. ~(k < Len(roots)) /\ ~(\E i \in DOMAIN tree : tree[i].mark = "truncated")
        BY <1>11, <2>1
      <3>2. k = Len(roots)
        BY <2>3, <3>1
      <3>. QED  BY <3>1, <3>2
    <2>5. starts \subseteq S
      <3>. DEFINE top == SubSeq(roots, 1, k)
      <3>1. k \in Nat /\ Len(top) = k /\ DOMAIN top = 1 .. k /\ \A h \in 1 .. k : top[h] = roots[h]
        BY <1>1, RootsAreCut
      <3>2. Shows(tree, 0, top)
        BY <2>1
      <3>. HIDE DEF top
      <3>3. PICK first \in 0 .. Len(tree) :
              /\ {j \in DOMAIN tree : tree[j].up = 0} = first + 1 .. first + Len(top)
              /\ \A h \in DOMAIN top : tree[first + h].id = top[h]
        BY <3>2 DEF Shows
      <3>4. ASSUME NEW h \in DOMAIN roots PROVE \E j \in DOMAIN tree : tree[j].id = roots[h]
        <4>1. h \in 1 .. k /\ h \in DOMAIN top /\ top[h] = roots[h]
          BY <2>3, <2>4, <3>1
        <4>2. first + h \in first + 1 .. first + Len(top)
          BY <3>1, <4>1
        <4>3. first + h \in DOMAIN tree
          BY <3>3, <4>2
        <4>4. tree[first + h].id = top[h]
          BY <3>3, <4>1
        <4>. QED  BY <4>1, <4>3, <4>4
      <3>. QED  BY <3>4 DEF ToSet
    <2>6. ASSUME NEW i \in DOMAIN tree, tree[i].mark # "repeated"
          PROVE  ToSet(Children(m, tree[i].id)) \subseteq S
      <3>. DEFINE kids == Children(m, tree[i].id)
      <3>1. i < level
        <4>1. ~(i < level) => i \in level .. Len(tree)
          BY <1>4
        <4>. QED  BY <1>2, <1>11, <2>6, <4>1
      <3>2. i \in 1 .. level - 1
        BY <1>4, <3>1
      <3>3. Shows(tree, i, kids)
        BY <1>3, <1>11, <2>4, <2>6, <3>2 DEF Reason
      <3>4. kids \in Seq(Ids(m))
        BY <1>1, <1>5 DEF IsClosed
      <3>. HIDE DEF kids
      <3>5. Len(kids) \in Nat /\ DOMAIN kids = 1 .. Len(kids)
        BY <3>4
      <3>6. \A h \in DOMAIN kids : \E j \in DOMAIN tree : tree[j].id = kids[h]
        BY <1>4, <3>3, <3>5, ShownAreInTree
      <3>. QED  BY <3>6 DEF ToSet, kids
    <2>7. ASSUME NEW p \in S PROVE ToSet(Children(m, p)) \subseteq S
      <3>1. PICK i \in DOMAIN tree : tree[i].id = p
        OBVIOUS
      <3>2. CASE tree[i].mark # "repeated"
        BY <2>6, <3>1, <3>2
      <3>3. CASE tree[i].mark = "repeated"
        <4>1. Earlier(tree, i)
          <5>1. i \in 1 .. level - 1 \/ i \in level .. Len(tree)
            BY <1>4
          <5>2. i \in 1 .. level - 1 => Earlier(tree, i)
            BY <1>3, <3>3 DEF Reason
          <5>3. i \in level .. Len(tree) => Earlier(tree, i)
            BY <1>2, <3>3
          <5>. QED  BY <5>1, <5>2, <5>3
        <4>2. PICK j \in 1 .. i - 1 : tree[j].id = tree[i].id /\ tree[j].mark # "repeated"
          BY <4>1 DEF Earlier
        <4>3. j \in DOMAIN tree
          BY <1>4
        <4>4. ToSet(Children(m, tree[j].id)) \subseteq S
          BY <2>6, <4>2, <4>3
        <4>. QED  BY <3>1, <4>2, <4>4
      <3>. QED  BY <3>2, <3>3
    <2>8. Below(m, starts, n) \subseteq S
      <3>. HIDE DEF S, starts, m, n
      <3>. QED  BY <1>1, <1>6, <1>7, <2>5, <2>7, BelowStays
    <2>9. ASSUME NEW i \in DOMAIN tree PROVE tree[i].id \in Below(m, starts, n)
      <3>1. lv[i] \in Nat /\ lv[i] <= depth /\ tree[i].id \in Below(m, starts, lv[i] - 1)
        BY <1>3, <1>8
      <3>2. lv[i] # 0
        <4>1. lv[i] = IF tree[i].up = 0 THEN 1 ELSE lv[tree[i].up] + 1
          BY <1>8 DEF IsLevel
        <4>2. tree[i].up # 0 => tree[i].up \in DOMAIN tree
          BY <1>4, <1>5
        <4>3. tree[i].up # 0 => lv[tree[i].up] \in Nat
          BY <4>2
        <4>. QED  BY <4>1, <4>3
      <3>3. lv[i] - 1 \in 0 .. n
        BY <1>2, <1>3, <1>7, <3>1, <3>2
      <3>4. Below(m, starts, lv[i] - 1) \subseteq Below(m, starts, n)
        <4>. HIDE DEF starts, m, n
        <4>. QED  BY <1>1, <1>6, <1>7, <3>3, BelowGrows
      <3>. QED  BY <3>1, <3>4
    <2>. QED  BY <2>8, <2>9
  <1>. QED  BY <1>10, <1>11

LEMMA WalkIsShown ==
  ASSUME IInv
  PROVE  WalkShowsTheModel
  <1>. DEFINE m == Asks
              roots == Roots(m, call)
              marked(mark) == {i \in DOMAIN tree : tree[i].mark = mark}
  <1>1. ServersInv /\ WalkInv
    BY DEF IInv
  <1>2. ASSUME stage \in {"level", "done"}
        PROVE  depth <= Cardinality(Ids(m)) + 1 /\ Len(tree) <= call.maxNodes
    <2>1. call \in Calls /\ asked \in Bindings
      BY <1>1, <1>2 DEF WalkInv
    <2>2. IsClosed(m)
      BY <1>1, <2>1, AskedIsClosed
    <2>3. CASE stage = "level"
      <3>1. InLevel
        BY <1>1, <2>3 DEF WalkInv
      <3>2. Len(tree) <= call.maxNodes /\ \A i \in 1 .. Len(tree) : tree[i].id \in Ids(m)
        BY <2>1, <2>2, <3>1, LevelFacts
      <3>3. expanded \in SUBSET Ids(m) /\ depth <= Cardinality(expanded) /\ depth \in Nat
        BY <2>1, <2>2, <3>1, <3>2, LevelFacts DEF InLevel, AreExpanded
      <3>4. /\ Cardinality(expanded) \in Nat /\ Cardinality(Ids(m)) \in Nat
            /\ Cardinality(expanded) <= Cardinality(Ids(m))
        BY <2>2, <3>3, FS_Subset, FS_CardinalityType DEF IsClosed
      <3>. QED  BY <3>2, <3>3, <3>4
    <2>4. CASE stage = "done"
      BY <1>1, <2>4 DEF WalkInv, AtEnd, Sound, IsTree
    <2>. QED  BY <1>2, <2>3, <2>4
  <1>3. ASSUME stage = "done"
        PROVE  /\ \E kept \in 0 .. Len(roots) :
                    /\ Shows(tree, 0, SubSeq(roots, 1, kept))
                    /\ truncated <=> kept < Len(roots) \/ marked("truncated") # {}
               /\ \A i \in DOMAIN tree : Explained(i)
               /\ ~truncated /\ call.maxDepth = 0 /\ marked("error") = {} =>
                    {tree[i].id : i \in DOMAIN tree} =
                      Below(m, ToSet(roots), Cardinality(Ids(m)))
    <2>1. AtEnd /\ call \in Calls /\ asked \in Bindings
      BY <1>1, <1>3 DEF WalkInv
    <2>2. PICK kept \in 0 .. Len(roots) :
            /\ Shows(tree, 0, SubSeq(roots, 1, kept))
            /\ truncated <=> kept < Len(roots) \/ \E i \in DOMAIN tree : tree[i].mark = "truncated"
      BY <2>1 DEF AtEnd, Sound, Topped
    <2>3. marked("truncated") # {} <=> \E i \in DOMAIN tree : tree[i].mark = "truncated"
      OBVIOUS
    <2>4. marked("error") = {} => \A i \in DOMAIN tree : tree[i].mark # "error"
      OBVIOUS
    <2>. HIDE DEF marked
    <2>. QED  BY <1>1, <2>1, <2>2, <2>3, <2>4, EndIsShown
  <1>4. m = models[asked.server]
        /\ roots = IF call.root = None THEN m.rootIds ELSE << FindNode(m, call.root) >>
    BY DEF Asks, Roots
  <1>. HIDE DEF m, roots
  <1>. QED  BY <1>2, <1>3, <1>4 DEF WalkShowsTheModel

(* The invariant holds in every state of every run. *)
THEOREM Invariant ==
  Spec => []IInv
  <1>1. Init => IInv
    BY InitInv
  <1>2. IInv /\ [Next]_vars => IInv'
    BY NextInv
  <1>. QED  BY <1>1, <1>2, PTL DEF Spec

(* Whatever the address spaces, the calls, the order and the failures of   *)
(* the answers and the connects in between: the tree of a walk is what     *)
(* exploreHierarchy promises of the model of the server it was asked of.   *)
THEOREM WalkIsFaithful ==
  Spec => []WalkShowsTheModel
  <1>1. IInv => WalkShowsTheModel
    BY WalkIsShown
  <1>. QED  BY <1>1, Invariant, PTL

(* Whatever the address spaces: the model that a server has built is that  *)
(* of the space it was given, and mirrors it, in every state of every run. *)
THEOREM ModelsMirrorTheirSpaces ==
  Spec => []ModelMirrorsSpace
  <1>1. IInv => ModelMirrorsSpace
    <2>. SUFFICES ASSUME IInv, NEW s \in Servers PROVE MirrorsSpace(spaces[s], models[s])
      BY DEF ModelMirrorsSpace
    <2>1. spaces \in Spaces /\ models[s] = Build(spaces[s])
      BY DEF IInv, ServersInv
    <2>2. IsSpace(spaces[s]) /\ \A n \in DOMAIN spaces[s] : NodeIds(spaces[s])[n] # None
      BY <2>1, WalkAssumption
    <2>. QED  BY <2>1, <2>2, ModelMirrors
  <1>. QED  BY <1>1, Invariant, PTL

-----------------------------------------------------------------------------
(* Types and their ancestors. *)

(* Types, like nodes, hang below each other. *)
LEMMA TypesAreSpace ==
  ASSUME NEW types, IsCatalog(types)
  PROVE  /\ IsSpace(types) /\ DOMAIN types \subseteq Nat /\ None \notin DOMAIN types
         /\ \A t \in DOMAIN types : types[t].parent # None <=> types[t].parent \in DOMAIN types
  <1>. DEFINE D == DOMAIN types
              down == [t \in D |-> t]
  <1>1. D = 1 .. Len(types) /\ Len(types) \in Nat
    BY DEF IsCatalog
  <1>2. \A t \in D : types[t].parent \in 1 .. t - 1 \cup {None}
    BY DEF IsCatalog
  <1>3. None \notin Nat
    BY ParentAssumption
  <1>4. \A t \in D : /\ types[t].parent \in D \cup {None}
                     /\ types[t].parent \in D => types[t].parent < t
    BY <1>1, <1>2, <1>3
  <1>5. /\ down \in [D -> D]
        /\ \A t \in D : types[t].parent \in D => down[types[t].parent] < down[t]
    BY <1>4
  <1>6. IsSpace(types)
    <2>. HIDE DEF down
    <2>. QED  BY <1>4, <1>5 DEF IsSpace, IsCatalog
  <1>. QED  BY <1>1, <1>3, <1>4, <1>6

AreLineages(types, lineages) ==
  /\ lineages \in [DOMAIN types -> Seq(DOMAIN types)]
  /\ \A t \in DOMAIN types :
       /\ types[t].parent = None => lineages[t] = <<t>>
       /\ types[t].parent # None => lineages[t] = <<t>> \o lineages[types[t].parent]

(* The lineage of a type is the type and the lineage of its parent. *)
LEMMA LineageUnfolds ==
  ASSUME NEW types, IsCatalog(types)
  PROVE  AreLineages(types, Lineages(types))
  <1>. DEFINE D == DOMAIN types
              T == Seq(D)
              H == [t \in D |-> <<t>>]
              G == [x \in D \X T |-> <<x[1]>> \o x[2]]
              Body(f) == [t \in D |-> <<t>> \o IF types[t].parent = None THEN <<>>
                                               ELSE f[types[t].parent]]
              Solves(f) == f = Body(f)
              lineage == CHOOSE f : Solves(f)
  <1>1. Lineages(types) = lineage
    BY DEF Lineages
  <1>2. IsSpace(types) /\ \A t \in D : types[t].parent # None <=> types[t].parent \in D
    BY TypesAreSpace
  <1>3. /\ \A t \in D : <<t>> \in T /\ <<t>> \o <<>> = <<t>>
        /\ \A t \in D, s \in T : <<t>> \o s \in T
    OBVIOUS
  <1>4. \E f : Solves(f)
    <2>1. H \in [D -> T] /\ G \in [D \X T -> T]
      <3>. HIDE DEF T
      <3>. QED  BY <1>3
    <2>2. \A t \in D, s \in T : G[<<t, s>>] = <<t>> \o s
      <3>. HIDE DEF T
      <3>. QED  OBVIOUS
    <2>3. \A t \in D : H[t] = <<t>>
      OBVIOUS
    <2>. HIDE DEF H, G, T
    <2>4. PICK f \in [D -> T] : Inherited(types, H, G, f)
      BY <1>2, <2>1, GivenFromTheTop
    <2>5. ASSUME NEW t \in D PROVE f[t] = Body(f)[t]
      <3>1. CASE types[t].parent = None
        <4>1. f[t] = <<t>>
          BY <1>2, <2>3, <2>4, <3>1 DEF Inherited
        <4>2. Body(f)[t] = <<t>> \o <<>>
          BY <3>1
        <4>. QED  BY <1>3, <4>1, <4>2
      <3>2. CASE types[t].parent # None
        <4>1. types[t].parent \in D /\ f[types[t].parent] \in T
          BY <1>2, <2>4, <3>2
        <4>2. f[t] = <<t>> \o f[types[t].parent]
          BY <2>2, <2>4, <4>1 DEF Inherited
        <4>. QED  BY <3>2, <4>2
      <3>. QED  BY <3>1, <3>2
    <2>. HIDE DEF Body
    <2>6. f = [t \in D |-> f[t]] /\ Body(f) = [t \in D |-> Body(f)[t]]
      BY DEF Body
    <2>. QED  BY <2>5, <2>6
  <1>5. lineage = Body(lineage)
    <2>. HIDE DEF Body
    <2>. QED  BY <1>4
  <1>. HIDE DEF lineage, T
  <1>6. \A t \in D : /\ types[t].parent = None => lineage[t] = <<t>>
                     /\ types[t].parent # None => lineage[t] = <<t>> \o lineage[types[t].parent]
    <2>1. ASSUME NEW t \in D, types[t].parent = None PROVE lineage[t] = <<t>>
      <3>1. lineage[t] = <<t>> \o <<>>
        BY <1>5, <2>1
      <3>. QED  BY <1>3, <3>1
    <2>2. ASSUME NEW t \in D, types[t].parent # None
          PROVE  lineage[t] = <<t>> \o lineage[types[t].parent]
      BY <1>5, <2>2
    <2>. QED  BY <2>1, <2>2
  <1>7. lineage = [t \in D |-> lineage[t]]
    <2>1. Body(lineage) = [t \in D |-> Body(lineage)[t]]
      OBVIOUS
    <2>. HIDE DEF Body
    <2>. QED  BY <1>5, <2>1
  <1>. DEFINE S == {t \in D : lineage[t] \in T}
  <1>8. ASSUME NEW t \in D, types[t].parent \in D => types[t].parent \in S
        PROVE  t \in S
    <2>1. CASE types[t].parent = None
      BY <1>3, <1>6, <2>1
    <2>2. CASE types[t].parent # None
      BY <1>2, <1>3, <1>6, <1>8, <2>2
    <2>. QED  BY <2>1, <2>2
  <1>. HIDE DEF S
  <1>9. D \subseteq S
    BY <1>2, <1>8, FromTheTop
  <1>10. lineage \in [D -> T]
    BY <1>7, <1>9 DEF S
  <1>. QED  BY <1>1, <1>6, <1>10 DEF T, AreLineages

(* Lineages are a matter of parents. *)
LEMMA SameLineages ==
  ASSUME NEW types, IsCatalog(types), NEW others, IsCatalog(others),
         DOMAIN types = DOMAIN others,
         \A t \in DOMAIN types : types[t].parent = others[t].parent
  PROVE  Lineages(types) = Lineages(others)
  <1>. DEFINE D == DOMAIN types
              f == Lineages(types)
              g == Lineages(others)
              S == {t \in D : f[t] = g[t]}
  <1>0. AreLineages(types, f) /\ AreLineages(others, g)
    BY LineageUnfolds
  <1>1. /\ f = [t \in D |-> f[t]] /\ g = [t \in D |-> g[t]]
        /\ \A t \in D : /\ types[t].parent = None => f[t] = <<t>> /\ g[t] = <<t>>
                        /\ types[t].parent # None =>
                             /\ f[t] = <<t>> \o f[types[t].parent]
                             /\ g[t] = <<t>> \o g[types[t].parent]
    BY <1>0 DEF AreLineages
  <1>2. IsSpace(types) /\ \A t \in D : types[t].parent # None <=> types[t].parent \in D
    BY TypesAreSpace
  <1>. HIDE DEF f, g
  <1>3. ASSUME NEW t \in D, types[t].parent \in D => types[t].parent \in S
        PROVE  t \in S
    <2>1. types[t].parent # None => f[types[t].parent] = g[types[t].parent]
      BY <1>2, <1>3
    <2>2. CASE types[t].parent = None
      BY <1>1, <2>2
    <2>3. CASE types[t].parent # None
      <3>1. f[t] = <<t>> \o f[types[t].parent] /\ g[t] = <<t>> \o g[types[t].parent]
        BY <1>1, <2>3
      <3>. QED  BY <2>1, <2>3, <3>1
    <2>. QED  BY <2>2, <2>3
  <1>. HIDE DEF S
  <1>4. D \subseteq S
    BY <1>2, <1>3, FromTheTop
  <1>5. \A t \in D : f[t] = g[t]
    BY <1>4 DEF S
  <1>. QED  BY <1>1, <1>5 DEF f, g

(* One more sequence is joined at the end. *)
LEMMA ConcatGrows ==
  ASSUME NEW S, NEW n \in Nat, NEW seqs \in [1 .. n + 1 -> Seq(S)],
         NEW firsts \in [1 .. n -> Seq(S)], \A k \in 1 .. n : firsts[k] = seqs[k]
  PROVE  Concat(seqs) = Concat(firsts) \o seqs[n + 1]
  <1>1. n + 1 \in Nat
    OBVIOUS
  <1>2. PICK cat : Joins(S, n + 1, seqs, cat)
    BY <1>1, ConcatJoins
  <1>3. PICK dog : Joins(S, n, firsts, dog)
    BY ConcatJoins
  <1>4. /\ cat[0] = <<>> /\ Concat(seqs) = cat[n + 1]
        /\ \A k \in 1 .. n + 1 : cat[k] = cat[k - 1] \o seqs[k]
    BY <1>2 DEF Joins
  <1>5. /\ dog[0] = <<>> /\ Concat(firsts) = dog[n]
        /\ \A k \in 1 .. n : dog[k] = dog[k - 1] \o firsts[k]
    BY <1>3 DEF Joins
  <1>. DEFINE good == {k \in Nat : k <= n => cat[k] = dog[k]}
  <1>6. 0 \in good
    BY <1>4, <1>5
  <1>7. ASSUME NEW k \in Nat, k < n, k \in good PROVE k + 1 \in good
    <2>1. k + 1 \in 1 .. n /\ k + 1 \in 1 .. n + 1 /\ (k + 1) - 1 = k
      BY <1>7
    <2>2. cat[k] = dog[k]
      BY <1>7
    <2>3. cat[k + 1] = cat[k] \o seqs[k + 1]
      BY <1>4, <2>1
    <2>4. dog[k + 1] = dog[k] \o seqs[k + 1]
      BY <1>5, <2>1
    <2>5. firsts[k + 1] = seqs[k + 1]
      BY <2>1
    <2>6. cat[k + 1] = dog[k + 1]
      BY <2>2, <2>3, <2>4, <2>5
    <2>. QED  BY <2>6
  <1>. HIDE DEF good
  <1>8. n \in good
    <2>1. 0 .. n \subseteq good
      BY <1>6, <1>7, InductionUpTo
    <2>. QED  BY <2>1
  <1>9. cat[n] = dog[n]
    BY <1>8 DEF good
  <1>10. cat[n + 1] = cat[n] \o seqs[n + 1]
    <2>1. n + 1 \in 1 .. n + 1 /\ (n + 1) - 1 = n
      OBVIOUS
    <2>. QED  BY <1>4, <2>1
  <1>. QED  BY <1>4, <1>5, <1>9, <1>10

(* Nothing is joined to nothing. *)
LEMMA ConcatOfNone ==
  ASSUME NEW S, NEW seqs \in [1 .. 0 -> Seq(S)]
  PROVE  Concat(seqs) = <<>>
  <1>1. PICK cat : Joins(S, 0, seqs, cat)
    BY ConcatJoins
  <1>. QED  BY <1>1 DEF Joins

(* The variables among the members of a type. *)
LEMMA VariablesAreMembers ==
  ASSUME NEW types, IsCatalog(types), NEW t \in DOMAIN types
  PROVE  /\ Variables(types[t]) \in Seq(ToSet(Variables(types[t])))
         /\ ToSet(Variables(types[t])) = {m \in ToSet(types[t].members) : m.sort = "Variable"}
  <1>. DEFINE members == types[t].members
              n == Len(members)
              kept == {k \in DOMAIN members : members[k].sort = "Variable"}
              S == {m \in ToSet(members) : m.sort = "Variable"}
  <1>1. n \in Nat /\ members = [k \in 1 .. n |-> members[k]]
    BY DEF IsCatalog
  <1>2. Variables(types[t]) = Picked(members, kept)
    BY DEF Variables
  <1>. HIDE DEF members, n
  <1>3. kept \in SUBSET (1 .. n)
    BY <1>1
  <1>4. {members[p] : p \in kept} = S
    BY DEF ToSet
  <1>5. \A p \in kept : members[p] \in S
    BY <1>4
  <1>. HIDE DEF kept, S
  <1>6. ToSet(Picked(members, kept)) = S
    BY <1>1, <1>3, <1>4, PickedSet
  <1>7. Picked(members, kept) \in Seq(S)
    BY <1>1, <1>3, <1>5, PickedIsSeq
  <1>. QED  BY <1>2, <1>6, <1>7 DEF S, members

AllVariables(types) == UNION {ToSet(Variables(types[t])) : t \in DOMAIN types}

\* Down a lineage, root first.
Down(types, lineage) ==
  [k \in DOMAIN Reverse(lineage) |-> Variables(types[Reverse(lineage)[k]])]

LEMMA DownIsSeqs ==
  ASSUME NEW types, IsCatalog(types), NEW lineage \in Seq(DOMAIN types)
  PROVE  /\ Down(types, lineage) \in [1 .. Len(lineage) -> Seq(AllVariables(types))]
         /\ \A k \in 1 .. Len(lineage) :
              Down(types, lineage)[k] = Variables(types[lineage[(Len(lineage) - k) + 1]])
         /\ Declared(types, lineage) = Concat(Down(types, lineage))
  <1>. DEFINE n == Len(lineage)
              V == AllVariables(types)
  <1>1. n \in Nat /\ DOMAIN lineage = 1 .. n /\ \A k \in 1 .. n : lineage[k] \in DOMAIN types
    OBVIOUS
  <1>2. Reverse(lineage) = [k \in 1 .. n |-> lineage[(n - k) + 1]]
    BY DEF Reverse
  <1>3. ASSUME NEW t \in DOMAIN types PROVE Variables(types[t]) \in Seq(V)
    <2>1. Variables(types[t]) \in Seq(ToSet(Variables(types[t])))
      BY VariablesAreMembers
    <2>2. ToSet(Variables(types[t])) \subseteq V
      BY DEF AllVariables
    <2>. QED  BY <2>1, <2>2
  <1>4. \A k \in 1 .. n : (n - k) + 1 \in 1 .. n
    BY <1>1
  <1>5. Declared(types, lineage) = Concat(Down(types, lineage))
    BY DEF Declared, Down
  <1>6. Down(types, lineage) = [k \in 1 .. n |-> Variables(types[lineage[(n - k) + 1]])]
    <2>. HIDE DEF n
    <2>1. DOMAIN Reverse(lineage) = 1 .. n
      BY <1>2
    <2>2. \A k \in 1 .. n : Reverse(lineage)[k] = lineage[(n - k) + 1]
      BY <1>2
    <2>. QED  BY <2>1, <2>2 DEF Down
  <1>. HIDE DEF n, V
  <1>7. Down(types, lineage) \in [1 .. n -> Seq(V)]
    BY <1>1, <1>3, <1>4, <1>6
  <1>8. \A k \in 1 .. n : Down(types, lineage)[k] = Variables(types[lineage[(n - k) + 1]])
    BY <1>6
  <1>. QED  BY <1>5, <1>7, <1>8 DEF n, V

\* The ancestors of a type.
UpOf(types, t) ==
  IF types[t].parent = None THEN <<>> ELSE Lineages(types)[types[t].parent]

\* A sequence begins with t, and goes on like another.
Begins(S, L, t, up) ==
  /\ up \in Seq(S) /\ L \in Seq(S) /\ Len(up) \in Nat
  /\ DOMAIN up = 1 .. Len(up) /\ DOMAIN L = 1 .. Len(up) + 1 /\ Len(L) = Len(up) + 1
  /\ L[1] = t /\ \A k \in 1 .. Len(up) : L[k + 1] = up[k]

(* A lineage begins with its type. *)
LEMMA LineageParts ==
  ASSUME NEW types, IsCatalog(types), NEW t \in DOMAIN types
  PROVE  Begins(DOMAIN types, Lineages(types)[t], t, UpOf(types, t))
  <1>. DEFINE lineages == Lineages(types)
              p == types[t].parent
              up == UpOf(types, t)
              D == DOMAIN types
              L == lineages[t]
              s == <<t>>
  <1>1. AreLineages(types, lineages)
    BY LineageUnfolds
  <1>2. p # None => p \in D
    BY TypesAreSpace
  <1>3. up \in Seq(D)
    <2>1. p = None => up = <<>>
      BY DEF UpOf
    <2>2. p # None => up \in Seq(D)
      BY <1>1, <1>2 DEF AreLineages, UpOf
    <2>. HIDE DEF up, p, D
    <2>3. <<>> \in Seq(D)
      OBVIOUS
    <2>. QED  BY <2>1, <2>2, <2>3
  <1>4. L = <<t>> \o up
    <2>1. <<t>> \o <<>> = <<t>>
      OBVIOUS
    <2>2. CASE p = None
      <3>1. up = <<>> /\ L = <<t>>
        BY <1>1, <2>2 DEF AreLineages, UpOf
      <3>. QED  BY <2>1, <3>1
    <2>3. CASE p # None
      BY <1>1, <2>3 DEF AreLineages, UpOf
    <2>. QED  BY <2>2, <2>3
  <1>5. s \in Seq(D) /\ Len(s) = 1 /\ s[1] = t /\ L = s \o up
    BY <1>4
  <1>. HIDE DEF up, L, D, s
  <1>6. s \in Seq(D) /\ up \in Seq(D) /\ Len(up) \in Nat
    BY <1>3, <1>5
  <1>7. /\ s \o up \in Seq(D) /\ Len(s \o up) = Len(s) + Len(up)
        /\ DOMAIN (s \o up) = 1 .. Len(s) + Len(up)
    BY <1>6
  <1>8. L \in Seq(D) /\ Len(L) = Len(up) + 1 /\ DOMAIN L = 1 .. Len(up) + 1
    <2>1. Len(s) + Len(up) = Len(up) + 1
      BY <1>5, <1>6
    <2>. QED  BY <1>5, <1>7, <2>1
  <1>9. L[1] = t
    <2>1. 1 \in 1 .. Len(s)
      BY <1>5
    <2>2. (s \o up)[1] = s[1]
      BY <1>6, <2>1, Joined
    <2>. QED  BY <1>5, <2>2
  <1>10. ASSUME NEW k \in 1 .. Len(up) PROVE L[k + 1] = up[k]
    <2>1. (s \o up)[Len(s) + k] = up[k]
      BY <1>6, Joined
    <2>2. Len(s) + k = k + 1
      BY <1>5, <1>6
    <2>. QED  BY <1>5, <2>1, <2>2
  <1>11. DOMAIN up = 1 .. Len(up)
    BY <1>6
  <1>. QED  BY <1>6, <1>8, <1>9, <1>10, <1>11 DEF Begins, L, up, D

(* A type declares after its parent. *)
LEMMA DeclaredUnfolds ==
  ASSUME NEW types, IsCatalog(types), NEW t \in DOMAIN types
  PROVE  LET lineages == Lineages(types)
             p == types[t].parent
         IN /\ Declared(types, lineages[t]) \in Seq(AllVariables(types))
            /\ p = None => Declared(types, lineages[t]) = Variables(types[t])
            /\ p # None => Declared(types, lineages[t]) =
                             Declared(types, lineages[p]) \o Variables(types[t])
  <1>. DEFINE p == types[t].parent
              up == UpOf(types, t)
              V == AllVariables(types)
              n == Len(up)
              D == DOMAIN types
              L == Lineages(types)[t]
  <1>1. /\ up \in Seq(D) /\ L \in Seq(D) /\ n \in Nat /\ Len(L) = n + 1
        /\ L[1] = t /\ \A k \in 1 .. n : L[k + 1] = up[k]
    <2>1. Begins(D, L, t, up)
      BY LineageParts
    <2>. HIDE DEF up, L, D
    <2>. QED  BY <2>1 DEF Begins
  <1>. HIDE DEF up, L, p, D
  <1>. DEFINE seqs == Down(types, L)
              firsts == Down(types, up)
  <1>2. /\ firsts \in [1 .. n -> Seq(V)]
        /\ \A k \in 1 .. n : firsts[k] = Variables(types[up[(n - k) + 1]])
        /\ Declared(types, up) = Concat(firsts)
    <2>1. up \in Seq(D)
      BY <1>1
    <2>. QED  BY <2>1, DownIsSeqs DEF D
  <1>3. /\ seqs \in [1 .. n + 1 -> Seq(V)]
        /\ \A k \in 1 .. n + 1 : seqs[k] = Variables(types[L[((n + 1) - k) + 1]])
        /\ Declared(types, L) = Concat(seqs)
    <2>1. L \in Seq(D) /\ Len(L) = n + 1
      BY <1>1
    <2>2. /\ seqs \in [1 .. Len(L) -> Seq(V)]
          /\ \A k \in 1 .. Len(L) : seqs[k] = Variables(types[L[(Len(L) - k) + 1]])
          /\ Declared(types, L) = Concat(seqs)
      BY <2>1, DownIsSeqs DEF D
    <2>. HIDE DEF n, seqs, V
    <2>. QED  BY <2>1, <2>2
  <1>. HIDE DEF seqs, firsts, V, n
  <1>4. ASSUME NEW k \in 1 .. n PROVE firsts[k] = seqs[k]
    <2>1. (n - k) + 1 \in 1 .. n /\ ((n + 1) - k) + 1 = ((n - k) + 1) + 1 /\ k \in 1 .. n + 1
      BY <1>1
    <2>2. L[((n - k) + 1) + 1] = up[(n - k) + 1]
      BY <1>1, <2>1
    <2>. QED  BY <1>2, <1>3, <2>1, <2>2
  <1>5. seqs[n + 1] = Variables(types[t])
    <2>1. n + 1 \in 1 .. n + 1 /\ ((n + 1) - (n + 1)) + 1 = 1
      BY <1>1
    <2>. QED  BY <1>1, <1>3, <2>1
  <1>6. Declared(types, L) = Declared(types, up) \o Variables(types[t])
    <2>1. Concat(seqs) = Concat(firsts) \o seqs[n + 1]
      BY <1>1, <1>2, <1>3, <1>4, ConcatGrows
    <2>. QED  BY <1>2, <1>3, <1>5, <2>1
  <1>7. Declared(types, L) \in Seq(V)
    <2>1. n + 1 \in Nat
      BY <1>1
    <2>2. Concat(seqs) \in Seq(V)
      BY <1>3, <2>1, ConcatHolds
    <2>. QED  BY <1>3, <2>2
  <1>8. ASSUME p = None PROVE Declared(types, L) = Variables(types[t])
    <2>1. n = 0
      BY <1>8 DEF up, n, p, UpOf
    <2>2. Concat(firsts) = <<>>
      BY <1>2, <2>1, ConcatOfNone
    <2>3. seqs[1] \in Seq(V) /\ seqs[1] = Variables(types[t])
      BY <1>3, <1>5, <2>1
    <2>4. <<>> \o Variables(types[t]) = Variables(types[t])
      BY <2>3
    <2>. QED  BY <1>2, <1>6, <2>2, <2>4
  <1>9. p # None => up = Lineages(types)[p]
    BY DEF up, p, UpOf
  <1>. QED  BY <1>6, <1>7, <1>8, <1>9 DEF L, p, V

-----------------------------------------------------------------------------
(* The last declaration of a name. *)

Lacks(s, name) == \A k \in DOMAIN s : s[k].name # name

\* The last of the name is at k.
IsLast(s, name, k) ==
  /\ k \in DOMAIN s /\ s[k].name = name
  /\ \A j \in DOMAIN s : s[j].name = name => j <= k

\* The last of the name is one of those in `own'.
LastIsIn(s, name, own) == \E k \in DOMAIN s : IsLast(s, name, k) /\ s[k] \in own

(* What is declared at all is declared last at some place. *)
LEMMA SomeIsLast ==
  ASSUME NEW V, NEW s \in Seq(V), NEW name, ~Lacks(s, name)
  PROVE  LastIsIn(s, name, ToSet(s))
  <1>. DEFINE n == Len(s)
              named == {k \in 1 .. n : s[k].name = name}
              left == {n - k : k \in named}
  <1>1. n \in Nat /\ DOMAIN s = 1 .. n
    OBVIOUS
  <1>. HIDE DEF n
  <1>2. named # {}
    BY <1>1 DEF Lacks
  <1>3. left \in SUBSET Nat /\ left # {}
    BY <1>1, <1>2
  <1>4. PICK d \in left : \A e \in left : d <= e
    <2>. HIDE DEF left
    <2>. QED  BY <1>3, LeastNatural
  <1>5. PICK k \in named : \A j \in named : n - k <= n - j
    BY <1>4
  <1>6. \A j \in 1 .. n : s[j].name = name => j <= k
    BY <1>1, <1>5
  <1>7. k \in DOMAIN s /\ s[k].name = name /\ s[k] \in ToSet(s)
    BY <1>1, <1>5 DEF ToSet
  <1>. QED  BY <1>1, <1>6, <1>7 DEF LastIsIn, IsLast

(* What comes last stays last when others come before, and when others     *)
(* that lack the name come after.                                          *)
LEMMA LastOfJoined ==
  ASSUME NEW V, NEW s \in Seq(V), NEW t \in Seq(V), NEW name, NEW own
  PROVE  /\ Lacks(s, name) /\ Lacks(t, name) => Lacks(s \o t, name)
         /\ LastIsIn(t, name, own) => LastIsIn(s \o t, name, own)
         /\ LastIsIn(s, name, own) /\ Lacks(t, name) => LastIsIn(s \o t, name, own)
  <1>. DEFINE m == Len(s)
              n == Len(t)
              st == s \o t
  <1>1. m \in Nat /\ n \in Nat /\ DOMAIN s = 1 .. m /\ DOMAIN t = 1 .. n /\ DOMAIN st = 1 .. m + n
    OBVIOUS
  <1>2. /\ \A k \in 1 .. m : st[k] = s[k]
        /\ \A k \in 1 .. n : st[m + k] = t[k]
    BY Joined
  <1>. HIDE DEF m, n, st
  <1>3. ASSUME NEW k \in 1 .. m + n
        PROVE  \/ k \in 1 .. m /\ st[k] = s[k]
               \/ k - m \in 1 .. n /\ st[k] = t[k - m] /\ k > m
    <2>1. CASE k <= m
      BY <1>1, <1>2, <2>1
    <2>2. CASE k > m
      <3>1. k - m \in 1 .. n /\ m + (k - m) = k
        BY <1>1, <2>2
      <3>. QED  BY <1>2, <2>2, <3>1
    <2>. QED  BY <1>1, <2>1, <2>2
  <1>4. ASSUME Lacks(s, name), Lacks(t, name) PROVE Lacks(st, name)
    BY <1>1, <1>3, <1>4 DEF Lacks
  <1>5. ASSUME LastIsIn(t, name, own) PROVE LastIsIn(st, name, own)
    <2>1. PICK k \in DOMAIN t : IsLast(t, name, k) /\ t[k] \in own
      BY <1>5 DEF LastIsIn
    <2>2. k \in 1 .. n /\ m + k \in DOMAIN st /\ st[m + k] = t[k]
      BY <1>1, <1>2
    <2>3. ASSUME NEW j \in DOMAIN st, st[j].name = name PROVE j <= m + k
      <3>1. j \in 1 .. m + n
        BY <1>1
      <3>2. CASE j \in 1 .. m
        BY <1>1, <2>2, <3>2
      <3>3. CASE j - m \in 1 .. n /\ st[j] = t[j - m] /\ j > m
        <4>1. j - m <= k
          BY <1>1, <2>1, <2>3, <3>3 DEF IsLast
        <4>. QED  BY <1>1, <2>2, <3>1, <4>1
      <3>. QED  BY <1>3, <3>1, <3>2, <3>3
    <2>4. IsLast(st, name, m + k)
      BY <2>1, <2>2, <2>3 DEF IsLast
    <2>. QED  BY <2>1, <2>2, <2>4 DEF LastIsIn
  <1>6. ASSUME LastIsIn(s, name, own), Lacks(t, name) PROVE LastIsIn(st, name, own)
    <2>1. PICK k \in DOMAIN s : IsLast(s, name, k) /\ s[k] \in own
      BY <1>6 DEF LastIsIn
    <2>2. k \in 1 .. m /\ k \in DOMAIN st /\ st[k] = s[k]
      BY <1>1, <1>2
    <2>3. ASSUME NEW j \in DOMAIN st, st[j].name = name PROVE j <= k
      <3>1. j \in 1 .. m + n
        BY <1>1
      <3>2. CASE j \in 1 .. m /\ st[j] = s[j]
        BY <1>1, <2>1, <2>3, <3>2 DEF IsLast
      <3>3. CASE j - m \in 1 .. n /\ st[j] = t[j - m]
        BY <1>1, <1>6, <2>3, <3>3 DEF Lacks
      <3>. QED  BY <1>3, <3>1, <3>2, <3>3
    <2>4. IsLast(st, name, k)
      BY <2>1, <2>2, <2>3 DEF IsLast
    <2>. QED  BY <2>1, <2>2, <2>4 DEF LastIsIn
  <1>. QED  BY <1>4, <1>5, <1>6 DEF st

-----------------------------------------------------------------------------
(* The nearest ancestor that declares a name. *)

Declares(types, t, name) ==
  \E m \in ToSet(types[t].members) : m.sort = "Variable" /\ m.name = name

\* The first of the lineage that declares the name decides.
FirstDecides(types, lineage, n, name) ==
  /\ (\A k \in 1 .. n : ~Declares(types, lineage[k], name)) =>
       Nearest(types, lineage, name) = None
  /\ \A k \in 1 .. n :
       /\ Declares(types, lineage[k], name)
       /\ \A j \in 1 .. n : Declares(types, lineage[j], name) => k <= j
       => Nearest(types, lineage, name) = lineage[k]

(* It is the first of the lineage that does, if any does. *)
LEMMA NearestIsFirst ==
  ASSUME NEW types, NEW n \in Nat, NEW lineage, DOMAIN lineage = 1 .. n, NEW name
  PROVE  FirstDecides(types, lineage, n, name)
  <1>. DEFINE at == {k \in 1 .. n : Declares(types, lineage[k], name)}
              IsMin(k) == k \in at /\ \A j \in at : k <= j
  <1>1. Nearest(types, lineage, name) =
          IF at = {} THEN None ELSE lineage[CHOOSE k \in at : \A j \in at : k <= j]
    BY DEF Nearest, Declares
  <1>2. (CHOOSE k \in at : \A j \in at : k <= j) = CHOOSE k : IsMin(k)
    OBVIOUS
  <1>3. ASSUME NEW k \in at, \A j \in at : k <= j PROVE (CHOOSE i : IsMin(i)) = k
    <2>1. IsMin(k)
      BY <1>3
    <2>2. \A i : IsMin(i) => i = k
      <3>1. ASSUME NEW i, IsMin(i) PROVE i = k
        <4>1. i <= k /\ k <= i /\ i \in Nat /\ k \in Nat
          BY <1>3, <3>1
        <4>. QED  BY <4>1
      <3>. QED  BY <3>1
    <2>. HIDE DEF IsMin
    <2>. QED  BY <2>1, <2>2
  <1>. HIDE DEF IsMin
  <1>4. ASSUME NEW k \in 1 .. n, Declares(types, lineage[k], name),
               \A j \in 1 .. n : Declares(types, lineage[j], name) => k <= j
        PROVE  Nearest(types, lineage, name) = lineage[k]
    <2>1. k \in at /\ \A j \in at : k <= j
      BY <1>4
    <2>2. at # {} /\ (CHOOSE i : IsMin(i)) = k
      BY <1>3, <2>1
    <2>. HIDE DEF at
    <2>. QED  BY <1>1, <1>2, <2>2
  <1>5. ASSUME \A k \in 1 .. n : ~Declares(types, lineage[k], name)
        PROVE  Nearest(types, lineage, name) = None
    <2>1. at = {}
      BY <1>5
    <2>. HIDE DEF at
    <2>. QED  BY <1>1, <2>1
  <1>. HIDE DEF at
  <1>. QED  BY <1>4, <1>5 DEF FirstDecides

(* That is the type itself, or the one nearest to its parent.              *)
LEMMA NearestUnfolds ==
  ASSUME NEW types, IsCatalog(types), NEW t \in DOMAIN types, NEW name
  PROVE  LET L == Lineages(types)[t]
             up == UpOf(types, t)
         IN /\ Declares(types, t, name) => Nearest(types, L, name) = t
            /\ ~Declares(types, t, name) =>
                 Nearest(types, L, name) = Nearest(types, up, name)
  <1>. DEFINE L == Lineages(types)[t]
              up == UpOf(types, t)
              n == Len(up)
              D == DOMAIN types
              Has(u) == Declares(types, u, name)
  <1>1. Begins(D, L, t, up)
    BY LineageParts
  <1>. HIDE DEF L, up, D, Has
  <1>2. /\ n \in Nat /\ n + 1 \in Nat /\ DOMAIN up = 1 .. n /\ DOMAIN L = 1 .. n + 1
        /\ L[1] = t /\ \A k \in 1 .. n : L[k + 1] = up[k]
    BY <1>1 DEF Begins
  <1>. HIDE DEF n
  <1>3. /\ (\A k \in 1 .. n + 1 : ~Has(L[k])) => Nearest(types, L, name) = None
        /\ \A k \in 1 .. n + 1 :
             Has(L[k]) /\ (\A j \in 1 .. n + 1 : Has(L[j]) => k <= j) =>
               Nearest(types, L, name) = L[k]
    <2>1. FirstDecides(types, L, n + 1, name)
      BY <1>2, NearestIsFirst
    <2>. QED  BY <2>1 DEF FirstDecides, Has
  <1>4. /\ (\A k \in 1 .. n : ~Has(up[k])) => Nearest(types, up, name) = None
        /\ \A k \in 1 .. n :
             Has(up[k]) /\ (\A j \in 1 .. n : Has(up[j]) => k <= j) =>
               Nearest(types, up, name) = up[k]
    <2>1. FirstDecides(types, up, n, name)
      BY <1>2, NearestIsFirst
    <2>. QED  BY <2>1 DEF FirstDecides, Has
  <1>5. ASSUME NEW k \in 1 .. n + 1, k # 1 PROVE k - 1 \in 1 .. n /\ L[k] = up[k - 1]
    <2>1. k - 1 \in 1 .. n /\ (k - 1) + 1 = k
      BY <1>2, <1>5
    <2>. QED  BY <1>2, <2>1
  <1>6. ASSUME Has(t) PROVE Nearest(types, L, name) = t
    <2>1. 1 \in 1 .. n + 1 /\ \A j \in 1 .. n + 1 : 1 <= j
      BY <1>2
    <2>. QED  BY <1>2, <1>3, <1>6, <2>1
  <1>7. ASSUME ~Has(t) PROVE Nearest(types, L, name) = Nearest(types, up, name)
    <2>. DEFINE at == {k \in 1 .. n : Has(up[k])}
    <2>1. CASE at = {}
      <3>1. \A k \in 1 .. n : ~Has(up[k])
        BY <2>1
      <3>2. \A k \in 1 .. n + 1 : ~Has(L[k])
        BY <1>2, <1>5, <1>7, <3>1
      <3>. QED  BY <1>3, <1>4, <3>1, <3>2
    <2>2. CASE at # {}
      <3>1. PICK k \in at : \A j \in at : k <= j
        <4>1. at \in SUBSET Nat
          OBVIOUS
        <4>. HIDE DEF at
        <4>. QED  BY <2>2, <4>1, LeastNatural
      <3>2. k \in 1 .. n /\ Has(up[k]) /\ \A j \in 1 .. n : Has(up[j]) => k <= j
        BY <3>1
      <3>3. Nearest(types, up, name) = up[k]
        BY <1>4, <3>2
      <3>4. k + 1 \in 1 .. n + 1 /\ L[k + 1] = up[k]
        BY <1>2, <3>2
      <3>5. ASSUME NEW j \in 1 .. n + 1, Has(L[j]) PROVE k + 1 <= j
        <4>1. j # 1
          BY <1>2, <1>7, <3>5
        <4>2. j - 1 \in 1 .. n /\ Has(up[j - 1])
          BY <1>5, <3>5, <4>1
        <4>3. k <= j - 1
          BY <3>2, <4>2
        <4>. QED  BY <1>2, <3>2, <4>3
      <3>6. Nearest(types, L, name) = L[k + 1]
        BY <1>3, <3>2, <3>4, <3>5
      <3>. QED  BY <3>3, <3>4, <3>6
    <2>. QED  BY <2>1, <2>2
  <1>. QED  BY <1>6, <1>7 DEF L, up, Has

\* What is declared of a name tells of the nearest type that declares it.
Tells(types, t, name) ==
  LET declared == Declared(types, Lineages(types)[t])
      at == Nearest(types, Lineages(types)[t], name)
  IN /\ at = None => Lacks(declared, name)
     /\ at # None => at \in DOMAIN types /\ LastIsIn(declared, name, ToSet(Variables(types[at])))

(* The last declaration of a name along a lineage is one of the nearest    *)
(* type that declares it.                                                  *)
LEMMA DeclaredTells ==
  ASSUME NEW types, IsCatalog(types), NEW t \in DOMAIN types, NEW name
  PROVE  Tells(types, t, name)
  <1>. DEFINE D == DOMAIN types
              V == AllVariables(types)
              lineage == Lineages(types)
              S == {u \in D : Tells(types, u, name)}
  <1>1. /\ IsSpace(types) /\ None \notin D
        /\ \A u \in D : types[u].parent # None <=> types[u].parent \in D
    BY TypesAreSpace
  <1>2. ASSUME NEW u \in D, types[u].parent \in D => types[u].parent \in S PROVE u \in S
    <2>. DEFINE p == types[u].parent
                own == Variables(types[u])
                s == Declared(types, lineage[u])
                at == Nearest(types, lineage[u], name)
    <2>1. own \in Seq(V)
      <3>1. own \in Seq(ToSet(own))
        BY VariablesAreMembers
      <3>2. ToSet(own) \subseteq V
        BY DEF AllVariables
      <3>. HIDE DEF own, V
      <3>. QED  BY <3>1, <3>2
    <2>2. Declares(types, u, name) <=> ~Lacks(own, name)
      <3>1. ToSet(own) = {m \in ToSet(types[u].members) : m.sort = "Variable"}
        BY VariablesAreMembers
      <3>. HIDE DEF own
      <3>2. ~Lacks(own, name) <=> \E m \in ToSet(own) : m.name = name
        BY DEF Lacks, ToSet
      <3>. QED  BY <3>1, <3>2 DEF Declares
    <2>3. /\ p = None => s = own
          /\ p # None => s = Declared(types, lineage[p]) \o own /\ Declared(types, lineage[p]) \in Seq(V)
      <3>1. p = None => s = own
        BY DeclaredUnfolds
      <3>2. p # None => s = Declared(types, lineage[p]) \o own
        BY DeclaredUnfolds
      <3>3. p # None => Declared(types, lineage[p]) \in Seq(V)
        BY <1>1, DeclaredUnfolds
      <3>. QED  BY <3>1, <3>2, <3>3
    <2>4. /\ Declares(types, u, name) => at = u
          /\ ~Declares(types, u, name) /\ p = None => at = None
          /\ ~Declares(types, u, name) /\ p # None => at = Nearest(types, lineage[p], name)
      <3>1. /\ Declares(types, u, name) => at = u
            /\ ~Declares(types, u, name) => at = Nearest(types, UpOf(types, u), name)
        BY NearestUnfolds
      <3>2. p # None => UpOf(types, u) = lineage[p]
        BY DEF UpOf
      <3>3. p = None => Nearest(types, UpOf(types, u), name) = None
        <4>1. p = None => UpOf(types, u) = <<>>
          BY DEF UpOf
        <4>2. DOMAIN <<>> = 1 .. 0 /\ 0 \in Nat
          OBVIOUS
        <4>3. \A k \in 1 .. 0 : FALSE
          OBVIOUS
        <4>4. Nearest(types, <<>>, name) = None
          <5>1. FirstDecides(types, <<>>, 0, name)
            BY <4>2, NearestIsFirst
          <5>. QED  BY <4>3, <5>1 DEF FirstDecides
        <4>. QED  BY <4>1, <4>4
      <3>. QED  BY <3>1, <3>2, <3>3
    <2>5. Tells(types, u, name) <=>
            /\ at = None => Lacks(s, name)
            /\ at # None => at \in D /\ LastIsIn(s, name, ToSet(Variables(types[at])))
      BY DEF Tells
    <2>6. p # None => Tells(types, p, name)
      BY <1>1, <1>2
    <2>7. p # None =>
            /\ Nearest(types, lineage[p], name) = None => Lacks(Declared(types, lineage[p]), name)
            /\ Nearest(types, lineage[p], name) # None =>
                 /\ Nearest(types, lineage[p], name) \in D
                 /\ LastIsIn(Declared(types, lineage[p]), name,
                             ToSet(Variables(types[Nearest(types, lineage[p], name)])))
      BY <2>6 DEF Tells
    <2>8. CASE Declares(types, u, name)
      <3>1. LastIsIn(own, name, ToSet(own))
        BY <2>1, <2>2, <2>8, SomeIsLast
      <3>2. LastIsIn(s, name, ToSet(own))
        <4>1. CASE p = None
          BY <2>3, <3>1, <4>1
        <4>2. CASE p # None
          <5>. DEFINE before == Declared(types, lineage[p])
          <5>1. before \in Seq(V) /\ s = before \o own
            BY <2>3, <4>2
          <5>. HIDE DEF before, own, s
          <5>2. LastIsIn(before \o own, name, ToSet(own))
            BY <2>1, <3>1, <5>1, LastOfJoined
          <5>. QED  BY <5>1, <5>2
        <4>. QED  BY <4>1, <4>2
      <3>3. at = u /\ u # None
        BY <1>1, <2>4, <2>8
      <3>. HIDE DEF s, at
      <3>. QED  BY <2>5, <3>2, <3>3
    <2>9. CASE ~Declares(types, u, name)
      <3>1. Lacks(own, name)
        BY <2>2, <2>9
      <3>2. CASE p = None
        <4>1. at = None /\ s = own
          BY <2>3, <2>4, <2>9, <3>2
        <4>. HIDE DEF s, at, own
        <4>. QED  BY <2>5, <3>1, <4>1
      <3>3. CASE p # None
        <4>. DEFINE before == Declared(types, lineage[p])
        <4>1. before \in Seq(V) /\ s = before \o own /\ at = Nearest(types, lineage[p], name)
          BY <2>3, <2>4, <2>9, <3>3
        <4>2. /\ at = None => Lacks(before, name)
              /\ at # None => at \in D /\ LastIsIn(before, name, ToSet(Variables(types[at])))
          BY <2>7, <3>3, <4>1
        <4>. HIDE DEF before, own, s, at
        <4>3. Lacks(before, name) => Lacks(s, name)
          BY <2>1, <3>1, <4>1, LastOfJoined
        <4>4. ASSUME NEW from, LastIsIn(before, name, from) PROVE LastIsIn(s, name, from)
          BY <2>1, <3>1, <4>1, <4>4, LastOfJoined
        <4>. QED  BY <2>5, <4>2, <4>3, <4>4
      <3>. QED  BY <3>2, <3>3
    <2>. QED  BY <2>8, <2>9
  <1>. HIDE DEF S
  <1>3. t \in S
    BY <1>1, <1>2, FromTheTop
  <1>. QED  BY <1>3 DEF S

(* A schema tells of a name what its last declaration says.                *)
LEMMA SchemaOfLast ==
  ASSUME NEW V, NEW s \in Seq(V), NEW name
  PROVE  /\ name \in DOMAIN SchemaOf(s).properties <=> ~Lacks(s, name)
         /\ \A k : IsLast(s, name, k) =>
              SchemaOf(s).properties[name] = SchemaForMember(s[k])
  <1>. DEFINE names == {s[k].name : k \in DOMAIN s}
              last(x) == CHOOSE k \in DOMAIN s :
                           /\ s[k].name = x
                           /\ \A j \in DOMAIN s : s[j].name = x => j <= k
  <1>1. SchemaOf(s).properties = [x \in names |-> SchemaForMember(s[last(x)])]
    BY DEF SchemaOf
  <1>2. name \in names <=> ~Lacks(s, name)
    BY DEF Lacks
  <1>3. ASSUME NEW k, IsLast(s, name, k) PROVE last(name) = k
    <2>1. last(name) = CHOOSE i : IsLast(s, name, i)
      BY DEF IsLast
    <2>2. ASSUME NEW i, IsLast(s, name, i) PROVE i = k
      <3>1. i \in DOMAIN s /\ k \in DOMAIN s /\ i <= k /\ k <= i
        BY <1>3, <2>2 DEF IsLast
      <3>2. i \in Nat /\ k \in Nat
        BY <3>1
      <3>. QED  BY <3>1, <3>2
    <2>. HIDE DEF last
    <2>. QED  BY <1>3, <2>1, <2>2
  <1>4. ASSUME NEW k, IsLast(s, name, k) PROVE name \in names
    BY <1>4 DEF IsLast
  <1>. HIDE DEF names, last
  <1>. QED  BY <1>1, <1>2, <1>3, <1>4

(* What is required is a property. *)
LEMMA RequiredAreProperties ==
  ASSUME NEW s
  PROVE  SchemaOf(s).required \subseteq DOMAIN SchemaOf(s).properties
  <1>1. /\ DOMAIN SchemaOf(s).properties = {s[k].name : k \in DOMAIN s}
        /\ SchemaOf(s).required = {s[k].name : k \in {j \in DOMAIN s :
             s[j].rule \in {"Mandatory", "MandatoryPlaceholder"}}}
    BY DEF SchemaOf
  <1>. QED  BY <1>1

(* The schema of a type has the properties that its lineage declares, each *)
(* as the nearest type declares it.                                        *)
LEMMA SchemaTells ==
  ASSUME NEW types, IsCatalog(types), NEW t \in DOMAIN types, NEW name
  PROVE  LET schema == BuildAllSchemas(types)[t]
             at == Nearest(types, Lineages(types)[t], name)
         IN /\ at # None <=> name \in DOMAIN schema.properties
            /\ at # None =>
                 \E m \in ToSet(types[at].members) :
                   /\ m.sort = "Variable" /\ m.name = name
                   /\ schema.properties[name] = SchemaForMember(m)
            /\ schema.required \subseteq DOMAIN schema.properties
  <1>. DEFINE s == Declared(types, Lineages(types)[t])
              schema == BuildAllSchemas(types)[t]
              at == Nearest(types, Lineages(types)[t], name)
              V == AllVariables(types)
  <1>1. schema = SchemaOf(s)
    BY DEF BuildAllSchemas
  <1>2. s \in Seq(V)
    BY DeclaredUnfolds
  <1>3. /\ at = None => Lacks(s, name)
        /\ at # None => at \in DOMAIN types /\ LastIsIn(s, name, ToSet(Variables(types[at])))
    BY DeclaredTells DEF Tells
  <1>. HIDE DEF schema, s, at, V
  <1>4. schema.required \subseteq DOMAIN schema.properties
    BY <1>1, RequiredAreProperties
  <1>5. name \in DOMAIN schema.properties <=> ~Lacks(s, name)
    BY <1>1, <1>2, SchemaOfLast
  <1>6. ASSUME at # None
        PROVE  /\ ~Lacks(s, name)
               /\ \E m \in ToSet(types[at].members) :
                    /\ m.sort = "Variable" /\ m.name = name
                    /\ schema.properties[name] = SchemaForMember(m)
    <2>1. PICK k \in DOMAIN s : IsLast(s, name, k) /\ s[k] \in ToSet(Variables(types[at]))
      BY <1>3, <1>6 DEF LastIsIn
    <2>2. ToSet(Variables(types[at])) = {m \in ToSet(types[at].members) : m.sort = "Variable"}
      BY <1>3, <1>6, VariablesAreMembers
    <2>3. schema.properties[name] = SchemaForMember(s[k])
      BY <1>1, <1>2, <2>1, SchemaOfLast
    <2>4. s[k].name = name /\ ~Lacks(s, name)
      BY <2>1 DEF IsLast, Lacks
    <2>. QED  BY <2>1, <2>2, <2>3, <2>4
  <1>. QED  BY <1>3, <1>4, <1>5, <1>6 DEF schema, at

-----------------------------------------------------------------------------
(* What two catalogs have in common. *)

\* Two sequences correspond, element by element.
Match(R, s, t) ==
  /\ Len(s) = Len(t)
  /\ \A k \in 1 .. Len(s) : <<s[k], t[k]>> \in R

(* Sequences that correspond one by one are joined to ones that do.        *)
LEMMA ConcatMatches ==
  ASSUME NEW R, NEW S, NEW n \in Nat, NEW a \in [1 .. n -> Seq(S)], NEW b \in [1 .. n -> Seq(S)],
         \A k \in 1 .. n : Match(R, a[k], b[k])
  PROVE  Match(R, Concat(a), Concat(b))
  <1>1. ASSUME NEW s \in Seq(S), NEW t \in Seq(S), NEW v \in Seq(S), NEW w \in Seq(S),
               Match(R, s, v), Match(R, t, w)
        PROVE  Match(R, s \o t, v \o w)
    <2>1. /\ Len(s) \in Nat /\ Len(t) \in Nat
          /\ Len(s \o t) = Len(s) + Len(t) /\ Len(v \o w) = Len(v) + Len(w)
      OBVIOUS
    <2>2. Len(v) = Len(s) /\ Len(w) = Len(t)
      BY <1>1 DEF Match
    <2>3. /\ \A k \in 1 .. Len(s) : (s \o t)[k] = s[k]
          /\ \A k \in 1 .. Len(t) : (s \o t)[Len(s) + k] = t[k]
      BY Joined
    <2>4. /\ \A k \in 1 .. Len(v) : (v \o w)[k] = v[k]
          /\ \A k \in 1 .. Len(w) : (v \o w)[Len(v) + k] = w[k]
      BY Joined
    <2>5. ASSUME NEW k \in 1 .. Len(s) + Len(t) PROVE <<(s \o t)[k], (v \o w)[k]>> \in R
      <3>1. CASE k <= Len(s)
        <4>1. k \in 1 .. Len(s)
          BY <2>1, <3>1
        <4>2. (s \o t)[k] = s[k] /\ (v \o w)[k] = v[k]
          BY <2>2, <2>3, <2>4, <4>1
        <4>. QED  BY <1>1, <4>1, <4>2 DEF Match
      <3>2. CASE ~ (k <= Len(s))
        <4>. DEFINE j == k - Len(s)
        <4>1. j \in 1 .. Len(t) /\ Len(s) + j = k
          BY <2>1, <3>2
        <4>. HIDE DEF j
        <4>2. (s \o t)[k] = t[j] /\ (v \o w)[k] = w[j]
          BY <2>2, <2>3, <2>4, <4>1
        <4>. QED  BY <1>1, <4>1, <4>2 DEF Match
      <3>. QED  BY <3>1, <3>2
    <2>. QED  BY <2>1, <2>2, <2>5 DEF Match
  <1>2. PICK cat : Joins(S, n, a, cat)
    BY ConcatJoins
  <1>3. PICK dog : Joins(S, n, b, dog)
    BY ConcatJoins
  <1>4. /\ cat[0] = <<>> /\ Concat(a) = cat[n]
        /\ \A k \in 0 .. n : cat[k] \in Seq(S)
        /\ \A k \in 1 .. n : cat[k] = cat[k - 1] \o a[k]
    BY <1>2 DEF Joins
  <1>5. /\ dog[0] = <<>> /\ Concat(b) = dog[n]
        /\ \A k \in 0 .. n : dog[k] \in Seq(S)
        /\ \A k \in 1 .. n : dog[k] = dog[k - 1] \o b[k]
    BY <1>3 DEF Joins
  <1>. DEFINE good == {k \in Nat : k <= n => Match(R, cat[k], dog[k])}
  <1>6. 0 \in good
    <2>1. Match(R, <<>>, <<>>)
      BY DEF Match
    <2>. QED  BY <1>4, <1>5, <2>1
  <1>7. ASSUME NEW k \in Nat, k < n, k \in good PROVE k + 1 \in good
    <2>1. k + 1 \in 1 .. n /\ (k + 1) - 1 = k /\ k \in 0 .. n /\ k <= n
      BY <1>7
    <2>2. Match(R, cat[k], dog[k]) /\ Match(R, a[k + 1], b[k + 1])
      BY <1>7, <2>1
    <2>3. cat[k] \in Seq(S) /\ dog[k] \in Seq(S) /\ a[k + 1] \in Seq(S) /\ b[k + 1] \in Seq(S)
      BY <1>4, <1>5, <2>1
    <2>4. Match(R, cat[k] \o a[k + 1], dog[k] \o b[k + 1])
      BY <1>1, <2>2, <2>3
    <2>5. cat[k + 1] = cat[k] \o a[k + 1] /\ dog[k + 1] = dog[k] \o b[k + 1]
      BY <1>4, <1>5, <2>1
    <2>6. Match(R, cat[k + 1], dog[k + 1])
      BY <2>4, <2>5
    <2>. QED  BY <2>6
  <1>. HIDE DEF good
  <1>8. n \in good
    <2>1. 0 .. n \subseteq good
      BY <1>6, <1>7, InductionUpTo
    <2>. QED  BY <2>1
  <1>. QED  BY <1>4, <1>5, <1>8 DEF good

(* What is picked at the same positions corresponds, if what stands there  *)
(* does.                                                                   *)
LEMMA PickedMatches ==
  ASSUME NEW n \in Nat, NEW kept \in SUBSET (1 .. n), NEW s, NEW t, NEW R,
         \A p \in kept : <<s[p], t[p]>> \in R
  PROVE  Match(R, Picked(s, kept), Picked(t, kept))
  <1>. DEFINE size == Cardinality(kept)
              at(k) == CHOOSE p \in kept : Rank(kept, p) = k - 1
  <1>1. /\ Picked(s, kept) = [k \in 1 .. size |-> s[at(k)]]
        /\ Picked(t, kept) = [k \in 1 .. size |-> t[at(k)]]
    BY DEF Picked, Rank
  <1>2. \A k \in 1 .. size : at(k) \in kept
    BY RanksAreOwn
  <1>3. size \in Nat
    BY RanksAreOwn
  <1>. HIDE DEF at, size
  <1>4. Len(Picked(s, kept)) = size /\ Len(Picked(t, kept)) = size
    BY <1>1, <1>3
  <1>5. ASSUME NEW k \in 1 .. size PROVE <<Picked(s, kept)[k], Picked(t, kept)[k]>> \in R
    <2>1. Picked(s, kept)[k] = s[at(k)] /\ Picked(t, kept)[k] = t[at(k)]
      BY <1>1
    <2>. QED  BY <1>2, <2>1
  <1>. QED  BY <1>4, <1>5 DEF Match

\* Types of two catalogs: variables correspond, all along a lineage.
LineMatches(R, types, others, lineage) ==
  \A k \in DOMAIN lineage :
    Match(R, Variables(types[lineage[k]]), Variables(others[lineage[k]]))

(* Then what is declared along it corresponds.                             *)
LEMMA DeclaredMatches ==
  ASSUME NEW R, NEW types, IsCatalog(types), NEW others, IsCatalog(others),
         DOMAIN types = DOMAIN others, NEW lineage \in Seq(DOMAIN types),
         LineMatches(R, types, others, lineage)
  PROVE  Match(R, Declared(types, lineage), Declared(others, lineage))
  <1>. DEFINE n == Len(lineage)
              V == AllVariables(types)
              W == AllVariables(others)
              S == V \cup W
              a == Down(types, lineage)
              b == Down(others, lineage)
  <1>1. n \in Nat /\ DOMAIN lineage = 1 .. n
    OBVIOUS
  <1>2. /\ a \in [1 .. n -> Seq(V)]
        /\ \A k \in 1 .. n : a[k] = Variables(types[lineage[(n - k) + 1]])
        /\ Declared(types, lineage) = Concat(a)
    BY DownIsSeqs
  <1>3. lineage \in Seq(DOMAIN others)
    OBVIOUS
  <1>4. /\ b \in [1 .. n -> Seq(W)]
        /\ \A k \in 1 .. n : b[k] = Variables(others[lineage[(n - k) + 1]])
        /\ Declared(others, lineage) = Concat(b)
    BY <1>3, DownIsSeqs
  <1>. HIDE DEF n, V, W, a, b
  <1>5. Seq(V) \subseteq Seq(S) /\ Seq(W) \subseteq Seq(S)
    OBVIOUS
  <1>. HIDE DEF S
  <1>6. a \in [1 .. n -> Seq(S)] /\ b \in [1 .. n -> Seq(S)]
    BY <1>2, <1>4, <1>5
  <1>7. ASSUME NEW k \in 1 .. n PROVE Match(R, a[k], b[k])
    <2>1. (n - k) + 1 \in DOMAIN lineage
      BY <1>1
    <2>. QED  BY <1>2, <1>4, <2>1 DEF LineMatches
  <1>8. Match(R, Concat(a), Concat(b))
    BY <1>1, <1>6, <1>7, ConcatMatches
  <1>. QED  BY <1>2, <1>4, <1>8

-----------------------------------------------------------------------------
(* What a failing call costs. *)

\* The types of two catalogs stand at the same places.
SameTypes(types, others) ==
  /\ DOMAIN types = DOMAIN others
  /\ \A t \in DOMAIN types :
       /\ types[t].parent = others[t].parent
       /\ types[t].name = others[t].name /\ types[t].node = others[t].node

(* A type has the fields it is made of. *)
LEMMA TypeFields ==
  ASSUME NEW parent, NEW name, NEW node, NEW members
  PROVE  LET type == Type(parent, name, node, members)
         IN type.parent = parent /\ type.name = name /\ type.node = node /\ type.members = members
  BY DEF Type

\* The names of a type are what a browse finds, and its node id is its own.
AreNamed(types, t) ==
  /\ types[t].name = BrowseName(types[t].name.ns, types[t].name.text)
  /\ types[t].node = NodeId(types[t].node.ns, types[t].node.identifier)
  /\ \A u \in DOMAIN types : types[t].node = types[u].node => t = u

LEMMA NamesOfTypes ==
  ASSUME NEW types, IsCatalog(types), NEW t \in DOMAIN types
  PROVE  AreNamed(types, t)
  BY DEF IsCatalog, AreNamed

LEMMA SameNames ==
  ASSUME NEW types, NEW others, SameTypes(others, types), NEW t \in DOMAIN types,
         AreNamed(types, t)
  PROVE  AreNamed(others, t)
  BY DEF SameTypes, AreNamed

(* A fetch that is answered yields all types, each with the members read.  *)
LEMMA GotTypes ==
  ASSUME NEW types, IsCatalog(types), NEW adapter, NEW faults,
         GetObjectTypes(adapter, types, faults) # None
  PROVE  LET got == GetObjectTypes(adapter, types, faults)
         IN /\ IsCatalog(got) /\ SameTypes(got, types)
            /\ \A t \in DOMAIN types : got[t].members = MembersRead(types, t, faults)
  <1>. DEFINE got == GetObjectTypes(adapter, types, faults)
              read(t) == MembersRead(types, t, faults)
              D == DOMAIN types
  <1>1. got = [t \in D |-> [types[t] EXCEPT !.members = read(t)]]
    BY DEF GetObjectTypes
  <1>2. /\ Len(types) \in Nat /\ D = 1 .. Len(types)
        /\ \A t \in D : /\ types[t] = Type(types[t].parent, types[t].name, types[t].node,
                                           types[t].members)
                        /\ types[t].parent \in 1 .. t - 1 \cup {None}
    BY DEF IsCatalog
  <1>a. \A t \in D : AreNamed(types, t)
    BY NamesOfTypes
  <1>3. ASSUME NEW t \in D
        PROVE  /\ Len(read(t)) \in Nat /\ read(t) = [k \in 1 .. Len(read(t)) |-> read(t)[k]]
               /\ \A k \in DOMAIN read(t) : IsMember(read(t)[k])
    <2>. DEFINE members == types[t].members
                seen(m) == Member(m.name, m.sort,
                  IF m.sort # "Variable" \/ Fault(t, "data") \in faults THEN None ELSE m.data,
                  m.sort = "Variable" /\ Fault(t, "data") \notin faults /\ m.array,
                  IF Fault(t, "rules") \in faults THEN None ELSE m.rule)
    <2>1. read(t) = IF Std(types[t]) \/ Fault(t, "browse") \in faults THEN <<>>
                    ELSE [k \in DOMAIN members |-> seen(members[k])]
      BY DEF MembersRead
    <2>2. Len(members) \in Nat /\ DOMAIN members = 1 .. Len(members)
      BY DEF IsCatalog
    <2>3. \A m : IsMember(seen(m))
      BY DEF IsMember, Member
    <2>. HIDE DEF seen, read, members
    <2>4. CASE Std(types[t]) \/ Fault(t, "browse") \in faults
      BY <2>1, <2>4
    <2>5. CASE ~ (Std(types[t]) \/ Fault(t, "browse") \in faults)
      <3>1. read(t) = [k \in 1 .. Len(members) |-> seen(members[k])]
        BY <2>1, <2>2, <2>5
      <3>. QED  BY <2>2, <2>3, <3>1
    <2>. QED  BY <2>4, <2>5
  <1>. HIDE DEF read, got
  <1>4. DOMAIN got = D /\ Len(got) = Len(types)
    BY <1>1, <1>2
  <1>5. \A t \in D : got[t] = Type(types[t].parent, types[t].name, types[t].node, read(t))
    BY <1>1, <1>2 DEF Type
  <1>6. \A t \in D : /\ got[t].parent = types[t].parent /\ got[t].name = types[t].name
                     /\ got[t].node = types[t].node /\ got[t].members = read(t)
    BY <1>5, TypeFields
  <1>b. SameTypes(got, types)
    BY <1>4, <1>6 DEF SameTypes
  <1>c. \A t \in D : AreNamed(got, t)
    BY <1>a, <1>b, SameNames
  <1>7. IsCatalog(got)
    <2>1. got = [t \in 1 .. Len(got) |-> got[t]]
      BY <1>1, <1>2, <1>4
    <2>2. ASSUME NEW t \in D
          PROVE  LET members == got[t].members
                 IN /\ got[t] = Type(got[t].parent, got[t].name, got[t].node, members)
                    /\ got[t].parent \in 1 .. t - 1 \cup {None}
                    /\ Len(members) \in Nat /\ members = [k \in 1 .. Len(members) |-> members[k]]
                    /\ \A k \in DOMAIN members : IsMember(members[k])
      <3>1. got[t] = Type(got[t].parent, got[t].name, got[t].node, got[t].members)
        BY <1>5, <1>6
      <3>2. got[t].parent \in 1 .. t - 1 \cup {None}
        BY <1>2, <1>6
      <3>. QED  BY <1>3, <1>6, <3>1, <3>2
    <2>. QED  BY <1>2, <1>4, <1>c, <2>1, <2>2 DEF IsCatalog, AreNamed
  <1>. QED  BY <1>6, <1>7, <1>b DEF got, read

(* So it is with the types whose standard ones have no members.            *)
LEMMA CleanTypes ==
  ASSUME NEW types, IsCatalog(types)
  PROVE  LET clean == NoStandardMembers(types)
         IN /\ IsCatalog(clean) /\ SameTypes(clean, types)
            /\ \A t \in DOMAIN types :
                 /\ Std(types[t]) => clean[t].members = <<>>
                 /\ ~Std(types[t]) => clean[t].members = types[t].members
  <1>. DEFINE clean == NoStandardMembers(types)
              D == DOMAIN types
  <1>1. clean = [t \in D |-> IF Std(types[t]) THEN [types[t] EXCEPT !.members = <<>>]
                             ELSE types[t]]
    BY DEF NoStandardMembers
  <1>2. /\ Len(types) \in Nat /\ D = 1 .. Len(types)
        /\ \A t \in D :
             LET members == types[t].members
             IN /\ types[t] = Type(types[t].parent, types[t].name, types[t].node, members)
                /\ types[t].parent \in 1 .. t - 1 \cup {None}
                /\ Len(members) \in Nat /\ members = [k \in 1 .. Len(members) |-> members[k]]
                /\ \A k \in DOMAIN members : IsMember(members[k])
    BY DEF IsCatalog
  <1>a. \A t \in D : AreNamed(types, t)
    BY NamesOfTypes
  <1>. HIDE DEF clean
  <1>3. DOMAIN clean = D /\ Len(clean) = Len(types)
    BY <1>1, <1>2
  <1>4. \A t \in D : /\ Std(types[t]) => clean[t] = [types[t] EXCEPT !.members = <<>>]
                     /\ ~Std(types[t]) => clean[t] = types[t]
    BY <1>1
  <1>5. \A t \in D : Std(types[t]) =>
          clean[t] = Type(types[t].parent, types[t].name, types[t].node, <<>>)
    BY <1>2, <1>4 DEF Type
  <1>6. ASSUME NEW t \in D
        PROVE  /\ clean[t].parent = types[t].parent /\ clean[t].name = types[t].name
               /\ clean[t].node = types[t].node
               /\ Std(types[t]) => clean[t].members = <<>>
               /\ ~Std(types[t]) => clean[t].members = types[t].members
    <2>1. CASE Std(types[t])
      <3>1. clean[t] = Type(types[t].parent, types[t].name, types[t].node, <<>>)
        BY <1>5, <2>1
      <3>2. /\ clean[t].parent = types[t].parent /\ clean[t].name = types[t].name
            /\ clean[t].node = types[t].node /\ clean[t].members = <<>>
        BY <3>1, TypeFields
      <3>. QED  BY <2>1, <3>2
    <2>2. CASE ~Std(types[t])
      BY <1>4, <2>2
    <2>. QED  BY <2>1, <2>2
  <1>b. SameTypes(clean, types)
    BY <1>3, <1>6 DEF SameTypes
  <1>c. \A t \in D : AreNamed(clean, t)
    BY <1>a, <1>b, SameNames
  <1>7. IsCatalog(clean)
    <2>1. clean = [t \in 1 .. Len(clean) |-> clean[t]]
      BY <1>1, <1>2, <1>3
    <2>2. ASSUME NEW t \in D
          PROVE  LET members == clean[t].members
                 IN /\ clean[t] = Type(clean[t].parent, clean[t].name, clean[t].node, members)
                    /\ clean[t].parent \in 1 .. t - 1 \cup {None}
                    /\ Len(members) \in Nat /\ members = [k \in 1 .. Len(members) |-> members[k]]
                    /\ \A k \in DOMAIN members : IsMember(members[k])
      <3>1. CASE Std(types[t])
        <4>1. clean[t].members = <<>> /\ clean[t].parent = types[t].parent
          BY <1>6, <3>1
        <4>2. clean[t] = Type(clean[t].parent, clean[t].name, clean[t].node, clean[t].members)
          BY <1>5, <1>6, <3>1
        <4>3. /\ Len(<<>>) \in Nat /\ <<>> = [k \in 1 .. Len(<<>>) |-> <<>>[k]]
              /\ \A k \in DOMAIN <<>> : IsMember(<<>>[k])
          OBVIOUS
        <4>4. clean[t].parent \in 1 .. t - 1 \cup {None}
          BY <1>2, <4>1
        <4>. QED  BY <4>1, <4>2, <4>3, <4>4
      <3>2. CASE ~Std(types[t])
        <4>1. clean[t] = types[t]
          BY <1>4, <3>2
        <4>. QED  BY <1>2, <4>1
      <3>. QED  BY <3>1, <3>2
    <2>. QED  BY <1>2, <1>3, <1>c, <2>1, <2>2 DEF IsCatalog, AreNamed
  <1>. QED  BY <1>6, <1>7, <1>b DEF clean

\* What is read of a member of type t.
Seen(t, m, faults) ==
  Member(m.name, m.sort,
    IF m.sort # "Variable" \/ Fault(t, "data") \in faults THEN None ELSE m.data,
    m.sort = "Variable" /\ Fault(t, "data") \notin faults /\ m.array,
    IF Fault(t, "rules") \in faults THEN None ELSE m.rule)

(* What is read of a member has its name and its sort. *)
LEMMA SeenNames ==
  ASSUME NEW t, NEW m, NEW faults
  PROVE  Seen(t, m, faults).name = m.name /\ Seen(t, m, faults).sort = m.sort
  BY DEF Seen, Member

(* So has it its data type and rank, when they can be read; it is all of   *)
(* the member when nothing fails.                                          *)
LEMMA SeenTells ==
  ASSUME NEW t, NEW m, IsMember(m), NEW faults
  PROVE  LET seen == Seen(t, m, faults)
         IN /\ IsMember(seen) /\ seen.name = m.name /\ seen.sort = m.sort
            /\ m.sort = "Variable" /\ Fault(t, "data") \notin faults =>
                 SchemaForMember(seen) = SchemaForMember(m)
            /\ m.sort = "Variable" /\ Fault(t, "data") \notin faults
                 /\ Fault(t, "rules") \notin faults => seen = m
  <1>. DEFINE data == IF m.sort # "Variable" \/ Fault(t, "data") \in faults THEN None ELSE m.data
              array == m.sort = "Variable" /\ Fault(t, "data") \notin faults /\ m.array
              rule == IF Fault(t, "rules") \in faults THEN None ELSE m.rule
              seen == Seen(t, m, faults)
  <1>1. seen = Member(m.name, m.sort, data, array, rule)
    BY DEF Seen
  <1>2. array \in BOOLEAN
    OBVIOUS
  <1>3. m.sort = "Variable" /\ Fault(t, "data") \notin faults => data = m.data /\ array = m.array
    <2>1. m.array \in BOOLEAN
      BY DEF IsMember
    <2>. QED  BY <2>1
  <1>4. Fault(t, "rules") \notin faults => rule = m.rule
    OBVIOUS
  <1>5. m = Member(m.name, m.sort, m.data, m.array, m.rule)
    BY DEF IsMember
  <1>. HIDE DEF data, array, rule, seen
  <1>6. /\ seen.name = m.name /\ seen.sort = m.sort /\ seen.data = data /\ seen.array = array
        /\ seen.rule = rule
    BY <1>1 DEF Member
  <1>7. IsMember(seen)
    BY <1>1, <1>2, <1>6 DEF IsMember
  <1>8. m.sort = "Variable" /\ Fault(t, "data") \notin faults =>
          SchemaForMember(seen) = SchemaForMember(m)
    BY <1>3, <1>6 DEF SchemaForMember
  <1>9. m.sort = "Variable" /\ Fault(t, "data") \notin faults /\ Fault(t, "rules") \notin faults =>
          seen = m
    BY <1>1, <1>3, <1>4, <1>5
  <1>. QED  BY <1>6, <1>7, <1>8, <1>9 DEF seen

(* The variables of a type that can be browsed correspond to those it has, *)
(* if what is read of each does.                                           *)
LEMMA VariablesMatch ==
  ASSUME NEW types, IsCatalog(types), NEW adapter, NEW faults,
         GetObjectTypes(adapter, types, faults) # None,
         NEW t \in DOMAIN types, NEW R,
         Std(types[t]) \/ Fault(t, "browse") \notin faults,
         \A m \in ToSet(types[t].members) :
           ~Std(types[t]) /\ m.sort = "Variable" => <<Seen(t, m, faults), m>> \in R
  PROVE  Match(R, Variables(GetObjectTypes(adapter, types, faults)[t]),
               Variables(NoStandardMembers(types)[t]))
  <1>. DEFINE got == GetObjectTypes(adapter, types, faults)
              clean == NoStandardMembers(types)
              members == types[t].members
              a == got[t].members
              b == clean[t].members
              keptA == {k \in DOMAIN a : a[k].sort = "Variable"}
              keptB == {k \in DOMAIN b : b[k].sort = "Variable"}
  <1>1. Variables(got[t]) = Picked(a, keptA) /\ Variables(clean[t]) = Picked(b, keptB)
    BY DEF Variables
  <1>2. a = MembersRead(types, t, faults)
    BY GotTypes
  <1>3. (Std(types[t]) => b = <<>>) /\ (~Std(types[t]) => b = members)
    BY CleanTypes
  <1>4. Len(members) \in Nat /\ DOMAIN members = 1 .. Len(members)
        /\ \A k \in DOMAIN members : IsMember(members[k])
    BY DEF IsCatalog
  <1>5. CASE Std(types[t])
    <2>1. a = <<>> /\ b = <<>>
      BY <1>2, <1>3, <1>5 DEF MembersRead
    <2>2. keptA = {} /\ keptB = {}
      BY <2>1
    <2>. HIDE DEF a, b, keptA, keptB
    <2>3. Match(R, Picked(a, {}), Picked(b, {}))
      BY PickedMatches
    <2>. QED  BY <1>1, <2>2, <2>3
  <1>6. CASE ~Std(types[t])
    <2>1. a = [k \in DOMAIN members |-> Seen(t, members[k], faults)] /\ b = members
      BY <1>2, <1>3, <1>6 DEF MembersRead, Seen
    <2>. HIDE DEF a, b, members
    <2>2. DOMAIN a = 1 .. Len(members) /\ DOMAIN b = 1 .. Len(members)
          /\ \A k \in 1 .. Len(members) : a[k].sort = b[k].sort
      <3>1. ASSUME NEW k \in 1 .. Len(members) PROVE a[k].sort = b[k].sort
        <4>1. a[k] = Seen(t, members[k], faults) /\ b[k] = members[k]
          BY <1>4, <2>1
        <4>2. Seen(t, members[k], faults).sort = members[k].sort
          BY SeenNames
        <4>. QED  BY <4>1, <4>2
      <3>. QED  BY <1>4, <2>1, <3>1
    <2>3. keptA = keptB /\ keptA \in SUBSET (1 .. Len(members))
      BY <2>2
    <2>4. ASSUME NEW k \in keptA PROVE <<a[k], b[k]>> \in R
      <3>1. k \in 1 .. Len(members) /\ members[k].sort = "Variable"
        BY <2>1, <2>2, <2>3, <2>4
      <3>2. members[k] \in ToSet(members)
        BY <1>4, <3>1 DEF ToSet
      <3>3. <<Seen(t, members[k], faults), members[k]>> \in R
        BY <1>6, <3>1, <3>2 DEF members
      <3>. QED  BY <1>4, <2>1, <3>1, <3>3
    <2>. HIDE DEF keptA, keptB
    <2>5. Match(R, Picked(a, keptA), Picked(b, keptA))
      BY <1>4, <2>3, <2>4, PickedMatches
    <2>. QED  BY <1>1, <2>3, <2>5
  <1>. QED  BY <1>5, <1>6

\* Variables that are browsed along a lineage: what is read of one, and the one.
Reads(types, lineage, faults) ==
  {<<Seen(x[1], x[2], faults), x[2]>> : x \in
     {y \in ToSet(lineage) \X UNION {ToSet(types[u].members) : u \in ToSet(lineage)} :
        y[2] \in ToSet(types[y[1]].members) /\ ~Std(types[y[1]]) /\ y[2].sort = "Variable"}}

\* All types of the lineage can be browsed.
AreBrowsed(types, lineage, faults) ==
  \A u \in ToSet(lineage) : Std(types[u]) \/ Fault(u, "browse") \notin faults

(* What is declared along a lineage corresponds to what is read of it.     *)
LEMMA DeclaredIsRead ==
  ASSUME NEW types, IsCatalog(types), NEW adapter, NEW faults,
         GetObjectTypes(adapter, types, faults) # None,
         NEW lineage \in Seq(DOMAIN types), AreBrowsed(types, lineage, faults)
  PROVE  Match(Reads(types, lineage, faults),
               Declared(GetObjectTypes(adapter, types, faults), lineage),
               Declared(NoStandardMembers(types), lineage))
  <1>. DEFINE got == GetObjectTypes(adapter, types, faults)
              clean == NoStandardMembers(types)
              R == Reads(types, lineage, faults)
  <1>1. IsCatalog(got) /\ DOMAIN got = DOMAIN types
    BY GotTypes DEF SameTypes
  <1>2. IsCatalog(clean) /\ DOMAIN clean = DOMAIN types
    BY CleanTypes DEF SameTypes
  <1>3. ASSUME NEW k \in DOMAIN lineage
        PROVE  Match(R, Variables(got[lineage[k]]), Variables(clean[lineage[k]]))
    <2>. DEFINE u == lineage[k]
    <2>1. u \in DOMAIN types /\ u \in ToSet(lineage)
      BY DEF ToSet
    <2>2. Std(types[u]) \/ Fault(u, "browse") \notin faults
      BY <2>1 DEF AreBrowsed
    <2>3. ASSUME NEW m \in ToSet(types[u].members), ~Std(types[u]) /\ m.sort = "Variable"
          PROVE  <<Seen(u, m, faults), m>> \in R
      <3>. DEFINE x == <<u, m>>
                  Y == {y \in ToSet(lineage) \X UNION {ToSet(types[v].members) : v \in ToSet(lineage)} :
                          y[2] \in ToSet(types[y[1]].members) /\ ~Std(types[y[1]])
                          /\ y[2].sort = "Variable"}
      <3>1. x[1] = u /\ x[2] = m /\ x \in Y
        BY <2>1, <2>3
      <3>2. R = {<<Seen(y[1], y[2], faults), y[2]>> : y \in Y}
        BY DEF Reads
      <3>. HIDE DEF x, Y, R
      <3>. QED  BY <3>1, <3>2
    <2>. HIDE DEF u, R
    <2>4. Match(R, Variables(got[u]), Variables(clean[u]))
      BY <2>1, <2>2, <2>3, VariablesMatch
    <2>. QED  BY <2>4 DEF u
  <1>. HIDE DEF got, clean, R
  <1>4. LineMatches(R, got, clean, lineage)
    BY <1>3 DEF LineMatches
  <1>5. Match(R, Declared(got, lineage), Declared(clean, lineage))
    BY <1>1, <1>2, <1>4, DeclaredMatches
  <1>. QED  BY <1>5 DEF got, clean, R

(* What corresponds has the same properties, if the names and the schemas  *)
(* of its elements are the same.                                           *)
LEMMA SameProperties ==
  ASSUME NEW V, NEW s \in Seq(V), NEW W, NEW t \in Seq(W), NEW R, Match(R, s, t),
         \A p \in R : p[1].name = p[2].name /\ SchemaForMember(p[1]) = SchemaForMember(p[2])
  PROVE  SchemaOf(s).properties = SchemaOf(t).properties
  <1>. DEFINE P == SchemaOf(s).properties
              Q == SchemaOf(t).properties
  <1>1. /\ Len(s) \in Nat /\ DOMAIN s = 1 .. Len(s) /\ DOMAIN t = 1 .. Len(s)
        /\ \A k \in 1 .. Len(s) : <<s[k], t[k]>> \in R
    BY DEF Match
  <1>2. ASSUME NEW k \in 1 .. Len(s)
        PROVE  s[k].name = t[k].name /\ SchemaForMember(s[k]) = SchemaForMember(t[k])
    <2>. DEFINE p == <<s[k], t[k]>>
    <2>1. p \in R /\ p[1] = s[k] /\ p[2] = t[k]
      BY <1>1
    <2>. QED  BY <2>1
  <1>3. P = [x \in DOMAIN P |-> P[x]] /\ Q = [x \in DOMAIN Q |-> Q[x]]
    BY DEF SchemaOf
  <1>4. ASSUME NEW x PROVE /\ x \in DOMAIN P <=> x \in DOMAIN Q
                           /\ x \in DOMAIN P => P[x] = Q[x]
    <2>1. Lacks(s, x) <=> Lacks(t, x)
      BY <1>1, <1>2 DEF Lacks
    <2>2. \A k : IsLast(s, x, k) => IsLast(t, x, k)
      BY <1>1, <1>2 DEF IsLast
    <2>3. (x \in DOMAIN P <=> ~Lacks(s, x)) /\ (x \in DOMAIN Q <=> ~Lacks(t, x))
      BY SchemaOfLast
    <2>4. ASSUME ~Lacks(s, x) PROVE P[x] = Q[x]
      <3>1. PICK k \in DOMAIN s : IsLast(s, x, k)
        BY <2>4, SomeIsLast DEF LastIsIn
      <3>2. IsLast(t, x, k)
        BY <2>2, <3>1
      <3>3. P[x] = SchemaForMember(s[k])
        BY <3>1, SchemaOfLast
      <3>4. Q[x] = SchemaForMember(t[k])
        BY <3>2, SchemaOfLast
      <3>. QED  BY <1>1, <1>2, <3>3, <3>4
    <2>. QED  BY <2>1, <2>3, <2>4
  <1>. HIDE DEF P, Q
  <1>5. P = Q
    BY <1>3, <1>4
  <1>. QED  BY <1>5 DEF P, Q

(* The two promises about faults: none in a lineage, and the same schema;  *)
(* only modelling rules, and the same properties.                          *)
SparesSchemas(got, clean, types, t, faults) ==
  LET lineage == Lineages(types)[t]
      hit == {f \in faults : f[1] \in ToSet(lineage) /\ ~Std(types[f[1]])}
  IN /\ hit = {} => BuildAllSchemas(got)[t] = BuildAllSchemas(clean)[t]
     /\ (\A f \in hit : f[2] = "rules") =>
          BuildAllSchemas(got)[t].properties = BuildAllSchemas(clean)[t].properties

LEMMA FaultsSpareSchemas ==
  ASSUME NEW types, IsCatalog(types), NEW adapter, NEW faults,
         GetObjectTypes(adapter, types, faults) # None, NEW t \in DOMAIN types
  PROVE  SparesSchemas(GetObjectTypes(adapter, types, faults), NoStandardMembers(types),
                       types, t, faults)
  <1>. DEFINE got == GetObjectTypes(adapter, types, faults)
              clean == NoStandardMembers(types)
              lineage == Lineages(types)[t]
              hit == {f \in faults : f[1] \in ToSet(lineage) /\ ~Std(types[f[1]])}
              R == Reads(types, lineage, faults)
              s == Declared(got, lineage)
              c == Declared(clean, lineage)
  <1>1. IsCatalog(got) /\ SameTypes(got, types)
    BY GotTypes
  <1>2. IsCatalog(clean) /\ SameTypes(clean, types)
    BY CleanTypes
  <1>3. Lineages(got) = Lineages(types) /\ Lineages(clean) = Lineages(types)
        /\ DOMAIN got = DOMAIN types /\ DOMAIN clean = DOMAIN types
    <2>. HIDE DEF got, clean
    <2>1. DOMAIN got = DOMAIN types /\ DOMAIN clean = DOMAIN types
      BY <1>1, <1>2 DEF SameTypes
    <2>2. Lineages(got) = Lineages(types)
      BY <1>1, <2>1, SameLineages DEF SameTypes
    <2>3. Lineages(clean) = Lineages(types)
      BY <1>2, <2>1, SameLineages DEF SameTypes
    <2>. QED  BY <2>1, <2>2, <2>3
  <1>4. lineage \in Seq(DOMAIN types)
    BY LineageUnfolds DEF AreLineages
  <1>5. BuildAllSchemas(got)[t] = SchemaOf(s) /\ BuildAllSchemas(clean)[t] = SchemaOf(c)
    BY <1>3 DEF BuildAllSchemas
  <1>6. s \in Seq(AllVariables(got)) /\ c \in Seq(AllVariables(clean))
    <2>. HIDE DEF got, clean
    <2>1. Declared(got, Lineages(got)[t]) \in Seq(AllVariables(got))
      BY <1>1, <1>3, DeclaredUnfolds
    <2>2. Declared(clean, Lineages(clean)[t]) \in Seq(AllVariables(clean))
      BY <1>2, <1>3, DeclaredUnfolds
    <2>. QED  BY <1>3, <2>1, <2>2
  <1>7. \A u \in ToSet(lineage) : \A what :
          ~Std(types[u]) /\ Fault(u, what) \in faults =>
            /\ Fault(u, what) \in hit
            /\ Fault(u, what)[2] = what
    BY DEF Fault
  <1>8. "browse" # "rules" /\ "data" # "rules"
    OBVIOUS
  <1>. DEFINE only == \A f \in hit : f[2] = "rules"
  <1>9. ASSUME only PROVE Match(R, s, c)
    <2>. HIDE DEF hit
    <2>1. AreBrowsed(types, lineage, faults)
      BY <1>7, <1>8, <1>9 DEF AreBrowsed
    <2>. QED  BY <1>4, <2>1, DeclaredIsRead
  <1>10. ASSUME NEW p \in R
         PROVE  \E u \in ToSet(lineage) : \E m \in ToSet(types[u].members) :
                  p = <<Seen(u, m, faults), m>> /\ ~Std(types[u]) /\ m.sort = "Variable" /\ IsMember(m)
    <2>. DEFINE Y == {y \in ToSet(lineage) \X UNION {ToSet(types[v].members) : v \in ToSet(lineage)} :
                        y[2] \in ToSet(types[y[1]].members) /\ ~Std(types[y[1]])
                        /\ y[2].sort = "Variable"}
    <2>1. R = {<<Seen(y[1], y[2], faults), y[2]>> : y \in Y}
      BY DEF Reads
    <2>2. PICK y \in Y : p = <<Seen(y[1], y[2], faults), y[2]>>
      BY <1>10, <2>1
    <2>3. /\ y[1] \in ToSet(lineage) /\ y[2] \in ToSet(types[y[1]].members)
          /\ ~Std(types[y[1]]) /\ y[2].sort = "Variable"
      OBVIOUS
    <2>. HIDE DEF Y, R, lineage
    <2>4. y[1] \in DOMAIN types
      BY <1>4, <2>3 DEF ToSet
    <2>5. IsMember(y[2])
      BY <2>3, <2>4 DEF IsCatalog, ToSet
    <2>. QED  BY <2>2, <2>3, <2>5
  <1>11. ASSUME only PROVE SchemaOf(s).properties = SchemaOf(c).properties
    <2>1. ASSUME NEW p \in R
          PROVE  p[1].name = p[2].name /\ SchemaForMember(p[1]) = SchemaForMember(p[2])
      <3>. HIDE DEF R, lineage, hit
      <3>1. PICK u \in ToSet(lineage) : \E m \in ToSet(types[u].members) :
              p = <<Seen(u, m, faults), m>> /\ ~Std(types[u]) /\ m.sort = "Variable" /\ IsMember(m)
        BY <1>10, <2>1
      <3>2. PICK m \in ToSet(types[u].members) :
              p = <<Seen(u, m, faults), m>> /\ ~Std(types[u]) /\ m.sort = "Variable" /\ IsMember(m)
        BY <3>1
      <3>3. Fault(u, "data") \notin faults
        BY <1>7, <1>8, <1>11, <3>2
      <3>4. p[1] = Seen(u, m, faults) /\ p[2] = m
        BY <3>2
      <3>5. SchemaForMember(Seen(u, m, faults)) = SchemaForMember(m)
        BY <3>2, <3>3, SeenTells
      <3>. QED  BY <3>4, <3>5, SeenNames
    <2>. HIDE DEF R, s, c, only
    <2>. QED  BY <1>6, <1>9, <1>11, <2>1, SameProperties
  <1>12. ASSUME hit = {} PROVE SchemaOf(s) = SchemaOf(c)
    <2>1. Match(R, s, c)
      <3>1. only
        BY <1>12
      <3>. HIDE DEF only
      <3>. QED  BY <1>9, <3>1
    <2>2. ASSUME NEW p \in R PROVE p[1] = p[2]
      <3>. HIDE DEF R, lineage, hit
      <3>1. PICK u \in ToSet(lineage) : \E m \in ToSet(types[u].members) :
              p = <<Seen(u, m, faults), m>> /\ ~Std(types[u]) /\ m.sort = "Variable" /\ IsMember(m)
        BY <1>10, <2>2
      <3>2. PICK m \in ToSet(types[u].members) :
              p = <<Seen(u, m, faults), m>> /\ ~Std(types[u]) /\ m.sort = "Variable" /\ IsMember(m)
        BY <3>1
      <3>3. Fault(u, "data") \notin faults /\ Fault(u, "rules") \notin faults
        BY <1>7, <1>12, <3>2
      <3>4. Seen(u, m, faults) = m
        BY <3>2, <3>3, SeenTells
      <3>. QED  BY <3>2, <3>4
    <2>. HIDE DEF R, s, c
    <2>3. Len(s) = Len(c) /\ Len(s) \in Nat /\ \A k \in 1 .. Len(s) : <<s[k], c[k]>> \in R
      BY <1>6, <2>1 DEF Match
    <2>4. \A k \in 1 .. Len(s) : s[k] = c[k]
      <3>1. ASSUME NEW k \in 1 .. Len(s) PROVE s[k] = c[k]
        <4>. DEFINE p == <<s[k], c[k]>>
        <4>1. p \in R /\ p[1] = s[k] /\ p[2] = c[k]
          BY <2>3
        <4>. QED  BY <2>2, <4>1
      <3>. QED  BY <3>1
    <2>5. s = c
      BY <1>6, <2>3, <2>4
    <2>. QED  BY <2>5
  <1>. HIDE DEF got, clean, lineage, s, c
  <1>. QED  BY <1>5, <1>11, <1>12 DEF SparesSchemas, got, clean, lineage, s, c

-----------------------------------------------------------------------------
(* The ids of types. *)

\* The names along the lineage of a type.
NamesUp(types, t) ==
  LET lineage == Lineages(types)[t] IN [k \in DOMAIN lineage |-> types[lineage[k]].name]

(* Ids are a matter of parents, names and node ids.                        *)
LEMMA SameIds ==
  ASSUME NEW types, IsCatalog(types), NEW got, IsCatalog(got), SameTypes(got, types),
         NEW format
  PROVE  BuildTypeIdMap(got, format) = BuildTypeIdMap(types, format)
  <1>. DEFINE D == DOMAIN types
              lineage == Lineages(types)
  <1>1. DOMAIN got = D /\ \A u \in D : /\ got[u].parent = types[u].parent
                                        /\ got[u].name = types[u].name
                                        /\ got[u].node = types[u].node
    BY DEF SameTypes
  <1>2. Lineages(got) = lineage
    BY <1>1, SameLineages
  <1>3. \A t \in D : lineage[t] \in Seq(D)
    BY LineageUnfolds DEF AreLineages
  <1>. HIDE DEF lineage
  <1>4. ASSUME NEW t \in D
        PROVE  TypeId(got, t, lineage[t], format) = TypeId(types, t, lineage[t], format)
    <2>. DEFINE L == lineage[t]
    <2>1. \A k \in DOMAIN L : L[k] \in D
      BY <1>3
    <2>2. \A u \in ToSet(L) : u \in D
      BY <2>1 DEF ToSet
    <2>. HIDE DEF L
    <2>3. [k \in DOMAIN L |-> got[L[k]].name] = [k \in DOMAIN L |-> types[L[k]].name]
      BY <1>1, <2>1
    <2>4. {got[u].name : u \in ToSet(L)} = {types[u].name : u \in ToSet(L)}
      BY <1>1, <2>2
    <2>5. got[t].name = types[t].name /\ got[t].node = types[t].node
      BY <1>1
    <2>6. TypeId(got, t, L, format) = TypeId(types, t, L, format)
      BY <2>3, <2>4, <2>5 DEF TypeId
    <2>. QED  BY <2>6 DEF L
  <1>5. /\ BuildTypeIdMap(got, format) = [t \in D |-> TypeId(got, t, lineage[t], format)]
        /\ BuildTypeIdMap(types, format) = [t \in D |-> TypeId(types, t, lineage[t], format)]
    BY <1>1, <1>2 DEF BuildTypeIdMap, lineage
  <1>. QED  BY <1>4, <1>5

(* Types of different siblings have different names up to the root.        *)
LEMMA NamesDiffer ==
  ASSUME NEW types, IsCatalog(types), SiblingTypesDiffer(types),
         NEW t \in DOMAIN types, NEW u \in DOMAIN types, NamesUp(types, t) = NamesUp(types, u)
  PROVE  t = u
  <1>. DEFINE D == DOMAIN types
              S == {v \in D : \A w \in D : NamesUp(types, v) = NamesUp(types, w) => v = w}
              L(v) == Lineages(types)[v]
              up(v) == UpOf(types, v)
  <1>1. /\ IsSpace(types) /\ \A v \in D : types[v].parent # None <=> types[v].parent \in D
    BY TypesAreSpace
  <1>2. ASSUME NEW v \in D
        PROVE  /\ Len(up(v)) \in Nat /\ DOMAIN up(v) = 1 .. Len(up(v))
               /\ DOMAIN L(v) = 1 .. Len(up(v)) + 1
               /\ L(v)[1] = v /\ \A k \in 1 .. Len(up(v)) : L(v)[k + 1] = up(v)[k]
    <2>. HIDE DEF L, up
    <2>1. Begins(D, L(v), v, up(v))
      BY LineageParts DEF L, up
    <2>. QED  BY <2>1 DEF Begins
  <1>3. \A v \in D : /\ types[v].parent = None => up(v) = <<>>
                     /\ types[v].parent # None => up(v) = L(types[v].parent)
    BY DEF UpOf
  <1>4. \A v \in D : NamesUp(types, v) = [k \in DOMAIN L(v) |-> types[L(v)[k]].name]
    BY DEF NamesUp
  <1>. HIDE DEF L, up
  <1>5. \A v \in D : types[v].parent = None <=> Len(up(v)) = 0
    <2>1. ASSUME NEW v \in D, types[v].parent # None PROVE Len(up(v)) # 0
      <3>1. types[v].parent \in D /\ up(v) = L(types[v].parent)
        BY <1>1, <1>3, <2>1
      <3>2. 1 \in DOMAIN up(v)
        BY <1>2, <3>1
      <3>. QED  BY <1>2, <3>2
    <2>2. ASSUME NEW v \in D, types[v].parent = None PROVE Len(up(v)) = 0
      <3>1. up(v) = <<>>
        BY <1>3, <2>2
      <3>. QED  BY <3>1
    <2>. QED  BY <2>1, <2>2
  <1>6. ASSUME NEW v \in D, types[v].parent \in D => types[v].parent \in S PROVE v \in S
    <2>1. ASSUME NEW w \in D, NamesUp(types, v) = NamesUp(types, w) PROVE v = w
      <3>1. [k \in DOMAIN L(v) |-> types[L(v)[k]].name] = [k \in DOMAIN L(w) |-> types[L(w)[k]].name]
        BY <1>4, <2>1
      <3>2. DOMAIN L(v) = DOMAIN L(w) /\ \A k \in DOMAIN L(v) : types[L(v)[k]].name = types[L(w)[k]].name
        BY <3>1
      <3>3. Len(up(v)) = Len(up(w))
        <4>. DEFINE m == Len(up(v))
                    n == Len(up(w))
        <4>1. m \in Nat /\ n \in Nat /\ 1 .. m + 1 = 1 .. n + 1
          BY <1>2, <3>2
        <4>. HIDE DEF m, n
        <4>2. m + 1 \in 1 .. n + 1 /\ n + 1 \in 1 .. m + 1
          BY <4>1
        <4>3. m = n
          BY <4>1, <4>2
        <4>. QED  BY <4>3 DEF m, n
      <3>4. types[v].name = types[w].name
        <4>1. 1 \in DOMAIN L(v)
          BY <1>2
        <4>. QED  BY <1>2, <3>2, <4>1
      <3>5. types[v].parent = types[w].parent
        <4>1. CASE types[v].parent = None
          BY <1>5, <3>3, <4>1
        <4>2. CASE types[v].parent # None
          <5>. DEFINE p == types[v].parent
                      q == types[w].parent
          <5>1. p \in D /\ q \in D /\ p \in S
            BY <1>1, <1>5, <1>6, <3>3, <4>2
          <5>2. up(v) = L(p) /\ up(w) = L(q)
            BY <1>1, <1>3, <5>1
          <5>3. DOMAIN L(p) = DOMAIN L(q)
            BY <1>2, <3>3, <5>2
          <5>4. ASSUME NEW k \in DOMAIN L(p) PROVE types[L(p)[k]].name = types[L(q)[k]].name
            <6>1. k \in 1 .. Len(up(v))
              BY <1>2, <5>2
            <6>2. k + 1 \in DOMAIN L(v)
              BY <1>2, <6>1
            <6>3. L(v)[k + 1] = L(p)[k] /\ L(w)[k + 1] = L(q)[k]
              BY <1>2, <3>3, <5>2, <6>1
            <6>. QED  BY <3>2, <6>2, <6>3
          <5>. HIDE DEF p, q
          <5>5. NamesUp(types, p) = NamesUp(types, q)
            BY <1>4, <5>1, <5>3, <5>4
          <5>6. p = q
            BY <5>1, <5>5
          <5>. QED  BY <5>6 DEF p, q
        <4>. QED  BY <4>1, <4>2
      <3>. QED  BY <3>4, <3>5 DEF SiblingTypesDiffer
    <2>. QED  BY <2>1
  <1>. HIDE DEF S
  <1>7. D \subseteq S
    BY <1>1, <1>6, FromTheTop
  <1>. QED  BY <1>7 DEF S

(* They have different hashes then; in the other formats ids differ when   *)
(* the node ids are in the namespaces of the names.                        *)
IdsMayCollide(types, format) ==
  ~ IF format = "hash" THEN SiblingTypesDiffer(types) ELSE NamespacesAgree(types)

LEMMA TypeIdsDiffer ==
  ASSUME NEW types, IsCatalog(types), NEW format \in {"hash", "name", "prefixed-name"},
         ~IdsMayCollide(types, format)
  PROVE  IsInjective(BuildTypeIdMap(types, format))
  <1>. DEFINE D == DOMAIN types
              ids == BuildTypeIdMap(types, format)
  <1>1. ids = [t \in D |-> TypeId(types, t, Lineages(types)[t], format)]
    BY DEF BuildTypeIdMap
  <1>. HIDE DEF ids
  <1>2. ASSUME NEW t \in D, NEW u \in D, ids[t] = ids[u] PROVE t = u
    <2>. DEFINE a == TypeId(types, t, Lineages(types)[t], format)
                b == TypeId(types, u, Lineages(types)[u], format)
                text(v) == Lower(types[v].name.text)
                ns(v) == types[v].name.ns
                id(v) == types[v].node.identifier
    <2>1. a = b
      BY <1>1, <1>2
    <2>2. CASE format = "hash"
      <3>1. a = [names |-> NamesUp(types, t)] /\ b = [names |-> NamesUp(types, u)]
        BY <2>2 DEF TypeId, NamesUp
      <3>. HIDE DEF a, b
      <3>2. a.names = NamesUp(types, t) /\ b.names = NamesUp(types, u)
        BY <3>1
      <3>3. SiblingTypesDiffer(types)
        BY <2>2 DEF IdsMayCollide
      <3>. QED  BY <2>1, <3>2, <3>3, NamesDiffer
    <2>3. ASSUME NamespacesAgree(types), ns(t) = ns(u), id(t) = id(u) PROVE t = u
      <3>1. types[t].node.ns = ns(t) /\ types[u].node.ns = ns(u)
        BY <2>3 DEF NamespacesAgree
      <3>2. /\ types[t].node = NodeId(types[t].node.ns, id(t))
            /\ types[u].node = NodeId(types[u].node.ns, id(u))
            /\ types[t].node = types[u].node => t = u
        BY NamesOfTypes DEF AreNamed
      <3>. QED  BY <2>3, <3>1, <3>2
    <2>4. CASE format = "name"
      <3>1. /\ a = [text |-> text(t), ns |-> ns(t), identifier |-> id(t)]
            /\ b = [text |-> text(u), ns |-> ns(u), identifier |-> id(u)]
        BY <2>4 DEF TypeId
      <3>. HIDE DEF a, b, text, ns, id
      <3>2. a.ns = ns(t) /\ b.ns = ns(u) /\ a.identifier = id(t) /\ b.identifier = id(u)
        BY <3>1
      <3>3. NamespacesAgree(types)
        BY <2>4 DEF IdsMayCollide
      <3>. QED  BY <2>1, <2>3, <3>2, <3>3
    <2>5. CASE format = "prefixed-name"
      <3>. DEFINE prefix(v) == GetPrefix({types[w].name : w \in ToSet(Lineages(types)[v])})
      <3>1. /\ a = [prefix |-> prefix(t), text |-> text(t), ns |-> ns(t), identifier |-> id(t)]
            /\ b = [prefix |-> prefix(u), text |-> text(u), ns |-> ns(u), identifier |-> id(u)]
        BY <2>5 DEF TypeId
      <3>. HIDE DEF a, b, prefix, text, ns, id
      <3>2. a.ns = ns(t) /\ b.ns = ns(u) /\ a.identifier = id(t) /\ b.identifier = id(u)
        BY <3>1
      <3>3. NamespacesAgree(types)
        BY <2>5 DEF IdsMayCollide
      <3>. QED  BY <2>1, <2>3, <3>2, <3>3
    <2>. QED  BY <2>2, <2>4, <2>5
  <1>3. DOMAIN ids = D
    BY <1>1
  <1>4. IsInjective(ids)
    BY <1>2, <1>3 DEF IsInjective
  <1>. QED  BY <1>4 DEF ids

(* Whatever the types, the adapter and the calls that fail: a catalog that *)
(* was fetched has the ids that it would have without a fault: hashes that *)
(* differ when siblings have different names, other ids that differ when   *)
(* names and node ids share their namespaces.  It has the schemas that the *)
(* declarations that were read give, the nearest deciding; faults of other *)
(* lineages do not touch a schema, nor failing rules its properties.       *)
THEOREM CatalogsAreSound ==
  ASSUME NEW types, IsCatalog(types), NEW adapter, NEW faults
  PROVE  CatalogIsSound(adapter, types, faults)
  <1>. DEFINE got == GetObjectTypes(adapter, types, faults)
              clean == NoStandardMembers(types)
              lineages == Lineages(types)
              schemas == BuildAllSchemas(got)
              cleans == BuildAllSchemas(clean)
  <1>. SUFFICES ASSUME got # None
       PROVE  /\ \A format \in {"hash", "name", "prefixed-name"} :
                   LET ids == BuildTypeIdMap(got, format)
                   IN /\ ids = BuildTypeIdMap(types, format)
                      /\ ~IdsMayCollide(types, format) => IsInjective(ids)
              /\ SchemasAreSound(types, lineages, got, cleans, schemas, faults)
    BY DEF CatalogIsSound, IdsMayCollide
  <1>1. IsCatalog(got) /\ SameTypes(got, types)
    BY GotTypes
  <1>. HIDE DEF got
  <1>2. DOMAIN got = DOMAIN types /\ Lineages(got) = lineages
    <2>1. /\ DOMAIN got = DOMAIN types
          /\ \A t \in DOMAIN got : got[t].parent = types[t].parent
      BY <1>1 DEF SameTypes
    <2>. QED  BY <1>1, <2>1, SameLineages
  <1>3. ASSUME NEW format \in {"hash", "name", "prefixed-name"}
        PROVE  /\ BuildTypeIdMap(got, format) = BuildTypeIdMap(types, format)
               /\ ~IdsMayCollide(types, format) => IsInjective(BuildTypeIdMap(got, format))
    <2>1. BuildTypeIdMap(got, format) = BuildTypeIdMap(types, format)
      BY <1>1, SameIds
    <2>. QED  BY <2>1, TypeIdsDiffer
  <1>4. ASSUME NEW t \in DOMAIN types, NEW name
        PROVE  /\ Nearest(got, lineages[t], name) # None <=> name \in DOMAIN schemas[t].properties
               /\ Nearest(got, lineages[t], name) # None =>
                    \E m \in ToSet(got[Nearest(got, lineages[t], name)].members) :
                      /\ m.sort = "Variable" /\ m.name = name
                      /\ schemas[t].properties[name] = SchemaForMember(m)
               /\ schemas[t].required \subseteq DOMAIN schemas[t].properties
    <2>. DEFINE at == Nearest(got, lineages[t], name)
    <2>1. /\ at # None <=> name \in DOMAIN schemas[t].properties
          /\ at # None =>
               \E m \in ToSet(got[at].members) :
                 /\ m.sort = "Variable" /\ m.name = name
                 /\ schemas[t].properties[name] = SchemaForMember(m)
          /\ schemas[t].required \subseteq DOMAIN schemas[t].properties
      BY <1>1, <1>2, SchemaTells
    <2>. QED  BY <2>1
  <1>5. ASSUME NEW t \in DOMAIN types
        PROVE  LET hit == {f \in faults : f[1] \in ToSet(lineages[t]) /\ ~Std(types[f[1]])}
               IN /\ hit = {} => schemas[t] = cleans[t]
                  /\ (\A f \in hit : f[2] = "rules") => schemas[t].properties = cleans[t].properties
    <2>1. SparesSchemas(got, clean, types, t, faults)
      BY FaultsSpareSchemas DEF got
    <2>. QED  BY <2>1 DEF SparesSchemas
  <1>. HIDE DEF clean, lineages, schemas, cleans
  <1>6. SchemasAreSound(types, lineages, got, cleans, schemas, faults)
    BY <1>4, <1>5 DEF SchemasAreSound
  <1>. QED  BY <1>3, <1>6

-----------------------------------------------------------------------------
(* The servers that serve both. *)

(* Beside the catalog, what is served is what HierarchyWalk describes.     *)
LEMMA ServedIsWalked ==
  ServedSpec => Spec
  <1>1. ServedInit => Init
    BY ServedAssumption DEF ServedInit, Init
  <1>2. [ServedNext]_allVars => [Next]_vars
    BY DEF ServedNext, allVars
  <1>. QED  BY <1>1, <1>2, PTL DEF ServedSpec, Spec

(* Whatever the spaces, the calls and the order of steps: the models that  *)
(* servers hold mirror their spaces, and walks show them, when the catalog *)
(* of types is served with them.                                           *)
THEOREM ServedModelsAreFaithful ==
  ServedSpec => [](ModelMirrorsSpace /\ WalkShowsTheModel)
  BY ServedIsWalked, ModelsMirrorTheirSpaces, WalkIsFaithful, PTL

(* Whatever the types that are browsed and the calls that fail meanwhile:  *)
(* the catalog is sound in every state of every run.                       *)
THEOREM TypesStaySound ==
  ServedSpec => []TypesAreSound
  <1>. DEFINE IsBrowsed == catalog \in Catalogs \cup {NoTypes}
  <1>1. ServedInit => IsBrowsed
    BY DEF ServedInit
  <1>2. IsBrowsed /\ [ServedNext]_allVars => IsBrowsed'
    BY DEF ServedNext, allVars
  <1>3. IsBrowsed => TypesAreSound
    BY ServedAssumption, CatalogsAreSound DEF TypesAreSound
  <1>. QED  BY <1>1, <1>2, <1>3, PTL DEF ServedSpec

=============================================================================
