---------------------- MODULE SubscriptionMonitorProofs ----------------------
(***************************************************************************)
(* Theorems about SubscriptionMonitor, for any number of calls, elements   *)
(* and sources, any mapping of elements to sources, and any data source.   *)
(***************************************************************************)
EXTENDS SubscriptionMonitor, TLAPS

USE DEF States, PCs, Go

LEMMA TouchedIsCurrent == ASSUME NEW S PROVE Touched(S) \subseteq Current
  BY DEF Touched, Current

LEMMA CurrentAreStates == TypeOK => Current \in SUBSET States
  BY NoneAssumption DEF TypeOK, Current, Monitored, NoneAssumption

LEMMA SrcsAreSources ==
  ASSUME TypeOK, NEW r, NEW e \in Elements, depth[r] \in Depths
  PROVE  Srcs(r, e) \in SUBSET Sources
  BY MappingAssumption DEF Srcs, MappingAssumption

(* A callback, a poll answer and a seed read leave well-typed flags. *)
LEMMA OnDataChangeType ==
  ASSUME TypeOK, NEW S, OnDataChange(S)
  PROVE  dirty' \in SUBSET States /\ timers' \in SUBSET States /\ stray' \in BOOLEAN
  BY TouchedIsCurrent, CurrentAreStates DEF OnDataChange, TypeOK

LEMMA LoopHeadType ==
  ASSUME TypeOK, NEW r \in Requests, NEW m, LoopHead(r, m)
  PROVE  /\ loop' \in [Requests -> {"off", "reading", "sleeping", "stopped"}]
         /\ polled' \in [Requests -> SUBSET Sources]
  BY DEF LoopHead, TypeOK, Keys

LEMMA WithoutType ==
  ASSUME TypeOK, NEW E
  PROVE  Without(E) \in [Sources -> SUBSET Elements] /\ Emptied(E) \in SUBSET Sources
  BY DEF Without, Emptied, TypeOK

LEMMA IdsAreSources ==
  ASSUME TypeOK, NEW r \in Requests
  PROVE  Ids(r) \in SUBSET Sources
<1>1. \A e \in elems[r] : e \in Elements /\ depth[r] \in Depths
  BY DEF TypeOK
<1>. QED  BY <1>1, SrcsAreSources DEF Ids

LEMMA AddOrFinishType ==
  ASSUME TypeOK, NEW r \in Requests, NEW x \in Requests, AddOrFinish(r, x)
  PROVE  /\ pc' \in [Requests -> PCs]
         /\ rt' \in [Requests -> Requests \cup {None}]
         /\ arg' \in [Requests -> SUBSET Sources]
<1>1. Ids(r) \in SUBSET Sources
  BY IdsAreSources
<1>2. arg' \in [Requests -> SUBSET Sources]
  BY <1>1 DEF AddOrFinish, TypeOK
<1>3. pc' \in [Requests -> PCs] /\ rt' \in [Requests -> Requests \cup {None}]
  BY DEF AddOrFinish, TypeOK
<1>. QED  BY <1>2, <1>3

LEMMA CloseOrFinishType ==
  ASSUME TypeOK, NEW r \in Requests, NEW m, CloseOrFinish(r, m)
  PROVE  /\ pc' \in [Requests -> PCs]
         /\ rt' \in [Requests -> Requests \cup {None}]
  BY DEF CloseOrFinish, TypeOK

LEMMA InitTypeOK == Init => TypeOK
<1> SUFFICES ASSUME Init PROVE TypeOK
  OBVIOUS
<1>1. /\ pc \in [Requests -> PCs]
      /\ loop \in [Requests -> {"off", "reading", "sleeping", "stopped"}]
  BY DEF Init
<1>2. /\ assets \in [Elements -> Requests \cup {None}]
      /\ sourceToAsset \in [Sources -> SUBSET Elements]
      /\ elems \in [Requests -> SUBSET Elements]
      /\ depth \in [Requests -> Depths \cup {None}]
      /\ rt \in [Requests -> Requests \cup {None}]
  BY DEF Init
<1>3. /\ arg \in [Requests -> SUBSET Sources]
      /\ items \in [Requests -> SUBSET Sources]
      /\ polled \in [Requests -> SUBSET Sources]
  BY DEF Init
<1>. QED  BY <1>1, <1>2, <1>3 DEF Init, TypeOK

LEMMA NextTypeOK == TypeOK /\ [Next]_vars => TypeOK'
<1> USE DEF bookVars, debounceVars, callVars, portVars, loopVars
<1> SUFFICES ASSUME TypeOK, [Next]_vars PROVE TypeOK'
  OBVIOUS
<1>1. ASSUME NEW r \in Requests, Register(r) PROVE TypeOK'
  BY <1>1 DEF Register, TypeOK
<1>2. ASSUME NEW r \in Requests, RegisterFails(r) PROVE TypeOK'
  BY <1>2 DEF RegisterFails, TypeOK
<1>3. ASSUME NEW r \in Requests, RegisterAssets(r) PROVE TypeOK'
  <2>1. rt' \in [Requests -> Requests \cup {None}] /\ pc' \in [Requests -> PCs]
        /\ arg' \in [Requests -> SUBSET Sources]
    <3>1. CASE runtime = None
      BY <1>3, <3>1 DEF RegisterAssets, TypeOK
    <3>2. CASE runtime # None
      <4>1. runtime \in Requests /\ AddOrFinish(r, runtime)
        BY <1>3, <3>2 DEF RegisterAssets, TypeOK
      <4>. QED  BY <4>1, AddOrFinishType
    <3>. QED  BY <3>1, <3>2
  <2>2. /\ assets' \in [Elements -> Requests \cup {None}]
        /\ listed' \in SUBSET States
        /\ sourceToAsset' \in [Sources -> SUBSET Elements]
    BY <1>3 DEF RegisterAssets, TypeOK
  <2>. QED  BY <1>3, <2>1, <2>2 DEF RegisterAssets, TypeOK
<1>4. ASSUME NEW r \in Requests, CreateOk(r) PROVE TypeOK'
  <2>1. rt' \in [Requests -> Requests \cup {None}] /\ pc' \in [Requests -> PCs]
        /\ arg' \in [Requests -> SUBSET Sources]
    BY <1>4, AddOrFinishType DEF CreateOk
  <2>. QED  BY <1>4, <2>1 DEF CreateOk, TypeOK
<1>5. ASSUME NEW r \in Requests, CreateFails(r) PROVE TypeOK'
  <2>1. /\ loop' \in [Requests -> {"off", "reading", "sleeping", "stopped"}]
        /\ polled' \in [Requests -> SUBSET Sources]
    BY <1>5, LoopHeadType DEF CreateFails
  <2>2. pc' \in [Requests -> PCs]
    BY <1>5 DEF CreateFails, TypeOK
  <2>. QED  BY <1>5, <2>1, <2>2 DEF CreateFails, TypeOK
<1>6. ASSUME NEW r \in Requests, AddOk(r) PROVE TypeOK'
  BY <1>6 DEF AddOk, TypeOK
<1>7. ASSUME NEW r \in Requests, AddFails(r) PROVE TypeOK'
  BY <1>7 DEF AddFails, TypeOK
<1>8. ASSUME NEW r \in Requests, SeedOk(r) PROVE TypeOK'
  BY <1>8, TouchedIsCurrent, CurrentAreStates DEF SeedOk, TypeOK
<1>9. ASSUME NEW r \in Requests, SeedFails(r) PROVE TypeOK'
  BY <1>9 DEF SeedFails, TypeOK
<1>10. ASSUME NEW r \in Requests, Unregister(r) PROVE TypeOK'
  <2>1. PICK gone :
          /\ Forget(gone)
          /\ IF runtime # None /\ Emptied(gone) # {}
             THEN RemoveItems(r, Emptied(gone))
             ELSE CloseOrFinish(r, Without(gone)) /\ UNCHANGED items
    BY <1>10 DEF Unregister
  <2>2. /\ assets' \in [Elements -> Requests \cup {None}]
        /\ listed' \in SUBSET States
        /\ sourceToAsset' \in [Sources -> SUBSET Elements]
        /\ timers' \in SUBSET States
    BY <2>1, WithoutType DEF Forget, TypeOK
  <2>3. /\ pc' \in [Requests -> PCs]
        /\ rt' \in [Requests -> Requests \cup {None}]
        /\ items' \in [Requests -> SUBSET Sources]
    <3>1. CASE runtime # None /\ Emptied(gone) # {}
      BY <2>1, <3>1 DEF RemoveItems, TypeOK
    <3>2. CASE ~(runtime # None /\ Emptied(gone) # {})
      BY <2>1, <3>2, CloseOrFinishType DEF TypeOK
    <3>. QED  BY <3>1, <3>2
  <2>. QED  BY <1>10, <2>2, <2>3 DEF Unregister, TypeOK
<1>11. ASSUME NEW r \in Requests, Removed(r) PROVE TypeOK'
  BY <1>11, CloseOrFinishType DEF Removed, TypeOK
<1>12. ASSUME NEW r \in Requests, Closed(r) PROVE TypeOK'
  BY <1>12 DEF Closed, TypeOK
<1>13. ASSUME NEW r \in Requests, CloseFails(r) PROVE TypeOK'
  BY <1>13 DEF CloseFails, TypeOK
<1>14. ASSUME NEW r \in Requests, Delete(r) PROVE TypeOK'
  BY <1>14 DEF Delete, TypeOK
<1>15. ASSUME NEW r \in Requests, Deleted(r) PROVE TypeOK'
  BY <1>15 DEF Deleted, TypeOK
<1>16. ASSUME NEW r \in Requests, Poll(r) PROVE TypeOK'
  <2>1. CASE PollAnswer(r)
    BY <2>1, OnDataChangeType DEF PollAnswer, TypeOK
  <2>2. CASE PollError(r)
    BY <2>2 DEF PollError, TypeOK
  <2>3. CASE PollWake(r)
    BY <2>3, LoopHeadType DEF PollWake, TypeOK
  <2>. QED  BY <1>16, <2>1, <2>2, <2>3 DEF Poll
<1>17. ASSUME NEW r \in Requests, NEW s \in Sources, Notify(r, s) PROVE TypeOK'
  BY <1>17, OnDataChangeType DEF Notify, TypeOK
<1>18. ASSUME NEW o \in States, TimerFires(o) PROVE TypeOK'
  BY <1>18 DEF TimerFires, TypeOK
<1>19. CASE UNCHANGED vars
  BY <1>19 DEF vars, TypeOK
<1>. QED
  BY <1>1, <1>2, <1>3, <1>4, <1>5, <1>6, <1>7, <1>8, <1>9, <1>10, <1>11,
     <1>12, <1>13, <1>14, <1>15, <1>16, <1>17, <1>18, <1>19
     DEF Next, Handler

(* TypeOK holds of every reachable state. *)
THEOREM TypeCorrect == Spec => []TypeOK
  BY InitTypeOK, NextTypeOK, PTL DEF Spec

-----------------------------------------------------------------------------
(***************************************************************************)
(* The safety invariants.  All actions but RegisterAssets and Unregister   *)
(* leave the books alone and only mark or clear flags of current monitor   *)
(* states: SteadyBooks covers them.                                        *)
(***************************************************************************)
Books ==
  BooksAgree /\ DirtyIsScheduled /\ OnlyReplacedLinger /\ StatesWereMade

LEMMA SteadyBooks ==
  ASSUME IInv,
         UNCHANGED <<assets, listed, sourceToAsset>>,
         known' => known,
         \A r \in Requests : Recorded(r) =>
           Recorded(r)' /\ elems'[r] = elems[r] /\ depth'[r] = depth[r],
         dirty' \subseteq dirty \cup Current,
         timers' \subseteq timers \cup Current,
         (known' /\ \A r \in Requests : pc'[r] # "delete") =>
           Current \cap dirty' \subseteq timers'
  PROVE  Books'
<1>1. Current' = Current /\ Monitored' = Monitored
  BY DEF Current, Monitored
<1>2. \A e \in Monitored : assets[e] \in Requests
  BY DEF IInv, TypeOK, Monitored
<1>3. \A e \in Monitored : Recorded(assets[e]) /\ e \in elems[assets[e]]
  BY DEF IInv, Safe, StatesWereMade
<1>4. \A o \in Current : o[1] \in Requests /\ Recorded(o[1])
  BY <1>2, <1>3 DEF Current
<1>5. StatesWereMade'
  <2>1. \A e \in Monitored' : Recorded(assets[e])' /\ e \in elems'[assets'[e]]
    BY <1>1, <1>2, <1>3
  <2>2. ASSUME NEW o \in dirty' \cup timers' PROVE Recorded(o[1])'
    <3>1. o[1] \in Requests /\ Recorded(o[1])
      BY <1>4 DEF IInv, TypeOK, Safe, StatesWereMade
    <3>. QED  BY <3>1
  <2>. QED  BY <2>1, <2>2 DEF StatesWereMade
<1>6. BooksAgree'
  <2>1. \A e \in Monitored : Srcs(assets[e], e)' = Srcs(assets[e], e)
    BY <1>2, <1>3 DEF Srcs
  <2>. QED  BY <1>1, <2>1 DEF IInv, Safe, BooksAgree
<1>7. DirtyIsScheduled'
  BY <1>1 DEF DirtyIsScheduled
<1>8. OnlyReplacedLinger'
  <2> SUFFICES ASSUME known', NEW o \in timers', o \notin Current'
               PROVE  \E r \in Requests \ {o[1]} : o[2] \in elems'[r] /\ Recorded(r)'
    BY DEF OnlyReplacedLinger, Recorded
  <2>1. o \in timers \ Current
    BY <1>1
  <2>2. PICK r \in Requests \ {o[1]} : o[2] \in elems[r] /\ Recorded(r)
    BY <2>1 DEF IInv, Safe, OnlyReplacedLinger, Recorded
  <2>. QED  BY <2>2
<1>. QED  BY <1>5, <1>6, <1>7, <1>8 DEF Books

(* A request that moves on after its first step, and touches no book. *)
LEMMA CallStep ==
  ASSUME IInv, NEW r \in Requests,
         UNCHANGED <<known, assets, listed, sourceToAsset, dirty, timers, elems,
                     depth>>,
         \A x \in Requests \ {r} : pc'[x] = pc[x],
         pc[r] # "delete", pc'[r] \notin {"new", "model"}
  PROVE  Books'
<1>1. \A x \in Requests : Recorded(x) => Recorded(x)'
  BY DEF Recorded
<1>2. (known' /\ \A x \in Requests : pc'[x] # "delete") =>
        Current \cap dirty' \subseteq timers'
  BY DEF IInv, Safe, DirtyIsScheduled
<1>. QED  BY <1>1, <1>2, SteadyBooks

LEMMA SteadyRuntime ==
  ASSUME RuntimeIsOpen, known' => known, UNCHANGED <<runtime, open>>
  PROVE  RuntimeIsOpen'
  BY DEF RuntimeIsOpen

LEMMA SteadyLoops ==
  ASSUME FallbackPolls, known' => known, UNCHANGED <<mode, loop>>
  PROVE  FallbackPolls'
  BY DEF FallbackPolls

(* A loop at its head goes on exactly when the mode asks for it. *)
LEMMA LoopHeadPolls ==
  ASSUME IInv, NEW r \in Requests, UNCHANGED known, LoopHead(r, mode')
  PROVE  FallbackPolls'
  BY DEF IInv, TypeOK, LoopHead, FallbackPolls

(* The monitor states of a register are new, and those they replace keep   *)
(* their timers.                                                           *)
LEMMA RegisterAssetsSafe ==
  ASSUME IInv, NEW r \in Requests, RegisterAssets(r)
  PROVE  Books'
<1>1. /\ pc[r] = "model" /\ ~Recorded(r)
      /\ elems[r] \subseteq Elements
      /\ assets' = [e \in Elements |-> IF e \in elems[r] THEN r ELSE assets[e]]
      /\ sourceToAsset' = [s \in Sources |-> sourceToAsset[s] \cup
                             {e \in elems[r] : s \in Srcs(r, e)}]
      /\ listed' = listed \cup ({r} \X elems[r])
      /\ UNCHANGED <<known, dirty, timers, elems, depth>>
  BY DEF RegisterAssets, Recorded, IInv, TypeOK, debounceVars
<1>2. /\ \A x \in Requests \ {r} : pc'[x] = pc[x]
      /\ pc'[r] \in {"create", "add", "done"}
  BY DEF RegisterAssets, AddOrFinish, IInv, TypeOK
<1>3. \A x \in Requests : x = r \/ Recorded(x) => Recorded(x)'
  BY <1>2 DEF Recorded
<1>4. Monitored' = Monitored \cup elems[r]
  BY <1>1, NoneAssumption DEF Monitored, NoneAssumption
<1>5. \A e \in Monitored : assets[e] \in Requests /\ Recorded(assets[e])
                           /\ e \in elems[assets[e]] /\ e \in Elements
  BY DEF IInv, TypeOK, Safe, StatesWereMade, Monitored
<1>6. StatesWereMade'
  <2>1. \A e \in Monitored' : Recorded(assets[e])' /\ e \in elems'[assets'[e]]
    BY <1>1, <1>3, <1>4, <1>5
  <2>2. \A o \in dirty' \cup timers' : Recorded(o[1])'
    BY <1>1, <1>3 DEF IInv, TypeOK, Safe, StatesWereMade
  <2>. QED  BY <2>1, <2>2 DEF StatesWereMade
<1>7. BooksAgree'
  <2>1. {l[2] : l \in listed'} = Monitored'
    <3>1. Monitored = {l[2] : l \in listed}
      BY DEF IInv, Safe, BooksAgree
    <3>2. ASSUME NEW l \in listed' PROVE l[2] \in Monitored'
      <4>1. CASE l \in listed
        BY <1>4, <3>1, <4>1
      <4>2. CASE l \in {r} \X elems[r]
        BY <1>4, <4>2
      <4>. QED  BY <1>1, <3>2, <4>1, <4>2
    <3>3. ASSUME NEW e \in Monitored' PROVE \E l \in listed' : l[2] = e
      <4>1. CASE e \in Monitored
        BY <1>1, <3>1, <4>1
      <4>2. CASE e \in elems[r]
        <5>1. <<r, e>> \in listed'
          BY <1>1, <4>2
        <5>2. <<r, e>>[2] = e
          OBVIOUS
        <5>. QED  BY <5>1, <5>2
      <4>. QED  BY <1>4, <3>3, <4>1, <4>2
    <3>. QED  BY <3>2, <3>3
  <2>2. ASSUME NEW e \in Monitored', NEW s \in Srcs(assets[e], e)'
        PROVE  e \in sourceToAsset'[s]
    <3>1. s \in Sources
      <4>1. e \in elems'[assets'[e]] /\ assets'[e] \in Requests /\ e \in Elements
        BY <1>1, <1>4, <1>5, <1>6 DEF StatesWereMade
      <4>2. depth[assets'[e]] \in Depths
        BY <1>1, <4>1 DEF IInv, TypeOK
      <4>. QED  BY <1>1, <4>1, <4>2, MappingAssumption DEF Srcs, MappingAssumption
    <3>2. CASE e \in elems[r]
      BY <1>1, <3>1, <3>2 DEF Srcs
    <3>3. CASE e \notin elems[r]
      <4>1. e \in Monitored /\ s \in Srcs(assets[e], e)
        BY <1>1, <1>4, <1>5, <3>3 DEF Srcs
      <4>. QED  BY <1>1, <3>1, <4>1 DEF IInv, Safe, BooksAgree
    <3>. QED  BY <3>2, <3>3
  <2>. QED  BY <2>1, <2>2 DEF BooksAgree
<1>8. DirtyIsScheduled'
  <2> SUFFICES ASSUME known', \A x \in Requests : pc'[x] # "delete",
                      NEW e \in Monitored', <<assets'[e], e>> \in dirty'
               PROVE  <<assets'[e], e>> \in timers'
    BY DEF DirtyIsScheduled, Current
  <2>1. e \notin elems[r]
    BY <1>1, <1>4, <1>5 DEF IInv, Safe, StatesWereMade
  <2>2. e \in Monitored /\ assets'[e] = assets[e]
    BY <1>1, <1>4, <1>5, <2>1
  <2>3. \A x \in Requests : pc[x] # "delete"
    BY <1>1, <1>2
  <2>. QED  BY <1>1, <2>2, <2>3 DEF IInv, Safe, DirtyIsScheduled, Current
<1>9. OnlyReplacedLinger'
  <2> SUFFICES ASSUME known', NEW o \in timers', o \notin Current'
               PROVE  \E x \in Requests \ {o[1]} : o[2] \in elems'[x] /\ Recorded(x)'
    BY DEF OnlyReplacedLinger, Recorded
  <2>1. CASE o \in Current
    <3>1. PICK e \in Monitored : o = <<assets[e], e>>
      BY <2>1 DEF Current
    <3>2. e \in elems[r]
      BY <1>1, <1>4, <1>5, <3>1 DEF Current
    <3>3. assets[e] # r
      BY <1>1, <1>5, <3>1
    <3>. QED  BY <1>1, <1>3, <3>1, <3>2, <3>3
  <2>2. CASE o \notin Current
    <3>1. PICK x \in Requests \ {o[1]} : o[2] \in elems[x] /\ Recorded(x)
      BY <1>1, <2>2 DEF IInv, Safe, OnlyReplacedLinger, Recorded
    <3>. QED  BY <1>1, <1>3, <3>1
  <2>. QED  BY <2>1, <2>2
<1>. QED  BY <1>6, <1>7, <1>8, <1>9 DEF Books

(* The elements that go take their timers and reverse lookups with them.   *)
LEMMA UnregisterSafe ==
  ASSUME IInv, NEW r \in Requests, Unregister(r)
  PROVE  Books'
<1>1. PICK gone \in SUBSET Monitored : Forget(gone)
  BY DEF Unregister
<1>2. /\ assets' = [e \in Elements |-> IF e \in gone THEN None ELSE assets[e]]
      /\ listed' = {l \in listed : l[2] \notin gone}
      /\ sourceToAsset' = Without(gone)
      /\ timers' = timers \ {<<assets[e], e>> : e \in gone}
      /\ UNCHANGED <<known, dirty, elems, depth>>
  BY <1>1 DEF Unregister, Forget
<1>3. /\ pc[r] = "new"
      /\ \A x \in Requests \ {r} : pc'[x] = pc[x]
      /\ pc'[r] \in {"remove", "close", "done"}
  BY DEF Unregister, MayCall, RemoveItems, CloseOrFinish, IInv, TypeOK
<1>4. \A x \in Requests : Recorded(x) => Recorded(x)'
  BY <1>3 DEF Recorded
<1>5. /\ Monitored' = Monitored \ gone
      /\ \A e \in Monitored' : assets'[e] = assets[e]
  BY <1>2 DEF Monitored
<1>6. \A e \in Monitored : assets[e] \in Requests /\ Recorded(assets[e])
                           /\ e \in elems[assets[e]] /\ e \in Elements
  BY DEF IInv, TypeOK, Safe, StatesWereMade, Monitored
<1>7. Current' = Current \ {<<assets[e], e>> : e \in gone}
  BY <1>1, <1>5 DEF Current
<1>8. StatesWereMade'
  <2>1. \A e \in Monitored' : Recorded(assets[e])' /\ e \in elems'[assets'[e]]
    BY <1>2, <1>4, <1>5, <1>6
  <2>2. \A o \in dirty' \cup timers' : Recorded(o[1])'
    BY <1>2, <1>4 DEF IInv, TypeOK, Safe, StatesWereMade
  <2>. QED  BY <2>1, <2>2 DEF StatesWereMade
<1>9. BooksAgree'
  <2>1. {l[2] : l \in listed'} = Monitored'
    BY <1>2, <1>5 DEF IInv, Safe, BooksAgree
  <2>2. ASSUME NEW e \in Monitored', NEW s \in Srcs(assets[e], e)'
        PROVE  e \in sourceToAsset'[s]
    <3>1. e \in Monitored /\ e \notin gone /\ s \in Srcs(assets[e], e)
      BY <1>2, <1>5 DEF Srcs
    <3>2. depth[assets[e]] \in Depths
      BY <1>6, <3>1 DEF IInv, TypeOK
    <3>3. s \in Sources
      BY <1>6, <3>1, <3>2, MappingAssumption DEF Srcs, MappingAssumption
    <3>. QED  BY <1>2, <3>1, <3>3 DEF Without, IInv, Safe, BooksAgree
  <2>. QED  BY <2>1, <2>2 DEF BooksAgree
<1>10. DirtyIsScheduled'
  <2>1. (\A x \in Requests : pc'[x] # "delete") => \A x \in Requests : pc[x] # "delete"
    BY <1>3
  <2>. QED  BY <1>2, <1>7, <2>1 DEF IInv, Safe, DirtyIsScheduled
<1>11. OnlyReplacedLinger'
  BY <1>2, <1>4, <1>7 DEF IInv, Safe, OnlyReplacedLinger, Recorded
<1>. QED  BY <1>8, <1>9, <1>10, <1>11 DEF Books

(* Every reachable state satisfies the inductive invariant. *)
THEOREM Invariant == Spec => []IInv
<1> USE DEF bookVars, debounceVars, callVars, portVars, loopVars
<1>1. Init => IInv
  <2> SUFFICES ASSUME Init PROVE Safe /\ TypeOK
    BY DEF IInv
  <2>1. TypeOK
    BY InitTypeOK
  <2>2. Monitored = {} /\ Current = {}
    BY DEF Init, Monitored, Current
  <2>3. BooksAgree /\ StatesWereMade /\ OnlyReplacedLinger /\ DirtyIsScheduled
    BY <2>2 DEF Init, BooksAgree, StatesWereMade, OnlyReplacedLinger, DirtyIsScheduled
  <2>4. RuntimeIsOpen /\ FallbackPolls
    BY DEF Init, RuntimeIsOpen, FallbackPolls
  <2>. QED  BY <2>1, <2>3, <2>4 DEF Safe
<1>2. IInv /\ [Next]_vars => IInv'
  <2> SUFFICES ASSUME IInv, [Next]_vars PROVE IInv'
    OBVIOUS
  <2>t. TypeOK'
    BY NextTypeOK DEF IInv
  <2>i. TypeOK /\ RuntimeIsOpen /\ FallbackPolls
    BY DEF IInv, Safe
  <2>d. (known /\ \A x \in Requests : pc[x] # "delete") =>
          Current \cap dirty \subseteq timers
    BY DEF IInv, Safe, DirtyIsScheduled
  <2> SUFFICES Books' /\ RuntimeIsOpen' /\ FallbackPolls'
    BY <2>t DEF IInv, Safe, Books
  <2>1. ASSUME NEW r \in Requests, Register(r)
        PROVE  Books' /\ RuntimeIsOpen' /\ FallbackPolls'
    <3>1. /\ \A x \in Requests : Recorded(x) =>
               Recorded(x)' /\ elems'[x] = elems[x] /\ depth'[x] = depth[x]
          /\ \A x \in Requests : pc[x] = "delete" => pc'[x] = "delete"
      BY <2>1, <2>i DEF Register, MayCall, Recorded, TypeOK
    <3>2. Books'
      BY <2>1, <2>d, <3>1, SteadyBooks DEF Register
    <3>. QED  BY <2>1, <2>i, <3>2, SteadyRuntime, SteadyLoops DEF Register
  <2>2. ASSUME NEW r \in Requests, RegisterFails(r)
        PROVE  Books' /\ RuntimeIsOpen' /\ FallbackPolls'
    <3>1. Books'
      BY <2>2, <2>i, CallStep DEF RegisterFails, TypeOK
    <3>. QED  BY <2>2, <2>i, <3>1, SteadyRuntime, SteadyLoops DEF RegisterFails
  <2>3. ASSUME NEW r \in Requests, RegisterAssets(r)
        PROVE  Books' /\ RuntimeIsOpen' /\ FallbackPolls'
    BY <2>3, <2>i, RegisterAssetsSafe, SteadyRuntime, SteadyLoops DEF RegisterAssets
  <2>4. ASSUME NEW r \in Requests, CreateOk(r)
        PROVE  Books' /\ RuntimeIsOpen' /\ FallbackPolls'
    <3>1. Books'
      BY <2>4, <2>i, CallStep DEF CreateOk, AddOrFinish, TypeOK
    <3>2. RuntimeIsOpen'
      BY <2>4 DEF CreateOk, RuntimeIsOpen
    <3>3. FallbackPolls'
      BY <2>4 DEF CreateOk, FallbackPolls
    <3>. QED  BY <3>1, <3>2, <3>3
  <2>5. ASSUME NEW r \in Requests, CreateFails(r)
        PROVE  Books' /\ RuntimeIsOpen' /\ FallbackPolls'
    <3>1. Books'
      BY <2>5, <2>i, CallStep DEF CreateFails, TypeOK
    <3>2. FallbackPolls'
      BY <2>5, LoopHeadPolls DEF CreateFails
    <3>. QED  BY <2>5, <2>i, <3>1, <3>2, SteadyRuntime DEF CreateFails
  <2>6. ASSUME NEW r \in Requests, AddOk(r) \/ AddFails(r) \/ SeedFails(r)
        PROVE  Books' /\ RuntimeIsOpen' /\ FallbackPolls'
    <3>1. Books'
      BY <2>6, <2>i, CallStep DEF AddOk, AddFails, SeedFails, TypeOK
    <3>. QED  BY <2>6, <2>i, <3>1, SteadyRuntime, SteadyLoops
             DEF AddOk, AddFails, SeedFails
  <2>7. ASSUME NEW r \in Requests, SeedOk(r)
        PROVE  Books' /\ RuntimeIsOpen' /\ FallbackPolls'
    <3>1. /\ \A x \in Requests : Recorded(x) =>
               Recorded(x)' /\ elems'[x] = elems[x] /\ depth'[x] = depth[x]
      BY <2>7, <2>i DEF SeedOk, Recorded, TypeOK
    <3>2. /\ dirty' \subseteq dirty \cup Current
          /\ timers' \subseteq timers \cup Current
          /\ Current \cap dirty' = {}
      BY <2>7, TouchedIsCurrent DEF SeedOk
    <3>3. Books'
      BY <2>7, <3>1, <3>2, SteadyBooks DEF SeedOk
    <3>. QED  BY <2>7, <2>i, <3>3, SteadyRuntime, SteadyLoops DEF SeedOk
  <2>8. ASSUME NEW r \in Requests, Unregister(r)
        PROVE  Books' /\ RuntimeIsOpen' /\ FallbackPolls'
    <3>1. UNCHANGED <<known, runtime, open, mode, loop>>
      BY <2>8 DEF Unregister
    <3>. QED  BY <2>8, <2>i, <3>1, UnregisterSafe, SteadyRuntime, SteadyLoops
  <2>9. ASSUME NEW r \in Requests, Removed(r) \/ CloseFails(r)
        PROVE  Books' /\ RuntimeIsOpen' /\ FallbackPolls'
    <3>1. Books'
      BY <2>9, <2>i, CallStep DEF Removed, CloseOrFinish, CloseFails, TypeOK
    <3>. QED  BY <2>9, <2>i, <3>1, SteadyRuntime, SteadyLoops DEF Removed, CloseFails
  <2>10. ASSUME NEW r \in Requests, Closed(r)
         PROVE  Books' /\ RuntimeIsOpen' /\ FallbackPolls'
    <3>1. Books'
      BY <2>10, <2>i, CallStep DEF Closed, TypeOK
    <3>2. RuntimeIsOpen'
      BY <2>10 DEF Closed, RuntimeIsOpen
    <3>. QED  BY <2>10, <2>i, <3>1, <3>2, SteadyLoops DEF Closed
  <2>11. ASSUME NEW r \in Requests, Delete(r)
         PROVE  Books' /\ RuntimeIsOpen' /\ FallbackPolls'
    <3>1. /\ \A x \in Requests : Recorded(x) =>
               Recorded(x)' /\ elems'[x] = elems[x] /\ depth'[x] = depth[x]
          /\ known' => pc'[r] = "delete" /\ known
      BY <2>11, <2>i DEF Delete, MayCall, Recorded, TypeOK
    <3>2. Books'
      BY <2>11, <3>1, SteadyBooks DEF Delete
    <3>. QED  BY <2>11, <2>i, <3>1, <3>2, SteadyRuntime, SteadyLoops DEF Delete
  <2>12. ASSUME NEW r \in Requests, Deleted(r)
         PROVE  Books' /\ RuntimeIsOpen' /\ FallbackPolls'
    <3>1. /\ \A x \in Requests : Recorded(x) =>
               Recorded(x)' /\ elems'[x] = elems[x] /\ depth'[x] = depth[x]
      BY <2>12, <2>i DEF Deleted, Recorded, TypeOK
    <3>2. Books'
      BY <2>12, <3>1, SteadyBooks DEF Deleted
    <3>. QED  BY <2>12, <3>2 DEF Deleted, RuntimeIsOpen, FallbackPolls
  <2>13. ASSUME NEW S, OnDataChange(S), UNCHANGED <<known, assets, listed,
                   sourceToAsset, pc, elems, depth>>
         PROVE  Books'
    <3>1. /\ dirty' = dirty \cup Touched(S) /\ timers' = timers \cup Touched(S)
          /\ Touched(S) \subseteq Current
      BY <2>13, TouchedIsCurrent DEF OnDataChange
    <3>. QED  BY <2>13, <2>d, <3>1, SteadyBooks DEF Recorded
  <2>14. ASSUME NEW r \in Requests, Poll(r)
         PROVE  Books' /\ RuntimeIsOpen' /\ FallbackPolls'
    <3>1. CASE PollAnswer(r)
      <4>1. Books'
        BY <2>13, <3>1 DEF PollAnswer
      <4>2. FallbackPolls'
        BY <2>i, <3>1 DEF PollAnswer, FallbackPolls, TypeOK
      <4>. QED  BY <2>i, <3>1, <4>1, <4>2, SteadyRuntime DEF PollAnswer
    <3>2. CASE PollError(r)
      <4>1. Books'
        BY <2>d, <3>2, SteadyBooks DEF PollError, Recorded
      <4>2. FallbackPolls'
        BY <2>i, <3>2 DEF PollError, FallbackPolls, TypeOK
      <4>. QED  BY <2>i, <3>2, <4>1, <4>2, SteadyRuntime DEF PollError
    <3>3. CASE PollWake(r)
      <4>1. Books'
        BY <2>d, <3>3, SteadyBooks DEF PollWake, Recorded
      <4>2. FallbackPolls'
        BY <3>3, LoopHeadPolls DEF PollWake
      <4>. QED  BY <2>i, <3>3, <4>1, <4>2, SteadyRuntime DEF PollWake
    <3>. QED  BY <2>14, <3>1, <3>2, <3>3 DEF Poll
  <2>15. ASSUME NEW r \in Requests, NEW s \in Sources, Notify(r, s)
         PROVE  Books' /\ RuntimeIsOpen' /\ FallbackPolls'
    BY <2>13, <2>15, <2>i, SteadyRuntime, SteadyLoops DEF Notify
  <2>16. ASSUME NEW o \in States, TimerFires(o)
         PROVE  Books' /\ RuntimeIsOpen' /\ FallbackPolls'
    <3>1. dirty' = dirty \ {o} /\ timers' = timers \ {o}
      BY <2>16 DEF TimerFires
    <3>2. Books'
      BY <2>16, <2>d, <3>1, SteadyBooks DEF TimerFires, Recorded
    <3>. QED  BY <2>16, <2>i, <3>2, SteadyRuntime, SteadyLoops DEF TimerFires
  <2>17. CASE UNCHANGED vars
    <3>1. Books'
      BY <2>17, <2>d, SteadyBooks DEF vars, Recorded
    <3>. QED  BY <2>17, <2>i, <3>1, SteadyRuntime, SteadyLoops DEF vars
  <2>. QED
    BY <2>1, <2>2, <2>3, <2>4, <2>5, <2>6, <2>7, <2>8, <2>9, <2>10, <2>11,
       <2>12, <2>14, <2>15, <2>16, <2>17 DEF Next, Handler
<1>. QED  BY <1>1, <1>2, PTL DEF Spec

(* The books of register and unregister agree in every reachable state.    *)
THEOREM BooksAlwaysAgree == Spec => []BooksAgree
<1>1. IInv => BooksAgree
  BY DEF IInv, Safe
<1>. QED  BY <1>1, Invariant, PTL

(* No change of a monitored source is forgotten.                           *)
THEOREM ChangesAreScheduled == Spec => []DirtyIsScheduled
<1>1. IInv => DirtyIsScheduled
  BY DEF IInv, Safe
<1>. QED  BY <1>1, Invariant, PTL

(* sub.runtime is never a closed runtime.                                  *)
THEOREM RuntimeStaysOpen == Spec => []RuntimeIsOpen
<1>1. IInv => RuntimeIsOpen
  BY DEF IInv, Safe
<1>. QED  BY <1>1, Invariant, PTL

(* A subscription that fell back to polling is polled.                     *)
THEOREM FallbackIsPolled == Spec => []FallbackPolls
<1>1. IInv => FallbackPolls
  BY DEF IInv, Safe
<1>. QED  BY <1>1, Invariant, PTL

(* unregister leaves no timer of the elements it removes, unless a second  *)
(* register replaced their monitor state.                                  *)
THEOREM UnregisterClearsTimers == Spec => []OnlyReplacedLinger
<1>1. IInv => OnlyReplacedLinger
  BY DEF IInv, Safe
<1>. QED  BY <1>1, Invariant, PTL
-----------------------------------------------------------------------------
(***************************************************************************)
(* What a client that awaits each answer is promised, when the data source *)
(* answers every call and creates runtimes either always or never.         *)
(***************************************************************************)
Awaited ==
  /\ Serial /\ ~PortFailures
  /\ \A A \in Adapters : ~({"native", "rejects"} \subseteq A)

(* One call is under way at a time, and only while the subscription is     *)
(* known.                                                                  *)
OneCall ==
  \A r \in Requests : ~Finished(r) =>
    known /\ \A x \in Requests \ {r} : Finished(x)

(* The one open runtime is sub.runtime, and it is the runtime the pending  *)
(* port call is made on; a runtime that is not open monitors nothing.      *)
RuntimeOwned ==
  /\ open = IF known /\ runtime # None THEN {runtime} ELSE {}
  /\ \A x \in Requests \ open : items[x] = {}
  /\ \A r \in Requests : pc[r] \in {"add", "remove", "close", "delete"} =>
       runtime # None /\ rt[r] = runtime
  /\ \A r \in Requests : pc[r] = "create" => runtime = None
  /\ "native" \notin adapter => runtime = None /\ mode = "polling"

(* A key of the reverse lookup is an item of the runtime, or one that the  *)
(* register under way will add.                                            *)
NativeCovers ==
  "native" \in adapter /\ known =>
    /\ \A s \in Keys :
         \/ runtime # None /\ s \in items[runtime]
         \/ \E r \in Requests : pc[r] \in {"create", "add"} /\ s \in Ids(r)
    /\ \A r \in Requests : pc[r] = "add" => Ids(r) \subseteq items[runtime] \cup arg[r]
    /\ \A r \in Requests : pc[r] = "close" => Keys = {}

(* Where no runtime can be created, the first register starts a loop.      *)
PollingCovers ==
  "native" \notin adapter /\ Monitored # {} =>
    \E r \in Requests : loop[r] # "off" \/ pc[r] = "create"

AwaitedInv == OneCall /\ RuntimeOwned /\ NativeCovers /\ PollingCovers

(* Every register finds the same sources for an element.                   *)
SameAtAnyDepth ==
  \A e \in Elements : \A c, d \in Depths : SourcesAt[e][c] = SourcesAt[e][d]

(* Then the reverse lookup has no asset that is not monitored,             *)
LookupIsExact ==
  \A s \in Sources : \A e \in sourceToAsset[s] :
    e \in Monitored /\ s \in Srcs(assets[e], e)

(* and a runtime is kept only for an asset, or is about to be closed.      *)
RuntimeIsNeeded ==
  /\ \A r \in Requests : pc[r] = "model" => elems[r] # {}
  /\ \A r \in Requests : pc[r] = "create" => Monitored # {}
  /\ known /\ runtime # None /\ Monitored = {} =>
       \E r \in Requests : pc[r] \in {"remove", "close", "delete"}

ClosingInv == LookupIsExact /\ RuntimeIsNeeded

LEMMA InitAwaited == Init => AwaitedInv /\ ClosingInv
<1> SUFFICES ASSUME Init PROVE AwaitedInv /\ ClosingInv
  OBVIOUS
<1>1. Keys = {} /\ Monitored = {} /\ \A r \in Requests : pc[r] = "new"
  BY DEF Init, Keys, Monitored
<1>2. OneCall /\ RuntimeOwned
  BY <1>1 DEF Init, OneCall, Finished, RuntimeOwned
<1>3. NativeCovers /\ PollingCovers
  BY <1>1 DEF NativeCovers, PollingCovers
<1>4. ClosingInv
  BY <1>1 DEF Init, ClosingInv, LookupIsExact, RuntimeIsNeeded
<1>. QED  BY <1>2, <1>3, <1>4 DEF AwaitedInv

(* Steps that are not part of a call leave what was made by calls alone.   *)
LEMMA AwaitedFrame ==
  ASSUME AwaitedInv,
         UNCHANGED <<adapter, known, mode, runtime, bookVars, callVars, portVars>>,
         \A r \in Requests : loop[r] # "off" => loop'[r] # "off"
  PROVE  AwaitedInv' /\ (ClosingInv => ClosingInv')
<1> USE DEF bookVars, callVars, portVars
<1>1. /\ UNCHANGED <<Keys, Monitored>> /\ \A r \in Requests : Ids(r)' = Ids(r)
      /\ \A r \in Requests : \A e : Srcs(r, e)' = Srcs(r, e)
  BY DEF Keys, Monitored, Ids, Srcs
<1>2. OneCall' /\ RuntimeOwned'
  BY DEF AwaitedInv, OneCall, Finished, RuntimeOwned
<1>3. NativeCovers' /\ PollingCovers'
  BY <1>1 DEF AwaitedInv, NativeCovers, PollingCovers
<1>4. ClosingInv => ClosingInv'
  BY <1>1 DEF ClosingInv, LookupIsExact, RuntimeIsNeeded, Srcs
<1>. QED  BY <1>2, <1>3, <1>4 DEF AwaitedInv

(* While a call takes a step no other is under way.                        *)
LEMMA CallIsAlone ==
  ASSUME Awaited, OneCall, NEW r \in Requests, MayCall(r) \/ ~Finished(r)
  PROVE  known /\ \A x \in Requests \ {r} : Finished(x)
  BY DEF Awaited, OneCall, MayCall, Idle

LEMMA OneCallStep ==
  ASSUME Awaited, OneCall, NEW r \in Requests, MayCall(r) \/ ~Finished(r),
         \A x \in Requests \ {r} : pc'[x] = pc[x], Finished(r)' \/ known'
  PROVE  OneCall'
  BY CallIsAlone DEF OneCall, Finished

(* register *)
LEMMA RegisterAwaited ==
  ASSUME Awaited, IInv, AwaitedInv, NEW r \in Requests,
         Register(r) \/ RegisterFails(r)
  PROVE  AwaitedInv'
<1>1. /\ UNCHANGED <<adapter, known, mode, runtime, assets, sourceToAsset, rt, arg,
                     open, items, loop>>
      /\ \A x \in Requests \ {r} : pc'[x] = pc[x] /\ Finished(x)
      /\ pc[r] \in {"new", "model"} /\ pc'[r] \in {"model", "failed"}
      /\ known /\ OneCall'
  <2>1. MayCall(r) \/ ~Finished(r)
    BY DEF Register, RegisterFails, Finished
  <2>2. /\ UNCHANGED <<adapter, known, mode, runtime, assets, sourceToAsset, rt, arg,
                     open, items, loop>>
        /\ \A x \in Requests \ {r} : pc'[x] = pc[x]
        /\ pc[r] \in {"new", "model"} /\ pc'[r] \in {"model", "failed"}
    BY DEF Register, RegisterFails, MayCall, bookVars, portVars, loopVars, IInv, TypeOK
  <2>3. known /\ \A x \in Requests \ {r} : Finished(x)
    BY <2>1, CallIsAlone DEF AwaitedInv
  <2>4. OneCall'
    BY <2>1, <2>2, <2>3, OneCallStep DEF AwaitedInv
  <2>. QED  BY <2>2, <2>3, <2>4
<1>2. Keys' = Keys /\ Monitored' = Monitored
  BY <1>1 DEF Keys, Monitored
<1>3. \A x \in Requests : pc[x] \notin {"create", "add", "remove", "close", "delete"}
                          /\ pc'[x] \notin {"create", "add", "remove", "close", "delete"}
  BY <1>1 DEF Finished
<1>4. RuntimeOwned'
  BY <1>1, <1>3 DEF AwaitedInv, RuntimeOwned
<1>5. NativeCovers' /\ PollingCovers'
  BY <1>1, <1>2, <1>3 DEF AwaitedInv, NativeCovers, PollingCovers
<1>. QED  BY <1>1, <1>4, <1>5 DEF AwaitedInv

LEMMA RegisterAssetsAwaited ==
  ASSUME Awaited, IInv, AwaitedInv, NEW r \in Requests, RegisterAssets(r)
  PROVE  AwaitedInv'
<1>1. /\ pc[r] = "model"
      /\ UNCHANGED <<adapter, known, mode, runtime, elems, depth, open, items, loop>>
      /\ sourceToAsset' = [s \in Sources |-> sourceToAsset[s] \cup
                             {e \in elems[r] : s \in Srcs(r, e)}]
  BY DEF RegisterAssets, portVars, loopVars
<1>2. known /\ \A x \in Requests \ {r} : Finished(x)
  BY <1>1, CallIsAlone DEF AwaitedInv, Finished
<1>3. /\ \A x \in Requests \ {r} : pc'[x] = pc[x]
      /\ IF runtime = None THEN pc'[r] = "create"
         ELSE IF Ids(r) # {} THEN /\ pc'[r] = "add" /\ rt'[r] = runtime
                                  /\ arg'[r] = Ids(r) \ items[runtime]
         ELSE pc'[r] = "done"
  BY DEF RegisterAssets, AddOrFinish, IInv, TypeOK
<1>4. OneCall'
  BY <1>1, <1>2, <1>3, OneCallStep DEF AwaitedInv, Finished
<1>5. /\ \A s \in Keys' : s \in Keys \/ s \in Ids(r)
      /\ \A x \in Requests : Ids(x)' = Ids(x)
  BY <1>1 DEF Keys, Ids, Srcs
<1>6. RuntimeOwned'
  BY <1>1, <1>2, <1>3 DEF AwaitedInv, RuntimeOwned, Finished
<1>7. NativeCovers'
  <2> SUFFICES ASSUME "native" \in adapter PROVE NativeCovers'
    BY <1>1 DEF NativeCovers
  <2>1. \A s \in Keys : runtime # None /\ s \in items[runtime]
    BY <1>1, <1>2 DEF AwaitedInv, NativeCovers, Finished
  <2>2. ASSUME NEW s \in Keys'
        PROVE  \/ runtime # None /\ s \in items[runtime]
               \/ pc'[r] \in {"create", "add"} /\ s \in Ids(r)
    BY <1>3, <1>5, <2>1
  <2>. QED  BY <1>1, <1>2, <1>3, <1>5, <2>2 DEF NativeCovers, Finished
<1>8. PollingCovers'
  <2> SUFFICES ASSUME "native" \notin adapter PROVE PollingCovers'
    BY <1>1 DEF PollingCovers
  <2>1. pc'[r] = "create"
    BY <1>3 DEF AwaitedInv, RuntimeOwned
  <2>. QED  BY <2>1 DEF PollingCovers
<1>. QED  BY <1>4, <1>6, <1>7, <1>8 DEF AwaitedInv

LEMMA CreateAwaited ==
  ASSUME Awaited, IInv, AwaitedInv, NEW r \in Requests, CreateOk(r) \/ CreateFails(r)
  PROVE  AwaitedInv'
<1>1. /\ pc[r] = "create"
      /\ UNCHANGED <<adapter, known, assets, sourceToAsset, elems, depth, items>>
  BY DEF CreateOk, CreateFails, bookVars, portVars
<1>2. known /\ \A x \in Requests \ {r} : Finished(x)
  BY <1>1, CallIsAlone DEF AwaitedInv, Finished
<1>3. \A x \in Requests \ {r} : pc'[x] = pc[x]
  BY DEF CreateOk, CreateFails, AddOrFinish, IInv, TypeOK
<1>4. OneCall'
  BY <1>1, <1>2, <1>3, OneCallStep DEF AwaitedInv, Finished
<1>5. Keys' = Keys /\ Monitored' = Monitored /\ \A x \in Requests : Ids(x)' = Ids(x)
  BY <1>1 DEF Keys, Monitored, Ids, Srcs
<1>6. runtime = None /\ open = {}
  BY <1>1 DEF AwaitedInv, RuntimeOwned
<1>7. ~("native" \in adapter /\ "rejects" \in adapter)
  BY DEF Awaited, IInv, TypeOK
<1>8. CASE CreateOk(r)
  <2>1. /\ "native" \in adapter
        /\ open' = {r} /\ runtime' = r /\ mode' = "native" /\ r # None
        /\ IF Ids(r) # {} THEN /\ pc'[r] = "add" /\ rt'[r] = r
                               /\ arg'[r] = Ids(r) \ items[r]
           ELSE pc'[r] = "done"
    BY <1>6, <1>8, NoneAssumption DEF CreateOk, AddOrFinish, IInv, TypeOK
  <2>2. RuntimeOwned'
    BY <1>1, <1>2, <1>3, <1>6, <2>1 DEF AwaitedInv, RuntimeOwned, Finished
  <2>3. \A s \in Keys : s \in Ids(r)
    BY <1>1, <1>2, <1>6, <2>1 DEF AwaitedInv, NativeCovers, Finished
  <2>4. NativeCovers'
    BY <1>1, <1>2, <1>3, <1>5, <2>1, <2>3 DEF NativeCovers, Finished
  <2>5. PollingCovers'
    BY <1>1, <2>1 DEF PollingCovers
  <2>. QED  BY <1>4, <2>2, <2>4, <2>5 DEF AwaitedInv
<1>9. CASE CreateFails(r)
  <2>1. /\ "native" \notin adapter
        /\ UNCHANGED <<open, runtime, rt, arg>> /\ mode' = "polling"
        /\ pc'[r] \in {"seed", "done"}
        /\ loop'[r] # "off"
    BY <1>7, <1>9 DEF CreateFails, LoopHead, portVars, IInv, TypeOK
  <2>2. RuntimeOwned'
    BY <1>1, <1>2, <1>3, <2>1 DEF AwaitedInv, RuntimeOwned, Finished
  <2>3. NativeCovers' /\ PollingCovers'
    BY <1>1, <2>1 DEF NativeCovers, PollingCovers
  <2>. QED  BY <1>4, <2>2, <2>3 DEF AwaitedInv
<1>. QED  BY <1>8, <1>9

LEMMA AddAwaited ==
  ASSUME Awaited, IInv, AwaitedInv, NEW r \in Requests,
         AddOk(r) \/ AddFails(r) \/ SeedOk(r) \/ SeedFails(r)
  PROVE  AwaitedInv'
<1>1. /\ pc[r] \in {"add", "seed"} /\ pc'[r] \in {"seed", "done"}
      /\ \A x \in Requests \ {r} : pc'[x] = pc[x]
      /\ UNCHANGED <<adapter, known, mode, runtime, assets, sourceToAsset, elems,
                     depth, open, loop>>
      /\ IF pc[r] = "add"
         THEN items' = IF rt[r] \in open
                       THEN [items EXCEPT ![rt[r]] = @ \cup arg[r]] ELSE items
         ELSE items' = items
  BY DEF Awaited, AddOk, AddFails, SeedOk, SeedFails, bookVars, portVars, loopVars, IInv,
         TypeOK
<1>2. known /\ \A x \in Requests \ {r} : Finished(x)
  BY <1>1, CallIsAlone DEF AwaitedInv, Finished
<1>3. OneCall'
  BY <1>1, <1>2, OneCallStep DEF AwaitedInv, Finished
<1>4. Keys' = Keys /\ Monitored' = Monitored /\ \A x \in Requests : Ids(x)' = Ids(x)
  BY <1>1 DEF Keys, Monitored, Ids, Srcs
<1>5. items \in [Requests -> SUBSET Sources] /\ open \subseteq Requests
  BY DEF IInv, TypeOK
<1>6. RuntimeOwned'
  <2>1. \A x \in Requests \ open' : items'[x] = {}
    BY <1>1, <1>5 DEF AwaitedInv, RuntimeOwned
  <2>. QED  BY <1>1, <1>2, <2>1 DEF AwaitedInv, RuntimeOwned, Finished
<1>7. NativeCovers'
  <2> SUFFICES ASSUME "native" \in adapter PROVE NativeCovers'
    BY <1>1 DEF NativeCovers
  <2>1. CASE pc[r] = "add"
    <3>1. rt[r] = runtime /\ runtime \in open /\ runtime # None
      BY <1>2, <2>1 DEF AwaitedInv, RuntimeOwned
    <3>2. items'[runtime] = items[runtime] \cup arg[r]
      BY <1>1, <1>5, <2>1, <3>1
    <3>3. Ids(r) \subseteq items'[runtime]
      BY <1>2, <2>1, <3>2 DEF AwaitedInv, NativeCovers
    <3>4. \A s \in Keys : s \in items'[runtime]
      BY <1>2, <3>2, <3>3 DEF AwaitedInv, NativeCovers, Finished
    <3>. QED  BY <1>1, <1>2, <1>4, <3>1, <3>4 DEF NativeCovers, Finished
  <2>2. CASE pc[r] = "seed"
    BY <1>1, <1>2, <1>4, <2>2 DEF AwaitedInv, NativeCovers, Finished
  <2>. QED  BY <1>1, <2>1, <2>2
<1>8. PollingCovers'
  BY <1>1, <1>4 DEF AwaitedInv, PollingCovers
<1>. QED  BY <1>3, <1>6, <1>7, <1>8 DEF AwaitedInv

(* unregister *)
LEMMA UnregisterAwaited ==
  ASSUME Awaited, IInv, AwaitedInv, NEW r \in Requests, Unregister(r)
  PROVE  AwaitedInv'
<1>1. PICK gone \in SUBSET Monitored :
        /\ Forget(gone)
        /\ IF runtime # None /\ Emptied(gone) # {}
           THEN RemoveItems(r, Emptied(gone))
           ELSE CloseOrFinish(r, Without(gone)) /\ UNCHANGED items
  BY DEF Unregister
<1>2. /\ MayCall(r) /\ pc[r] = "new"
      /\ sourceToAsset' = Without(gone)
      /\ UNCHANGED <<adapter, known, mode, runtime, elems, depth, arg, open, loop>>
  BY <1>1 DEF Unregister, MayCall, Forget, loopVars
<1>3. known /\ \A x \in Requests : Finished(x)
  BY <1>2, CallIsAlone DEF AwaitedInv, Finished
<1>4. /\ \A x \in Requests \ {r} : pc'[x] = pc[x]
      /\ IF runtime # None /\ Emptied(gone) # {}
         THEN /\ pc'[r] = "remove" /\ rt'[r] = runtime
              /\ items' = [items EXCEPT ![runtime] = @ \ Emptied(gone)]
         ELSE /\ items' = items
              /\ IF runtime # None /\ \A s \in Sources : Without(gone)[s] = {}
                 THEN pc'[r] = "close" /\ rt'[r] = runtime
                 ELSE pc'[r] = "done"
  <2>1. CASE runtime # None /\ Emptied(gone) # {}
    BY <1>1, <2>1 DEF Awaited, RemoveItems, IInv, TypeOK
  <2>2. CASE ~(runtime # None /\ Emptied(gone) # {})
    BY <1>1, <2>2 DEF CloseOrFinish, IInv, TypeOK
  <2>. QED  BY <2>1, <2>2
<1>5. OneCall'
  BY <1>2, <1>3, <1>4, OneCallStep DEF AwaitedInv, Finished
<1>6. /\ items \in [Requests -> SUBSET Sources] /\ open \subseteq Requests
      /\ open = IF runtime # None THEN {runtime} ELSE {}
  BY <1>3 DEF IInv, TypeOK, AwaitedInv, RuntimeOwned
<1>7. RuntimeOwned'
  <2>1. \A x \in Requests \ open' : items'[x] = {}
    BY <1>2, <1>4, <1>6 DEF AwaitedInv, RuntimeOwned
  <2>. QED  BY <1>2, <1>3, <1>4, <1>6, <2>1 DEF AwaitedInv, RuntimeOwned, Finished
<1>8. /\ Keys' = {s \in Sources : Without(gone)[s] # {}}
      /\ Keys' = Keys \ Emptied(gone)
  BY <1>2 DEF Keys, Emptied, Without
<1>9. NativeCovers'
  <2> SUFFICES ASSUME "native" \in adapter PROVE NativeCovers'
    BY <1>2 DEF NativeCovers
  <2>1. \A s \in Keys : runtime # None /\ s \in items[runtime]
    BY <1>3 DEF AwaitedInv, NativeCovers, Finished
  <2>2. \A s \in Keys' : runtime # None /\ s \in items'[runtime]
    BY <1>4, <1>6, <1>8, <2>1
  <2>3. pc'[r] = "close" => Keys' = {}
    BY <1>4, <1>8
  <2>. QED  BY <1>2, <1>3, <1>4, <2>2, <2>3 DEF NativeCovers, Finished
<1>10. PollingCovers'
  <2>1. Monitored' \subseteq Monitored
    BY <1>1 DEF Forget, Monitored
  <2>. QED  BY <1>2, <1>3, <2>1 DEF AwaitedInv, PollingCovers, Finished
<1>. QED  BY <1>5, <1>7, <1>9, <1>10 DEF AwaitedInv

LEMMA RemovedAwaited ==
  ASSUME Awaited, IInv, AwaitedInv, NEW r \in Requests, Removed(r)
  PROVE  AwaitedInv'
<1>1. /\ pc[r] = "remove"
      /\ UNCHANGED <<adapter, known, mode, runtime, assets, sourceToAsset, elems,
                     depth, arg, open, items, loop>>
      /\ \A x \in Requests \ {r} : pc'[x] = pc[x]
      /\ IF runtime # None /\ \A s \in Sources : sourceToAsset[s] = {}
         THEN pc'[r] = "close" /\ rt'[r] = runtime ELSE pc'[r] = "done"
  BY DEF Removed, CloseOrFinish, bookVars, portVars, loopVars, IInv, TypeOK
<1>2. known /\ \A x \in Requests \ {r} : Finished(x)
  BY <1>1, CallIsAlone DEF AwaitedInv, Finished
<1>3. OneCall'
  BY <1>1, <1>2, OneCallStep DEF AwaitedInv, Finished
<1>4. Keys' = Keys /\ Monitored' = Monitored /\ \A x \in Requests : Ids(x)' = Ids(x)
  BY <1>1 DEF Keys, Monitored, Ids, Srcs
<1>5. RuntimeOwned'
  BY <1>1, <1>2 DEF AwaitedInv, RuntimeOwned, Finished
<1>6. pc'[r] = "close" => Keys = {}
  BY <1>1 DEF Keys
<1>7. NativeCovers'
  BY <1>1, <1>2, <1>4, <1>6 DEF AwaitedInv, NativeCovers, Finished
<1>8. PollingCovers'
  BY <1>1, <1>2, <1>4 DEF AwaitedInv, PollingCovers, Finished
<1>. QED  BY <1>3, <1>5, <1>7, <1>8 DEF AwaitedInv

LEMMA ClosedAwaited ==
  ASSUME Awaited, IInv, AwaitedInv, NEW r \in Requests, Closed(r) \/ CloseFails(r)
  PROVE  AwaitedInv'
<1>1. /\ pc[r] = "close" /\ pc'[r] = "done"
      /\ UNCHANGED <<adapter, known, mode, assets, sourceToAsset, elems, depth, arg,
                     loop>>
      /\ \A x \in Requests \ {r} : pc'[x] = pc[x]
      /\ open' = open \ {rt[r]} /\ items' = [items EXCEPT ![rt[r]] = {}]
      /\ runtime' = None
  BY DEF Awaited, Closed, CloseFails, bookVars, loopVars, IInv, TypeOK
<1>2. known /\ \A x \in Requests \ {r} : Finished(x)
  BY <1>1, CallIsAlone DEF AwaitedInv, Finished
<1>3. OneCall'
  BY <1>1, <1>2, OneCallStep DEF AwaitedInv, Finished
<1>4. /\ open = {rt[r]} /\ \A x \in Requests \ open : items[x] = {}
      /\ "native" \in adapter
  BY <1>1, <1>2 DEF AwaitedInv, RuntimeOwned
<1>5. open' = {} /\ \A x \in Requests : items'[x] = {}
  BY <1>1, <1>4 DEF IInv, TypeOK
<1>6. RuntimeOwned'
  BY <1>1, <1>2, <1>4, <1>5 DEF RuntimeOwned, Finished
<1>7. Keys' = {}
  <2>1. Keys = {}
    BY <1>1, <1>2, <1>4 DEF AwaitedInv, NativeCovers
  <2>. QED  BY <1>1, <2>1 DEF Keys
<1>8. NativeCovers' /\ PollingCovers'
  BY <1>1, <1>2, <1>4, <1>7 DEF NativeCovers, PollingCovers, Finished
<1>. QED  BY <1>3, <1>6, <1>8 DEF AwaitedInv

(* delete *)
LEMMA DeleteAwaited ==
  ASSUME Awaited, IInv, AwaitedInv, NEW r \in Requests, Delete(r) \/ Deleted(r)
  PROVE  AwaitedInv'
<1>1. /\ UNCHANGED <<adapter, mode, runtime, assets, sourceToAsset, elems, depth, arg,
                     loop>>
      /\ \A x \in Requests \ {r} : pc'[x] = pc[x]
      /\ MayCall(r) \/ pc[r] = "delete"
      /\ pc'[r] = "done" => ~known'
  BY DEF Delete, Deleted, bookVars, loopVars, IInv, TypeOK
<1>2. known /\ \A x \in Requests \ {r} : Finished(x)
  BY <1>1, CallIsAlone DEF AwaitedInv, Finished
<1>3. \/ /\ pc'[r] = "delete" /\ known' /\ runtime # None /\ rt'[r] = runtime
         /\ UNCHANGED <<open, items>>
      \/ /\ pc'[r] = "done" /\ ~known'
         /\ open' = {} /\ \A x \in Requests : items'[x] = {}
  <2>1. CASE Delete(r)
    <3>1. CASE runtime # None
      BY <1>2, <2>1, <3>1 DEF Delete, portVars, IInv, TypeOK
    <3>2. CASE runtime = None
      BY <2>1, <3>2 DEF Delete, portVars, IInv, TypeOK, AwaitedInv, RuntimeOwned
    <3>. QED  BY <3>1, <3>2
  <2>2. CASE Deleted(r)
    <3>1. /\ pc[r] = "delete" /\ pc'[r] = "done" /\ ~known'
          /\ open' = open \ {rt[r]} /\ items' = [items EXCEPT ![rt[r]] = {}]
      BY <2>2 DEF Awaited, Deleted, IInv, TypeOK
    <3>2. open = {rt[r]} /\ \A x \in Requests \ open : items[x] = {}
      BY <1>2, <3>1 DEF AwaitedInv, RuntimeOwned
    <3>. QED  BY <3>1, <3>2 DEF IInv, TypeOK
  <2>. QED  BY <2>1, <2>2
<1>4. OneCall'
  BY <1>1, <1>2, <1>3, OneCallStep DEF AwaitedInv, Finished
<1>5. RuntimeOwned'
  BY <1>1, <1>2, <1>3 DEF AwaitedInv, RuntimeOwned, Finished
<1>6. Keys' = Keys /\ Monitored' = Monitored /\ \A x \in Requests : Ids(x)' = Ids(x)
  BY <1>1 DEF Keys, Monitored, Ids, Srcs
<1>7. \A x \in Requests : /\ pc[x] \notin {"create", "add", "close"}
                          /\ pc'[x] \notin {"create", "add", "close"}
  BY <1>1, <1>2, <1>3 DEF Finished, MayCall
<1>8. NativeCovers'
  <2> SUFFICES ASSUME "native" \in adapter, known' PROVE NativeCovers'
    BY <1>1 DEF NativeCovers
  <2>. QED  BY <1>1, <1>2, <1>3, <1>6, <1>7 DEF AwaitedInv, NativeCovers
<1>9. PollingCovers'
  BY <1>1, <1>6, <1>7 DEF AwaitedInv, PollingCovers
<1>. QED  BY <1>4, <1>5, <1>8, <1>9 DEF AwaitedInv

(* The data source and the timers are no part of a call. *)
LEMMA OutsideCalls ==
  ASSUME \/ \E r \in Requests : Poll(r)
         \/ \E r \in Requests, s \in Sources : Notify(r, s)
         \/ \E o \in States : TimerFires(o)
         \/ UNCHANGED vars,
         TypeOK
  PROVE  /\ UNCHANGED <<adapter, known, mode, runtime, bookVars, callVars, portVars>>
         /\ \A r \in Requests : loop[r] # "off" => loop'[r] # "off"
<1>1. UNCHANGED <<adapter, known, mode, runtime, bookVars, callVars, portVars>>
  BY DEF Poll, PollAnswer, PollError, PollWake, Notify, TimerFires, vars
<1>2. ASSUME NEW x \in Requests, Poll(x), NEW r \in Requests, loop[r] # "off"
      PROVE  loop'[r] # "off"
  BY <1>2 DEF Poll, PollAnswer, PollError, PollWake, LoopHead, TypeOK
<1>3. CASE ~\E r \in Requests : Poll(r)
  BY <1>1, <1>3 DEF Notify, TimerFires, loopVars, vars
<1>. QED  BY <1>1, <1>2, <1>3

LEMMA AwaitedStep == Awaited /\ IInv /\ AwaitedInv /\ [Next]_vars => AwaitedInv'
<1> SUFFICES ASSUME Awaited, IInv, AwaitedInv, [Next]_vars PROVE AwaitedInv'
  OBVIOUS
<1>1. ASSUME NEW r \in Requests, Handler(r) PROVE AwaitedInv'
  BY <1>1, RegisterAwaited, RegisterAssetsAwaited, CreateAwaited, AddAwaited,
     UnregisterAwaited, RemovedAwaited, ClosedAwaited, DeleteAwaited DEF Handler
<1>2. CASE ~\E r \in Requests : Handler(r)
  BY <1>2, OutsideCalls, AwaitedFrame DEF Next, IInv
<1>. QED  BY <1>1, <1>2

(* A client that awaits each answer: between its calls, every source of    *)
(* every asset it has registered is an item of the runtime, or is polled   *)
(* where the data source creates no runtimes; for any elements, sources    *)
(* and depths and any number of calls.                                     *)
THEOREM RegisteredStayMonitored ==
  ASSUME Awaited
  PROVE  Spec => []RegisteredIsMonitored
<1>1. IInv /\ AwaitedInv => RegisteredIsMonitored
  <2> SUFFICES ASSUME IInv, AwaitedInv, known, Idle,
                      NEW e \in Monitored, NEW s \in Srcs(assets[e], e)
               PROVE  s \in SourcesWatched
    BY DEF RegisteredIsMonitored
  <2>1. e \in sourceToAsset[s]
    BY DEF IInv, Safe, BooksAgree
  <2>2. s \in Sources
    <3>1. assets[e] \in Requests /\ e \in elems[assets[e]] /\ e \in Elements
      BY DEF IInv, TypeOK, Safe, StatesWereMade, Monitored
    <3>2. depth[assets[e]] \in Depths
      BY <3>1 DEF IInv, TypeOK
    <3>. QED  BY <3>1, <3>2, SrcsAreSources DEF IInv
  <2>3. s \in Keys
    BY <2>1, <2>2 DEF Keys
  <2>4. CASE "native" \in adapter
    <3>1. runtime # None /\ s \in items[runtime]
      BY <2>3, <2>4 DEF AwaitedInv, NativeCovers, Idle, Finished
    <3>2. runtime \in open
      BY <3>1 DEF AwaitedInv, RuntimeOwned
    <3>. QED  BY <3>1, <3>2 DEF SourcesWatched
  <2>5. CASE "native" \notin adapter
    <3>1. mode = "polling"
      BY <2>5 DEF AwaitedInv, RuntimeOwned
    <3>2. \E r \in Requests : loop[r] # "off"
      BY <2>5 DEF AwaitedInv, PollingCovers, Idle, Finished
    <3>3. \E r \in Requests : loop[r] \in {"reading", "sleeping"}
      BY <3>1, <3>2 DEF IInv, Safe, FallbackPolls
    <3>. QED  BY <2>3, <3>1, <3>3 DEF SourcesWatched
  <2>. QED  BY <2>4, <2>5
<1>2. Spec => []AwaitedInv
  <2>1. Init => AwaitedInv
    BY InitAwaited
  <2>2. IInv /\ AwaitedInv /\ [Next]_vars => AwaitedInv'
    BY AwaitedStep
  <2>. QED  BY <2>1, <2>2, Invariant, PTL DEF Spec
<1>. QED  BY <1>1, <1>2, Invariant, PTL

-----------------------------------------------------------------------------
(* The reverse lookup forgets what is forgotten.  A call that leaves the   *)
(* books alone leaves it exact.                                            *)
LEMMA SteadyLookup ==
  ASSUME IInv, LookupIsExact, UNCHANGED <<assets, sourceToAsset>>,
         \A r \in Requests : Recorded(r) => depth'[r] = depth[r]
  PROVE  LookupIsExact'
<1>1. Monitored' = Monitored
  BY DEF Monitored
<1>2. \A e \in Monitored : depth'[assets[e]] = depth[assets[e]]
  BY DEF IInv, TypeOK, Safe, StatesWereMade, Monitored
<1>. QED  BY <1>1, <1>2 DEF LookupIsExact, Srcs

LEMMA RegisterAssetsLookup ==
  ASSUME SameAtAnyDepth, IInv, LookupIsExact, NEW r \in Requests, RegisterAssets(r)
  PROVE  LookupIsExact'
<1>1. /\ assets' = [e \in Elements |-> IF e \in elems[r] THEN r ELSE assets[e]]
      /\ sourceToAsset' = [s \in Sources |-> sourceToAsset[s] \cup
                             {e \in elems[r] : s \in Srcs(r, e)}]
      /\ depth' = depth /\ elems[r] \subseteq Elements /\ r # None
  BY NoneAssumption DEF RegisterAssets, IInv, TypeOK
<1>2. Monitored' = Monitored \cup elems[r]
  BY <1>1 DEF Monitored
<1> SUFFICES ASSUME NEW s \in Sources, NEW e \in sourceToAsset'[s]
             PROVE  e \in Monitored' /\ s \in SourcesAt[e][depth[assets'[e]]]
  BY <1>1 DEF LookupIsExact, Srcs
<1>3. \/ e \in elems[r] /\ s \in SourcesAt[e][depth[r]]
      \/ e \in Monitored /\ s \in SourcesAt[e][depth[assets[e]]]
  BY <1>1 DEF LookupIsExact, Srcs
<1>4. e \in Monitored => e \in Elements /\ depth[assets[e]] \in Depths
  BY DEF IInv, TypeOK, Safe, StatesWereMade, Monitored
<1>5. CASE e \in elems[r]
  <2>1. e \in Elements /\ depth[r] \in Depths /\ assets'[e] = r
    BY <1>1, <1>5 DEF IInv, TypeOK
  <2>. QED  BY <1>2, <1>3, <1>4, <1>5, <2>1 DEF SameAtAnyDepth
<1>6. CASE e \notin elems[r]
  <2>1. assets'[e] = assets[e]
    BY <1>1, <1>3, <1>4, <1>6
  <2>. QED  BY <1>2, <1>3, <1>6, <2>1
<1>. QED  BY <1>5, <1>6

LEMMA UnregisterLookup ==
  ASSUME IInv, LookupIsExact, NEW gone \in SUBSET Monitored, Forget(gone), depth' = depth
  PROVE  LookupIsExact'
<1>1. /\ assets' = [e \in Elements |-> IF e \in gone THEN None ELSE assets[e]]
      /\ sourceToAsset' = Without(gone)
  BY DEF Forget
<1>2. Monitored' = Monitored \ gone
  BY <1>1 DEF Monitored
<1> SUFFICES ASSUME NEW s \in Sources, NEW e \in sourceToAsset'[s]
             PROVE  e \in Monitored' /\ s \in SourcesAt[e][depth[assets'[e]]]
  BY DEF LookupIsExact, Srcs
<1>3. e \in sourceToAsset[s] /\ ~(e \in gone /\ s \in Srcs(assets[e], e))
  BY <1>1 DEF Without
<1>4. e \in Monitored /\ s \in Srcs(assets[e], e) /\ e \notin gone
  BY <1>3 DEF LookupIsExact
<1>. QED  BY <1>1, <1>2, <1>4 DEF Srcs, Monitored

LEMMA NothingMonitoredNoKey == LookupIsExact /\ Monitored = {} => Keys = {}
  BY DEF LookupIsExact, Keys

LEMMA ClosingStep ==
  Awaited /\ SameAtAnyDepth /\ IInv /\ AwaitedInv /\ ClosingInv /\ [Next]_vars => ClosingInv'
<1> SUFFICES ASSUME Awaited, SameAtAnyDepth, IInv, AwaitedInv, ClosingInv, [Next]_vars
             PROVE  ClosingInv'
  OBVIOUS
<1> USE DEF ClosingInv
<1>a. ASSUME NEW r \in Requests, MayCall(r) \/ ~Finished(r)
      PROVE  known /\ \A x \in Requests \ {r} : Finished(x)
  BY <1>a, CallIsAlone DEF AwaitedInv
<1>1. ASSUME NEW r \in Requests, Register(r) PROVE ClosingInv'
  <2>1. /\ pc[r] = "new" /\ pc'[r] = "model" /\ elems'[r] # {}
        /\ \A x \in Requests \ {r} : /\ pc'[x] = pc[x] /\ Finished(x)
                                    /\ elems'[x] = elems[x] /\ depth'[x] = depth[x]
        /\ UNCHANGED <<known, runtime, assets, sourceToAsset>>
    BY <1>1, <1>a DEF Register, MayCall, bookVars, IInv, TypeOK
  <2>2. LookupIsExact'
    BY <2>1, SteadyLookup DEF Recorded
  <2>3. Monitored' = Monitored
    BY <2>1 DEF Monitored
  <2>. QED  BY <2>1, <2>2, <2>3 DEF RuntimeIsNeeded, Finished
<1>2. ASSUME NEW r \in Requests,
             RegisterFails(r) \/ AddOk(r) \/ AddFails(r) \/ SeedOk(r) \/ SeedFails(r)
      PROVE  ClosingInv'
  <2>1. /\ pc[r] \in {"model", "add", "seed"} /\ pc'[r] \in {"failed", "seed", "done"}
        /\ \A x \in Requests \ {r} : pc'[x] = pc[x]
        /\ UNCHANGED <<known, runtime, assets, sourceToAsset, elems, depth>>
    BY <1>2 DEF RegisterFails, AddOk, AddFails, SeedOk, SeedFails, bookVars, IInv, TypeOK
  <2>2. LookupIsExact'
    BY <2>1, SteadyLookup
  <2>3. Monitored' = Monitored
    BY <2>1 DEF Monitored
  <2>. QED  BY <2>1, <2>2, <2>3 DEF RuntimeIsNeeded
<1>3. ASSUME NEW r \in Requests, RegisterAssets(r) PROVE ClosingInv'
  <2>1. /\ pc[r] = "model" /\ elems[r] # {} /\ elems[r] \subseteq Elements
        /\ assets' = [e \in Elements |-> IF e \in elems[r] THEN r ELSE assets[e]]
        /\ UNCHANGED <<elems, runtime, known>>
        /\ \A x \in Requests \ {r} : pc'[x] = pc[x]
        /\ pc'[r] # "model"
    BY <1>3 DEF RegisterAssets, AddOrFinish, IInv, TypeOK, RuntimeIsNeeded
  <2>2. Monitored' # {}
    BY <2>1, NoneAssumption DEF Monitored
  <2>3. LookupIsExact'
    BY <1>3, RegisterAssetsLookup
  <2>. QED  BY <2>1, <2>2, <2>3 DEF RuntimeIsNeeded
<1>4. ASSUME NEW r \in Requests, CreateOk(r) \/ CreateFails(r) PROVE ClosingInv'
  <2>1. /\ pc[r] = "create" /\ pc'[r] \in {"add", "seed", "done"}
        /\ \A x \in Requests \ {r} : pc'[x] = pc[x]
        /\ UNCHANGED <<known, assets, sourceToAsset, elems, depth>>
    BY <1>4 DEF CreateOk, CreateFails, AddOrFinish, bookVars, IInv, TypeOK
  <2>2. LookupIsExact'
    BY <2>1, SteadyLookup
  <2>3. Monitored' # {}
    BY <2>1 DEF Monitored, RuntimeIsNeeded
  <2>. QED  BY <2>1, <2>2, <2>3 DEF RuntimeIsNeeded
<1>5. ASSUME NEW r \in Requests, Unregister(r) PROVE ClosingInv'
  <2>1. PICK gone \in SUBSET Monitored :
          /\ Forget(gone)
          /\ IF runtime # None /\ Emptied(gone) # {}
             THEN RemoveItems(r, Emptied(gone))
             ELSE CloseOrFinish(r, Without(gone)) /\ UNCHANGED items
    BY <1>5 DEF Unregister
  <2>2. /\ pc[r] = "new" /\ UNCHANGED <<known, runtime, elems, depth>>
        /\ sourceToAsset' = Without(gone)
    BY <1>5, <2>1 DEF Unregister, MayCall, Forget
  <2>3. /\ \A x \in Requests \ {r} : pc'[x] = pc[x]
        /\ pc'[r] \in {"remove", "close", "done"}
        /\ pc'[r] = "done" => runtime = None \/ \E s \in Sources : Without(gone)[s] # {}
    BY <2>1 DEF RemoveItems, CloseOrFinish, IInv, TypeOK
  <2>4. LookupIsExact'
    BY <2>1, <2>2, UnregisterLookup
  <2>5. Monitored' = {} => \A s \in Sources : Without(gone)[s] = {}
    BY <2>2, <2>4 DEF LookupIsExact
  <2>6. \A x \in Requests : pc[x] \notin {"model", "create"}
    BY <1>5, <1>a, <2>2 DEF Unregister, Finished
  <2>. QED  BY <2>2, <2>3, <2>4, <2>5, <2>6 DEF RuntimeIsNeeded
<1>6. ASSUME NEW r \in Requests, Removed(r) PROVE ClosingInv'
  <2>1. /\ pc[r] = "remove"
        /\ UNCHANGED <<known, runtime, assets, sourceToAsset, elems, depth>>
        /\ \A x \in Requests \ {r} : pc'[x] = pc[x]
        /\ IF runtime # None /\ \A s \in Sources : sourceToAsset[s] = {}
           THEN pc'[r] = "close" ELSE pc'[r] = "done"
    BY <1>6 DEF Removed, CloseOrFinish, bookVars, IInv, TypeOK
  <2>2. LookupIsExact'
    BY <2>1, SteadyLookup
  <2>3. Monitored' = Monitored
    BY <2>1 DEF Monitored
  <2>4. Monitored = {} => \A s \in Sources : sourceToAsset[s] = {}
    BY DEF LookupIsExact
  <2>. QED  BY <2>1, <2>2, <2>3, <2>4 DEF RuntimeIsNeeded
<1>7. ASSUME NEW r \in Requests, Closed(r) \/ CloseFails(r) PROVE ClosingInv'
  <2>1. /\ pc[r] = "close" /\ pc'[r] = "done"
        /\ UNCHANGED <<known, assets, sourceToAsset, elems, depth>>
        /\ \A x \in Requests \ {r} : pc'[x] = pc[x]
        /\ runtime' = None
    BY <1>7 DEF Awaited, Closed, CloseFails, bookVars, IInv, TypeOK
  <2>2. LookupIsExact'
    BY <2>1, SteadyLookup
  <2>3. Monitored' = Monitored
    BY <2>1 DEF Monitored
  <2>. QED  BY <2>1, <2>2, <2>3 DEF RuntimeIsNeeded
<1>8. ASSUME NEW r \in Requests, Delete(r) \/ Deleted(r) PROVE ClosingInv'
  <2>1. /\ UNCHANGED <<runtime, assets, sourceToAsset, elems, depth>>
        /\ \A x \in Requests \ {r} : pc'[x] = pc[x]
        /\ pc[r] \in {"new", "delete"} /\ pc'[r] \in {"delete", "done"}
        /\ pc'[r] = "done" => ~known'
    BY <1>8 DEF Delete, Deleted, MayCall, bookVars, IInv, TypeOK
  <2>2. LookupIsExact'
    BY <2>1, SteadyLookup
  <2>3. Monitored' = Monitored
    BY <2>1 DEF Monitored
  <2>. QED  BY <2>1, <2>2, <2>3 DEF RuntimeIsNeeded
<1>9. CASE ~\E r \in Requests : Handler(r)
  BY <1>9, OutsideCalls, AwaitedFrame DEF Next, IInv
<1>. QED  BY <1>1, <1>2, <1>3, <1>4, <1>5, <1>6, <1>7, <1>8, <1>9 DEF Next, Handler

(* A client that awaits each answer, and elements whose sources do not     *)
(* depend on the depth: between its calls a subscription that monitors     *)
(* nothing, or was deleted, holds no runtime open at the data source.      *)
THEOREM NothingStaysOpen ==
  ASSUME Awaited, SameAtAnyDepth
  PROVE  Spec => []NothingLeftOpen
<1>1. AwaitedInv /\ ClosingInv => NothingLeftOpen
  BY DEF AwaitedInv, RuntimeOwned, ClosingInv, RuntimeIsNeeded, NothingLeftOpen, Idle,
         Finished
<1>2. Init => AwaitedInv /\ ClosingInv
  BY InitAwaited
<1>3. IInv /\ AwaitedInv /\ ClosingInv /\ [Next]_vars => AwaitedInv' /\ ClosingInv'
  BY AwaitedStep, ClosingStep
<1>4. Spec => [](AwaitedInv /\ ClosingInv)
  BY <1>2, <1>3, Invariant, PTL DEF Spec
<1>. QED  BY <1>1, <1>4, PTL

=============================================================================
