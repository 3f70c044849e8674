------------------------- MODULE ServiceCachesProofs -------------------------
(***************************************************************************)
(* Proofs about ServiceCaches: the invariant IInv is inductive, for any    *)
(* number of calls and any number of changes of the address space.         *)
(***************************************************************************)
EXTENDS ServiceCaches, TLAPS

(* A version is never None, so a cache or a read that has one is not empty. *)
LEMMA VersionsAreNotNone == ASSUME NEW v \in Versions PROVE v # None
  BY NoneAssumption, VersionAssumption DEF NoneAssumption, Versions

(* Both caches are empty and nothing is under way.                          *)
LEMMA InitIInv == Init => IInv
<1>1. SUFFICES ASSUME Init PROVE IInv
  OBVIOUS
<1>2. TypeOK
  BY <1>1, DeploymentAssumption, VersionAssumption
  DEF Init, TypeOK, DeploymentAssumption, VersionAssumption, Versions, Stages
<1>3. ModelSingleFlight /\ WaitersHaveABuild /\ ModelFailureIsFresh /\ OwnersWait
  BY <1>1, NoneAssumption
  DEF Init, ModelSingleFlight, WaitersHaveABuild, ModelFailureIsFresh, OwnersWait,
      Pending, Busy, Typing, NoneAssumption
<1>4. DeployedAlone /\ DeployedPreload
  BY <1>1, NoneAssumption
  DEF Init, DeployedAlone, DeployedPreload, Pending, Typing, NoneAssumption, Methods
<1>5. QED
  BY <1>2, <1>3, <1>4 DEF IInv, Safe

(* getOrBuildModel: the call is answered, joins the build or starts it.     *)
LEMMA GetOrBuildModelKeeps ==
  ASSUME IInv, NEW c \in Calls, GetOrBuildModel(c) PROVE IInv'
<1>0. /\ pc[c] = "new" /\ method[c] = None /\ mRead[c] = None
      /\ onModel[c] = None /\ onTypes[c] = None /\ ~Typing(c)
  BY NoneAssumption
  DEF IInv, Safe, TypeOK, OwnersWait, Pending, GetOrBuildModel, MayCall
<1>a. version # None
  BY VersionsAreNotNone DEF IInv, TypeOK
<1>b. \/ mCache # None /\ pc'[c] = "done" /\ UNCHANGED <<mRead, onModel, mPromise>>
      \/ /\ mCache = None /\ mPromise # None /\ pc'[c] = "busy"
         /\ onModel'[c] = mPromise /\ UNCHANGED <<mRead, mPromise>>
      \/ /\ mCache = None /\ mPromise = None /\ pc'[c] = "busy"
         /\ onModel'[c] = c /\ mRead'[c] # None /\ mPromise' = c
  BY <1>a DEF IInv, TypeOK, GetOrBuildModel, JoinModelBuild, StartModelBuild, Answer, modelVars
<1>c. /\ method'[c] = "getOrBuildModel"
      /\ \A b \in Calls \ {c} : /\ method'[b] = method[b] /\ pc'[b] = pc[b]
                               /\ mRead'[b] = mRead[b] /\ onModel'[b] = onModel[b]
      /\ UNCHANGED <<deployed, mCache, faulted, tCache, tPromise, tRead, tStage, onTypes>>
  BY DEF IInv, TypeOK, GetOrBuildModel, Enter, JoinModelBuild, StartModelBuild, Answer,
         modelVars, typeVars
<1>1. TypeOK'
  BY <1>0, VersionsAreNotNone
  DEF IInv, TypeOK, GetOrBuildModel, Enter, Answer, JoinModelBuild,
      StartModelBuild, modelVars, typeVars, Methods
<1>2. ModelSingleFlight'
  BY <1>0, <1>b, <1>c, NoneAssumption
  DEF NoneAssumption, IInv, Safe, ModelSingleFlight, Pending
<1>3. WaitersHaveABuild'
  BY <1>0, <1>b, <1>c DEF IInv, Safe, TypeOK, ModelSingleFlight, WaitersHaveABuild, Pending, Busy
<1>4. ModelFailureIsFresh'
  BY <1>0, <1>b, <1>c DEF IInv, Safe, ModelFailureIsFresh
<1>5. OwnersWait'
  BY <1>0, <1>b, <1>c, NoneAssumption
  DEF IInv, Safe, TypeOK, OwnersWait, Typing, Pending, NoneAssumption
<1>6. ASSUME deployed' PROVE DeployedAlone'
  BY <1>0, <1>b, <1>c, <1>6 DEF IInv, Safe, DeployedAlone, Pending, Typing
<1>7. ASSUME deployed' PROVE DeployedPreload'
  <2>1. deployed /\ PreloadOver /\ DeployedPreload
    BY <1>7, <1>c DEF IInv, Safe, GetOrBuildModel, MayCall
  <2>2. \A b \in Calls : method[b] \in Preloads => pc[b] # "busy"
    BY <2>1 DEF PreloadOver, Busy
  <2>3. QED
    BY <2>1, <2>2, <1>0, <1>b, <1>c, NoneAssumption
    DEF DeployedPreload, Preloads, Typing, NoneAssumption, Methods
<1>8. QED
  BY <1>1, <1>2, <1>3, <1>4, <1>5, <1>6, <1>7 DEF IInv, Safe

(* preloadModel.  In the deployed server it is the first call of all.       *)
LEMMA PreloadModelKeeps ==
  ASSUME IInv, NEW c \in Calls, PreloadModel(c) PROVE IInv'
<1>0. /\ pc[c] = "new" /\ method[c] = None /\ mRead[c] = None
      /\ onModel[c] = None /\ onTypes[c] = None /\ ~Typing(c)
  BY NoneAssumption
  DEF IInv, Safe, TypeOK, OwnersWait, Pending, PreloadModel, MayCall
<1>a. version # None
  BY VersionsAreNotNone DEF IInv, TypeOK
<1>b. pc'[c] = "busy" /\ onModel'[c] = c /\ mRead'[c] # None /\ method'[c] = "preloadModel"
  BY <1>a DEF IInv, TypeOK, PreloadModel, Enter, StartModelBuild
<1>c. /\ \A b \in Calls \ {c} : /\ method'[b] = method[b] /\ pc'[b] = pc[b]
                               /\ mRead'[b] = mRead[b] /\ onModel'[b] = onModel[b]
      /\ UNCHANGED <<deployed, mCache, mPromise, faulted>>
      /\ UNCHANGED <<tCache, tPromise, tRead, tStage, onTypes>>
  BY DEF IInv, TypeOK, PreloadModel, Enter, StartModelBuild, typeVars
<1>1. TypeOK'
  BY <1>0, VersionsAreNotNone
  DEF IInv, TypeOK, PreloadModel, Enter, StartModelBuild, typeVars, Methods
<1>2. ModelSingleFlight'
  BY <1>0, <1>b, <1>c, NoneAssumption
  DEF NoneAssumption, IInv, Safe, ModelSingleFlight, Pending
<1>3. WaitersHaveABuild'
  <2>1. \A d \in Calls : onModel'[d] # None => Pending(onModel[d])' /\ onModel'[d] \in Calls
    BY <1>0, <1>b, <1>c DEF IInv, Safe, TypeOK, WaitersHaveABuild, Pending
  <2>2. \A d \in Calls : onTypes'[d] # None =>
          /\ onTypes'[d] \in Calls \ {c}
          /\ tStage'[onTypes'[d]] \in {"fetch", "model"}
          /\ tStage'[onTypes'[d]] = "model" => onModel'[onTypes'[d]] # None
    BY <1>0, <1>c DEF IInv, Safe, TypeOK, WaitersHaveABuild, Typing
  <2>3. \A d \in Calls : pc'[d] = "busy" => onModel'[d] # None \/ onTypes'[d] # None
    BY <1>0, <1>b, <1>c, NoneAssumption
    DEF IInv, Safe, WaitersHaveABuild, Busy, NoneAssumption
  <2>4. QED
    BY <2>1, <2>2, <2>3 DEF WaitersHaveABuild, Busy
<1>4. ModelFailureIsFresh'
  BY <1>0, <1>b, <1>c DEF IInv, Safe, ModelFailureIsFresh
<1>5. OwnersWait'
  BY <1>0, <1>b, <1>c, NoneAssumption
  DEF IInv, Safe, TypeOK, OwnersWait, Typing, Pending, NoneAssumption
<1>6. ASSUME deployed' PROVE DeployedAlone' /\ DeployedPreload'
  <2>1. deployed /\ DeployedAlone /\ DeployedPreload /\ \A d \in Calls : pc[d] = "new"
    BY <1>6, <1>c DEF IInv, Safe, PreloadModel, MayCall
  <2>2. \A d \in Calls : method[d] = None
    BY <2>1 DEF IInv, Safe, OwnersWait
  <2>3. mCache = None /\ tCache = None /\ \A d \in Calls : ~Typing(d)
    BY <2>1, <2>2, NoneAssumption
    DEF DeployedPreload, NoneAssumption, Methods, IInv, Safe, OwnersWait
  <2>4. DeployedAlone'
    BY <2>1, <2>3, <1>c DEF DeployedAlone, Typing
  <2>5. DeployedPreload'
    BY <2>1, <2>2, <2>3, <1>b, <1>c, NoneAssumption
    DEF DeployedPreload, Typing, NoneAssumption, Methods
  <2>6. QED
    BY <2>4, <2>5
<1>7. QED
  BY <1>1, <1>2, <1>3, <1>4, <1>5, <1>6 DEF IInv, Safe

(* getObjectTypes: the promise that is joined is under way, or rejected and *)
(* then it fails the call.                                                  *)
LEMMA GetObjectTypesKeeps ==
  ASSUME IInv, NEW c \in Calls, GetObjectTypes(c) PROVE IInv'
<1>0. /\ pc[c] = "new" /\ method[c] = None /\ mRead[c] = None
      /\ onModel[c] = None /\ onTypes[c] = None /\ ~Typing(c)
  BY NoneAssumption
  DEF IInv, Safe, TypeOK, OwnersWait, Pending, GetObjectTypes, MayCall
<1>a. version # None
  BY VersionsAreNotNone DEF IInv, TypeOK
<1>b. \/ tCache # None /\ pc'[c] = "done" /\ UNCHANGED <<tPromise, tRead, tStage, onTypes>>
      \/ /\ tCache = None /\ tPromise = None /\ pc'[c] = "busy" /\ onTypes'[c] = c
         /\ tRead'[c] # None /\ tStage'[c] = "fetch" /\ tPromise' = c
      \/ /\ tCache = None /\ tPromise # None /\ tStage[tPromise] # "rejected"
         /\ pc'[c] = "busy" /\ onTypes'[c] = tPromise /\ UNCHANGED <<tPromise, tRead, tStage>>
      \/ pc'[c] = "failed" /\ UNCHANGED <<tPromise, tRead, tStage, onTypes>>
  BY <1>a DEF IInv, TypeOK, GetObjectTypes, StartTypeBuild, Answer, typeVars
<1>c. /\ method'[c] = "getObjectTypes"
      /\ \A b \in Calls \ {c} : /\ method'[b] = method[b] /\ pc'[b] = pc[b]
                               /\ tRead'[b] = tRead[b] /\ tStage'[b] = tStage[b]
                               /\ onTypes'[b] = onTypes[b]
      /\ UNCHANGED <<deployed, mCache, mPromise, mRead, onModel, tCache, faulted>>
  BY DEF IInv, TypeOK, GetObjectTypes, Enter, StartTypeBuild, Answer, modelVars, typeVars
<1>1. TypeOK'
  BY <1>0, VersionsAreNotNone
  DEF IInv, TypeOK, GetObjectTypes, Enter, Answer, StartTypeBuild, modelVars,
      typeVars, Methods, Stages
<1>2. ModelSingleFlight'
  BY <1>0, <1>c DEF IInv, Safe, OwnersWait, ModelSingleFlight, Pending
<1>3. WaitersHaveABuild'
  <2>1. \A d \in Calls : onModel'[d] # None => Pending(onModel[d])'
    BY <1>c DEF IInv, Safe, TypeOK, WaitersHaveABuild, Pending
  <2>2. tPromise # None /\ tStage[tPromise] # "rejected" => tPromise \in Calls /\ Typing(tPromise)
    BY DEF IInv, Safe, TypeOK, Stages, OwnersWait, Typing
  <2>3. \A d \in Calls : onTypes'[d] # None =>
          /\ tStage'[onTypes'[d]] \in {"fetch", "model"}
          /\ tStage'[onTypes'[d]] = "model" => onModel'[onTypes'[d]] # None
    <3>1. \A d \in Calls \ {c} : onTypes[d] # None =>
            /\ onTypes[d] \in Calls \ {c}
            /\ Typing(onTypes[d])
            /\ tStage[onTypes[d]] = "model" => onModel[onTypes[d]] # None
      BY <1>0 DEF IInv, Safe, TypeOK, WaitersHaveABuild, Typing
    <3>2. onTypes'[c] # None => \/ onTypes'[c] = c /\ tStage'[c] = "fetch"
                                \/ onTypes'[c] = tPromise /\ Typing(tPromise) /\ tPromise \in Calls \ {c}
      BY <1>0, <1>b, <2>2
    <3>3. QED
      BY <3>1, <3>2, <1>c DEF IInv, Safe, OwnersWait, Typing
  <2>4. \A d \in Calls : pc'[d] = "busy" => onModel'[d] # None \/ onTypes'[d] # None
    BY <1>0, <1>b, <1>c, NoneAssumption
    DEF IInv, Safe, WaitersHaveABuild, Busy, NoneAssumption
  <2>5. QED
    BY <2>1, <2>3, <2>4 DEF WaitersHaveABuild, Busy
<1>4. ModelFailureIsFresh'
  BY <1>0, <1>b, <1>c DEF IInv, Safe, ModelFailureIsFresh
<1>5. OwnersWait'
  BY <1>0, <1>b, <1>c, NoneAssumption
  DEF IInv, Safe, TypeOK, OwnersWait, Typing, Pending, NoneAssumption
<1>6. ASSUME deployed' PROVE DeployedAlone' /\ DeployedPreload'
  <2>1. deployed /\ PreloadOver /\ DeployedAlone /\ DeployedPreload
    BY <1>6, <1>c DEF IInv, Safe, GetObjectTypes, MayCall
  <2>2. \A b \in Calls : method[b] \in Preloads => pc[b] # "busy"
    BY <2>1 DEF PreloadOver, Busy
  <2>3. DeployedAlone'
    <3>1. \A b \in Calls : Typing(b) => tPromise = b
      BY <2>1, <2>2, NoneAssumption
      DEF DeployedAlone, IInv, Safe, OwnersWait, Preloads, NoneAssumption
    <3>2. QED
      BY <2>1, <3>1, <1>0, <1>b, <1>c, NoneAssumption DEF DeployedAlone, Typing, Pending, NoneAssumption
  <2>4. DeployedPreload'
    BY <2>1, <2>2, <1>0, <1>b, <1>c, NoneAssumption
    DEF DeployedPreload, Preloads, Typing, NoneAssumption, Methods
  <2>5. QED
    BY <2>3, <2>4
<1>7. QED
  BY <1>1, <1>2, <1>3, <1>4, <1>5, <1>6 DEF IInv, Safe

(* preloadTypes.  In the deployed server nothing else is under way then.   *)
LEMMA PreloadTypesKeeps ==
  ASSUME IInv, NEW c \in Calls, PreloadTypes(c) PROVE IInv'
<1>0. /\ pc[c] = "new" /\ method[c] = None /\ mRead[c] = None
      /\ onModel[c] = None /\ onTypes[c] = None /\ ~Typing(c)
  BY NoneAssumption
  DEF IInv, Safe, TypeOK, OwnersWait, Pending, PreloadTypes, MayCall
<1>a. version # None
  BY VersionsAreNotNone DEF IInv, TypeOK
<1>b. /\ pc'[c] = "busy" /\ onTypes'[c] = c /\ tRead'[c] # None /\ tStage'[c] = "fetch"
      /\ method'[c] = "preloadTypes"
  BY <1>a DEF IInv, TypeOK, PreloadTypes, Enter, StartTypeBuild
<1>c. /\ \A b \in Calls \ {c} : /\ method'[b] = method[b] /\ pc'[b] = pc[b]
                               /\ tRead'[b] = tRead[b] /\ tStage'[b] = tStage[b]
                               /\ onTypes'[b] = onTypes[b]
      /\ UNCHANGED <<deployed, mCache, mPromise, mRead, onModel>>
      /\ UNCHANGED <<tCache, tPromise, faulted>>
  BY DEF IInv, TypeOK, PreloadTypes, Enter, StartTypeBuild, modelVars
<1>1. TypeOK'
  BY <1>0, VersionsAreNotNone
  DEF IInv, TypeOK, PreloadTypes, Enter, StartTypeBuild, modelVars, Methods, Stages
<1>2. ModelSingleFlight'
  BY <1>0, <1>b, <1>c DEF IInv, Safe, OwnersWait, ModelSingleFlight, Pending
<1>3. WaitersHaveABuild'
  <2>1. \A d \in Calls : onModel'[d] # None => Pending(onModel[d])'
    BY <1>c DEF IInv, Safe, TypeOK, WaitersHaveABuild, Pending
  <2>2. \A d \in Calls \ {c} : onTypes'[d] # None =>
          /\ onTypes'[d] \in Calls \ {c}
          /\ tStage'[onTypes'[d]] \in {"fetch", "model"}
          /\ tStage'[onTypes'[d]] = "model" => onModel'[onTypes'[d]] # None
    BY <1>0, <1>c DEF IInv, Safe, TypeOK, WaitersHaveABuild, Typing
  <2>3. \A d \in Calls : pc'[d] = "busy" => onModel'[d] # None \/ onTypes'[d] # None
    BY <1>0, <1>b, <1>c, NoneAssumption
    DEF IInv, Safe, WaitersHaveABuild, Busy, NoneAssumption
  <2>4. QED
    BY <1>b, <2>1, <2>2, <2>3 DEF WaitersHaveABuild, Busy
<1>4. ModelFailureIsFresh'
  BY <1>0, <1>b, <1>c DEF IInv, Safe, ModelFailureIsFresh
<1>5. OwnersWait'
  BY <1>0, <1>b, <1>c, NoneAssumption
  DEF IInv, Safe, TypeOK, OwnersWait, Typing, Pending, NoneAssumption
<1>6. ASSUME deployed' PROVE DeployedAlone' /\ DeployedPreload'
  <2>1. /\ deployed /\ DeployedAlone /\ DeployedPreload
        /\ \E d \in Called("preloadModel") : pc[d] = "done"
        /\ \A d \in Calls : method[d] \in {None, "preloadModel"}
    BY <1>6, <1>c DEF IInv, Safe, PreloadTypes, MayCall
  <2>2. mCache # None /\ tCache = None /\ \A d \in Calls : ~Typing(d)
    BY <2>1, NoneAssumption
    DEF DeployedPreload, NoneAssumption, Methods, Called, IInv, Safe, OwnersWait
  <2>3. DeployedAlone'
    BY <2>1, <2>2, <1>b, <1>c, NoneAssumption
    DEF DeployedAlone, Typing, Pending, NoneAssumption
  <2>4. \A b \in Calls : method[b] = "preloadModel" => pc[b] # "busy"
    BY <2>1, <1>0, NoneAssumption DEF DeployedPreload, Called
  <2>5. DeployedPreload'
    BY <2>1, <2>2, <2>4, <1>0, <1>b, <1>c, NoneAssumption
    DEF DeployedPreload, Typing, NoneAssumption, Methods
  <2>6. QED
    BY <2>3, <2>5
<1>7. QED
  BY <1>1, <1>2, <1>3, <1>4, <1>5, <1>6 DEF IInv, Safe

(* invalidateCache of the model service: nothing else depends on _cache    *)
(* unless the server is the deployed one, which never calls it.            *)
LEMMA InvalidateModelKeeps ==
  ASSUME IInv, InvalidateModel PROVE IInv'
<1>1. TypeOK'
  BY DEF IInv, TypeOK, InvalidateModel, typeVars, callVars
<1>2. Safe'
  BY DEF IInv, Safe, InvalidateModel, typeVars, callVars, ModelSingleFlight,
         WaitersHaveABuild, ModelFailureIsFresh, OwnersWait, Pending, Typing, Busy
<1>3. QED
  BY <1>1, <1>2 DEF IInv

(* invalidateCache of the type service: a build under way goes on without  *)
(* its promise.                                                            *)
LEMMA InvalidateTypesKeeps ==
  ASSUME IInv, InvalidateTypes PROVE IInv'
<1>1. TypeOK'
  BY DEF IInv, TypeOK, InvalidateTypes, modelVars, callVars
<1>2. Safe'
  BY DEF IInv, Safe, InvalidateTypes, modelVars, callVars, ModelSingleFlight,
         WaitersHaveABuild, ModelFailureIsFresh, OwnersWait, Pending, Typing, Busy
<1>3. QED
  BY <1>1, <1>2 DEF IInv

(* A change of the address space is seen only by the builds that start.    *)
LEMMA ChangeKeeps ==
  ASSUME IInv, Change PROVE IInv'
<1>1. TypeOK'
  BY VersionAssumption
  DEF IInv, TypeOK, Change, Versions, VersionAssumption, modelVars, typeVars, callVars
<1>2. Safe'
  BY DEF IInv, Safe, Change, modelVars, typeVars, callVars, ModelSingleFlight,
         WaitersHaveABuild, ModelFailureIsFresh, OwnersWait, Pending, Typing, Busy,
         DeployedAlone, DeployedPreload
<1>3. QED
  BY <1>1, <1>2 DEF IInv

(* A pending build of the deployed server is the only one: a preload runs  *)
(* alone, and the other builds are single flight.                          *)
LEMMA OnePendingBuild ==
  ASSUME IInv, deployed, NEW b \in Calls, NEW c \in Calls, Pending(b), Pending(c)
  PROVE  b = c
<1>1. pc[b] = "busy" /\ pc[c] = "busy"
  BY NoneAssumption DEF IInv, Safe, OwnersWait, NoneAssumption
<1>2. CASE method[b] = "preloadModel" \/ method[c] = "preloadModel"
  BY <1>1, <1>2 DEF IInv, Safe, DeployedPreload
<1>3. CASE method[b] # "preloadModel" /\ method[c] # "preloadModel"
  BY <1>3 DEF IInv, Safe, ModelSingleFlight
<1>4. QED
  BY <1>2, <1>3

(* ModelBuilt: the callers of the build and the callers of the type builds *)
(* among them are answered, and nobody else has awaited what is over.      *)
LEMMA ModelBuiltKeeps ==
  ASSUME IInv, NEW b \in Calls, ModelBuilt(b) PROVE IInv'
<1> DEFINE B == BuildsOn(b)
           over == (ModelCallers(b) \ B) \cup TypeCallers(B)
<1>0. /\ mRead[b] # None /\ onModel[b] = b /\ pc[b] = "busy"
      /\ \A c \in Calls : c \in B <=> onModel[c] = b /\ tStage[c] = "model"
      /\ \A c \in Calls : c \in over <=> \/ onModel[c] = b /\ tStage[c] # "model"
                                         \/ onTypes[c] \in B
  BY NoneAssumption DEF IInv, Safe, OwnersWait, Pending, ModelBuilt, BuildsOn, ModelCallers,
     TypeCallers, NoneAssumption
<1>a. /\ B \subseteq Calls
      /\ \A e \in B : Typing(e) /\ onTypes[e] = e /\ tRead[e] # None
      /\ \A c \in over : pc[c] = "busy"
  BY <1>0, NoneAssumption
  DEF IInv, Safe, OwnersWait, Typing, NoneAssumption, BuildsOn, ModelCallers, TypeCallers
<1>b. /\ mCache' = mRead[b]
      /\ mPromise' = IF mPromise = b THEN None ELSE mPromise
      /\ UNCHANGED <<deployed, method, faulted>>
      /\ IF B = {} THEN UNCHANGED <<tCache, tPromise>>
         ELSE tPromise' = None /\ \E e \in B : tCache' = tRead[e]
  BY DEF ModelBuilt, ModelBuildOver, TypesResolve
<1>c. \A c \in Calls :
        /\ mRead'[c] = IF c = b THEN None ELSE mRead[c]
        /\ onModel'[c] = IF onModel[c] = b THEN None ELSE onModel[c]
        /\ tStage'[c] = IF c \in B THEN "none" ELSE tStage[c]
        /\ onTypes'[c] = IF onTypes[c] \in B THEN None ELSE onTypes[c]
        /\ tRead'[c] = IF c \in B THEN None ELSE tRead[c]
        /\ pc'[c] = IF c \in over THEN "done" ELSE pc[c]
  BY DEF IInv, TypeOK, ModelBuilt, ModelBuildOver, TypesResolve, Finish
<1>1. TypeOK'
  <2>1. /\ mCache' \in Versions \cup {None} /\ tCache' \in Versions \cup {None}
        /\ mPromise' \in Calls \cup {None} /\ tPromise' \in Calls \cup {None}
    BY <1>a, <1>b DEF IInv, TypeOK
  <2>2. /\ pc' \in [Calls -> {"new", "busy", "done", "failed"}]
        /\ mRead' \in [Calls -> Versions \cup {None}]
        /\ tRead' \in [Calls -> Versions \cup {None}]
        /\ tStage' \in [Calls -> Stages]
        /\ onModel' \in [Calls -> Calls \cup {None}]
        /\ onTypes' \in [Calls -> Calls \cup {None}]
    BY DEF IInv, TypeOK, ModelBuilt, ModelBuildOver, TypesResolve, Finish, Stages
  <2>3. got' = [c \in Calls |-> IF c \in ModelCallers(b) \ B THEN mRead[b]
                                ELSE IF c \in TypeCallers(B) THEN tRead[onTypes[c]]
                                ELSE got[c]]
    BY DEF ModelBuilt
  <2>4. \A c \in Calls : c \in TypeCallers(B) => onTypes[c] \in B
    BY DEF TypeCallers
  <2>5. got' \in [Calls -> Versions \cup {None}]
    BY <2>3, <2>4, <1>a DEF IInv, TypeOK
  <2>6. \A c \in Calls : pc'[c] = "done" <=> got'[c] # None
    BY <2>3, <2>4, <1>0, <1>a, <1>c DEF IInv, TypeOK
  <2>7. QED
    BY <2>1, <2>2, <2>5, <2>6 DEF IInv, TypeOK, ModelBuilt
<1>2. ModelSingleFlight'
  BY <1>b, <1>c, NoneAssumption
  DEF NoneAssumption, IInv, Safe, ModelSingleFlight, Pending
<1>3. WaitersHaveABuild'
  <2>1. \A d \in Calls : onModel'[d] # None => Pending(onModel[d])' /\ onModel'[d] = onModel[d]
    BY <1>c DEF IInv, Safe, TypeOK, WaitersHaveABuild, Pending
  <2>2. \A d \in Calls : onTypes'[d] # None =>
          /\ tStage'[onTypes'[d]] \in {"fetch", "model"}
          /\ tStage'[onTypes'[d]] = "model" => onModel'[onTypes'[d]] # None
    BY <1>0, <1>c DEF IInv, Safe, TypeOK, WaitersHaveABuild
  <2>3. \A d \in Calls : pc'[d] = "busy" => onModel'[d] # None \/ onTypes'[d] # None
    <3>1. SUFFICES ASSUME NEW d \in Calls, pc'[d] = "busy"
                   PROVE  onModel'[d] # None \/ onTypes'[d] # None
      OBVIOUS
    <3>2. pc[d] = "busy" /\ d \notin over
      BY <3>1, <1>c
    <3>3. onModel[d] # b
      BY <3>2, <1>0, <1>a
    <3>4. QED
      BY <3>2, <3>3, <1>0, <1>c DEF IInv, Safe, WaitersHaveABuild, Busy
  <2>4. QED
    BY <2>1, <2>2, <2>3 DEF WaitersHaveABuild, Busy
<1>4. ModelFailureIsFresh'
  BY <1>b, <1>c DEF IInv, Safe, ModelFailureIsFresh
<1>5. OwnersWait'
  <2>1. \A e \in Calls : Pending(e)' => onModel'[e] = e
    BY <1>c DEF IInv, Safe, OwnersWait, Pending
  <2>2. \A e \in Calls : Typing(e)' =>
          /\ onTypes'[e] = e /\ tRead'[e] # None
          /\ method'[e] \in {"getObjectTypes", "preloadTypes"}
    BY <1>b, <1>c DEF IInv, Safe, OwnersWait, Typing
  <2>3. \A e \in Calls : tStage'[e] = "model" => onModel'[e] # None
    BY <1>0, <1>c DEF IInv, Safe, OwnersWait
  <2>4. \A d \in Calls : /\ onModel'[d] # None \/ onTypes'[d] # None => pc'[d] = "busy"
                         /\ onModel'[d] # None /\ onTypes'[d] # None => tStage'[d] = "model"
    <3>1. SUFFICES ASSUME NEW d \in Calls, onModel'[d] # None \/ onTypes'[d] # None
                   PROVE  /\ pc'[d] = "busy"
                          /\ onModel'[d] # None /\ onTypes'[d] # None => tStage'[d] = "model"
      OBVIOUS
    <3>2. d \notin over
      <4>1. CASE onModel'[d] # None
        <5>1. onModel[d] # None /\ onModel[d] # b
          BY <4>1, <1>c
        <5>2. ASSUME onTypes[d] \in B PROVE FALSE
          BY <5>1, <5>2, <1>0, <1>a, NoneAssumption
          DEF IInv, Safe, OwnersWait, Typing, NoneAssumption
        <5>3. QED
          BY <5>1, <5>2, <1>0
      <4>2. CASE onTypes'[d] # None
        BY <4>2, <1>0, <1>c, NoneAssumption DEF IInv, Safe, OwnersWait, NoneAssumption
      <4>3. QED
        BY <3>1, <4>1, <4>2
    <3>3. QED
      BY <3>1, <3>2, <1>0, <1>c DEF IInv, Safe, OwnersWait
  <2>5. tPromise' # None => tStage'[tPromise'] # "none"
    BY <1>b, <1>c DEF IInv, Safe, TypeOK, OwnersWait
  <2>6. \A d \in Calls : pc'[d] = "new" => method'[d] = None
    BY <1>b, <1>c DEF IInv, Safe, OwnersWait
  <2>7. QED
    BY <2>1, <2>2, <2>3, <2>4, <2>5, <2>6 DEF OwnersWait
<1>6. ASSUME deployed' PROVE DeployedAlone' /\ DeployedPreload'
  <2>1. deployed /\ DeployedAlone /\ DeployedPreload
    BY <1>6, <1>b DEF IInv, Safe
  <2>2. \A e \in Calls : ~Pending(e)'
    BY <2>1, <1>0, <1>c, OnePendingBuild DEF Pending
  <2>3. B # {} => \A e \in Calls : ~Typing(e)'
    BY <2>1, <1>a, <1>c DEF DeployedAlone, Typing
  <2>4. \A e \in Calls : Typing(e)' => Typing(e)
    BY <1>c DEF Typing
  <2>5. DeployedAlone'
    BY <2>1, <2>2, <2>3, <2>4, <1>b DEF DeployedAlone
  <2>6. B # {} => \E e \in Calls : method[e] \in {"getObjectTypes", "preloadTypes"}
    BY <1>a DEF IInv, Safe, OwnersWait
  <2>7. pc'[b] # "new" /\ \A e \in Calls : pc[e] = "new" => pc'[e] = "new"
    BY <1>0, <1>a, <1>c
  <2>8. mCache' # None /\ \A e \in Calls : pc'[e] = "busy" => pc[e] = "busy"
    BY <1>0, <1>b, <1>c
  <2>9. QED
    BY <2>1, <2>5, <2>6, <2>7, <2>8, <1>b DEF DeployedPreload
<1>7. QED
  BY <1>1, <1>2, <1>3, <1>4, <1>5, <1>6 DEF IInv, Safe

(* ModelBuildFails: the same calls fail, each under way when a read was    *)
(* rejected; the caches keep what they have.                               *)
LEMMA ModelBuildFailsKeeps ==
  ASSUME IInv, NEW b \in Calls, ModelBuildFails(b) PROVE IInv'
<1> DEFINE B == BuildsOn(b)
           over == (ModelCallers(b) \ B) \cup TypeCallers(B)
<1>0. /\ mRead[b] # None /\ onModel[b] = b /\ pc[b] = "busy"
      /\ \A c \in Calls : c \in B <=> onModel[c] = b /\ tStage[c] = "model"
      /\ \A c \in Calls : c \in over <=> \/ onModel[c] = b /\ tStage[c] # "model"
                                         \/ onTypes[c] \in B
  BY NoneAssumption DEF IInv, Safe, OwnersWait, Pending, ModelBuildFails, BuildsOn, ModelCallers,
     TypeCallers, NoneAssumption
<1>a. /\ B \subseteq Calls
      /\ \A e \in B : Typing(e) /\ onTypes[e] = e /\ tRead[e] # None
      /\ \A c \in over : pc[c] = "busy"
  BY <1>0, NoneAssumption
  DEF IInv, Safe, OwnersWait, Typing, NoneAssumption, BuildsOn, ModelCallers, TypeCallers
<1>b. /\ mPromise' = IF mPromise = b THEN None ELSE mPromise
      /\ UNCHANGED <<deployed, method, mCache, tCache, tPromise, got>>
      /\ faulted' = faulted \cup Busy
  BY DEF ModelBuildFails, ModelBuildOver, TypesReject, Fault
<1>c. \A c \in Calls :
        /\ mRead'[c] = IF c = b THEN None ELSE mRead[c]
        /\ onModel'[c] = IF onModel[c] = b THEN None ELSE onModel[c]
        /\ tStage'[c] = IF c \in B THEN "rejected" ELSE tStage[c]
        /\ onTypes'[c] = IF onTypes[c] \in B THEN None ELSE onTypes[c]
        /\ tRead'[c] = IF c \in B THEN None ELSE tRead[c]
        /\ pc'[c] = IF c \in over THEN "failed" ELSE pc[c]
  BY DEF IInv, TypeOK, ModelBuildFails, ModelBuildOver, TypesReject, Finish
<1>1. TypeOK'
  <2>1. mPromise' \in Calls \cup {None} /\ faulted' \in SUBSET Calls
    BY <1>b DEF IInv, TypeOK, Busy
  <2>2. /\ pc' \in [Calls -> {"new", "busy", "done", "failed"}]
        /\ mRead' \in [Calls -> Versions \cup {None}]
        /\ tRead' \in [Calls -> Versions \cup {None}]
        /\ tStage' \in [Calls -> Stages]
        /\ onModel' \in [Calls -> Calls \cup {None}]
        /\ onTypes' \in [Calls -> Calls \cup {None}]
    BY DEF IInv, TypeOK, ModelBuildFails, ModelBuildOver, TypesReject, Finish, Stages
  <2>3. \A c \in Calls : pc'[c] = "done" <=> got'[c] # None
    BY <1>0, <1>a, <1>b, <1>c DEF IInv, TypeOK
  <2>4. QED
    BY <2>1, <2>2, <2>3, <1>b DEF IInv, TypeOK, ModelBuildFails
<1>2. ModelSingleFlight'
  BY <1>b, <1>c, NoneAssumption
  DEF NoneAssumption, IInv, Safe, ModelSingleFlight, Pending
<1>3. WaitersHaveABuild'
  <2>1. \A d \in Calls : onModel'[d] # None => Pending(onModel[d])' /\ onModel'[d] = onModel[d]
    BY <1>c DEF IInv, Safe, TypeOK, WaitersHaveABuild, Pending
  <2>2. \A d \in Calls : onTypes'[d] # None =>
          /\ tStage'[onTypes'[d]] \in {"fetch", "model"}
          /\ tStage'[onTypes'[d]] = "model" => onModel'[onTypes'[d]] # None
    BY <1>0, <1>c DEF IInv, Safe, TypeOK, WaitersHaveABuild
  <2>3. \A d \in Calls : pc'[d] = "busy" => onModel'[d] # None \/ onTypes'[d] # None
    <3>1. SUFFICES ASSUME NEW d \in Calls, pc'[d] = "busy"
                   PROVE  onModel'[d] # None \/ onTypes'[d] # None
      OBVIOUS
    <3>2. pc[d] = "busy" /\ d \notin over
      BY <3>1, <1>c
    <3>3. onModel[d] # b
      BY <3>2, <1>0, <1>a
    <3>4. QED
      BY <3>2, <3>3, <1>0, <1>c DEF IInv, Safe, WaitersHaveABuild, Busy
  <2>4. QED
    BY <2>1, <2>2, <2>3 DEF WaitersHaveABuild, Busy
<1>4. ModelFailureIsFresh'
  BY <1>a, <1>b, <1>c DEF IInv, Safe, ModelFailureIsFresh, Busy
<1>5. OwnersWait'
  <2>1. \A e \in Calls : Pending(e)' => onModel'[e] = e
    BY <1>c DEF IInv, Safe, OwnersWait, Pending
  <2>2. \A e \in Calls : Typing(e)' =>
          /\ onTypes'[e] = e /\ tRead'[e] # None
          /\ method'[e] \in {"getObjectTypes", "preloadTypes"}
    BY <1>b, <1>c DEF IInv, Safe, OwnersWait, Typing
  <2>3. \A e \in Calls : tStage'[e] = "model" => onModel'[e] # None
    BY <1>0, <1>c DEF IInv, Safe, OwnersWait
  <2>4. \A d \in Calls : /\ onModel'[d] # None \/ onTypes'[d] # None => pc'[d] = "busy"
                         /\ onModel'[d] # None /\ onTypes'[d] # None => tStage'[d] = "model"
    <3>1. SUFFICES ASSUME NEW d \in Calls, onModel'[d] # None \/ onTypes'[d] # None
                   PROVE  /\ pc'[d] = "busy"
                          /\ onModel'[d] # None /\ onTypes'[d] # None => tStage'[d] = "model"
      OBVIOUS
    <3>2. d \notin over
      <4>1. CASE onModel'[d] # None
        <5>1. onModel[d] # None /\ onModel[d] # b
          BY <4>1, <1>c
        <5>2. ASSUME onTypes[d] \in B PROVE FALSE
          BY <5>1, <5>2, <1>0, <1>a, NoneAssumption
          DEF IInv, Safe, OwnersWait, Typing, NoneAssumption
        <5>3. QED
          BY <5>1, <5>2, <1>0
      <4>2. CASE onTypes'[d] # None
        BY <4>2, <1>0, <1>c, NoneAssumption DEF IInv, Safe, OwnersWait, NoneAssumption
      <4>3. QED
        BY <3>1, <4>1, <4>2
    <3>3. QED
      BY <3>1, <3>2, <1>0, <1>c DEF IInv, Safe, OwnersWait
  <2>5. tPromise' # None => tStage'[tPromise'] # "none"
    BY <1>b, <1>c DEF IInv, Safe, TypeOK, OwnersWait
  <2>6. \A d \in Calls : pc'[d] = "new" => method'[d] = None
    BY <1>b, <1>c DEF IInv, Safe, OwnersWait
  <2>7. QED
    BY <2>1, <2>2, <2>3, <2>4, <2>5, <2>6 DEF OwnersWait
<1>6. ASSUME deployed' PROVE DeployedAlone' /\ DeployedPreload'
  <2>1. deployed /\ DeployedAlone /\ DeployedPreload
    BY <1>6, <1>b DEF IInv, Safe
  <2>2. \A e \in Calls : ~Pending(e)'
    BY <2>1, <1>0, <1>c, OnePendingBuild DEF Pending
  <2>3. B # {} => \A e \in Calls : ~Typing(e)'
    BY <2>1, <1>a, <1>c DEF DeployedAlone, Typing
  <2>4. \A e \in Calls : Typing(e)' => Typing(e)
    BY <1>c DEF Typing
  <2>5. DeployedAlone'
    BY <2>1, <2>2, <2>3, <2>4, <1>b DEF DeployedAlone
  <2>6. B # {} => \E e \in Calls : method[e] \in {"getObjectTypes", "preloadTypes"}
    BY <1>a DEF IInv, Safe, OwnersWait
  <2>7. pc'[b] # "new" /\ \A e \in Calls : pc[e] = "new" => pc'[e] = "new"
    BY <1>0, <1>a, <1>c
  <2>8. \A e \in Calls : /\ pc'[e] = "busy" => pc[e] = "busy"
                         /\ pc'[e] = "done" => pc[e] = "done"
    BY <1>0, <1>b, <1>c
  <2>9. QED
    BY <2>1, <2>5, <2>6, <2>7, <2>8, <1>b DEF DeployedPreload
<1>7. QED
  BY <1>1, <1>2, <1>3, <1>4, <1>5, <1>6 DEF IInv, Safe

(* TypesFetched with a model in the cache: the callers of the build are    *)
(* answered.                                                               *)
LEMMA TypesFetchedWithModel ==
  ASSUME IInv, NEW b \in Calls, TypesFetched(b), mCache # None PROVE IInv'
<1>0. /\ Typing(b) /\ onTypes[b] = b /\ tRead[b] # None /\ onModel[b] = None
      /\ \A c \in Calls : onTypes[c] = b => pc[c] = "busy" /\ onModel[c] = None
  BY NoneAssumption
  DEF IInv, Safe, OwnersWait, WaitersHaveABuild, Typing, TypesFetched, NoneAssumption
<1>b. UNCHANGED modelVars /\ UNCHANGED <<deployed, method, faulted>> /\ tPromise' = None
      /\ tCache' = tRead[b]
  BY DEF TypesFetched, TypesResolve
<1>c. \A c \in Calls :
        /\ tStage'[c] = IF c = b THEN "none" ELSE tStage[c]
        /\ onTypes'[c] = IF onTypes[c] = b THEN None ELSE onTypes[c]
        /\ tRead'[c] = IF c = b THEN None ELSE tRead[c]
        /\ pc'[c] = IF onTypes[c] = b THEN "done" ELSE pc[c]
        /\ got'[c] = IF onTypes[c] = b THEN tRead[b] ELSE got[c]
  BY DEF IInv, TypeOK, TypesFetched, TypesResolve, Finish, TypeCallers
<1>1. TypeOK'
  <2>1. /\ pc' \in [Calls -> {"new", "busy", "done", "failed"}]
        /\ got' \in [Calls -> Versions \cup {None}]
        /\ tRead' \in [Calls -> Versions \cup {None}]
        /\ tStage' \in [Calls -> Stages]
        /\ onTypes' \in [Calls -> Calls \cup {None}]
        /\ tCache' \in Versions \cup {None}
    BY <1>b DEF IInv, TypeOK, TypesFetched, TypesResolve, Finish, Stages
  <2>2. \A c \in Calls : pc'[c] = "done" <=> got'[c] # None
    BY <1>0, <1>c DEF IInv, TypeOK
  <2>3. QED
    BY <2>1, <2>2, <1>b DEF IInv, TypeOK, TypesFetched, modelVars
<1>2. ModelSingleFlight'
  BY <1>b DEF modelVars, IInv, Safe, ModelSingleFlight, Pending
<1>3. WaitersHaveABuild'
  <2>1. \A d \in Calls : onModel'[d] # None => Pending(onModel[d])' /\ onModel'[d] = onModel[d]
    BY <1>b DEF IInv, Safe, WaitersHaveABuild, Pending, modelVars
  <2>2. \A d \in Calls : onTypes'[d] # None =>
          /\ tStage'[onTypes'[d]] \in {"fetch", "model"}
          /\ tStage'[onTypes'[d]] = "model" => onModel'[onTypes'[d]] # None
    BY <1>b, <1>c DEF IInv, Safe, TypeOK, WaitersHaveABuild, modelVars
  <2>3. \A d \in Calls : pc'[d] = "busy" => onModel'[d] # None \/ onTypes'[d] # None
    BY <1>b, <1>c DEF IInv, Safe, WaitersHaveABuild, Busy, modelVars
  <2>4. QED
    BY <2>1, <2>2, <2>3 DEF WaitersHaveABuild, Busy
<1>4. ModelFailureIsFresh'
  BY <1>b, <1>c DEF IInv, Safe, ModelFailureIsFresh
<1>5. OwnersWait'
  BY <1>0, <1>b, <1>c DEF IInv, Safe, OwnersWait, Pending, Typing, modelVars
<1>6. ASSUME deployed' PROVE DeployedAlone' /\ DeployedPreload'
  <2>1. deployed /\ DeployedAlone /\ DeployedPreload
    BY <1>6, <1>b DEF IInv, Safe
  <2>2. \A e \in Calls : ~Typing(e)'
    BY <2>1, <1>0, <1>c DEF DeployedAlone, Typing
  <2>3. DeployedAlone'
    BY <2>1, <2>2, <1>b DEF DeployedAlone, Pending, modelVars
  <2>4. method[b] \in {"getObjectTypes", "preloadTypes"}
    BY <1>0 DEF IInv, Safe, OwnersWait
  <2>5. pc'[b] # "new" /\ \A e \in Calls : pc[e] = "new" => pc'[e] = "new"
    BY <1>0, <1>c
  <2>6. mCache' # None /\ \A e \in Calls : pc'[e] = "busy" => pc[e] = "busy"
    BY <1>b, <1>c DEF modelVars
  <2>7. QED
    BY <2>1, <2>3, <2>4, <2>5, <2>6, <1>b DEF DeployedPreload
<1>7. QED
  BY <1>1, <1>2, <1>3, <1>4, <1>5, <1>6 DEF IInv, Safe

(* TypesFetched without a model: the build awaits the model build under    *)
(* way, or starts one that others may await.                               *)
LEMMA TypesFetchedWithoutModel ==
  ASSUME IInv, NEW b \in Calls, TypesFetched(b), mCache = None PROVE IInv'
<1>0. /\ Typing(b) /\ onTypes[b] = b /\ onModel[b] = None /\ mRead[b] = None
      /\ tStage[b] = "fetch" /\ method[b] \in {"getObjectTypes", "preloadTypes"}
  BY NoneAssumption
  DEF IInv, Safe, OwnersWait, Typing, TypesFetched, Pending, NoneAssumption
<1>a. version # None /\ b # None
  BY VersionsAreNotNone, NoneAssumption DEF IInv, TypeOK, NoneAssumption
<1>b. \/ /\ mPromise # None /\ onModel'[b] = mPromise /\ UNCHANGED <<mRead, mPromise>>
      \/ /\ mPromise = None /\ onModel'[b] = b /\ mRead'[b] # None /\ mPromise' = b
  BY <1>a DEF IInv, TypeOK, TypesFetched, JoinModelBuild, StartModelBuild
<1>c. /\ tStage'[b] = "model"
      /\ \A e \in Calls \ {b} : /\ tStage'[e] = tStage[e]
                               /\ mRead'[e] = mRead[e] /\ onModel'[e] = onModel[e]
      /\ UNCHANGED <<deployed, method, pc, faulted, mCache, tCache, tPromise>>
      /\ UNCHANGED <<tRead, onTypes>>
  BY DEF IInv, TypeOK, TypesFetched, JoinModelBuild, StartModelBuild
<1>1. TypeOK'
  BY <1>0 DEF IInv, TypeOK, TypesFetched, JoinModelBuild, StartModelBuild, Stages
<1>2. ModelSingleFlight'
  BY <1>0, <1>b, <1>c, NoneAssumption
  DEF IInv, Safe, ModelSingleFlight, Pending, NoneAssumption
<1>3. WaitersHaveABuild'
  <2>1. \A d \in Calls : onModel'[d] # None => Pending(onModel[d])'
    BY <1>0, <1>b, <1>c
    DEF IInv, Safe, TypeOK, ModelSingleFlight, WaitersHaveABuild, Pending
  <2>2. \A d \in Calls : onTypes'[d] # None =>
          /\ tStage'[onTypes'[d]] \in {"fetch", "model"}
          /\ tStage'[onTypes'[d]] = "model" => onModel'[onTypes'[d]] # None
    BY <1>a, <1>b, <1>c DEF IInv, Safe, TypeOK, WaitersHaveABuild
  <2>3. \A d \in Calls : pc'[d] = "busy" => onModel'[d] # None \/ onTypes'[d] # None
    BY <1>a, <1>b, <1>c DEF IInv, Safe, WaitersHaveABuild, Busy
  <2>4. QED
    BY <2>1, <2>2, <2>3 DEF WaitersHaveABuild, Busy
<1>4. ModelFailureIsFresh'
  BY <1>c DEF IInv, Safe, ModelFailureIsFresh
<1>5. OwnersWait'
  BY <1>0, <1>a, <1>b, <1>c DEF IInv, Safe, TypeOK, OwnersWait, Pending, Typing
<1>6. ASSUME deployed' PROVE DeployedAlone' /\ DeployedPreload'
  <2>1. deployed /\ DeployedAlone /\ DeployedPreload /\ mCache' = None
    BY <1>6, <1>c DEF IInv, Safe
  <2>2. \A e \in Calls : Typing(e)' <=> Typing(e)
    BY <1>0, <1>c DEF Typing
  <2>3. DeployedAlone'
    BY <2>1, <2>2, <1>c DEF DeployedAlone
  <2>4. DeployedPreload'
    BY <2>1, <1>c DEF DeployedPreload
  <2>5. QED
    BY <2>3, <2>4
<1>7. QED
  BY <1>1, <1>2, <1>3, <1>4, <1>5, <1>6 DEF IInv, Safe

(* TypesFetchFails: the callers of the build fail, and its promise, if it  *)
(* is still there, stays rejected.                                         *)
LEMMA TypesFetchFailsKeeps ==
  ASSUME IInv, NEW b \in Calls, TypesFetchFails(b) PROVE IInv'
<1>0. /\ Typing(b) /\ onTypes[b] = b /\ onModel[b] = None
      /\ \A c \in Calls : onTypes[c] = b => pc[c] = "busy"
  BY NoneAssumption
  DEF IInv, Safe, OwnersWait, Typing, TypesFetchFails, NoneAssumption
<1>b. /\ UNCHANGED modelVars
      /\ UNCHANGED <<deployed, version, method, tCache, tPromise, got>>
      /\ faulted' = faulted \cup Busy
  BY DEF TypesFetchFails, TypesReject, Fault
<1>c. \A c \in Calls :
        /\ tStage'[c] = IF c = b THEN "rejected" ELSE tStage[c]
        /\ onTypes'[c] = IF onTypes[c] = b THEN None ELSE onTypes[c]
        /\ tRead'[c] = IF c = b THEN None ELSE tRead[c]
        /\ pc'[c] = IF onTypes[c] = b THEN "failed" ELSE pc[c]
  BY DEF IInv, TypeOK, TypesFetchFails, TypesReject, Finish, TypeCallers
<1>1. TypeOK'
  <2>1. /\ pc' \in [Calls -> {"new", "busy", "done", "failed"}]
        /\ tRead' \in [Calls -> Versions \cup {None}]
        /\ tStage' \in [Calls -> Stages]
        /\ onTypes' \in [Calls -> Calls \cup {None}]
        /\ faulted' \in SUBSET Calls
    BY <1>b DEF IInv, TypeOK, TypesFetchFails, TypesReject, Finish, Stages, Busy
  <2>2. \A c \in Calls : pc'[c] = "done" <=> got'[c] # None
    BY <1>0, <1>b, <1>c DEF IInv, TypeOK
  <2>3. QED
    BY <2>1, <2>2, <1>b DEF IInv, TypeOK, modelVars
<1>2. ModelSingleFlight'
  BY <1>b DEF modelVars, IInv, Safe, ModelSingleFlight, Pending
<1>3. WaitersHaveABuild'
  <2>1. \A d \in Calls : onModel'[d] # None => Pending(onModel[d])' /\ onModel'[d] = onModel[d]
    BY <1>b DEF IInv, Safe, WaitersHaveABuild, Pending, modelVars
  <2>2. \A d \in Calls : onTypes'[d] # None =>
          /\ tStage'[onTypes'[d]] \in {"fetch", "model"}
          /\ tStage'[onTypes'[d]] = "model" => onModel'[onTypes'[d]] # None
    BY <1>b, <1>c DEF IInv, Safe, TypeOK, WaitersHaveABuild, modelVars
  <2>3. \A d \in Calls : pc'[d] = "busy" => onModel'[d] # None \/ onTypes'[d] # None
    BY <1>b, <1>c DEF IInv, Safe, WaitersHaveABuild, Busy, modelVars
  <2>4. QED
    BY <2>1, <2>2, <2>3 DEF WaitersHaveABuild, Busy
<1>4. ModelFailureIsFresh'
  BY <1>0, <1>b, <1>c DEF IInv, Safe, ModelFailureIsFresh, Busy
<1>5. OwnersWait'
  BY <1>0, <1>b, <1>c, NoneAssumption
  DEF IInv, Safe, TypeOK, OwnersWait, Pending, Typing, modelVars, NoneAssumption
<1>6. ASSUME deployed' PROVE DeployedAlone' /\ DeployedPreload'
  <2>1. deployed /\ DeployedAlone /\ DeployedPreload
    BY <1>6, <1>b DEF IInv, Safe
  <2>2. DeployedAlone'
    BY <2>1, <1>b, <1>c DEF DeployedAlone, Pending, Typing, modelVars
  <2>3. \A e \in Calls : /\ pc'[e] = "busy" => pc[e] = "busy"
                         /\ pc'[e] = "done" => pc[e] = "done"
                         /\ pc'[e] = "new" <=> pc[e] = "new"
    BY <1>0, <1>c
  <2>4. DeployedPreload'
    BY <2>1, <2>3, <1>b DEF DeployedPreload, modelVars
  <2>5. QED
    BY <2>2, <2>4
<1>7. QED
  BY <1>1, <1>2, <1>3, <1>4, <1>5, <1>6 DEF IInv, Safe

(* The invariant is kept by every step: one lemma per action.              *)
LEMMA NextKeepsIInv == IInv /\ [Next]_vars => IInv'
<1>1. SUFFICES ASSUME IInv, [Next]_vars PROVE IInv'
  OBVIOUS
<1>2. CASE \E c \in Calls : Call(c)
  BY <1>1, <1>2, GetOrBuildModelKeeps, PreloadModelKeeps, GetObjectTypesKeeps,
     PreloadTypesKeeps DEF Call
<1>3. CASE \E b \in Calls : Settle(b)
  BY <1>1, <1>3, ModelBuiltKeeps, ModelBuildFailsKeeps, TypesFetchedWithModel,
     TypesFetchedWithoutModel, TypesFetchFailsKeeps DEF Settle
<1>4. CASE InvalidateModel \/ InvalidateTypes \/ Change
  BY <1>1, <1>4, InvalidateModelKeeps, InvalidateTypesKeeps, ChangeKeeps
<1>5. CASE UNCHANGED vars
  BY <1>1, <1>5
  DEF vars, modelVars, typeVars, callVars, IInv, TypeOK, Safe, ModelSingleFlight,
      WaitersHaveABuild, ModelFailureIsFresh, OwnersWait, DeployedAlone,
      DeployedPreload, Pending, Typing, Busy
<1>6. QED
  BY <1>1, <1>2, <1>3, <1>4, <1>5 DEF Next

-----------------------------------------------------------------------------
(* The strengthened invariant of the two caches holds in every behaviour.  *)
THEOREM Invariant == Spec => []IInv
  BY InitIInv, NextKeepsIInv, PTL DEF Spec

(* The variables of the two services keep their types, and a call that     *)
(* succeeds is answered with a result.                                     *)
THEOREM TypeCorrect == Spec => []TypeOK
<1>1. IInv => TypeOK
  BY DEF IInv
<1>2. QED
  BY <1>1, Invariant, PTL

(* However many callers of getOrBuildModel overlap, at most one of their   *)
(* builds is pending, and it is the one _buildPromise holds.               *)
THEOREM BuildsAreShared == Spec => []ModelSingleFlight
<1>1. IInv => ModelSingleFlight
  BY DEF IInv, Safe
<1>2. QED
  BY <1>1, Invariant, PTL

(* Nobody awaits a build that is over.                                     *)
THEOREM NobodyWaitsInVain == Spec => []WaitersHaveABuild
<1>1. IInv => WaitersHaveABuild
  BY DEF IInv, Safe
<1>2. QED
  BY <1>1, Invariant, PTL

(* A failed build of the model leaves nothing behind: a call fails only    *)
(* when a read was rejected while it was under way.                        *)
THEOREM ModelFailuresAreFresh == Spec => []ModelFailureIsFresh
<1>1. IInv => ModelFailureIsFresh
  BY DEF IInv, Safe
<1>2. QED
  BY <1>1, Invariant, PTL

(* A step of the deployed server does not replace a model or types that it *)
(* serves: a build that could do so would be pending beside a full cache.  *)
LEMMA StepIsStable ==
  ASSUME IInv, [Next]_vars, deployed
  PROVE  /\ mCache # None => mCache' = mCache
         /\ tCache # None => tCache' = tCache
<1>1. DeployedAlone
  BY DEF IInv, Safe
<1>2. CASE \E c \in Calls : Call(c)
  BY <1>2
  DEF Call, GetOrBuildModel, PreloadModel, GetObjectTypes, PreloadTypes, modelVars, typeVars
<1>3. ASSUME NEW b \in Calls, ModelBuilt(b)
      PROVE  mCache = None /\ (tCache # None => tCache' = tCache)
  <2>1. tCache # None => BuildsOn(b) = {}
    BY <1>1 DEF DeployedAlone, BuildsOn, ModelCallers, Typing
  <2>2. QED
    BY <1>1, <1>3, <2>1 DEF DeployedAlone, ModelBuilt, TypesResolve
<1>4. ASSUME NEW b \in Calls, ModelBuildFails(b) PROVE UNCHANGED <<mCache, tCache>>
  BY <1>4 DEF ModelBuildFails, TypesReject
<1>5. ASSUME NEW b \in Calls, TypesFetched(b) PROVE tCache = None /\ mCache' = mCache
  BY <1>1, <1>5 DEF DeployedAlone, TypesFetched, Typing, modelVars
<1>6. ASSUME NEW b \in Calls, TypesFetchFails(b) PROVE UNCHANGED <<mCache, tCache>>
  BY <1>6 DEF TypesFetchFails, TypesReject, modelVars
<1>7. CASE InvalidateModel \/ InvalidateTypes \/ Change
  BY <1>7 DEF InvalidateModel, InvalidateTypes, Change, modelVars, typeVars
<1>8. CASE UNCHANGED vars
  BY <1>8 DEF vars, modelVars, typeVars
<1>9. QED
  BY <1>2, <1>3, <1>4, <1>5, <1>6, <1>7, <1>8 DEF Next, Settle

(* What the deployed server serves is never replaced under its clients.    *)
THEOREM ServedStaysTheSame == Spec => ServedIsStable
<1>1. IInv /\ [Next]_vars =>
        [deployed => /\ mCache # None => mCache' = mCache
                     /\ tCache # None => tCache' = tCache]_vars
  BY StepIsStable
<1>2. QED
  BY <1>1, Invariant, PTL DEF Spec, ServedIsStable

=============================================================================
