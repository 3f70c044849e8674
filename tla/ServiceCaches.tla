---------------------------- MODULE ServiceCaches ----------------------------
(***************************************************************************)
(* The caches of ModelService and TypeService, which every request of the  *)
(* server reads: a build of each reads the data source, and concurrent     *)
(* callers share it.                                                       *)
(*                                                                         *)
(*   core/src/services/model-service.ts   getOrBuildModel, preloadModel,   *)
(*                                        invalidateCache                  *)
(*   core/src/services/type-service.ts    getObjectTypes, preloadTypes,    *)
(*                                        invalidateCache                  *)
(*   app/src/server.ts                    the preload before the server    *)
(*                                        listens                          *)
(*                                                                         *)
(* A build is identified by the call that started it, and its result by    *)
(* the version of the address space it started to read: the reads of one   *)
(* build are one pending read.  When a build settles, the continuations of *)
(* all who await it run before anything else does, so they are one action. *)
(***************************************************************************)
EXTENDS Integers, FiniteSets

CONSTANTS
  Calls,        \* the calls of the two services
  MaxVersion,   \* bound: changes of the address space
  Deployments,  \* members: TRUE, the server as app/src/server.ts starts it;
                \* FALSE, the services with every public method in use
  None

ASSUME VersionAssumption == MaxVersion \in Nat

ASSUME DeploymentAssumption == Deployments \subseteq BOOLEAN

Methods == {"getOrBuildModel", "preloadModel", "getObjectTypes", "preloadTypes"}
Preloads == {"preloadModel", "preloadTypes"}

ASSUME NoneAssumption ==
  None \notin Calls /\ None \notin Int /\ None \notin Methods

VARIABLES
  deployed,   \* a member of Deployments
  version,    \* the version of the address space
  mCache,     \* ModelService._cache: the version it shows
  mPromise,   \* ModelService._buildPromise: the call that started the build
  tCache,     \* TypeService._cache
  tPromise,   \* TypeService._buildPromise
  method,     \* what each call calls
  pc,         \* "new", "busy", "done" or "failed"
  got,        \* the version of the result a call was answered with
  mRead,      \* the version a pending model build of this call reads
  tRead,      \* the version the type build of this call reads
  tStage,     \* where the type build of this call is
  onModel,    \* the model build this call, or its type build, awaits
  onTypes,    \* the type build this call awaits
  faulted     \* history: calls under way when the data source rejected a read

modelVars == <<mCache, mPromise, mRead, onModel>>
typeVars  == <<tCache, tPromise, tRead, tStage, onTypes>>
callVars  == <<method, pc, got, faulted>>
vars == <<deployed, version, modelVars, typeVars, callVars>>

\* A type build is reading the object types, awaits the model, or rejected.
Stages == {"none", "fetch", "model", "rejected"}

Busy == {c \in Calls : pc[c] = "busy"}

Pending(b) == mRead[b] # None

Init ==
  /\ deployed \in Deployments
  /\ version = 0
  /\ mCache = None /\ mPromise = None
  /\ tCache = None /\ tPromise = None
  /\ method = [c \in Calls |-> None]
  /\ pc = [c \in Calls |-> "new"]
  /\ got = [c \in Calls |-> None]
  /\ mRead = [c \in Calls |-> None]
  /\ tRead = [c \in Calls |-> None]
  /\ tStage = [c \in Calls |-> "none"]
  /\ onModel = [c \in Calls |-> None]
  /\ onTypes = [c \in Calls |-> None]
  /\ faulted = {}

(***************************************************************************)
(* startServer preloads the model, then, if that succeeded, the types, and *)
(* only then listens; without `config.preload` it does neither.            *)
(***************************************************************************)
Called(m) == {c \in Calls : method[c] = m}

PreloadOver ==
  /\ \A c \in Busy : method[c] \notin Preloads
  /\ \A c \in Called("preloadModel") : pc[c] = "done" => Called("preloadTypes") # {}

MayCall(c, m) ==
  /\ pc[c] = "new"
  /\ deployed =>
       CASE m = "preloadModel" -> \A d \in Calls : pc[d] = "new"
         [] m = "preloadTypes" -> /\ \E d \in Called("preloadModel") : pc[d] = "done"
                                  /\ \A d \in Calls : method[d] \in {None, "preloadModel"}
         [] OTHER -> PreloadOver

Enter(c, m) == method' = [method EXCEPT ![c] = m]

\* The call c is answered at once with the cached version v.
Answer(c, v) ==
  /\ pc' = [pc EXCEPT ![c] = "done"]
  /\ got' = [got EXCEPT ![c] = v]

\* The model build of c starts: c awaits it.
StartModelBuild(c) ==
  /\ mRead' = [mRead EXCEPT ![c] = version]
  /\ onModel' = [onModel EXCEPT ![c] = c]

\* The type build of c starts: c awaits it.
StartTypeBuild(c) ==
  /\ tRead' = [tRead EXCEPT ![c] = version]
  /\ tStage' = [tStage EXCEPT ![c] = "fetch"]
  /\ onTypes' = [onTypes EXCEPT ![c] = c]

\* Bug variant: a build that is under way is not joined.
Bug_JoinNothing(c) ==
  /\ StartModelBuild(c)
  /\ mPromise' = c

(* getOrBuildModel with no cached model: await the build under way, or     *)
(* start one.                                                              *)
JoinModelBuild(c) ==
  \/ /\ mPromise # None
     /\ onModel' = [onModel EXCEPT ![c] = mPromise]
     /\ UNCHANGED <<mRead, mPromise>>
  \/ /\ mPromise = None
     /\ StartModelBuild(c)
     /\ mPromise' = c

(***************************************************************************)
(* Calls                                                                   *)
(***************************************************************************)
\* Bug variant: a failed preload leaves its rejected promise to be joined.
Bug_GetOrBuildModel(c) ==
  /\ MayCall(c, "getOrBuildModel")
  /\ Enter(c, "getOrBuildModel")
  /\ \/ /\ mCache # None
        /\ Answer(c, mCache)
        /\ UNCHANGED modelVars
     \/ /\ mCache = None
        /\ \E d \in Called("preloadModel") : pc[d] = "failed"
        /\ pc' = [pc EXCEPT ![c] = "failed"]
        /\ UNCHANGED <<modelVars, got>>
  /\ UNCHANGED <<deployed, version, typeVars, faulted>>

\* getOrBuildModel: the cached model, or a build to await.
GetOrBuildModel(c) ==
  /\ MayCall(c, "getOrBuildModel")
  /\ Enter(c, "getOrBuildModel")
  /\ \/ /\ mCache # None
        /\ Answer(c, mCache)
        /\ UNCHANGED modelVars
     \/ /\ mCache = None
        /\ pc' = [pc EXCEPT ![c] = "busy"]
        /\ JoinModelBuild(c)
        /\ UNCHANGED <<mCache, got>>
  /\ UNCHANGED <<deployed, version, typeVars, faulted>>

\* preloadModel always builds, and shares its build with nobody.
PreloadModel(c) ==
  /\ MayCall(c, "preloadModel")
  /\ Enter(c, "preloadModel")
  /\ pc' = [pc EXCEPT ![c] = "busy"]
  /\ StartModelBuild(c)
  /\ UNCHANGED <<deployed, version, mCache, mPromise, typeVars, got, faulted>>

(* getObjectTypes and queryObjectTypes: the cache, or the build promise as *)
(* it is (a rejected one rejects the call), or a new build.                *)
GetObjectTypes(c) ==
  /\ MayCall(c, "getObjectTypes")
  /\ Enter(c, "getObjectTypes")
  /\ \/ /\ tCache # None
        /\ Answer(c, tCache)
        /\ UNCHANGED typeVars
     \/ /\ tCache = None /\ tPromise = None
        /\ pc' = [pc EXCEPT ![c] = "busy"]
        /\ StartTypeBuild(c)
        /\ tPromise' = c
        /\ UNCHANGED <<tCache, got>>
     \/ /\ tCache = None /\ tPromise # None
        /\ tStage[tPromise] # "rejected"
        /\ pc' = [pc EXCEPT ![c] = "busy"]
        /\ onTypes' = [onTypes EXCEPT ![c] = tPromise]
        /\ UNCHANGED <<tCache, tPromise, tRead, tStage, got>>
     \/ /\ tCache = None /\ tPromise # None
        /\ tStage[tPromise] = "rejected"
        /\ pc' = [pc EXCEPT ![c] = "failed"]
        /\ UNCHANGED <<typeVars, got>>
  /\ UNCHANGED <<deployed, version, modelVars, faulted>>

\* preloadTypes always builds, and shares its build with nobody.
PreloadTypes(c) ==
  /\ MayCall(c, "preloadTypes")
  /\ Enter(c, "preloadTypes")
  /\ pc' = [pc EXCEPT ![c] = "busy"]
  /\ StartTypeBuild(c)
  /\ UNCHANGED <<deployed, version, modelVars, tCache, tPromise, got, faulted>>

InvalidateModel ==
  /\ ~deployed
  /\ mCache # None
  /\ mCache' = None
  /\ UNCHANGED <<deployed, version, mPromise, mRead, onModel, typeVars, callVars>>

InvalidateTypes ==
  /\ ~deployed
  /\ <<tCache, tPromise>> # <<None, None>>
  /\ tCache' = None
  /\ tPromise' = None
  /\ UNCHANGED <<deployed, version, modelVars, tRead, tStage, onTypes, callVars>>

(***************************************************************************)
(* Settling: who awaits what, and what the continuations do.               *)
(***************************************************************************)
\* The calls that await a type build of B.
TypeCallers(B) == {c \in Calls : onTypes[c] \in B}

(* The type builds B resolve: each stores its result and forgets the       *)
(* promise, whichever build that is, and answers its callers.              *)
TypesResolve(B) ==
  /\ IF B = {} THEN UNCHANGED <<tCache, tPromise>>
     ELSE /\ \E b \in B : tCache' = tRead[b]
          /\ tPromise' = None
  /\ tStage' = [b \in Calls |-> IF b \in B THEN "none" ELSE tStage[b]]
  /\ onTypes' = [c \in Calls |-> IF onTypes[c] \in B THEN None ELSE onTypes[c]]
  /\ tRead' = [b \in Calls |-> IF b \in B THEN None ELSE tRead[b]]

\* The type builds B reject: _buildPromise keeps the rejected promise.
TypesReject(B) ==
  /\ tStage' = [b \in Calls |-> IF b \in B THEN "rejected" ELSE tStage[b]]
  /\ onTypes' = [c \in Calls |-> IF onTypes[c] \in B THEN None ELSE onTypes[c]]
  /\ tRead' = [b \in Calls |-> IF b \in B THEN None ELSE tRead[b]]
  /\ UNCHANGED <<tCache, tPromise>>

Finish(S, label) == pc' = [c \in Calls |-> IF c \in S THEN label ELSE pc[c]]

\* The data source rejects a read: every call under way has seen a fault.
Fault == faulted' = faulted \cup Busy

\* Those who await the model build b, and the type builds among them.
ModelCallers(b) == {c \in Calls : onModel[c] = b}
BuildsOn(b) == {c \in ModelCallers(b) : tStage[c] = "model"}

\* The model build b is over: its own promise is cleared, nobody awaits it.
ModelBuildOver(b) ==
  /\ mPromise' = IF mPromise = b THEN None ELSE mPromise
  /\ mRead' = [mRead EXCEPT ![b] = None]
  /\ onModel' = [c \in Calls |-> IF onModel[c] = b THEN None ELSE onModel[c]]

\* The model build b resolves: answer its callers, and go on with the types.
ModelBuilt(b) ==
  LET B == BuildsOn(b)
      models == ModelCallers(b) \ B IN
  /\ Pending(b)
  /\ mCache' = mRead[b]
  /\ ModelBuildOver(b)
  /\ TypesResolve(B)
  /\ Finish(models \cup TypeCallers(B), "done")
  /\ got' = [c \in Calls |-> IF c \in models THEN mRead[b]
                             ELSE IF c \in TypeCallers(B) THEN tRead[onTypes[c]]
                             ELSE got[c]]
  /\ UNCHANGED <<deployed, version, method, faulted>>

\* Bug variant: the promise of a failed build is not cleared.
Bug_ModelBuildFails(b) ==
  LET B == BuildsOn(b) IN
  /\ Pending(b)
  /\ mRead' = [mRead EXCEPT ![b] = None]
  /\ onModel' = [c \in Calls |-> IF onModel[c] = b THEN None ELSE onModel[c]]
  /\ TypesReject(B)
  /\ Finish((ModelCallers(b) \ B) \cup TypeCallers(B), "failed")
  /\ Fault
  /\ UNCHANGED <<deployed, version, mCache, mPromise, method, got>>

\* The model build b rejects, and with it all who await it.
ModelBuildFails(b) ==
  LET B == BuildsOn(b) IN
  /\ Pending(b)
  /\ ModelBuildOver(b)
  /\ TypesReject(B)
  /\ Finish((ModelCallers(b) \ B) \cup TypeCallers(B), "failed")
  /\ Fault
  /\ UNCHANGED <<deployed, version, mCache, method, got>>

\* The type build b has read the object types and asks for the model.
TypesFetched(b) ==
  /\ tStage[b] = "fetch"
  /\ \/ /\ mCache # None
        /\ TypesResolve({b})
        /\ Finish(TypeCallers({b}), "done")
        /\ got' = [c \in Calls |-> IF onTypes[c] = b THEN tRead[b] ELSE got[c]]
        /\ UNCHANGED modelVars
     \/ /\ mCache = None
        /\ JoinModelBuild(b)
        /\ tStage' = [tStage EXCEPT ![b] = "model"]
        /\ UNCHANGED <<mCache, tCache, tPromise, tRead, onTypes, pc, got>>
  /\ UNCHANGED <<deployed, version, method, faulted>>

\* The read of the object types rejects.
TypesFetchFails(b) ==
  /\ tStage[b] = "fetch"
  /\ TypesReject({b})
  /\ Finish(TypeCallers({b}), "failed")
  /\ Fault
  /\ UNCHANGED <<deployed, version, modelVars, method, got>>

\* The address space of the data source changes.
Change ==
  /\ version < MaxVersion
  /\ version' = version + 1
  /\ UNCHANGED <<deployed, modelVars, typeVars, callVars>>

Call(c) ==
  \/ GetOrBuildModel(c) \/ PreloadModel(c)
  \/ GetObjectTypes(c) \/ PreloadTypes(c)

Settle(b) ==
  \/ ModelBuilt(b) \/ ModelBuildFails(b)
  \/ TypesFetched(b) \/ TypesFetchFails(b)

Next ==
  \/ \E c \in Calls : Call(c) \/ Settle(c)
  \/ InvalidateModel
  \/ InvalidateTypes
  \/ Change

Spec == Init /\ [][Next]_vars

\* The data source answers, or rejects, every read.
FairSpec == Spec /\ \A b \in Calls : WF_vars(Settle(b))

-----------------------------------------------------------------------------
Versions == 0 .. MaxVersion

(* The values of the variables (model-service.ts:17-20, type-service.ts:   *)
(* 29-31); a call that succeeds is answered with a result.                 *)
TypeOK ==
  /\ deployed \in BOOLEAN
  /\ version \in Versions
  /\ mCache \in Versions \cup {None}
  /\ tCache \in Versions \cup {None}
  /\ mPromise \in Calls \cup {None}
  /\ tPromise \in Calls \cup {None}
  /\ method \in [Calls -> Methods \cup {None}]
  /\ pc \in [Calls -> {"new", "busy", "done", "failed"}]
  /\ got \in [Calls -> Versions \cup {None}]
  /\ \A c \in Calls : pc[c] = "done" <=> got[c] # None
  /\ mRead \in [Calls -> Versions \cup {None}]
  /\ tRead \in [Calls -> Versions \cup {None}]
  /\ tStage \in [Calls -> Stages]
  /\ onModel \in [Calls -> Calls \cup {None}]
  /\ onTypes \in [Calls -> Calls \cup {None}]
  /\ faulted \in SUBSET Calls

(* Concurrent callers of getOrBuildModel share one build: every pending    *)
(* model build is the one _buildPromise holds or a preload's own, and      *)
(* _buildPromise is never a build that is over.                            *)
ModelSingleFlight ==
  \A b \in Calls : Pending(b) /\ method[b] # "preloadModel" <=> b = mPromise

(* Nobody waits for a build that is over: a busy call awaits a pending     *)
(* build, and a type build that awaits the model awaits a pending one.     *)
WaitersHaveABuild ==
  /\ \A c \in Calls : onModel[c] # None => Pending(onModel[c])
  /\ \A c \in Calls : onTypes[c] # None =>
       /\ tStage[onTypes[c]] \in {"fetch", "model"}
       /\ tStage[onTypes[c]] = "model" => onModel[onTypes[c]] # None
  /\ \A c \in Busy : onModel[c] # None \/ onTypes[c] # None

(* A call of the model service fails only when the data source rejected a  *)
(* read while the call was under way: a failed build leaves nothing behind *)
(* (the `finally` of getOrBuildModel).                                     *)
ModelFailureIsFresh ==
  \A c \in Calls :
    pc[c] = "failed" /\ method[c] \in {"getOrBuildModel", "preloadModel"} =>
      c \in faulted

(* While the server runs as app/src/server.ts starts it, the model and the *)
(* types it serves are never replaced under its clients.                   *)
ServedIsStable ==
  [][deployed => /\ mCache # None => mCache' = mCache
                 /\ tCache # None => tCache' = tCache]_vars

(* Every call is answered once the data source answers or rejects every    *)
(* read: no caller stays on a promise that nobody settles.                 *)
EveryCallIsAnswered ==
  \A c \in Calls : pc[c] = "busy" ~> pc[c] \in {"done", "failed"}

(* A type query should fail only when the data source rejected a read      *)
(* while the query was under way.  The code breaks this, and no run checks *)
(* it: type-service.ts:87 keeps a rejected build promise for later callers.*)
TypeFailureIsFresh == \A c \in Calls : pc[c] = "failed" => c \in faulted

-----------------------------------------------------------------------------
(***************************************************************************)
(* What makes the invariants above inductive.                              *)
(***************************************************************************)
\* The type build of b is under way.
Typing(b) == tStage[b] \in {"fetch", "model"}

(* Whoever started a build that is under way awaits it, only a busy call   *)
(* awaits anything, only a type build awaits a model for others, and the   *)
(* _buildPromise of the types is pending or was rejected.                  *)
OwnersWait ==
  /\ \A b \in Calls : Pending(b) => onModel[b] = b
  /\ \A b \in Calls : Typing(b) => onTypes[b] = b /\ tRead[b] # None
  /\ \A b \in Calls : tStage[b] = "model" => onModel[b] # None
  /\ \A c \in Calls : onModel[c] # None \/ onTypes[c] # None => pc[c] = "busy"
  /\ tPromise # None => tStage[tPromise] # "none"
  /\ \A b \in Calls : Typing(b) => method[b] \in {"getObjectTypes", "preloadTypes"}
  /\ \A c \in Calls : onModel[c] # None /\ onTypes[c] # None => tStage[c] = "model"
  /\ \A c \in Calls : pc[c] = "new" => method[c] = None

(* In the deployed server a cache that is filled has no build under way,   *)
(* there is one type build at a time, and the two preloads run alone.      *)
DeployedAlone ==
  /\ mCache # None => \A b \in Calls : ~Pending(b)
  /\ tCache # None => \A b \in Calls : ~Typing(b)
  /\ \A b, c \in Calls : Typing(b) /\ Typing(c) => b = c
  /\ \A b \in Calls : Typing(b) => tPromise = b \/ method[b] = "preloadTypes"

DeployedPreload ==
  /\ mCache # None \/ tCache # None => \E c \in Calls : pc[c] # "new"
  /\ tCache # None => \E c \in Calls : method[c] \in {"getObjectTypes", "preloadTypes"}
  /\ \A b, c \in Calls : method[b] = "preloadModel" /\ method[c] = "preloadModel" => b = c
  /\ \A b \in Calls : method[b] = "preloadModel" /\ pc[b] = "busy" =>
       \A c \in Calls \ {b} : pc[c] = "new"
  /\ \A b \in Calls : method[b] = "preloadModel" /\ pc[b] = "done" => mCache # None
  /\ \A b \in Calls : method[b] = "preloadTypes" /\ pc[b] = "busy" =>
       /\ mCache # None
       /\ \A c \in Calls \ {b} : method[c] \in {None, "preloadModel"}

Safe ==
  /\ ModelSingleFlight /\ WaitersHaveABuild /\ ModelFailureIsFresh
  /\ OwnersWait
  /\ deployed => DeployedAlone /\ DeployedPreload

IInv == TypeOK /\ Safe

=============================================================================
