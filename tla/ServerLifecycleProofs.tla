------------------------ MODULE ServerLifecycleProofs ------------------------
(***************************************************************************)
(* A server that was ready when it was told to stop exits cleanly, for any *)
(* options, any endpoints and any number of signals:                       *)
(*                                                                         *)
(*              THEOREM ExitsCleanly == Spec => []CleanExit                *)
(*                                                                         *)
(* Two shutdowns may run side by side, so the inductive invariant says of  *)
(* each stage what any shutdown that has reached it guarantees for good.   *)
(*                                                                         *)
(* And a client that negotiates its security never uses less than the      *)
(* options ask for, whatever endpoints the server names:                   *)
(*                                                                         *)
(*              THEOREM NeverDowngrades == Spec => []NoDowngrade           *)
(***************************************************************************)
EXTENDS ServerLifecycle, FiniteSetTheorems, WellFoundedInduction, TLAPS

(* A non-empty set of natural numbers has a least element. *)
LEMMA LeastNatural ==
  ASSUME NEW S \in SUBSET Nat, S # {}
  PROVE  \E n \in S : \A m \in S : n <= m
  <1>. DEFINE R == {ss \in Nat \X Nat : ss[1] < ss[2]}
  <1>1. IsWellFoundedOn(R, Nat)
    BY NatLessThanWellFounded DEF OpToRel
  <1>2. \E n \in S : \A m \in S : ~ (<<m, n>> \in R)
    <2>. HIDE DEF R
    <2>. QED  BY <1>1, WFMin
  <1>3. \A n, m \in S : <<m, n>> \in R \/ n <= m
    OBVIOUS
  <1>. QED  BY <1>2, <1>3

(* So has what a function that measures the elements of a set is least at. *)
LEMMA LeastMeasure ==
  ASSUME NEW S, S # {}, NEW f \in [S -> Nat]
  PROVE  \E x \in S : \A y \in S : f[x] <= f[y]
  <1>. DEFINE values == {f[x] : x \in S}
  <1>1. values \in SUBSET Nat /\ values # {}
    OBVIOUS
  <1>2. PICK n \in values : \A m \in values : n <= m
    <2>. HIDE DEF values
    <2>. QED  BY <1>1, LeastNatural
  <1>3. PICK x \in S : f[x] = n
    OBVIOUS
  <1>4. \A y \in S : f[y] \in values
    OBVIOUS
  <1>. QED  BY <1>2, <1>3, <1>4

Past(stages) == \E g \in Signals : down[g] \in stages

(* What holds once a shutdown has reached a stage, if no signal came       *)
(* before the server was ready.                                            *)
StagesKeep ==
  ~early =>
    /\ Past(Stages \ {"idle"}) => step = "ready"
    /\ Past(Stages \ {"idle", "http"}) => request = None
    /\ Past({"session", "client", "pki", "exit"}) => ~runtime
    /\ Past({"client", "pki", "exit"}) => ~session
    /\ Past({"pki", "exit"}) => ~client
    /\ Past({"exit"}) => ~pki

ReadyListens == step = "ready" => listening

(* A session hangs on the client's connection. *)
OpenHasClient == open => client

(* The process ends as failed while it starts, and else at a shutdown's    *)
(* last stage.                                                             *)
ExitIsEarned ==
  /\ exit = 1 => step = "failed"
  /\ exit = 0 => Past({"exit"})

IInv == TypeOK /\ StagesKeep /\ ReadyListens /\ OpenHasClient /\ ExitIsEarned

-----------------------------------------------------------------------------
LEMMA InitInvariant == Init => IInv
  <1>. SUFFICES ASSUME Init PROVE IInv
    OBVIOUS
  <1>1. TypeOK
    BY DEF Init, TypeOK, Steps, Stages
  <1>2. \A g \in Signals : down[g] = "idle"
    BY DEF Init
  <1>. QED  BY <1>1, <1>2, NoneAssumption
            DEF Init, IInv, StagesKeep, ReadyListens, OpenHasClient, ExitIsEarned, Past, Stages

-----------------------------------------------------------------------------
(* A step of startServer.  A shutdown under way began early. *)
LEMMA StartKeeps == IInv /\ Start => IInv'
  <1>. SUFFICES ASSUME IInv, Start PROVE IInv'
    OBVIOUS
  <1>1. /\ exit = None /\ step # "ready" /\ step # "failed"
        /\ UNCHANGED <<request, runtime, down, early>>
    BY DEF Start, CreateApp, CertificatesReady, DiscoveryFails, Discovered, Selected, Dialed, LoggedIn,
           Wrapped, NamespacesRead, Preloaded, Bound, At, httpVars
  <1>2. /\ step' \in Steps
        /\ \/ exit' = None /\ (step' = "ready" => listening')
           \/ exit' = 1 /\ step' = "failed"
    BY <1>1 DEF Start, CreateApp, CertificatesReady, DiscoveryFails, Discovered, Selected, Dialed,
           LoggedIn, Wrapped, NamespacesRead, Preloaded, Bound, At, Proceeds, Fails,
           SessionSet, Steps
  <1>3. /\ pki' \in {pki, TRUE} /\ client' \in {client, TRUE} /\ session' \in {session, TRUE}
        /\ listening' \in {listening, TRUE}
        /\ open' = open \/ (client /\ client' = client /\ open' = TRUE)
        /\ fallback' \in {fallback, TRUE}
    <2>1. CASE CreateApp \/ Dialed \/ NamespacesRead
      BY <2>1 DEF CreateApp, Dialed, NamespacesRead, httpVars, clientVars, choiceVars
    <2>2. CASE Preloaded("model", "types") \/ Preloaded("types", "bind") \/ Bound
      BY <2>2 DEF Preloaded, Bound, httpVars, clientVars, choiceVars
    <2>3. CASE CertificatesReady
      BY <2>3 DEF CertificatesReady, httpVars
    <2>4. CASE DiscoveryFails \/ Selected \/ \E list \in Offers : Discovered(list)
      BY <2>4 DEF DiscoveryFails, Discovered, Selected, clientVars, httpVars
    <2>5. CASE LoggedIn
      BY <2>5 DEF LoggedIn, SessionSet, httpVars, choiceVars
    <2>6. CASE Wrapped
      BY <2>6 DEF Wrapped, SessionSet, httpVars, choiceVars
    <2>. QED  BY <2>1, <2>2, <2>3, <2>4, <2>5, <2>6 DEF Start
  <1>4. ~early => ~Past(Stages \ {"idle"})
    BY <1>1 DEF IInv, StagesKeep
  <1>5. ~early => \A g \in Signals : down[g] = "idle"
    BY <1>4 DEF Past, IInv, TypeOK
  <1>6. TypeOK'
    <2>1. TypeOK
      BY DEF IInv
    <2>2. /\ pki' \in BOOLEAN /\ client' \in BOOLEAN /\ session' \in BOOLEAN
          /\ listening' \in BOOLEAN /\ fallback' \in BOOLEAN
      BY <1>3, <2>1 DEF TypeOK
    <2>3. open' \in BOOLEAN
      BY <1>3, <2>1 DEF TypeOK
    <2>. QED  BY <1>1, <1>2, <2>1, <2>2, <2>3 DEF TypeOK
  <1>7. StagesKeep'
    BY <1>1, <1>5 DEF StagesKeep, Past, Stages
  <1>8. ReadyListens' /\ ExitIsEarned'
    BY <1>2, NoneAssumption DEF ReadyListens, ExitIsEarned
  <1>9. OpenHasClient'
    <2>1. CASE open' = open
      <3>1. client => client'
        <4>1. client \in BOOLEAN /\ client' \in BOOLEAN
          BY <1>6 DEF IInv, TypeOK
        <4>. QED  BY <1>3, <4>1
      <3>. QED  BY <2>1, <3>1 DEF IInv, OpenHasClient
    <2>2. CASE client /\ client' = client
      BY <2>2 DEF OpenHasClient
    <2>. QED  BY <1>3, <2>1, <2>2
  <1>. QED  BY <1>6, <1>7, <1>8, <1>9 DEF IInv

(* A request: once a shutdown has closed the HTTP server there is none. *)
LEMMA ClientKeeps ==
  ASSUME IInv, \/ \E r \in {"register", "stream"} : RequestStarts(r)
               \/ RegisterEnds \/ StreamEnds
  PROVE  IInv'
  <1>1. /\ UNCHANGED <<step, fallback, pki, client, session, open, listening, down, exit, early>>
        /\ request' \in {None, "register", "stream"} /\ runtime' \in BOOLEAN
        /\ exit = None
    BY DEF RequestStarts, RegisterEnds, StreamEnds, choiceVars, clientVars, IInv, TypeOK
  <1>2. ~early /\ Past(Stages \ {"idle", "http"}) => request' = None /\ runtime' = runtime
    <2>1. \A g \in Signals : down[g] \in Stages
      BY DEF IInv, TypeOK
    <2>2. CASE \E r \in {"register", "stream"} : RequestStarts(r)
      BY <2>2 DEF RequestStarts, ShuttingDown, Past
    <2>3. CASE RegisterEnds \/ StreamEnds
      BY <2>3, NoneAssumption DEF RegisterEnds, StreamEnds, IInv, StagesKeep
    <2>. QED  BY <2>2, <2>3
  <1>3. TypeOK'
    BY <1>1 DEF IInv, TypeOK
  <1>4. StagesKeep'
    BY <1>1, <1>2 DEF IInv, StagesKeep, Past, Stages
  <1>5. ReadyListens' /\ OpenHasClient' /\ ExitIsEarned'
    BY <1>1 DEF IInv, ReadyListens, OpenHasClient, ExitIsEarned, Past
  <1>. QED  BY <1>3, <1>4, <1>5 DEF IInv

(* A signal: it is early, or the server listens and is closed first. *)
LEMMA SignalKeeps ==
  ASSUME IInv, NEW g \in Signals, Signal(g)
  PROVE  IInv'
  <1>1. /\ UNCHANGED <<step, fallback, pki, client, session, open, listening, request, runtime,
                        exit>>
        /\ exit = None /\ down[g] = "idle"
        /\ early' = (early \/ step # "ready")
        /\ down' = [down EXCEPT ![g] = IF listening THEN "http" ELSE "subs"]
    BY DEF Signal, Reaches, choiceVars, clientVars, httpVars
  <1>2. TypeOK'
    BY <1>1 DEF IInv, TypeOK, Stages
  <1>3. \A h \in Signals \ {g} : down'[h] = down[h]
    BY <1>1 DEF IInv, TypeOK
  <1>4. ASSUME ~early' PROVE ~early /\ step = "ready" /\ down'[g] = "http"
    BY <1>1, <1>4 DEF IInv, TypeOK, ReadyListens
  <1>5. ASSUME ~early', NEW stages, "http" \notin stages, Past(stages)' PROVE Past(stages)
    BY <1>3, <1>4, <1>5 DEF Past
  <1>6. StagesKeep'
    <2>. SUFFICES ASSUME ~early'
                  PROVE  /\ step' = "ready"
                         /\ Past(Stages \ {"idle", "http"})' => request' = None
                         /\ Past({"session", "client", "pki", "exit"})' => ~runtime'
                         /\ Past({"client", "pki", "exit"})' => ~session'
                         /\ Past({"pki", "exit"})' => ~client'
                         /\ Past({"exit"})' => ~pki'
      BY DEF StagesKeep
    <2>1. step' = "ready"
      BY <1>1, <1>4
    <2>2. Past(Stages \ {"idle", "http"})' => Past(Stages \ {"idle", "http"})
      BY <1>3, <1>4 DEF Past
    <2>. QED  BY <1>1, <1>4, <1>5, <2>1, <2>2 DEF IInv, StagesKeep
  <1>7. ReadyListens' /\ OpenHasClient' /\ ExitIsEarned'
    BY <1>1, NoneAssumption DEF IInv, ReadyListens, OpenHasClient, ExitIsEarned
  <1>. QED  BY <1>2, <1>6, <1>7 DEF IInv

(* What a shutdown under way may rely on. *)
LEMMA Reached ==
  ASSUME IInv, ~early, NEW g \in Signals
  PROVE  /\ down[g] # "idle" => step = "ready"
         /\ down[g] \notin {"idle", "http"} => request = None
         /\ down[g] \in {"session", "client", "pki", "exit"} => ~runtime
         /\ down[g] \in {"client", "pki", "exit"} => ~session
         /\ down[g] \in {"pki", "exit"} => ~client
         /\ down[g] = "exit" => ~pki
  <1>1. down[g] \in Stages
    BY DEF IInv, TypeOK
  <1>. QED  BY <1>1 DEF IInv, StagesKeep, Past

(* A shutdown takes one step to the stage `to': the other shutdowns keep   *)
(* what they rely on if nothing is undone, and this one must have it.      *)
LEMMA Advance ==
  ASSUME IInv, NEW g \in Signals, NEW to \in Stages,
         exit = None, down[g] # "idle", to # "idle", Reaches(g, to),
         UNCHANGED <<step, choiceVars, listening, request, exit, early>>,
         runtime' \in BOOLEAN, session' \in BOOLEAN, client' \in BOOLEAN,
         pki' \in BOOLEAN, open' \in BOOLEAN,
         runtime' => runtime, session' => session, client' => client, pki' => pki,
         open' => open /\ client',
         to # "http" => request = None \/ early,
         to \in {"session", "client", "pki", "exit"} => ~runtime' \/ early,
         to \in {"client", "pki", "exit"} => ~session' \/ early,
         to \in {"pki", "exit"} => ~client' \/ early,
         to = "exit" => ~pki' \/ early
  PROVE  IInv'
  <1>1. /\ down' = [down EXCEPT ![g] = to]
        /\ down'[g] = to /\ \A h \in Signals \ {g} : down'[h] = down[h]
    BY DEF Reaches, IInv, TypeOK
  <1>2. TypeOK'
    BY <1>1 DEF IInv, TypeOK, choiceVars
  <1>3. StagesKeep'
    <2>. SUFFICES ASSUME ~early, NEW h \in Signals
                  PROVE  /\ down'[h] # "idle" => step = "ready"
                         /\ down'[h] \notin {"idle", "http"} => request = None
                         /\ down'[h] \in {"session", "client", "pki", "exit"} => ~runtime'
                         /\ down'[h] \in {"client", "pki", "exit"} => ~session'
                         /\ down'[h] \in {"pki", "exit"} => ~client'
                         /\ down'[h] = "exit" => ~pki'
      BY DEF StagesKeep, Past
    <2>1. CASE h = g
      BY <1>1, <2>1, Reached
    <2>2. CASE h # g
      BY <1>1, <2>2, Reached
    <2>. QED  BY <2>1, <2>2
  <1>4. ReadyListens' /\ OpenHasClient' /\ ExitIsEarned'
    BY NoneAssumption DEF IInv, ReadyListens, OpenHasClient, ExitIsEarned
  <1>. QED  BY <1>2, <1>3, <1>4 DEF IInv

LEMMA ShutdownKeeps ==
  ASSUME IInv, NEW g \in Signals, Shutdown(g)
  PROVE  IInv'
  <1>. USE DEF Stages
  <1>0. TypeOK /\ OpenHasClient
    BY DEF IInv
  <1>1. CASE HttpClosed(g)
    BY <1>0, <1>1, Advance DEF HttpClosed, clientVars, httpVars, TypeOK, OpenHasClient
  <1>2. CASE SubscriptionsClosed(g)
    <2>1. FirstOf(session, client, pki) \in {"session", "client", "pki", "exit"}
      BY DEF FirstOf
    <2>. QED
      BY <1>0, <1>2, <2>1, Reached, Advance
         DEF SubscriptionsClosed, FirstOf, clientVars, TypeOK, OpenHasClient
  <1>3. CASE SessionClosed(g)
    <2>1. FirstOf(FALSE, client, pki) \in {"client", "pki", "exit"}
      BY DEF FirstOf
    <2>2. /\ exit = None /\ down[g] = "session" /\ Reaches(g, FirstOf(FALSE, client, pki))
          /\ UNCHANGED <<step, choiceVars, listening, request, exit, early, runtime, client, pki>>
          /\ session' = FALSE /\ open' \in {open, FALSE}
      BY <1>3 DEF SessionClosed, httpVars
    <2>3. open' \in BOOLEAN /\ (open' => open /\ client')
      <3>1. CASE open' = open
        BY <1>0, <2>2, <3>1 DEF TypeOK, OpenHasClient
      <3>2. CASE open' = FALSE
        BY <3>2
      <3>. QED  BY <2>2, <3>1, <3>2
    <2>4. FirstOf(FALSE, client, pki) \in {"pki", "exit"} => ~client
      BY DEF FirstOf
    <2>5. FirstOf(FALSE, client, pki) = "exit" => ~pki
      BY <1>0 DEF FirstOf, TypeOK
    <2>. QED  BY <1>0, <2>1, <2>2, <2>3, <2>4, <2>5, Reached, Advance DEF TypeOK
  <1>4. CASE ClientDisconnected(g)
    BY <1>0, <1>4, Reached, Advance DEF ClientDisconnected, FirstOf, httpVars, TypeOK
  <1>5. CASE PkiDisposed(g)
    BY <1>0, <1>5, Reached, Advance DEF PkiDisposed, httpVars, TypeOK, OpenHasClient
  <1>6. CASE Exit(g)
    <2>1. /\ exit = None /\ exit' = 0 /\ down[g] = "exit"
          /\ UNCHANGED <<step, choiceVars, clientVars, httpVars, down, early>>
      BY <1>6 DEF Exit
    <2>2. TypeOK' /\ StagesKeep'
      BY <2>1 DEF IInv, TypeOK, StagesKeep, Past, choiceVars, clientVars, httpVars
    <2>3. ReadyListens' /\ OpenHasClient' /\ ExitIsEarned'
      BY <2>1 DEF IInv, ReadyListens, OpenHasClient, ExitIsEarned, Past, clientVars, httpVars
    <2>. QED  BY <2>2, <2>3 DEF IInv
  <1>. QED  BY <1>1, <1>2, <1>3, <1>4, <1>5, <1>6 DEF Shutdown

-----------------------------------------------------------------------------
LEMMA InvariantStep == IInv /\ [Next]_vars => IInv'
  <1>. SUFFICES ASSUME IInv, [Next]_vars PROVE IInv'
    OBVIOUS
  <1>1. CASE UNCHANGED vars
    BY <1>1 DEF vars, choiceVars, clientVars, httpVars, IInv, TypeOK, StagesKeep, ReadyListens,
                OpenHasClient, ExitIsEarned, Past
  <1>2. CASE Next
    BY <1>2, StartKeeps, ClientKeeps, SignalKeeps, ShutdownKeeps DEF Next
  <1>. QED  BY <1>1, <1>2

(* At every moment each shutdown has done what its stage says, whichever   *)
(* other shutdown runs beside it.                                          *)
THEOREM Invariant == Spec => []IInv
  <1>. QED  BY InitInvariant, InvariantStep, PTL DEF Spec

(* A server that was ready when it was told to stop exits with 0 and has   *)
(* let go of everything, and no request was cut off.                       *)
THEOREM ExitsCleanly == Spec => []CleanExit
  <1>1. IInv => CleanExit
    <2>. SUFFICES ASSUME IInv, exit # None, step = "ready", ~early
                  PROVE  /\ exit = 0 /\ ~runtime /\ ~session /\ ~client /\ ~pki
                         /\ ~open /\ request = None
      BY DEF CleanExit
    <2>1. exit = 0
      BY DEF IInv, TypeOK, ExitIsEarned
    <2>2. PICK g \in Signals : down[g] = "exit"
      BY <2>1 DEF IInv, ExitIsEarned, Past
    <2>. QED  BY <2>1, <2>2, Reached DEF IInv, OpenHasClient
  <1>. QED  BY <1>1, Invariant, PTL

-----------------------------------------------------------------------------
(* Which endpoint is used.  The comparison orders the positions of a list  *)
(* by level, then policy, then mode, and the earlier one wins a tie: a     *)
(* strict total order, so that every finite set of positions has a first.  *)
Precedes(list, i, j) ==
  \/ Before(list[i], list[j])
  \/ ~Before(list[j], list[i]) /\ i < j

LEMMA PolicyRankIsNat == ASSUME NEW policy PROVE PolicyRank(policy) \in Nat
  <1>1. DOMAIN Ranked \subseteq Nat
    BY DEF Ranked
  <1>. QED  BY <1>1 DEF PolicyRank

LEMMA ModeRankIsNat == ASSUME NEW mode PROVE ModeRank(mode) \in Nat
  BY DEF ModeRank

LEMMA OffersAreLists ==
  ASSUME NEW list \in Offers
  PROVE  /\ Len(list) \in Nat /\ DOMAIN list = 1 .. Len(list)
         /\ \A i \in DOMAIN list : list[i].level \in Nat /\ i \in Nat
  <1>. DEFINE Endpoints == [mode : Modes, policy : STRING, level : Nat]
  <1>1. list \in Seq(Endpoints)
    BY OfferAssumption
  <1>2. \A e \in Endpoints : e.level \in Nat
    OBVIOUS
  <1>. HIDE DEF Endpoints
  <1>. QED  BY <1>1, <1>2

LEMMA PrecedesIsStrict ==
  ASSUME NEW list \in Offers, NEW i \in DOMAIN list
  PROVE  ~Precedes(list, i, i)
  <1>1. list[i].level \in Nat /\ i \in Nat
    BY OffersAreLists
  <1>. QED
    BY <1>1, PolicyRankIsNat, ModeRankIsNat DEF Precedes, Before

LEMMA PrecedesIsTransitive ==
  ASSUME NEW list \in Offers,
         NEW i \in DOMAIN list, NEW j \in DOMAIN list, NEW k \in DOMAIN list,
         Precedes(list, i, j), Precedes(list, j, k)
  PROVE  Precedes(list, i, k)
  <1>1. /\ list[i].level \in Nat /\ list[j].level \in Nat /\ list[k].level \in Nat
        /\ i \in Nat /\ j \in Nat /\ k \in Nat
    BY OffersAreLists
  <1>2. /\ PolicyRank(list[i].policy) \in Nat
        /\ PolicyRank(list[j].policy) \in Nat
        /\ PolicyRank(list[k].policy) \in Nat
    BY PolicyRankIsNat
  <1>3. /\ ModeRank(list[i].mode) \in Nat
        /\ ModeRank(list[j].mode) \in Nat
        /\ ModeRank(list[k].mode) \in Nat
    BY ModeRankIsNat
  <1>. QED  BY <1>1, <1>2, <1>3 DEF Precedes, Before

LEMMA PrecedesIsTotal ==
  ASSUME NEW list \in Offers, NEW i \in DOMAIN list, NEW j \in DOMAIN list, i # j
  PROVE  Precedes(list, i, j) \/ Precedes(list, j, i)
  <1>1. i \in Nat /\ j \in Nat
    BY OffersAreLists
  <1>. QED  BY <1>1 DEF Precedes

(* The sort has a first candidate whenever there is one: a candidate with  *)
(* the fewest before it has none before it.                                *)
LEMMA SomeComesFirst ==
  ASSUME NEW list \in Offers, NEW pool \in SUBSET DOMAIN list, pool # {}
  PROVE  \E i \in pool : \A j \in pool \ {i} : Precedes(list, i, j)
  <1>. DEFINE Ahead(i) == {j \in pool : Precedes(list, j, i)}
              count == [i \in pool |-> Cardinality(Ahead(i))]
  <1>1. \A i \in pool : IsFiniteSet(Ahead(i)) /\ Cardinality(Ahead(i)) \in Nat
    <2>1. IsFiniteSet(DOMAIN list)
      BY OffersAreLists, FS_Interval
    <2>2. \A i \in pool : Ahead(i) \in SUBSET DOMAIN list
      OBVIOUS
    <2>. HIDE DEF Ahead
    <2>. QED  BY <2>1, <2>2, FS_Subset, FS_CardinalityType
  <1>2. PICK i \in pool : \A j \in pool : count[i] <= count[j]
    <2>1. count \in [pool -> Nat]
      BY <1>1
    <2>. HIDE DEF count
    <2>. QED  BY <2>1, LeastMeasure
  <1>3. ASSUME NEW j \in pool, Precedes(list, j, i) PROVE FALSE
    <2>1. Ahead(j) \subseteq Ahead(i)
      BY <1>3, PrecedesIsTransitive
    <2>2. j \in Ahead(i) /\ j \notin Ahead(j)
      BY <1>3, PrecedesIsStrict
    <2>3. Cardinality(Ahead(i)) <= Cardinality(Ahead(j))
      BY <1>2
    <2>. HIDE DEF Ahead
    <2>4. Cardinality(Ahead(j)) <= Cardinality(Ahead(i)) /\ Cardinality(Ahead(j)) # Cardinality(Ahead(i))
      BY <1>1, <2>1, <2>2, FS_Subset
    <2>. QED  BY <1>1, <2>3, <2>4
  <1>. QED  BY <1>3, PrecedesIsTotal

(* SelectBestEndpoint answers with the first of its candidates. *)
LEMMA SelectsTheFirst ==
  ASSUME NEW list \in Offers, NEW mode, NEW policy, Pool(list, mode, policy) # {}
  PROVE  \E i \in Pool(list, mode, policy) :
           /\ SelectBestEndpoint(list, mode, policy) = Choice(list[i].mode, list[i].policy)
           /\ \A j \in Pool(list, mode, policy) : ~Before(list[j], list[i])
  <1>. DEFINE pool == Pool(list, mode, policy)
              First(i) == \A j \in pool \ {i} : Precedes(list, i, j)
              best == CHOOSE i \in pool : First(i)
  <1>1. pool \in SUBSET DOMAIN list
    BY DEF Pool
  <1>2. \E i \in pool : First(i)
    BY <1>1, SomeComesFirst
  <1>3. best \in pool /\ First(best)
    BY <1>2
  <1>4. SelectBestEndpoint(list, mode, policy) = Choice(list[best].mode, list[best].policy)
    BY DEF SelectBestEndpoint, Precedes
  <1>5. ASSUME NEW j \in pool, Before(list[j], list[best]) PROVE FALSE
    <2>1. Precedes(list, j, best)
      BY <1>5 DEF Precedes
    <2>2. j # best
      BY <1>1, <1>3, <2>1, PrecedesIsStrict
    <2>3. Precedes(list, best, j)
      BY <1>3, <2>2
    <2>. QED  BY <1>1, <1>3, <2>1, <2>3, PrecedesIsTransitive, PrecedesIsStrict
  <1>. HIDE DEF pool, best
  <1>. QED  BY <1>3, <1>4, <1>5 DEF pool

-----------------------------------------------------------------------------
(* What the start has decided about security at each of its steps: nothing *)
(* before it has looked at the options, and only for options it accepts.   *)
Undecided ==
  /\ step \in {"app", "pki", "discover", "leave"} => security = None /\ ~fallback
  /\ step \in {"app", "pki", "discover"} => offer = None
  /\ step = "leave" => offer \in Offers
  /\ step \in {"pki", "discover", "leave"} => Valid(config)
  /\ step \in {"discover", "leave"} => Discovers(config)

(* A policy is always given: the defaults name one, and no layer unsets it. *)
PolicyGiven == config.policy # None

SecurityInv == TypeOK /\ Undecided /\ PolicyGiven /\ NoDowngrade

(* Layers that set no option to nothing resolve to a policy. *)
LEMMA ResolvedPolicy ==
  ASSUME NEW file \in ConfigFiles, NEW env \in Environments, NEW args \in CommandLines
  PROVE  ResolveConfig(file, env, args).policy # None
  <1>1. "policy" \in DOMAIN Defaults /\ Defaults["policy"] = "Auto"
    BY DEF Defaults
  <1>2. "policy" \in DOMAIN file => file["policy"] # None
    BY LayerAssumption DEF Defined
  <1>3. "policy" \in DOMAIN FromEnv(env) => FromEnv(env)["policy"] # None
    <2>1. \E set \in SUBSET DOMAIN env :
            FromEnv(env) = [f \in set |-> IF f \in Flags THEN env[f] \in {"1", "true"}
                                         ELSE env[f]]
      BY Zenon DEF FromEnv
    <2>. QED  BY <2>1, LayerAssumption DEF Defined, Flags
  <1>4. "policy" \in DOMAIN FromArguments(args) => FromArguments(args)["policy"] # None
    <2>1. \E set \in SUBSET DOMAIN args : FromArguments(args) = [f \in set |-> args[f]]
      BY Zenon DEF FromArguments
    <2>. QED  BY <2>1, LayerAssumption DEF Defined
  <1>. QED
    BY <1>1, <1>2, <1>3, <1>4, NoneAssumption DEF ResolveConfig, Over

LEMMA InitSecurity == Init => SecurityInv
  <1>. SUFFICES ASSUME Init PROVE SecurityInv
    OBVIOUS
  <1>1. TypeOK
    BY InitInvariant DEF IInv
  <1>2. PolicyGiven
    BY ResolvedPolicy DEF Init, PolicyGiven
  <1>3. Undecided /\ NoDowngrade
    BY DEF Init, Undecided, NoDowngrade
  <1>. QED  BY <1>1, <1>2, <1>3 DEF SecurityInv

(* What the options ask for, when the endpoints of a list are filtered: an *)
(* option that is not Auto is a filter, and Auto is none.                  *)
LEMMA FiltersAreOptions ==
  ASSUME Valid(config), PolicyGiven
  PROVE  /\ Filter(config.mode) = None <=> config.mode = "Auto"
         /\ Filter(config.policy) = None <=> config.policy = "Auto"
         /\ config.mode # "Auto" => Filter(config.mode) = config.mode
         /\ config.policy # "Auto" => Filter(config.policy) = config.policy
  BY NoneAssumption DEF Valid, PolicyGiven, Filter

(* Of the endpoints answered: the one chosen is allowed, and a better one was *)
(* passed over only because it has no security and nothing was asked for.  *)
LEMMA SelectedKeeps ==
  ASSUME SecurityInv, Selected
  PROVE  NoDowngrade'
  <1>. DEFINE list == offer
              mode == Filter(config.mode)
              policy == Filter(config.policy)
              pool == Pool(list, mode, policy)
  <1>. SUFFICES ASSUME security' # None PROVE NoDowngrade'
    BY DEF NoDowngrade
  <1>1. /\ Valid(config) /\ PolicyGiven /\ Discovers(config)
        /\ offer' = list /\ list \in Offers /\ ~fallback' /\ UNCHANGED config
        /\ security' = SelectBestEndpoint(list, mode, policy)
    BY DEF SecurityInv, Undecided, Selected, At
  <1>2. Allowed' = {i \in DOMAIN list : /\ mode \in {None, list[i].mode}
                                        /\ policy \in {None, list[i].policy}}
    BY <1>1, FiltersAreOptions DEF Allowed
  <1>3. Filtered(config)' <=> mode # None \/ policy # None
    BY <1>1 DEF Filtered
  <1>4. pool = IF ~Filtered(config)' /\ Secured' # {} THEN Secured' ELSE Allowed'
    BY <1>1, <1>2, <1>3 DEF Pool, Secured
  <1>5. CASE pool = {}
    <2>1. security' = Unsecured /\ mode = None /\ policy = None
      BY <1>1, <1>5 DEF SelectBestEndpoint
    <2>2. ~Filtered(config)' /\ Secured' = {}
      BY <1>3, <1>4, <1>5, <2>1
    <2>3. list = <<>>
      <3>1. Allowed' = DOMAIN list
        BY <1>2, <2>1
      <3>2. DOMAIN list = {}
        BY <1>4, <1>5, <2>2, <3>1
      <3>. QED  BY <1>1, <3>2, OfferAssumption
    <2>. QED
      BY <1>1, <2>1, <2>2, <2>3, FiltersAreOptions DEF NoDowngrade
  <1>6. CASE pool # {}
    <2>1. PICK i \in pool : /\ security' = Choice(list[i].mode, list[i].policy)
                            /\ \A j \in pool : ~Before(list[j], list[i])
      BY <1>1, <1>6, SelectsTheFirst
    <2>2. Secured' \subseteq Allowed' \/ pool = Allowed'
      BY <1>1, <1>2, <1>3, <1>4 DEF Secured
    <2>3. i \in Allowed' /\ i \in Chosen'
      BY <1>1, <1>4, <2>1, <2>2 DEF Chosen
    <2>4. /\ config.mode # "Auto" => security'.mode = config.mode
          /\ config.policy # "Auto" => security'.policy = config.policy
      BY <1>1, <1>2, <2>1, <2>3, FiltersAreOptions DEF Choice
    <2>5. ASSUME NEW j \in Allowed', Before(list[j], list[i])
          PROVE  ~Filtered(config)' /\ j \notin Secured'
      BY <1>4, <2>1, <2>5
    <2>6. ASSUME security' = Unsecured PROVE Filtered(config)' \/ Secured' = {}
      <3>1. list[i].mode = "None"
        BY <2>1, <2>6 DEF Choice, Unsecured
      <3>2. i \notin Secured'
        BY <1>1, <3>1 DEF Secured
      <3>. QED  BY <1>4, <3>2
    <2>. QED
      BY <1>1, <2>3, <2>4, <2>5, <2>6 DEF NoDowngrade
  <1>. QED  BY <1>5, <1>6

(* Without a discovery the options are taken as they are, and when it      *)
(* fails nothing had been asked for.                                       *)
LEMMA DecidedKeeps ==
  ASSUME SecurityInv, CertificatesReady \/ DiscoveryFails
  PROVE  NoDowngrade'
  <1>1. /\ Valid(config) /\ PolicyGiven /\ security = None /\ ~fallback
        /\ UNCHANGED <<config, offer>>
    BY DEF SecurityInv, Undecided, CertificatesReady, DiscoveryFails, At
  <1>2. CASE CertificatesReady
    <2>1. /\ security' = None \/ (~Discovers(config) /\ security' = Explicit(config))
          /\ ~fallback'
      BY <1>1, <1>2 DEF CertificatesReady
    <2>. QED
      BY <1>1, <2>1 DEF NoDowngrade, Discovers, Explicit, Unsecured, Choice
  <1>3. CASE DiscoveryFails
    <2>1. \/ security' = None
          \/ ~Filtered(config) /\ security' = Unsecured /\ fallback'
      BY <1>1, <1>3 DEF DiscoveryFails
    <2>2. ~Filtered(config) => config.mode = "Auto" /\ config.policy = "Auto"
      BY <1>1, FiltersAreOptions DEF Filtered
    <2>3. Filtered(config)' <=> Filtered(config)
      BY <1>1 DEF Filtered
    <2>4. Discovers(config)
      BY <1>3 DEF SecurityInv, Undecided, DiscoveryFails, At
    <2>5. Discovers(config)' <=> Discovers(config)
      BY <1>1 DEF Discovers
    <2>. QED
      BY <1>1, <2>1, <2>2, <2>3, <2>4, <2>5 DEF NoDowngrade
  <1>. QED  BY <1>2, <1>3

LEMMA SecurityStep == IInv /\ SecurityInv /\ [Next]_vars => SecurityInv'
  <1>. SUFFICES ASSUME IInv, SecurityInv, [Next]_vars PROVE SecurityInv'
    OBVIOUS
  <1>0. TypeOK'
    BY InvariantStep DEF IInv
  <1>1. config' = config
    <2>1. CASE Start
      BY <2>1 DEF Start, CreateApp, CertificatesReady, DiscoveryFails, Discovered, Selected, Dialed,
                  LoggedIn, Wrapped, NamespacesRead, Preloaded, Bound
    <2>2. CASE \E g \in Signals : Signal(g) \/ Shutdown(g)
      BY <2>2 DEF Signal, Shutdown, HttpClosed, SubscriptionsClosed, SessionClosed,
                  ClientDisconnected, PkiDisposed, Exit
    <2>3. CASE UNCHANGED vars
      BY <2>3 DEF vars
    <2>. QED
      BY <2>1, <2>2, <2>3 DEF Next, RequestStarts, RegisterEnds, StreamEnds
  <1>2. ASSUME UNCHANGED choiceVars,
               step' = step \/ step' \notin {"app", "pki", "discover", "leave"}
        PROVE  SecurityInv'
    <2>1. NoDowngrade'
      BY <1>1, <1>2 DEF SecurityInv, NoDowngrade, Allowed, Chosen, Secured, Filtered, Discovers,
                        choiceVars
    <2>2. Undecided'
      BY <1>1, <1>2 DEF SecurityInv, Undecided, choiceVars
    <2>. QED  BY <1>0, <1>1, <2>1, <2>2 DEF SecurityInv, PolicyGiven
  <1>3. CASE CreateApp
    <2>1. /\ step = "app" /\ UNCHANGED <<security, offer, fallback>>
          /\ step' = "failed" \/ (step' = "pki" /\ Valid(config))
      BY <1>3 DEF CreateApp, At, Proceeds, Fails, choiceVars
    <2>2. Undecided'
      BY <1>1, <2>1 DEF SecurityInv, Undecided
    <2>3. NoDowngrade'
      BY <2>1 DEF SecurityInv, Undecided, NoDowngrade
    <2>. QED  BY <1>0, <1>1, <2>2, <2>3 DEF SecurityInv, PolicyGiven
  <1>4. CASE CertificatesReady
    <2>1. Undecided'
      BY <1>1, <1>4 DEF CertificatesReady, At, Proceeds, Fails, SecurityInv, Undecided
    <2>. QED  BY <1>0, <1>1, <1>4, <2>1, DecidedKeeps DEF SecurityInv, PolicyGiven
  <1>5. CASE DiscoveryFails
    <2>1. Undecided'
      BY <1>5 DEF DiscoveryFails, At, Proceeds, Fails, Undecided
    <2>. QED  BY <1>0, <1>1, <1>5, <2>1, DecidedKeeps DEF SecurityInv, PolicyGiven
  <1>6. ASSUME NEW list \in Offers, Discovered(list) PROVE SecurityInv'
    <2>1. /\ step = "discover" /\ step' = "leave" /\ offer' = list
          /\ UNCHANGED <<security, fallback>>
      BY <1>6 DEF Discovered, At, Proceeds
    <2>2. Undecided'
      BY <1>1, <2>1 DEF SecurityInv, Undecided
    <2>3. NoDowngrade'
      BY <2>1 DEF SecurityInv, Undecided, NoDowngrade
    <2>. QED  BY <1>0, <1>1, <2>2, <2>3 DEF SecurityInv, PolicyGiven
  <1>12. CASE Selected
    <2>1. Undecided'
      BY <1>12 DEF Selected, At, Proceeds, Fails, Undecided
    <2>. QED  BY <1>0, <1>1, <1>12, <2>1, SelectedKeeps DEF SecurityInv, PolicyGiven
  <1>7. CASE Dialed \/ LoggedIn \/ Wrapped \/ NamespacesRead \/ Bound
    BY <1>2, <1>7 DEF Dialed, LoggedIn, Wrapped, NamespacesRead, Bound, SessionSet, At,
                      Proceeds, Fails
  <1>8. CASE Preloaded("model", "types") \/ Preloaded("types", "bind")
    BY <1>2, <1>8 DEF Preloaded, At, Proceeds, Fails
  <1>9. CASE \E g \in Signals : Signal(g) \/ Shutdown(g)
    BY <1>2, <1>9 DEF Signal, Shutdown, HttpClosed, SubscriptionsClosed, SessionClosed,
                      ClientDisconnected, PkiDisposed, Exit
  <1>10. CASE \/ \E r \in {"register", "stream"} : RequestStarts(r)
              \/ RegisterEnds \/ StreamEnds
    BY <1>2, <1>10 DEF RequestStarts, RegisterEnds, StreamEnds
  <1>11. CASE UNCHANGED vars
    BY <1>2, <1>11 DEF vars
  <1>. QED
    BY <1>3, <1>4, <1>5, <1>6, <1>7, <1>8, <1>9, <1>10, <1>11, <1>12 DEF Next, Start

(* Whatever endpoints the server offers and whichever layer sets the       *)
(* options, the client never connects with less security than they ask     *)
(* for, and never passes over a better endpoint that they allow, unless    *)
(* they ask for none in particular and discovery fails.                    *)
THEOREM NeverDowngrades == Spec => []NoDowngrade
  <1>1. SecurityInv => NoDowngrade
    BY DEF SecurityInv
  <1>2. Spec => []SecurityInv
    BY InitSecurity, SecurityStep, Invariant, PTL DEF Spec
  <1>. QED  BY <1>1, <1>2, PTL
=============================================================================
