--------------------------- MODULE ServerLifecycle ---------------------------
(***************************************************************************)
(* The process of app/src/server.ts: it resolves its options, builds the   *)
(* REST application, connects to the OPC UA server (negotiating a security *)
(* mode and policy on the way), preloads, listens, and is shut down by     *)
(* signals that may arrive during any of these steps.                      *)
(*                                                                         *)
(* startServer is a process whose program counter, step, is the await it   *)
(* is in; every signal starts a shutdown of its own, whose program counter *)
(* is down[g].  They share the fields of OpcUaClient.                      *)
(***************************************************************************)
EXTENDS Naturals, Sequences, FiniteSets

CONSTANTS
  ConfigFiles,   \* what a configuration file may set
  Environments,  \* what the environment may set, as strings
  CommandLines,  \* what the command line may set
  Offers,        \* the endpoint lists a server may answer with
  Signals,       \* signals, each sent at most once
  None

Modes == {"None", "Sign", "SignAndEncrypt"}
Ranked == <<"Aes256_Sha256_RsaPss", "Basic256Sha256", "Aes128_Sha256_RsaOaep",
            "Basic256", "Basic256Rsa15", "Basic128Rsa15", "None">>

ASSUME OfferAssumption ==
  \A offer \in Offers :
    /\ offer \in Seq([mode : Modes, policy : STRING, level : Nat])

ASSUME NoneAssumption ==
  /\ None \notin {0, 1, "register", "stream"}
  /\ None \notin Modes \cup {"Auto"}

(* No layer holds undefined: a file is parsed text, and the environment     *)
(* and the command line set an option only when they have a value for it.  *)
Defined(layer) == \A f \in DOMAIN layer : layer[f] # None

ASSUME LayerAssumption ==
  /\ \A file \in ConfigFiles : Defined(file)
  /\ \A env \in Environments : Defined(env)
  /\ \A args \in CommandLines : Defined(args)

-----------------------------------------------------------------------------
(* Options.  A layer is a function from the options it sets. *)
Defaults ==
  [mode |-> "Auto", policy |-> "Auto", preload |-> TRUE, strict |-> FALSE,
   requireAuth |-> TRUE, apiKey |-> "", optimized |-> "auto"]

Flags == {"preload", "strict", "requireAuth"}

(* An empty variable counts as unset, a flag is true for "1" and "true"    *)
(* and false for any other text, an unknown optimizedClient is dropped.    *)
FromEnv(env) ==
  LET set == {f \in DOMAIN env :
                /\ env[f] # ""
                /\ f = "optimized" => env[f] \in {"auto", "disabled"}}
  IN [f \in set |-> IF f \in Flags THEN env[f] \in {"1", "true"} ELSE env[f]]

(* The command line can only turn preload and requireAuth off and strict   *)
(* on, and an empty option sets nothing.                                   *)
FromArguments(args) ==
  LET set == {f \in DOMAIN args :
                CASE f \in {"preload", "requireAuth"} -> args[f] = FALSE
                  [] f = "strict" -> args[f] = TRUE
                  [] OTHER -> args[f] # ""}
  IN [f \in set |-> args[f]]

(* What the upper layer sets hides the same option of the layer below. *)
Over(upper, lower) ==
  [f \in DOMAIN upper \cup DOMAIN lower |->
     IF f \in DOMAIN upper THEN upper[f] ELSE lower[f]]

ResolveConfig(file, env, args) ==
  Over(FromArguments(args), Over(FromEnv(env), Over(file, Defaults)))

Valid(config) ==
  /\ config.mode \in Modes \cup {"Auto"}
  /\ config.optimized \in {"auto", "disabled"}

MayServe(config) == config.requireAuth => config.apiKey # ""

-----------------------------------------------------------------------------
(* Endpoint selection.  A choice is a mode and a policy, or None when the  *)
(* selection throws.                                                       *)
Choice(mode, policy) == [mode |-> mode, policy |-> policy]
Unsecured == Choice("None", "None")

PolicyRank(policy) ==
  IF \E i \in DOMAIN Ranked : Ranked[i] = policy
  THEN CHOOSE i \in DOMAIN Ranked : Ranked[i] = policy
  ELSE 999

ModeRank(mode) ==
  CASE mode = "SignAndEncrypt" -> 0 [] mode = "Sign" -> 1 [] OTHER -> 2

(* The comparison that sorts the candidates; a missing level is 0. *)
Before(a, b) ==
  \/ a.level > b.level
  \/ /\ a.level = b.level
     /\ \/ PolicyRank(a.policy) < PolicyRank(b.policy)
        \/ /\ PolicyRank(a.policy) = PolicyRank(b.policy)
           /\ ModeRank(a.mode) < ModeRank(b.mode)

\* Bug variant: secured endpoints are only preferred when a filter is given.
Bug_Pool(offer, mode, policy) ==
  {i \in DOMAIN offer : /\ mode \in {None, offer[i].mode}
                        /\ policy \in {None, offer[i].policy}}

(* The positions of the candidates: those the filters leave; without a     *)
(* filter the secured ones, if there are any.                              *)
Pool(offer, mode, policy) ==
  LET secured == {i \in DOMAIN offer : offer[i].mode # "None"}
  IN IF mode = None /\ policy = None /\ secured # {} THEN secured
     ELSE {i \in DOMAIN offer : /\ mode \in {None, offer[i].mode}
                                /\ policy \in {None, offer[i].policy}}

(* The sort is stable: of equals the first one wins. *)
SelectBestEndpoint(offer, mode, policy) ==
  LET pool == Pool(offer, mode, policy)
      best == CHOOSE i \in pool : \A j \in pool \ {i} :
                \/ Before(offer[i], offer[j])
                \/ ~Before(offer[j], offer[i]) /\ i < j
  IN IF pool # {} THEN Choice(offer[best].mode, offer[best].policy)
     ELSE IF mode = None /\ policy = None THEN Unsecured
     ELSE None

Filter(option) == IF option = "Auto" THEN None ELSE option
Filtered(config) == Filter(config.mode) # None \/ Filter(config.policy) # None
Discovers(config) ==
  config.mode # "None" /\ "Auto" \in {config.mode, config.policy}

Explicit(config) ==
  IF config.mode = "None" THEN Unsecured ELSE Choice(config.mode, config.policy)

-----------------------------------------------------------------------------
VARIABLES
  config,    \* the resolved options
  step,      \* startServer: the await it is in, "ready", or "failed"
  security,  \* the mode and policy to connect with
  offer,     \* the list of endpoints the server answered with
  fallback,  \* history: discovery failed and gave no security
  pki, client, session,  \* OpcUaClient: the field is set
  open,      \* a session is open at the OPC UA server
  listening, \* isListening
  request,   \* an HTTP request in work: None, "register" or "stream"
  runtime,   \* a subscription has a runtime
  down,      \* each signal: how far its shutdown is
  exit,      \* the exit code
  early      \* history: a signal arrived before the server was ready

choiceVars == <<security, offer, fallback>>
clientVars == <<pki, client, session, open>>
httpVars == <<listening, request, runtime>>
vars == <<config, step, choiceVars, clientVars, httpVars, down, exit, early>>

Steps == {"app", "pki", "discover", "leave", "dial", "login", "wrap", "namespaces",
          "model", "types", "bind", "ready", "failed"}
Stages == {"idle", "http", "subs", "session", "client", "pki", "exit"}

TypeOK ==
  /\ step \in Steps
  /\ pki \in BOOLEAN /\ client \in BOOLEAN /\ session \in BOOLEAN
  /\ open \in BOOLEAN /\ listening \in BOOLEAN
  /\ request \in {None, "register", "stream"}
  /\ runtime \in BOOLEAN
  /\ down \in [Signals -> Stages]
  /\ exit \in {None, 0, 1}
  /\ fallback \in BOOLEAN /\ early \in BOOLEAN

Init ==
  /\ \E file \in ConfigFiles, env \in Environments, args \in CommandLines :
       config = ResolveConfig(file, env, args)
  /\ step = "app"
  /\ security = None /\ offer = None /\ fallback = FALSE
  /\ pki = FALSE /\ client = FALSE /\ session = FALSE /\ open = FALSE
  /\ listening = FALSE /\ request = None /\ runtime = FALSE
  /\ down = [g \in Signals |-> "idle"]
  /\ exit = None
  /\ early = FALSE

-----------------------------------------------------------------------------
(* startServer *)
At(here) == exit = None /\ step = here
Fails(code) == step' = "failed" /\ exit' = code
Proceeds(there) == step' = there /\ exit' = exit

(* Everything up to the first signal handler: options that cannot work end *)
(* the process.                                                            *)
CreateApp ==
  /\ At("app")
  /\ IF Valid(config) /\ MayServe(config) THEN Proceeds("pki") ELSE Fails(1)
  /\ UNCHANGED <<config, choiceVars, clientVars, httpVars, down, early>>

(* The certificate manager exists; without a discovery the client does     *)
(* too, and connects.                                                      *)
CertificatesReady ==
  /\ At("pki")
  /\ \/ /\ pki' = TRUE
        /\ IF Discovers(config)
           THEN Proceeds("discover") /\ UNCHANGED <<security, client>>
           ELSE /\ security' = Explicit(config)
                /\ client' = TRUE
                /\ Proceeds("dial")
     \/ Fails(1) /\ UNCHANGED <<security, pki, client>>
  /\ UNCHANGED <<config, offer, fallback, session, open, httpVars, down, early>>

(* The server answered with its endpoints; the discovery client is then    *)
(* disconnected, which is awaited before one of them is selected.          *)
Discovered(list) ==
  /\ At("discover")
  /\ offer' = list
  /\ Proceeds("leave")
  /\ UNCHANGED <<config, security, fallback, clientVars, httpVars, down, early>>

Selected ==
  /\ At("leave")
  /\ security' = SelectBestEndpoint(offer, Filter(config.mode),
                                    Filter(config.policy))
  /\ IF security' = None
     THEN Fails(1) /\ UNCHANGED client
     ELSE Proceeds("dial") /\ client' = TRUE
  /\ UNCHANGED <<config, offer, fallback, pki, session, open, httpVars, down, early>>

(* Discovery failed, if only because its client could not be disconnected: *)
(* without a filter it falls back to no security.                          *)
DiscoveryFails ==
  /\ At("discover") \/ At("leave")
  /\ IF Filtered(config)
     THEN Fails(1) /\ UNCHANGED <<security, fallback, client>>
     ELSE /\ security' = Unsecured /\ fallback' = TRUE
          /\ client' = TRUE
          /\ Proceeds("dial")
  /\ UNCHANGED <<config, offer, pki, session, open, httpVars, down, early>>

(* The connection is made, or fails; a client that a shutdown took away    *)
(* has no createSession.                                                   *)
Dialed ==
  /\ At("dial")
  /\ (client /\ Proceeds("login")) \/ Fails(1)
  /\ UNCHANGED <<config, choiceVars, clientVars, httpVars, down, early>>

\* A session is there: the field of the client is set, and it is read from.
SessionSet ==
  session' = TRUE /\ Proceeds("namespaces")

(* createSession settles.  The optimised client is imported first. *)
LoggedIn ==
  /\ At("login")
  /\ \/ /\ client /\ open' = TRUE
        /\ IF config.optimized = "disabled" THEN SessionSet
           ELSE Proceeds("wrap") /\ UNCHANGED session
     \/ Fails(1) /\ UNCHANGED <<open, session>>
  /\ UNCHANGED <<config, choiceVars, pki, client, httpVars, down, early>>

Wrapped ==
  /\ At("wrap")
  /\ SessionSet
  /\ UNCHANGED <<config, choiceVars, pki, client, open, httpVars, down, early>>

NamespacesRead ==
  /\ At("namespaces")
  /\ \/ open /\ Proceeds(IF config.preload THEN "model" ELSE "bind")
     \/ Fails(1)
  /\ UNCHANGED <<config, choiceVars, clientVars, httpVars, down, early>>

(* A preload fails without a session, and may fail with one. *)
Preloaded(here, there) ==
  /\ At(here)
  /\ \/ session /\ open /\ Proceeds(there)
     \/ IF config.strict THEN Fails(1) ELSE Proceeds("bind")
  /\ UNCHANGED <<config, choiceVars, clientVars, httpVars, down, early>>

(* app.listen settles; a rejection reaches nobody and ends the process. *)
Bound ==
  /\ At("bind")
  /\ \/ listening' = TRUE /\ Proceeds("ready")
     \/ Fails(1) /\ UNCHANGED listening
  /\ UNCHANGED <<config, choiceVars, clientVars, request, runtime, down,
                 early>>

Start ==
  \/ CreateApp \/ CertificatesReady \/ DiscoveryFails
  \/ \E list \in Offers : Discovered(list)
  \/ Selected
  \/ Dialed \/ LoggedIn \/ Wrapped \/ NamespacesRead
  \/ Preloaded("model", "types") \/ Preloaded("types", "bind")
  \/ Bound

-----------------------------------------------------------------------------
(* Clients of the REST API *)
ShuttingDown == \E g \in Signals : down[g] # "idle"

(* A request is accepted until the HTTP server is closed. *)
RequestStarts(r) ==
  /\ exit = None /\ listening /\ ~ShuttingDown
  /\ request = None
  /\ request' = r
  /\ UNCHANGED <<config, step, choiceVars, clientVars, listening, runtime,
                 down, exit, early>>

(* register is answered; it has created a runtime if there was a session. *)
RegisterEnds ==
  /\ exit = None /\ request = "register"
  /\ request' = None
  /\ runtime' = (runtime \/ session)
  /\ UNCHANGED <<config, step, choiceVars, clientVars, listening, down,
                 exit, early>>

(* Only its client ends a stream. *)
StreamEnds ==
  /\ exit = None /\ request = "stream"
  /\ request' = None
  /\ UNCHANGED <<config, step, choiceVars, clientVars, listening, runtime,
                 down, exit, early>>

-----------------------------------------------------------------------------
(* shutdown *)
Reaches(g, stage) == down' = [down EXCEPT ![g] = stage]

\* Where disconnect goes on: it skips what is not there.
FirstOf(s, c, p) ==
  CASE s -> "session" [] ~s /\ c -> "client" [] ~s /\ ~c /\ p -> "pki"
    [] OTHER -> "exit"

\* Bug variant: a signal that arrives before the server listens waits for ever.
Bug_Signal(g) ==
  /\ exit = None
  /\ step # "app" /\ down[g] = "idle"
  /\ early' = (early \/ step # "ready")
  /\ Reaches(g, IF listening THEN "http" ELSE "waiting")
  /\ UNCHANGED <<config, step, choiceVars, clientVars, httpVars, exit>>

(* A signal.  The handlers are registered when startServer connects. *)
Signal(g) ==
  /\ exit = None
  /\ step # "app" /\ down[g] = "idle"
  /\ early' = (early \/ step # "ready")
  /\ Reaches(g, IF listening THEN "http" ELSE "subs")
  /\ UNCHANGED <<config, step, choiceVars, clientVars, httpVars, exit>>

\* Bug variant: the HTTP server is closed without waiting for requests.
Bug_HttpClosed(g) ==
  /\ exit = None /\ down[g] = "http"
  /\ Reaches(g, "subs")
  /\ UNCHANGED <<config, step, choiceVars, clientVars, httpVars, exit, early>>

(* app.close resolves once the requests in work have ended. *)
HttpClosed(g) ==
  /\ exit = None /\ down[g] = "http"
  /\ request = None
  /\ Reaches(g, "subs")
  /\ UNCHANGED <<config, step, choiceVars, clientVars, httpVars, exit, early>>

(* Every runtime was closed, or refused: the subscriptions are dropped. *)
SubscriptionsClosed(g) ==
  /\ exit = None /\ down[g] = "subs"
  /\ runtime' = FALSE
  /\ Reaches(g, FirstOf(session, client, pki))
  /\ UNCHANGED <<config, step, choiceVars, clientVars, listening, request,
                 exit, early>>

(* session.close settled; when it failed, the server keeps the session. *)
SessionClosed(g) ==
  /\ exit = None /\ down[g] = "session"
  /\ session' = FALSE
  /\ open' \in {open, FALSE}
  /\ Reaches(g, FirstOf(FALSE, client, pki))
  /\ UNCHANGED <<config, step, choiceVars, pki, client, httpVars, exit, early>>

(* client.disconnect settled: the channel is gone, and with it sessions. *)
ClientDisconnected(g) ==
  /\ exit = None /\ down[g] = "client"
  /\ client' = FALSE /\ open' = FALSE
  /\ Reaches(g, FirstOf(FALSE, FALSE, pki))
  /\ UNCHANGED <<config, step, choiceVars, pki, session, httpVars, exit, early>>

PkiDisposed(g) ==
  /\ exit = None /\ down[g] = "pki"
  /\ pki' = FALSE
  /\ Reaches(g, "exit")
  /\ UNCHANGED <<config, step, choiceVars, client, session, open, httpVars,
                 exit, early>>

Exit(g) ==
  /\ exit = None /\ down[g] = "exit"
  /\ exit' = 0
  /\ UNCHANGED <<config, step, choiceVars, clientVars, httpVars, down, early>>

Shutdown(g) ==
  \/ HttpClosed(g) \/ SubscriptionsClosed(g) \/ SessionClosed(g)
  \/ ClientDisconnected(g) \/ PkiDisposed(g) \/ Exit(g)

Next ==
  \/ Start
  \/ \E r \in {"register", "stream"} : RequestStarts(r)
  \/ RegisterEnds \/ StreamEnds
  \/ \E g \in Signals : Signal(g) \/ Shutdown(g)

(* Whatever is awaited settles: the OPC UA stack answers or times out.     *)
(* Nothing makes a client end its stream.                                  *)
Fairness ==
  /\ WF_vars(Start) /\ WF_vars(RegisterEnds)
  /\ \A g \in Signals : WF_vars(Shutdown(g))

Spec == Init /\ [][Next]_vars /\ Fairness

-----------------------------------------------------------------------------
\* Endpoints of the answer that the options allow.
Allowed == {j \in DOMAIN offer : /\ config.mode \in {"Auto", offer[j].mode}
                                /\ config.policy \in {"Auto", offer[j].policy}}
Chosen == {j \in Allowed : Choice(offer[j].mode, offer[j].policy) = security}
Secured == {j \in DOMAIN offer : offer[j].mode # "None"}

(* A connection never uses less security than was asked for: an explicit   *)
(* mode and policy are kept or the start fails, and of the endpoints the   *)
(* server answered with none that the options allow is better than the one *)
(* used.  Without security it connects only if asked to, if the server     *)
(* offers nothing else, or if nothing was asked for and discovery failed,  *)
(* which it may still do when the endpoints are known.                     *)
NoDowngrade ==
  security # None =>
    /\ config.mode # "Auto" => security.mode = config.mode
    /\ config.policy # "Auto" /\ config.mode # "None" =>
         security.policy = config.policy
    /\ fallback => ~Filtered(config) /\ Discovers(config)
    /\ Discovers(config) /\ ~fallback =>
         /\ offer # <<>> =>
              \E i \in Chosen : \A j \in Allowed :
                Before(offer[j], offer[i]) => ~Filtered(config) /\ j \notin Secured
         /\ security = Unsecured => Filtered(config) \/ Secured = {}

(* What the option's documentation says: Auto discovers the endpoints and  *)
(* picks the strongest.  The code breaks it, for a list that was answered  *)
(* is dropped when the discovery client cannot be disconnected.            *)
AutoIsSecured ==
  Discovers(config) /\ ~Filtered(config) /\ offer # None /\ security = Unsecured =>
    Secured = {}

(* A server that was ready when it was told to stop stops cleanly, however *)
(* many signals arrive: it exits with 0, it has closed its subscriptions   *)
(* and let go of its session, client and certificate store, and no request *)
(* was cut off.                                                            *)
CleanExit ==
  exit # None /\ step = "ready" /\ ~early =>
    /\ exit = 0
    /\ ~runtime /\ ~session /\ ~client /\ ~pki /\ ~open
    /\ request = None

(* The first signal ends the process, at whatever step of the start it     *)
(* arrives, unless a client keeps its stream open for ever: app.close is   *)
(* awaited before the streams' subscriptions are closed.                   *)
ShutdownEnds ==
  \A g \in Signals :
    [](down[g] # "idle" => <>(exit # None)) \/ <>[](request = "stream")

=============================================================================
