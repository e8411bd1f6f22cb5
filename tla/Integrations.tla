---------------------------- MODULE Integrations ----------------------------
(***************************************************************************)
(* The integrations panel: IntegrationService of                           *)
(* src/main/integrations/integrationService.ts, its loads and refreshes    *)
(* and the questions MCP servers and tools put to the user.                *)
(*                                                                         *)
(* A call is a record that says what it waits for.  The answers of the     *)
(* five requests of a load arrive as one.  What servers, skills and        *)
(* settings contain is left out, and so are the calls that only pass a     *)
(* request on (OAuth, resources and tools).                                *)
(***************************************************************************)
EXTENDS EngineLifecycle, ServiceBounds

CONSTANTS
    Inventories,  \* projects whose integrations are shown
    Roots,        \* directories that may be added as skill roots
    MaxRoots      \* 8

ASSUME IntegrationsAssumption == MaxRoots \in Nat /\ None \notin Inventories

VARIABLES
    snapshot,    \* projectId, loading, trusted, extraSkillRoots; read: the project whose
                 \* inventory it shows
    trustedIn,   \* projects the database trusts
    inFlight,    \* the calls
    begun,       \* how many calls were made
    refresher,   \* the call that is #refreshPromise, or None
    timer,       \* #refreshTimer is set
    waitingFor,  \* questions the present engine waits for
    askedSoFar,  \* how many questions the present engine has asked
    questions,   \* snapshot.pendingRequests
    resolver     \* #pendingResolvers: the question each key resolves

calls == <<inFlight, begun, refresher>>
dialogue == <<waitingFor, askedSoFar, questions, resolver>>
intVars == <<engine, snapshot, trustedIn, calls, timer, dialogue>>

\* The engine numbers its requests anew in each generation.
Questions == [id : 0 .. MaxAsks - 1, born : 1 .. MaxGeneration]

\* requestKey adds a fresh UUID to the number; a question is as fresh.
Keys == Questions

NoIntegrationCall == [op |-> "none", waits |-> "none", project |-> None, roots |-> {}]

IntTypeOK ==
    /\ EngineTypeOK
    /\ snapshot \in [project : Inventories \cup {None}, loading : BOOLEAN, trusted : BOOLEAN,
                     roots : SUBSET Roots, read : Inventories \cup {None}]
    /\ trustedIn \subseteq Inventories /\ begun \in 0 .. MaxCalls /\ timer \in BOOLEAN
    /\ inFlight \in [Slots -> [op : {"none", "load", "write", "roots"},
                               waits : {"none", "start", "answer"},
                               project : Inventories \cup {None}, roots : SUBSET Roots]]
    /\ refresher \in Slots \cup {None}
    /\ waitingFor \subseteq Questions /\ askedSoFar \in 0 .. MaxAsks
    /\ questions \subseteq [key : Keys, of : Questions]
    /\ DOMAIN resolver \subseteq Keys /\ \A k \in DOMAIN resolver : resolver[k] \in Questions

IntInit ==
    /\ EngineInit
    /\ snapshot = [project |-> None, loading |-> FALSE, trusted |-> FALSE, roots |-> {},
                   read |-> None]
    /\ trustedIn = {} /\ inFlight = [c \in Slots |-> NoIntegrationCall] /\ begun = 0
    /\ refresher = None /\ timer = FALSE
    /\ waitingFor = {} /\ askedSoFar = 0 /\ questions = {} /\ resolver = <<>>

-----------------------------------------------------------------------------
(* Building blocks.                                                        *)

CallIs(c, r) == inFlight' = [inFlight EXCEPT ![c] = r]

\* load() up to its first await.
BeginLoad(c, p, s) ==
    /\ CallIs(c, [NoIntegrationCall EXCEPT !.op = "load", !.waits = "start", !.project = p])
    /\ snapshot' = [s EXCEPT !.project = p, !.trusted = p \in trustedIn, !.loading = TRUE]
    /\ IF phase = "ready" \/ ~settled THEN UNCHANGED engine ELSE BeginStart

\* The end of a call; the promise of a refresh is forgotten with it.
EndCall(c) ==
    /\ CallIs(c, NoIntegrationCall)
    /\ refresher' = IF refresher = c THEN None ELSE refresher

\* refresh() joins the refresh in flight, or loads the project shown.
RefreshInventory(c, s) ==
    IF refresher # None \/ s.project = None
      THEN CallIs(c, NoIntegrationCall) /\ snapshot' = s /\ UNCHANGED <<engine, refresher>>
      ELSE BeginLoad(c, s.project, s) /\ refresher' = c

-----------------------------------------------------------------------------
(* Loads and refreshes.                                                    *)

Free(c) == inFlight[c].op = "none" /\ begun < MaxCalls

Load(c, p) ==
    /\ Free(c) /\ begun' = begun + 1
    /\ BeginLoad(c, p, snapshot)
    /\ UNCHANGED <<trustedIn, refresher, timer, dialogue>>

InventoryRefreshWanted(c) ==
    /\ Free(c) /\ begun' = begun + 1
    /\ snapshot.project # None /\ refresher = None
    /\ RefreshInventory(c, snapshot)
    /\ UNCHANGED <<trustedIn, timer, dialogue>>

\* runtime.start() has settled.
LoadAsks(c) ==
    /\ inFlight[c].op = "load" /\ inFlight[c].waits = "start" /\ settled /\ phase = "ready"
    /\ CallIs(c, [inFlight[c] EXCEPT !.waits = "answer"])
    /\ UNCHANGED <<engine, snapshot, trustedIn, begun, refresher, timer, dialogue>>

LoadAnswered(c) ==
    /\ inFlight[c].op = "load" /\ inFlight[c].waits = "answer" /\ phase = "ready"
    /\ snapshot' = [snapshot EXCEPT !.loading = FALSE, !.read = inFlight[c].project]
    /\ EndCall(c)
    /\ UNCHANGED <<engine, trustedIn, begun, timer, dialogue>>

LoadFails(c) ==
    /\ inFlight[c].op = "load"
    /\ inFlight[c].waits = "answer" \/ (settled /\ phase # "ready")
    /\ snapshot' = [snapshot EXCEPT !.loading = FALSE]
    /\ EndCall(c)
    /\ UNCHANGED <<engine, trustedIn, begun, timer, dialogue>>

\* skills/changed, mcpServer/startupStatus/updated and mcpServer/oauthLogin/completed.
ChangeAnnounced ==
    /\ phase = "ready" /\ snapshot.project # None
    /\ timer' = TRUE
    /\ UNCHANGED <<engine, snapshot, trustedIn, calls, dialogue>>

TimerFires(c) ==
    /\ timer /\ inFlight[c].op = "none"
    /\ timer' = FALSE
    /\ RefreshInventory(c, snapshot)
    /\ UNCHANGED <<trustedIn, begun, dialogue>>

-----------------------------------------------------------------------------
(* Changes of the project shown.                                           *)

SetProjectTrust(p, trusted) ==
    /\ trustedIn' = IF trusted THEN trustedIn \cup {p} ELSE trustedIn \ {p}
    /\ trustedIn' # trustedIn
    /\ snapshot' = IF snapshot.project = p THEN [snapshot EXCEPT !.trusted = trusted] ELSE snapshot
    /\ UNCHANGED <<engine, calls, timer, dialogue>>

\* setSkillEnabled, reloadMcp and writeSafeConfig; no engine, no request.
Write(c) ==
    /\ Free(c) /\ begun' = begun + 1
    /\ snapshot.project # None /\ phase = "ready"
    /\ CallIs(c, [NoIntegrationCall EXCEPT !.op = "write", !.waits = "answer"])
    /\ UNCHANGED <<engine, snapshot, trustedIn, refresher, timer, dialogue>>

\* addExtraSkillRoot and removeExtraSkillRoot set all roots, as known when they begin.
ChangeRoots(c, roots) ==
    /\ Free(c) /\ begun' = begun + 1
    /\ snapshot.project # None /\ snapshot.trusted /\ phase = "ready"
    /\ \E r \in Roots : roots \in {snapshot.roots \cup {r}, snapshot.roots \ {r}}
    /\ roots \subseteq snapshot.roots \/ Cardinality(roots) <= MaxRoots
    /\ CallIs(c, [NoIntegrationCall EXCEPT !.op = "roots", !.waits = "answer", !.roots = roots])
    /\ UNCHANGED <<engine, snapshot, trustedIn, refresher, timer, dialogue>>

\* The engine has done it: the call goes on as a refresh.
ChangeAnswered(c) ==
    /\ inFlight[c].op \in {"write", "roots"} /\ phase = "ready"
    /\ RefreshInventory(c, IF inFlight[c].op = "roots" THEN [snapshot EXCEPT !.roots = inFlight[c].roots]
                  ELSE snapshot)
    /\ UNCHANGED <<trustedIn, begun, timer, dialogue>>

ChangeFails(c) ==
    /\ inFlight[c].op \in {"write", "roots"}
    /\ EndCall(c)
    /\ UNCHANGED <<engine, snapshot, trustedIn, begun, timer, dialogue>>

-----------------------------------------------------------------------------
(* Questions: #requestMcpElicitation, #requestUserInput, resolveRequest.   *)

\* Fault: a question is filed under its number.
Fault_KeyIsNumber(q) == [q EXCEPT !.born = 1]

\* requestKey
RequestKey(q) == q

\* #enqueueRequest
Ask ==
    /\ phase = "ready" /\ askedSoFar < MaxAsks
    /\ LET q == [id |-> askedSoFar, born |-> generation]
           k == RequestKey(q) IN
         /\ waitingFor' = waitingFor \cup {q}
         /\ resolver' = [j \in DOMAIN resolver \cup {k} |-> IF j = k THEN q ELSE resolver[j]]
         /\ questions' = questions \cup {[key |-> k, of |-> q]}
    /\ askedSoFar' = askedSoFar + 1
    /\ UNCHANGED <<engine, snapshot, trustedIn, calls, timer>>

Forgotten(k) == [j \in DOMAIN resolver \ {k} |-> resolver[j]]

Resolve(e) ==
    /\ e \in questions /\ e.key \in DOMAIN resolver
    /\ waitingFor' = waitingFor \ {resolver[e.key]}
    /\ resolver' = Forgotten(e.key)
    /\ questions' = {f \in questions : f.key # e.key}
    /\ UNCHANGED <<engine, snapshot, trustedIn, calls, timer, askedSoFar>>

\* The answer is too long: resolveRequest throws when the resolver is already gone.
ResolveTooLong(e) ==
    /\ e \in questions /\ e.key \in DOMAIN resolver
    /\ resolver' = Forgotten(e.key)
    /\ UNCHANGED <<engine, snapshot, trustedIn, calls, timer, waitingFor, askedSoFar, questions>>

-----------------------------------------------------------------------------
(* The engine.                                                             *)

\* The requests of a closed connection fail before the next one is ready.
NoIntegrationRequest == \A c \in Slots : inFlight[c].waits # "answer"

IntegrationsEngineReady ==
    /\ StartSucceeds /\ NoIntegrationRequest
    /\ askedSoFar' = 0
    /\ UNCHANGED <<snapshot, trustedIn, calls, timer, waitingFor, questions, resolver>>

\* Nobody forgets what the engine that ends had asked.
IntegrationsEngineNotReady ==
    /\ BeginStart \/ StartFails \/ (phase # "down" /\ Leave)
    /\ waitingFor' = {}
    /\ UNCHANGED <<snapshot, trustedIn, calls, timer, askedSoFar, questions, resolver>>

IntNext ==
    \/ \E c \in Slots :
         \/ \E p \in Inventories : Load(c, p)
         \/ InventoryRefreshWanted(c) \/ LoadAsks(c) \/ LoadAnswered(c) \/ LoadFails(c) \/ TimerFires(c)
         \/ Write(c) \/ ChangeAnswered(c) \/ ChangeFails(c)
         \/ \E roots \in SUBSET Roots : ChangeRoots(c, roots)
    \/ ChangeAnnounced
    \/ \E p \in Inventories, trusted \in BOOLEAN : SetProjectTrust(p, trusted)
    \/ Ask \/ \E e \in questions : Resolve(e) \/ ResolveTooLong(e)
    \/ IntegrationsEngineReady \/ IntegrationsEngineNotReady

IntSpec == IntInit /\ [][IntNext]_intVars

-----------------------------------------------------------------------------

\* A question is answered by the answer given to it, whatever the engines before this one
\* asked: what the engine waits for is shown, and a question that is shown and can still
\* be answered resolves the request that put it.  After an answer that was too long a
\* question cannot be answered any more (integrationService.ts removes its resolver first).
AnswersReachTheirRequest ==
    /\ \A q \in waitingFor : \E e \in questions : e.of = q
    /\ \A e \in questions : e.key \in DOMAIN resolver => resolver[e.key] = e.of
=============================================================================
