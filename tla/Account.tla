------------------------------ MODULE Account ------------------------------
(***************************************************************************)
(* The account panel: AccountService of src/main/account/accountService.ts *)
(* on an engine that signs in, signs out and restarts.                     *)
(*                                                                         *)
(* An action is one task of the event loop.  A call waits for the start of *)
(* the engine, for an answer or for the browser; its pc says which.  A     *)
(* request fails when the engine says so and when its connection closes,   *)
(* in the task that closes it.  Rate limits and the texts of errors change *)
(* nothing else and are left out, and #readyGeneration with them: it drops *)
(* a repeated announcement of the generation that is ready.                *)
(***************************************************************************)
EXTENDS EngineLifecycle, ServiceBounds

CONSTANT Logins   \* browser and device-code logins, by the loginId the engine gives

ASSUME LoginsAssumption == None \notin Logins

VARIABLES
    accStatus,    \* snapshot.status
    account,      \* snapshot.account is not null
    shownLogin,   \* snapshot.pendingLogin
    pending,      \* #pending
    refreshing,   \* where the refresh in flight waits; "no" iff #refreshing is null
    accCall,      \* where each call waits
    born          \* the generation of the engine that opened each login, or 0

panel == <<accStatus, account, shownLogin>>
accVars == <<engine, panel, pending, refreshing, accCall, born>>

Starters == Logins \cup {"key"}
Calls == Starters \cup {"cancel", "logout"}

\* Waits for an answer of the engine; a "served" call has its answer, and runs on
\* when the handlers of the same chunk of input have returned.
Asking == {"answer", "served", "refuse", "abort", "cancel"}

AccTypeOK ==
    /\ EngineTypeOK
    /\ accStatus \in {"unavailable", "loading", "authenticated", "signedOut",
                      "loginPending", "error"}
    /\ account \in BOOLEAN
    /\ shownLogin \in Logins \cup {None} /\ pending \in Logins \cup {None}
    /\ refreshing \in {"no", "start", "account", "limits"}
    /\ accCall \in [Calls -> Asking \cup {"idle", "start", "browser", "refresh", "done"}]
    /\ born \in [Logins -> 0 .. MaxGeneration]

AccInit ==
    /\ EngineInit
    /\ accStatus = "unavailable" /\ account = FALSE /\ shownLogin = None
    /\ pending = None /\ refreshing = "no"
    /\ \E made \in SUBSET Calls :
         /\ Cardinality(made) <= MaxCalls
         /\ accCall = [c \in Calls |-> IF c \in made THEN "idle" ELSE "done"]
    /\ born = [l \in Logins |-> 0]

-----------------------------------------------------------------------------
(* Building blocks.                                                        *)

Move(c, pc) == accCall' = [accCall EXCEPT ![c] = pc]

\* runtime.start() begins a start unless the engine is ready or one is in flight.
CallStart == IF phase = "ready" \/ ~settled THEN UNCHANGED engine ELSE BeginStart

SignedIn(a) == IF a THEN "authenticated" ELSE "signedOut"

\* #performRefresh with login p pending, up to its first await.
BeginRefresh(p) ==
    /\ refreshing' = "start"
    /\ accStatus' = IF p # None THEN "loginPending" ELSE "loading"

\* refresh() joins the refresh in flight.
RefreshAccount(status) ==
    IF refreshing # "no" THEN accStatus' = status /\ UNCHANGED <<refreshing, engine>>
    ELSE BeginRefresh(pending') /\ CallStart

-----------------------------------------------------------------------------
(* The refresh in flight, and the calls that end with it.                  *)

RefreshEnds ==
    /\ refreshing' = "no"
    /\ accCall' = [c \in Calls |-> IF accCall[c] = "refresh" THEN "done" ELSE accCall[c]]
    /\ UNCHANGED <<engine, pending, born>>

Show(a) ==
    /\ accStatus' = IF pending # None THEN "loginPending" ELSE SignedIn(a)
    /\ account' = a /\ shownLogin' = pending

RefreshAsks ==
    /\ refreshing = "start" /\ phase = "ready"
    /\ refreshing' = "account"
    /\ UNCHANGED <<engine, panel, pending, accCall, born>>

\* The start failed, or the request did.
RefreshFails ==
    /\ refreshing = "account" \/ (refreshing = "start" /\ settled /\ phase # "ready")
    /\ RefreshEnds
    /\ accStatus' = "error" /\ UNCHANGED <<account, shownLogin>>

AccountRead(a) ==
    /\ refreshing = "account" /\ phase = "ready"
    /\ RefreshEnds /\ Show(a)

\* A ChatGPT account has its rate limits read as well.
ChatgptRead ==
    /\ refreshing = "account" /\ phase = "ready"
    /\ refreshing' = "limits"
    /\ UNCHANGED <<engine, panel, pending, accCall, born>>

\* Their answer, or a failure that keeps those shown before.
LimitsRead ==
    /\ refreshing = "limits"
    /\ RefreshEnds /\ Show(TRUE)

\* The window asks for a refresh, or the engine says account/updated.
AccountRefreshWanted ==
    /\ refreshing = "no" /\ settled
    /\ BeginRefresh(pending) /\ CallStart
    /\ UNCHANGED <<account, shownLogin, pending, accCall, born>>

-----------------------------------------------------------------------------
(* Logins: #startManagedLogin for a login, loginWithApiKey for "key".      *)

LoginBegins(c) ==
    /\ c \in Starters /\ accCall[c] = "idle"
    /\ c \in Logins => pending = None
    /\ Move(c, "start") /\ CallStart
    /\ UNCHANGED <<panel, pending, refreshing, born>>

\* start() has settled; the request throws when there is no ready engine.
LoginAsks(c) ==
    /\ c \in Starters /\ accCall[c] = "start" /\ settled
    /\ IF phase = "ready" THEN Move(c, "answer") /\ accStatus' = "loading"
       ELSE Move(c, "done") /\ accStatus' = "error"
    /\ UNCHANGED <<engine, account, shownLogin, pending, refreshing, born>>

EngineOpensLogin(c) ==
    /\ c \in Starters /\ accCall[c] = "answer" /\ phase = "ready"
    /\ Move(c, "served")
    /\ born' = [l \in Logins |-> IF l = c THEN generation ELSE born[l]]
    /\ UNCHANGED <<engine, panel, pending, refreshing>>

LoginFails(c) ==
    /\ c \in Starters /\ accCall[c] \in {"answer", "refuse"}
    /\ Move(c, "done") /\ accStatus' = "error"
    /\ UNCHANGED <<engine, account, shownLogin, pending, refreshing, born>>

KeyAccepted ==
    /\ accCall["key"] = "served"
    /\ Move("key", "refresh")
    /\ pending' = pending /\ RefreshAccount(accStatus)
    /\ UNCHANGED <<account, shownLogin, born>>

\* The answer names the login and its address, which the browser is to open.
LoginOffered(l) ==
    /\ l \in Logins /\ accCall[l] = "served"
    /\ pending' = l /\ shownLogin' = l /\ accStatus' = "loginPending"
    /\ Move(l, "browser")
    /\ UNCHANGED <<engine, account, refreshing, born>>

\* Its address is malformed or not OpenAI's: the engine is told to cancel it.
LoginMalformed(l) ==
    /\ l \in Logins /\ accCall[l] = "served"
    /\ Move(l, "refuse")
    /\ UNCHANGED <<engine, panel, pending, refreshing, born>>

\* openExternal succeeds, or fails and the engine is told to cancel.
BrowserOpens(l) ==
    /\ l \in Logins /\ accCall[l] = "browser"
    /\ Move(l, "done") \/ Move(l, "abort")
    /\ UNCHANGED <<engine, panel, pending, refreshing, born>>

\* Answered or not, the login that is pending now is forgotten.
LoginAborted(l) ==
    /\ l \in Logins /\ accCall[l] = "abort"
    /\ Move(l, "done")
    /\ pending' = None /\ shownLogin' = None /\ accStatus' = "error"
    /\ UNCHANGED <<engine, account, refreshing, born>>

-----------------------------------------------------------------------------
(* Cancel and logout.                                                      *)

Cancel(c) ==
    /\ accCall[c] = "idle" /\ pending # None
    /\ Move(c, "cancel")
    /\ UNCHANGED <<engine, panel, pending, refreshing, born>>

ForgetPending ==
    /\ pending' = None /\ shownLogin' = None /\ accStatus' = SignedIn(account)

\* The finally of cancelPendingLogin.
CancelEnds ==
    /\ accCall["cancel"] = "cancel"
    /\ Move("cancel", "idle") /\ ForgetPending
    /\ UNCHANGED <<engine, account, refreshing, born>>

\* logout() cancels a pending login first; when that fails the call ends.
LogoutBegins ==
    /\ accCall["logout"] = "idle" /\ pending = None
    /\ Move("logout", "start") /\ CallStart
    /\ UNCHANGED <<panel, pending, refreshing, born>>

LogoutCancelled ==
    /\ accCall["logout"] = "cancel"
    /\ \/ Move("logout", "start") /\ CallStart
       \/ Move("logout", "done") /\ UNCHANGED engine
    /\ ForgetPending
    /\ UNCHANGED <<account, refreshing, born>>

LogoutAsks ==
    /\ accCall["logout"] = "start" /\ settled
    /\ IF phase = "ready" THEN Move("logout", "answer") ELSE Move("logout", "done")
    /\ UNCHANGED <<engine, panel, pending, refreshing, born>>

LogoutAnswered ==
    /\ accCall["logout"] = "answer"
    /\ \/ /\ phase = "ready" /\ Move("logout", "refresh")
          /\ pending' = pending /\ RefreshAccount(accStatus)
       \/ Move("logout", "done") /\ UNCHANGED <<engine, accStatus, pending, refreshing>>
    /\ UNCHANGED <<account, shownLogin, born>>

-----------------------------------------------------------------------------
(* The engine: notifications and phases.                                   *)

\* account/login/completed; one that is not the pending login's is ignored.
LoginCompleted(l, success) ==
    /\ phase = "ready" /\ born[l] = generation
    /\ pending \in {None, l}
    /\ pending' = None /\ shownLogin' = None
    /\ IF success THEN RefreshAccount("loading")
       ELSE /\ accStatus' = IF account THEN "authenticated" ELSE "error"
            /\ UNCHANGED <<engine, refreshing>>
    /\ UNCHANGED <<account, accCall, born>>

\* Continuations of answers run before the next task of the event loop.
NoneServed == \A c \in Calls : accCall[c] # "served"

\* Requests of a closed connection have failed before the next one is ready.
NoAccountRequest ==
    refreshing \notin {"account", "limits"} /\ \A c \in Calls : accCall[c] \notin Asking

\* Fault: the login of the engine before the restart stays pending.
Fault_LoginSurvives ==
    /\ StartSucceeds /\ NoAccountRequest
    /\ IF refreshing # "no" THEN UNCHANGED <<accStatus, refreshing>> ELSE BeginRefresh(pending)
    /\ UNCHANGED <<account, shownLogin, pending, accCall, born>>

\* #handleRuntime of a ready engine; a generation is announced ready once.
AccountEngineReady ==
    /\ StartSucceeds /\ NoAccountRequest
    /\ pending' = None
    /\ shownLogin' = IF pending # None THEN None ELSE shownLogin
    /\ IF refreshing # "no" THEN UNCHANGED <<accStatus, refreshing>> ELSE BeginRefresh(None)
    /\ UNCHANGED <<account, accCall, born>>

\* #handleRuntime of a phase that is not ready.
AccountEngineNotReady ==
    /\ NoneServed
    /\ BeginStart \/ StartFails \/ (phase # "down" /\ Leave)
    /\ IF phase' = "down" THEN accStatus' = "unavailable" /\ shownLogin' = None /\ pending' = None
       ELSE UNCHANGED <<accStatus, shownLogin, pending>>
    /\ UNCHANGED <<account, refreshing, accCall, born>>

AccNext ==
    \/ RefreshAsks \/ RefreshFails \/ ChatgptRead \/ LimitsRead \/ AccountRefreshWanted
    \/ \E a \in BOOLEAN : AccountRead(a)
    \/ \E c \in Starters : LoginBegins(c) \/ LoginAsks(c) \/ EngineOpensLogin(c) \/ LoginFails(c)
    \/ KeyAccepted
    \/ \E l \in Logins :
         LoginOffered(l) \/ LoginMalformed(l) \/ BrowserOpens(l) \/ LoginAborted(l)
    \/ Cancel("cancel") \/ CancelEnds
    \/ Cancel("logout") \/ LogoutBegins \/ LogoutCancelled \/ LogoutAsks \/ LogoutAnswered
    \/ \E l \in Logins, success \in BOOLEAN : LoginCompleted(l, success)
    \/ AccountEngineReady \/ AccountEngineNotReady

AccSpec == AccInit /\ [][AccNext]_accVars

-----------------------------------------------------------------------------
(* Properties.                                                             *)

\* A restart of the engine ends a login: one that is pending on a ready engine was
\* opened by this engine, whatever was asked and answered around the restart.
LoginIsOfThisEngine ==
    phase = "ready" /\ pending # None => born[pending] = generation
=============================================================================
