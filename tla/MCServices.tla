----------------------------- MODULE MCServices -----------------------------
(* The services of the main process for TLC, on one set of bounds.  They share   *)
(* the process and the event loop but no state with one another, except for the  *)
(* phases of the agent engine, so a behaviour picks one service and runs it; the *)
(* others keep the state they begin with.                                        *)
EXTENDS Account, Turns, Terminals, Conversations, Integrations, Scans, Activity,
        Permissions, Discards, Worktrees, Window, PullRequests, Updates, FilePreviews,
        BrowserPreview, LocalData, Logs, SecurityRuntime, UsageEstimate, TerminalCanvas,
        Goals, MCWallClock
LOCAL INSTANCE TLC

VARIABLE picked   \* the service that runs

accOwn  == <<panel, pending, refreshing, accCall, born>>
termOwn == <<session, exec, closing, told, processCount>>
turnOwn == <<turnState, handingOff, approvals>>
intOwn  == <<snapshot, trustedIn, calls, timer, dialogue>>

servicesVars == <<picked, engine, accOwn, termOwn, turnOwn, intOwn, convVars, scanVars,
                  activityVars, discardVars, windowVars, prVars, upVars, filesVars,
                  browserVars, permissionVars, treeVars, logVars, dataVars, runtimeVars,
                  usageVars, canvasVars, goalVars, vars>>

Services == {"account", "terminals", "turns", "integrations", "conversations", "scans",
             "activity", "discards", "window", "pullRequests", "updates", "filePreviews",
             "browserPreview", "permissions", "worktrees", "logs", "localData", "securityRuntime",
             "usageEstimate", "terminalCanvas", "goals", "wallClock"}

\* The service that runs stays in its types.
ServicesTypeOK ==
    /\ EngineTypeOK
    /\ CASE picked = "account"        -> AccTypeOK
         [] picked = "terminals"      -> TermTypeOK
         [] picked = "turns"          -> TurnTypeOK
         [] picked = "integrations"   -> IntTypeOK
         [] picked = "conversations"  -> ConvTypeOK
         [] picked = "scans"          -> ScanTypeOK
         [] picked = "activity"       -> ActivityTypeOK
         [] picked = "discards"       -> DiscardTypeOK
         [] picked = "window"         -> WindowTypeOK
         [] picked = "pullRequests"   -> PRTypeOK
         [] picked = "updates"        -> UpTypeOK
         [] picked = "filePreviews"   -> FilesTypeOK
         [] picked = "browserPreview" -> BrowserTypeOK
         [] picked = "permissions"    -> PermissionTypeOK
         [] picked = "worktrees"      -> TreeTypeOK
         [] picked = "logs"           -> LogTypeOK
         [] picked = "localData"      -> DataTypeOK
         [] picked = "securityRuntime" -> RuntimeTypeOK
         [] picked = "usageEstimate" -> UsageTypeOK
         [] picked = "terminalCanvas" -> CanvasTypeOK
         [] picked = "goals"          -> GoalTypeOK
         [] picked = "wallClock"      -> TypeOK

\* The official price lists of DeepSeek.
MCTariff ==
    [m \in Models |->
       IF m = "deepseek-v4-flash"
         THEN [current  |-> [hit |-> 2800, miss |-> 140000, output |-> 280000],
               peak     |-> [hit |-> 14000, miss |-> 440000, output |-> 1320000],
               off_peak |-> [hit |-> 7000, miss |-> 220000, output |-> 660000]]
       ELSE [current  |-> [hit |-> 3625, miss |-> 435000, output |-> 870000],
             peak     |-> [hit |-> 44000, miss |-> 1320000, output |-> 3960000],
             off_peak |-> [hit |-> 22000, miss |-> 660000, output |-> 1980000]]]

-----------------------------------------------------------------------------
(* A service that is not picked begins in one state, the others in each of theirs. *)

Some(S) == CHOOSE x \in S : TRUE

ServicesInit ==
    /\ picked \in Services
    /\ IF picked = "account" THEN TRUE ELSE accCall = [c \in Calls |-> "done"]
    /\ IF picked = "conversations" THEN TRUE
       ELSE /\ kept = [u \in Convs |-> IF u = Some(Convs) THEN "active" ELSE "absent"]
            /\ pinned = {} /\ view = EmptyView
    /\ IF picked = "scans" THEN TRUE ELSE request = [s \in Scans |-> Some(ScanRequests)]
    /\ IF picked = "activity" THEN TRUE ELSE kind = [i \in Items |-> "message"]
    /\ IF picked = "pullRequests" THEN TRUE ELSE head = Some(Branches)
    /\ IF picked = "updates" THEN TRUE ELSE updatePhase = "idle"
    /\ IF picked = "permissions" THEN TRUE ELSE profile = Some(Profiles)
    /\ IF picked = "localData" THEN TRUE
       ELSE userDir = "none" /\ current = "none" /\ version = 0
    /\ IF picked = "usageEstimate" THEN TRUE ELSE model = Some(Models) /\ hour = Some(ObservedAt)
    /\ IF picked = "wallClock" THEN TRUE
       ELSE zone = Some(Zones) /\ rule = Some(Rules) /\ now = Start
    /\ AccInit /\ TermInit /\ TurnInit /\ IntInit /\ ConvInit /\ ScanInit /\ ActivityInit
    /\ DiscardInit /\ WindowInit /\ PRInit /\ UpInit /\ FilesInit /\ BrowserInit
    /\ PermissionInit /\ TreeInit /\ LogInit /\ DataInit
    /\ RuntimeInit /\ UsageInit /\ CanvasInit /\ GoalInit /\ Init

\* Service s takes the step, and no other.
Keep(s, own) == IF picked = s THEN TRUE ELSE UNCHANGED own

OnlyPicked ==
    /\ UNCHANGED picked
    /\ IF picked \in {"account", "terminals", "turns", "integrations"} THEN TRUE
       ELSE UNCHANGED engine
    /\ Keep("account", accOwn) /\ Keep("terminals", termOwn) /\ Keep("turns", turnOwn)
    /\ Keep("integrations", intOwn) /\ Keep("conversations", convVars)
    /\ Keep("scans", scanVars) /\ Keep("activity", activityVars)
    /\ Keep("discards", discardVars) /\ Keep("window", windowVars)
    /\ Keep("pullRequests", prVars) /\ Keep("updates", upVars)
    /\ Keep("filePreviews", filesVars) /\ Keep("browserPreview", browserVars)
    /\ Keep("permissions", permissionVars) /\ Keep("worktrees", treeVars)
    /\ Keep("logs", logVars) /\ Keep("localData", dataVars)
    /\ Keep("securityRuntime", runtimeVars) /\ Keep("usageEstimate", usageVars)
    /\ Keep("terminalCanvas", canvasVars) /\ Keep("goals", goalVars) /\ Keep("wallClock", vars)

ServicesNext ==
    \/ picked = "account" /\ OnlyPicked /\ AccNext
    \/ picked = "terminals" /\ OnlyPicked /\ TermNext
    \/ picked = "turns" /\ OnlyPicked /\ TurnNext
    \/ picked = "integrations" /\ OnlyPicked /\ IntNext
    \/ picked = "conversations" /\ OnlyPicked /\ ConvNext
    \/ picked = "scans" /\ OnlyPicked /\ ScanNext
    \/ picked = "activity" /\ OnlyPicked /\ ActivityNext
    \/ picked = "discards" /\ OnlyPicked /\ DiscardNext
    \/ picked = "window" /\ OnlyPicked /\ WindowNext
    \/ picked = "pullRequests" /\ OnlyPicked /\ PRNext
    \/ picked = "updates" /\ OnlyPicked /\ UpNext
    \/ picked = "filePreviews" /\ OnlyPicked /\ FilesNext
    \/ picked = "browserPreview" /\ OnlyPicked /\ BrowserNext
    \/ picked = "permissions" /\ OnlyPicked /\ PermissionNext
    \/ picked = "worktrees" /\ OnlyPicked /\ TreeNext
    \/ picked = "logs" /\ OnlyPicked /\ LogNext
    \/ picked = "localData" /\ OnlyPicked /\ DataNext
    \/ picked = "securityRuntime" /\ OnlyPicked /\ RuntimeNext
    \/ picked = "usageEstimate" /\ OnlyPicked /\ UsageNext
    \/ picked = "terminalCanvas" /\ OnlyPicked /\ CanvasNext
    \/ picked = "goals" /\ OnlyPicked /\ GoalNext
    \/ picked = "wallClock" /\ OnlyPicked /\ Next

\* What can differ between two states in which the same service is picked.  TLC compares
\* states by it.
PickedState ==
    <<picked,
      CASE picked = "account"        -> <<engine, accOwn>>
        [] picked = "terminals"      -> <<engine, termOwn>>
        [] picked = "turns"          -> <<engine, turnOwn>>
        [] picked = "integrations"   -> <<engine, intOwn>>
        [] picked = "conversations"  -> convVars
        [] picked = "scans"          -> scanVars
        [] picked = "activity"       -> activityVars
        [] picked = "discards"       -> discardVars
        [] picked = "window"         -> windowVars
        [] picked = "pullRequests"   -> prVars
        [] picked = "updates"        -> upVars
        [] picked = "filePreviews"   -> filesVars
        [] picked = "browserPreview" -> browserVars
        [] picked = "permissions"    -> permissionVars
        [] picked = "worktrees"      -> treeVars
        [] picked = "logs"           -> logVars
        [] picked = "localData"      -> dataVars
        [] picked = "securityRuntime" -> runtimeVars
        [] picked = "usageEstimate" -> usageVars
        [] picked = "terminalCanvas" -> canvasVars
        [] picked = "goals"          -> goalVars
        [] picked = "wallClock"      -> vars>>

\* The two calls, scans, logins, ... of a service are alike, and no definition chooses
\* one of them; a behaviour stays one when the names of all pairs are exchanged.
Exchanged(pair) == CHOOSE f \in Permutations(pair) : \A x \in pair : f[x] # x

AllExchanged ==
    Exchanged(Slots) @@ Exchanged(Scans) @@ Exchanged(Logins) @@ Exchanged(TurnIds)
      @@ Exchanged(Trees) @@ Exchanged(Instances) @@ Exchanged(Shells) @@ Exchanged(Urls)
      @@ Exchanged(GoalCalls)

Renamings == {AllExchanged, [x \in DOMAIN AllExchanged |-> x]}

SameNames == Renamings

ServicesSpec == ServicesInit /\ [][ServicesNext]_servicesVars
=============================================================================
