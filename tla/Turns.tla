-------------------------------- MODULE Turns --------------------------------
(***************************************************************************)
(* Turns and approvals: AgentService of src/main/agent/agentService.ts     *)
(* with the count of running turns it keeps in the supervisor.             *)
(*                                                                         *)
(* An action is one task of the event loop or one step of the engine.  The *)
(* notifications of a turn arrive in order but at any time; requests of a  *)
(* connection that closes fail in the task that closes it.  The text of a  *)
(* turn is modelled in Activity, the list of conversations in              *)
(* Conversations.                                                          *)
(***************************************************************************)
EXTENDS EngineLifecycle, ServiceBounds

CONSTANTS
    Threads,    \* conversations shown in the list
    TurnIds     \* bound: turns in one behaviour

ASSUME TurnsAssumption == IsFiniteSet(TurnIds) /\ None \notin Threads

VARIABLES
    thread,     \* the conversation of each turn that was asked for
    call,       \* where the call that started each turn waits
    run,        \* the turn in the engine
    heard,      \* the last notification of each turn that was handled
    activeTurns,\* #activeTurns
    turnCount,  \* #activeTurnCount of the supervisor
    handingOff, \* #handoffThreads
    waiting,    \* approvals the present engine waits for
    asked,      \* how many approvals the present engine has asked for
    shown,      \* snapshot.approvals
    resolvers   \* #approvalResolvers: the request that an id resolves, or None

turnState == <<thread, call, run, heard, activeTurns, turnCount>>
approvals == <<waiting, asked, shown, resolvers>>
turnVars == <<engine, turnState, handingOff, approvals>>

\* The engine numbers its requests from the first one of each generation; the number
\* is all that #approvalResolvers keeps of it.
RequestIds == 0 .. MaxAsks - 1
Approvals == [id : RequestIds, turn : TurnIds, born : 1 .. MaxGeneration]

TurnTypeOK ==
    /\ EngineTypeOK
    /\ thread \in [TurnIds -> Threads \cup {None}]
    /\ call \in [TurnIds -> {"idle", "start", "asked", "resume", "ok", "failed", "none"}]
    /\ run \in [TurnIds -> {"none", "running", "over", "lost"}]
    /\ heard \in [TurnIds -> {"none", "started", "completed"}]
    /\ activeTurns \subseteq TurnIds /\ turnCount \in 0 .. Cardinality(TurnIds)
    /\ handingOff \subseteq Threads
    /\ waiting \subseteq Approvals /\ shown \subseteq Approvals /\ asked \in 0 .. MaxAsks
    /\ resolvers \in [RequestIds -> Approvals \cup {None}]

TurnInit ==
    /\ EngineInit
    /\ thread = [u \in TurnIds |-> None] /\ call = [u \in TurnIds |-> "idle"]
    /\ run = [u \in TurnIds |-> "none"] /\ heard = [u \in TurnIds |-> "none"]
    /\ activeTurns = {} /\ turnCount = 0 /\ handingOff = {}
    /\ waiting = {} /\ asked = 0 /\ shown = {}
    /\ resolvers = [i \in RequestIds |-> None]

-----------------------------------------------------------------------------
(* Building blocks.                                                        *)

MoveCall(u, pc) == call' = [call EXCEPT ![u] = pc]

Less(n) == IF n > 0 THEN n - 1 ELSE 0

\* #requireIdleVisibleThread: no turn is known to run and no approval is shown.
Idle(t) ==
    /\ \A u \in TurnIds : thread[u] = t => heard[u] # "started"
    /\ \A a \in shown : thread[a.turn] # t

\* #startTurn counts the turn and asks for it; without an engine the request throws.
AskTurn(u) ==
    IF phase = "ready" THEN MoveCall(u, "asked") /\ turnCount' = turnCount + 1
    ELSE MoveCall(u, "failed") /\ UNCHANGED turnCount

-----------------------------------------------------------------------------
(* Starting turns.                                                         *)

\* startTurn(), and startScheduledConversation(), which looks at neither the turn nor
\* the hand-off of its conversation.
StartTurn(u, t, scheduled) ==
    /\ call[u] = "idle"
    /\ scheduled \/ (Idle(t) /\ t \notin handingOff)
    /\ thread' = [thread EXCEPT ![u] = t] /\ MoveCall(u, "start")
    /\ IF phase = "ready" \/ ~settled THEN UNCHANGED engine ELSE BeginStart
    /\ UNCHANGED <<run, heard, activeTurns, turnCount, handingOff, approvals>>

\* runtime.start() has settled.
TurnAsked(u) ==
    /\ call[u] = "start" /\ settled
    /\ AskTurn(u)
    /\ UNCHANGED <<engine, thread, run, heard, activeTurns, handingOff, approvals>>

\* The engine begins the turn; it may do so after the request has timed out.
EngineRuns(u) ==
    /\ phase = "ready" /\ run[u] = "none" /\ call[u] \in {"asked", "none"}
    /\ run' = [run EXCEPT ![u] = "running"]
    /\ UNCHANGED <<engine, thread, call, heard, activeTurns, turnCount, handingOff, approvals>>

TurnAnswered(u) ==
    /\ call[u] = "asked" /\ run[u] # "none"
    /\ MoveCall(u, "ok")
    /\ UNCHANGED <<engine, thread, run, heard, activeTurns, turnCount, handingOff, approvals>>

\* Fault: only an error that is not about a missing conversation is counted back.
Fault_RetryKeepsCount(u, pc) ==
    /\ MoveCall(u, pc)
    /\ turnCount' = IF pc = "resume" THEN turnCount ELSE Less(turnCount)

\* The catch of #startTurn.
CountBack(u, pc) == MoveCall(u, pc) /\ turnCount' = Less(turnCount)

\* The engine refuses.  A conversation it does not know is resumed first, once.
TurnRefused(u) ==
    /\ call[u] = "asked" /\ run[u] = "none"
    /\ CountBack(u, "failed") \/ CountBack(u, "resume")
    /\ UNCHANGED <<engine, thread, run, heard, activeTurns, handingOff, approvals>>

\* The request times out: no answer of it counts, but the engine may still run it.
TurnTimedOut(u) ==
    /\ call[u] = "asked"
    /\ CountBack(u, "none")
    /\ UNCHANGED <<engine, thread, run, heard, activeTurns, handingOff, approvals>>

\* #resumeThreadForTurn succeeds and the turn is asked for again, or it fails.
Resumed(u) ==
    /\ call[u] = "resume"
    /\ AskTurn(u) \/ (MoveCall(u, "failed") /\ UNCHANGED turnCount)
    /\ UNCHANGED <<engine, thread, run, heard, activeTurns, handingOff, approvals>>

\* compactThread: the engine runs a turn that nobody counted.
Compact(u, t) ==
    /\ call[u] = "idle" /\ phase = "ready" /\ Idle(t)
    /\ thread' = [thread EXCEPT ![u] = t] /\ MoveCall(u, "none")
    /\ UNCHANGED <<engine, run, heard, activeTurns, turnCount, handingOff, approvals>>

-----------------------------------------------------------------------------
(* What the engine says of a turn: #handleNotification.                    *)

TurnStarted(u) ==
    /\ run[u] \in {"running", "over"} /\ heard[u] = "none"
    /\ heard' = [heard EXCEPT ![u] = "started"]
    /\ activeTurns' = activeTurns \cup {u}
    /\ UNCHANGED <<engine, thread, call, run, turnCount, handingOff, approvals>>

\* The turn ends by itself or after turn/interrupt; what it asked for is moot.
EngineEndsTurn(u) ==
    /\ run[u] = "running"
    /\ run' = [run EXCEPT ![u] = "over"]
    /\ waiting' = {a \in waiting : a.turn # u}
    /\ UNCHANGED <<engine, thread, call, heard, activeTurns, turnCount, handingOff,
                   asked, shown, resolvers>>

TurnCompleted(u) ==
    /\ run[u] = "over" /\ heard[u] = "started"
    /\ heard' = [heard EXCEPT ![u] = "completed"]
    /\ activeTurns' = activeTurns \ {u}
    /\ turnCount' = IF u \in activeTurns THEN Less(turnCount) ELSE turnCount
    /\ UNCHANGED <<engine, thread, call, run, handingOff, approvals>>

-----------------------------------------------------------------------------
(* Approvals: #requestApproval, #requestPermissionsApproval, resolveApproval. *)

\* Fault: an id that is in use is refused.
Fault_KeepResolver(a) ==
    IF resolvers[a.id] # None THEN UNCHANGED <<shown, resolvers>>
    ELSE shown' = shown \cup {a} /\ resolvers' = [resolvers EXCEPT ![a.id] = a]

\* The later request with an id takes the resolver; an earlier one stays shown.
Enqueue(a) ==
    shown' = shown \cup {a} /\ resolvers' = [resolvers EXCEPT ![a.id] = a]

RequestApproval(u) ==
    /\ phase = "ready" /\ run[u] = "running" /\ asked < MaxAsks
    /\ LET a == [id |-> asked, turn |-> u, born |-> generation] IN
         /\ waiting' = waiting \cup {a}
         /\ Enqueue(a)
    /\ asked' = asked + 1
    /\ UNCHANGED <<engine, turnState, handingOff>>

\* The answer to what is shown as a goes to the resolver of its id.
ResolveApproval(a) ==
    /\ a \in shown /\ resolvers[a.id] # None
    /\ waiting' = waiting \ {resolvers[a.id]}
    /\ shown' = {b \in shown : b.id # a.id}
    /\ resolvers' = [resolvers EXCEPT ![a.id] = None]
    /\ UNCHANGED <<engine, turnState, handingOff, asked>>

-----------------------------------------------------------------------------
(* Hand-offs, and the engine.                                              *)

HandoffBegins(t) ==
    /\ t \notin handingOff /\ Idle(t)
    /\ handingOff' = handingOff \cup {t}
    /\ UNCHANGED <<engine, turnState, approvals>>

HandoffEnds(t) ==
    /\ t \in handingOff
    /\ handingOff' = handingOff \ {t}
    /\ UNCHANGED <<engine, turnState, approvals>>

\* A new engine numbers its requests anew.
TurnsEngineReady ==
    /\ StartSucceeds
    /\ asked' = 0
    /\ UNCHANGED <<turnState, handingOff, waiting, shown, resolvers>>

\* The end of a connection fails its requests and loses its turns.  Nobody clears the
\* active turns, the approvals or their resolvers.
TurnsEngineNotReady ==
    /\ BeginStart \/ StartFails \/ (phase # "down" /\ Leave)
    /\ LET failing == {u \in TurnIds : call[u] \in {"asked", "resume"}} IN
         /\ call' = [u \in TurnIds |-> IF u \in failing THEN "failed" ELSE call[u]]
         /\ LET back == Cardinality({u \in failing : call[u] = "asked"})
            IN turnCount' = IF turnCount > back THEN turnCount - back ELSE 0
    /\ run' = [u \in TurnIds |->
                 IF run[u] \in {"running", "over"} /\ heard[u] # "completed" THEN "lost"
                 ELSE IF run[u] = "none" /\ call[u] = "none" THEN "lost" ELSE run[u]]
    /\ waiting' = {}
    /\ UNCHANGED <<thread, heard, activeTurns, handingOff, asked, shown, resolvers>>

TurnNext ==
    \/ \E u \in TurnIds :
         \/ \E t \in Threads : Compact(u, t) \/ \E s \in BOOLEAN : StartTurn(u, t, s)
         \/ TurnAsked(u) \/ EngineRuns(u) \/ TurnAnswered(u) \/ TurnRefused(u)
         \/ TurnTimedOut(u) \/ Resumed(u)
         \/ TurnStarted(u) \/ EngineEndsTurn(u) \/ TurnCompleted(u) \/ RequestApproval(u)
    \/ \E a \in shown : ResolveApproval(a)
    \/ \E t \in Threads : HandoffBegins(t) \/ HandoffEnds(t)
    \/ TurnsEngineReady \/ TurnsEngineNotReady

TurnSpec == TurnInit /\ [][TurnNext]_turnVars

-----------------------------------------------------------------------------
(* Properties.                                                             *)

\* Whatever the engines before it left behind, each request that the present engine
\* waits for is shown and answering it resolves this very request.  Only a card that an
\* earlier engine left, with the same number, is taken for it as well.
EngineCanBeAnswered ==
    \A a \in waiting :
        /\ a \in shown /\ resolvers[a.id] = a
        /\ \A b \in shown \ {a} : b.id = a.id => b.born < a.born

\* docs/PROTOCOL.md: approvals are routed by the id of the request and by its thread, turn
\* and item.  What the user answers on a card reaches the request of this card or none.
ApprovalsAreRouted ==
    \A a \in shown : resolvers[a.id] \in {a, None}

\* The supervisor puts off a restart for the sake of turns.  Each turn it counts is one
\* that is being asked for, or one an engine took on and did not complete, that which died
\* with its engine included: the count keeps it.
NoPhantomTurn ==
    turnCount <= Cardinality({u \in TurnIds :
        \/ call[u] = "asked"
        \/ call[u] = "ok" /\ heard[u] # "completed"})
=============================================================================
