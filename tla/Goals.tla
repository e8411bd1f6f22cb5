-------------------------------- MODULE Goals --------------------------------
(***************************************************************************)
(* The long-term goal of a conversation, as AgentService of                *)
(* src/main/agent/agentService.ts shows it: setThreadGoal, clearThreadGoal,*)
(* #loadThreadGoal and the notifications thread/goal/updated and cleared.  *)
(*                                                                         *)
(* Conversations share nothing here, so there is one.  A goal is the       *)
(* number of its change, whether it became an objective or null.  The      *)
(* peer handles the lines of a chunk in one task: notifications change the *)
(* snapshot at once, while an answer only settles its promise, and the     *)
(* calls go on in the microtasks after the chunk, in the order of their    *)
(* answers (#handleResponse of src/main/runtime/jsonlRpc.ts).  What the    *)
(* engine says of a goal is well formed.                                   *)
(***************************************************************************)
EXTENDS ServiceBounds, Sequences

CONSTANTS
    GoalCalls,       \* bound: calls made in one behaviour
    MaxGoalChanges   \* bound: how often the goal changes

ASSUME GoalsAssumption ==
    /\ None \notin Nat /\ MaxGoalChanges \in Nat
    /\ IsFiniteSet(GoalCalls) /\ "everyone" \notin GoalCalls

VARIABLES
    goalShown,     \* goals[threadId] of the snapshot, None before it is known
    goalCall,      \* what each call asks for, "handled" when the engine has seen to it
    goalPending,   \* the calls that wait for their answer
    goalHeld,      \* the goal the engine holds
    goalWire,      \* what the engine has written and the application not read
    goalOvertaken, \* the answer shown stood before a notification of its chunk
    goalMissed     \* a notification was lost with an engine

goalVars == <<goalShown, goalCall, goalPending, goalHeld, goalWire, goalOvertaken, goalMissed>>

GoalAsks == {"set", "clear", "get"}
GoalNumbers == 0 .. MaxGoalChanges

\* Lines of the engine: a notification, and the answer to a call, None if it refuses.
GoalNotice(g) == [to |-> "everyone", goal |-> g]
GoalAnswer(c, g) == [to |-> c, goal |-> g]

GoalTypeOK ==
    /\ goalShown \in GoalNumbers \cup {None}
    /\ goalCall \in [GoalCalls -> GoalAsks \cup {"new", "handled"}]
    /\ goalPending \subseteq GoalCalls
    /\ goalHeld \in GoalNumbers
    /\ \A n \in DOMAIN goalWire :
         /\ goalWire[n].to \in GoalCalls \cup {"everyone"}
         /\ goalWire[n].goal \in GoalNumbers \cup {None}
    /\ {goalOvertaken, goalMissed} \subseteq BOOLEAN

GoalInit ==
    /\ goalShown = None /\ goalCall = [c \in GoalCalls |-> "new"] /\ goalPending = {}
    /\ goalHeld = 0 /\ goalWire = <<>> /\ goalOvertaken = FALSE /\ goalMissed = FALSE

-----------------------------------------------------------------------------
(* The calls.                                                              *)

AskGoal(c, what) ==
    /\ goalCall[c] = "new"
    /\ goalCall' = [goalCall EXCEPT ![c] = what] /\ goalPending' = goalPending \cup {c}
    /\ UNCHANGED <<goalShown, goalHeld, goalWire, goalOvertaken, goalMissed>>

SetThreadGoal(c) == AskGoal(c, "set")
ClearThreadGoal(c) == AskGoal(c, "clear")

\* Whenever a conversation is created, resumed, forked or shown.
LoadThreadGoal(c) == AskGoal(c, "get")

\* The request times out: its answer will find nobody.
GoalCallTimesOut(c) ==
    /\ c \in goalPending
    /\ goalPending' = goalPending \ {c}
    /\ UNCHANGED <<goalShown, goalCall, goalHeld, goalWire, goalOvertaken, goalMissed>>

-----------------------------------------------------------------------------
(* What is read from the engine.                                           *)

Notices(chunk) == {n \in DOMAIN chunk : chunk[n].to = "everyone"}
Answers(chunk) == {n \in DOMAIN chunk : chunk[n].to \in goalPending /\ chunk[n].goal # None}

Latest(places) == CHOOSE n \in places : \A m \in places : m <= n

\* Fault: what the engine announces is left to the calls that wait.
Fault_LeftToTheCalls(chunk) ==
    IF Answers(chunk) # {} THEN chunk[Latest(Answers(chunk))].goal
    ELSE IF Notices(chunk) # {} /\ goalPending = {} THEN chunk[Latest(Notices(chunk))].goal
    ELSE goalShown

\* The notifications of a chunk first, then the answers.
ShownAfter(chunk) ==
    IF Answers(chunk) # {} THEN chunk[Latest(Answers(chunk))].goal
    ELSE IF Notices(chunk) # {} THEN chunk[Latest(Notices(chunk))].goal
    ELSE goalShown

\* The first n lines arrive as one chunk.
ReadGoals(n) ==
    LET chunk == SubSeq(goalWire, 1, n) IN
    /\ goalShown' = ShownAfter(chunk)
    /\ goalPending' = goalPending \ {chunk[m].to : m \in 1 .. n}
    /\ goalWire' = SubSeq(goalWire, n + 1, Len(goalWire))
    /\ IF Answers(chunk) \cup Notices(chunk) = {} THEN UNCHANGED <<goalOvertaken, goalMissed>>
       ELSE /\ goalOvertaken' = (Answers(chunk) # {}
                               /\ \E m \in Notices(chunk) : m > Latest(Answers(chunk)))
            /\ goalMissed' = FALSE
    /\ UNCHANGED <<goalCall, goalHeld>>

-----------------------------------------------------------------------------
(* The engine, which is not part of the repository.                        *)

Says(lines) == goalWire' = goalWire \o lines

\* It answers a request, and announces a change to all its clients, before or after.
EngineHandlesGoal(c) ==
    /\ goalCall[c] \in GoalAsks /\ goalCall' = [goalCall EXCEPT ![c] = "handled"]
    /\ \/ Says(<<GoalAnswer(c, None)>>) /\ UNCHANGED goalHeld
       \/ goalCall[c] = "get" /\ Says(<<GoalAnswer(c, goalHeld)>>) /\ UNCHANGED goalHeld
       \/ /\ goalCall[c] \in {"set", "clear"} /\ goalHeld < MaxGoalChanges
          /\ goalHeld' = goalHeld + 1
          /\ \/ Says(<<GoalAnswer(c, goalHeld'), GoalNotice(goalHeld')>>)
             \/ Says(<<GoalNotice(goalHeld'), GoalAnswer(c, goalHeld')>>)
    /\ UNCHANGED <<goalShown, goalPending, goalOvertaken, goalMissed>>

\* The turn that pursues the goal counts its tokens and its time, or finishes it.
EngineChangesGoal ==
    /\ goalHeld < MaxGoalChanges
    /\ goalHeld' = goalHeld + 1 /\ Says(<<GoalNotice(goalHeld')>>)
    /\ UNCHANGED <<goalShown, goalCall, goalPending, goalOvertaken, goalMissed>>

\* It dies: what it has written and not been asked yet is lost, and every call fails.
EngineLosesGoals ==
    /\ goalWire # <<>> \/ goalPending # {}
    /\ goalWire' = <<>> /\ goalPending' = {}
    /\ goalCall' = [c \in GoalCalls |-> IF goalCall[c] = "new" THEN "new" ELSE "handled"]
    /\ goalMissed' = (goalMissed \/ Notices(goalWire) # {})
    /\ UNCHANGED <<goalShown, goalHeld, goalOvertaken>>

GoalNext ==
    \/ \E c \in GoalCalls : \/ SetThreadGoal(c) \/ ClearThreadGoal(c) \/ LoadThreadGoal(c)
                            \/ GoalCallTimesOut(c) \/ EngineHandlesGoal(c)
    \/ \E n \in DOMAIN goalWire : ReadGoals(n)
    \/ EngineChangesGoal \/ EngineLosesGoals

GoalSpec == GoalInit /\ [][GoalNext]_goalVars

-----------------------------------------------------------------------------
(* Properties.                                                             *)

\* When all the engine has said is read, the goal shown is the one it holds, through
\* refusals, timeouts and late answers.  It is an older one only when a notification
\* was lost with an engine, or when an answer and a later notification came in one chunk:
\* the answer is then applied last.  docs/AUTONOMOUS_STATE.md takes the notifications for
\* the source of truth.
GoalShownIsHeld ==
    goalWire = <<>> /\ goalShown # None => goalShown = goalHeld \/ goalOvertaken \/ goalMissed
=============================================================================
