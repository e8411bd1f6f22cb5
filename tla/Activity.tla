------------------------------ MODULE Activity ------------------------------
(***************************************************************************)
(* What the window shows of a turn: the reducer of notifications in        *)
(* src/main/agent/activityReducer.ts, and #hydrateThread of                *)
(* src/main/agent/agentService.ts, which builds its state from the answer  *)
(* to thread/resume, in the middle of a turn as well.                      *)
(*                                                                         *)
(* Texts are lengths.  An activity has a text that its item carries (a     *)
(* command, the changes of files, a summary) and an output that streams in *)
(* (a message, a command's output, a tool's progress); some items carry    *)
(* their output when they are completed.  The thread itself, the diff of   *)
(* the whole turn and its plan are activities too, which events of their   *)
(* own replace.  The engine is external: it sends the events of a turn in  *)
(* order, and full is what it has sent.  Events the reducer cannot read    *)
(* become diagnostics and change nothing else.                             *)
(***************************************************************************)
EXTENDS Naturals, FiniteSets

CONSTANTS
    Items,     \* the items of one turn, or what else is shown as an activity
    Limit,     \* MAX_ACTIVITY_TEXT_LENGTH
    MaxText,   \* bound: the length of the text of an item
    MaxOutput  \* bound: the length of its output

ASSUME ActivityAssumption == {Limit, MaxText, MaxOutput} \subseteq Nat

VARIABLES
    kind,        \* the type of each item
    full,        \* what the engine has sent of each item
    sent,        \* where each item is
    turn,        \* where the turn is
    turnStatus,  \* state.turnStatus
    activities,  \* state.activities: those known, by the identifier of their item
    missed       \* items of which the reducer was not told all

activityVars == <<kind, full, sent, turn, turnStatus, activities, missed>>

\* Items that stream, those that come whole (a user's message, a search, an image, a
\* subagent), and the activities of the thread and of the turn.
Kinds == {"message", "reasoning", "command", "fileChange", "mcpTool", "whole",
          "thread", "turnDiff", "turnPlan"}

Streams == {"message", "reasoning", "command", "fileChange", "mcpTool"}

OfItem == Streams \cup {"whole"}

ActivityStatus == {"idle", "inProgress", "completed", "failed", "declined",
                   "interrupted", "unknown"}

Activities == [status : ActivityStatus, text : 0 .. Limit, output : 0 .. Limit,
               truncated : BOOLEAN, truncatedChars : Nat]

Longer(m, n) == IF m >= n THEN m ELSE n

ActivityTypeOK ==
    /\ kind \in [Items -> Kinds]
    /\ full \in [Items -> [text : 0 .. Longer(MaxText, MaxOutput), output : 0 .. MaxOutput]]
    /\ sent \in [Items -> {"not", "started", "completed"}]
    /\ turn \in {"before", "running", "over"}
    /\ turnStatus \in {"idle", "inProgress", "completed", "failed", "interrupted"}
    /\ DOMAIN activities \subseteq Items
    /\ \A i \in DOMAIN activities : activities[i] \in Activities
    /\ missed \subseteq Items

ActivityInit ==
    /\ kind \in [Items -> Kinds]
    /\ full = [i \in Items |-> [text |-> 0, output |-> 0]]
    /\ sent = [i \in Items |-> "not"]
    /\ turn = "before" /\ turnStatus = "idle"
    /\ activities = <<>> /\ missed = {}

-----------------------------------------------------------------------------
(* The reducer.                                                            *)

AtMost(n, bound) == IF n < bound THEN n ELSE bound

\* itemToActivity: text and output share one budget, the text first.
ItemToActivity(text, output, status) ==
    LET safe == AtMost(text, Limit)
        rest == AtMost(output, Limit - safe)
        over == (text - safe) + (output - rest)
    IN [status |-> status, text |-> safe, output |-> rest,
        truncated |-> over > 0, truncatedChars |-> over]

Placeholder == ItemToActivity(0, 0, "inProgress")

\* What each type of activity keeps of its text and its output when its item comes again.
MergedText(k, existing, incoming) ==
    CASE k \in {"message", "reasoning"} -> Longer(incoming.text, existing.text)
      [] k \in {"command", "fileChange"} -> IF incoming.text > 0 THEN incoming.text ELSE existing.text
      [] k \in {"mcpTool", "whole", "thread", "turnDiff", "turnPlan"} -> incoming.text

MergedOutput(k, existing, incoming) ==
    IF k \in {"fileChange", "mcpTool"}
      THEN IF incoming.output > 0 THEN incoming.output ELSE existing.output
      ELSE Longer(incoming.output, existing.output)

\* Fault: the item that comes last says whether something is missing.
Fault_MergeForgetsCut(k, existing, incoming) ==
    [incoming EXCEPT !.text = MergedText(k, existing, incoming),
                     !.output = MergedOutput(k, existing, incoming)]

\* mergeSameType
MergeSameType(k, existing, incoming) ==
    [incoming EXCEPT !.text = MergedText(k, existing, incoming),
                     !.output = MergedOutput(k, existing, incoming),
                     !.truncated = @ \/ existing.truncated,
                     !.truncatedChars = @ + existing.truncatedChars]

Put(i, a) == [j \in DOMAIN activities \cup {i} |-> IF j = i THEN a ELSE activities[j]]

\* upsertActivity
Upsert(i, incoming) ==
    Put(i, IF i \in DOMAIN activities THEN MergeSameType(kind[i], activities[i], incoming)
           ELSE incoming)

Existing(i) == IF i \in DOMAIN activities THEN activities[i] ELSE Placeholder

\* appendLimited, and reduceReasoningDelta, where summary and content share the limit.
Room(i) ==
    LET used == Existing(i).output + (IF kind[i] = "reasoning" THEN Existing(i).text ELSE 0)
    IN IF used < Limit THEN Limit - used ELSE 0

\* A delta of n; an item not known yet gets a placeholder.
AppendLimited(i, n) ==
    LET accepted == AtMost(n, Room(i))
        over == n - accepted
    IN Put(i, [Existing(i) EXCEPT !.output = @ + accepted,
                                  !.truncated = @ \/ over > 0,
                                  !.truncatedChars = @ + over])

\* reduceMcpProgress puts the messages on lines of their own.
Separated(i, n) == IF kind[i] = "mcpTool" /\ Existing(i).output > 0 THEN n + 1 ELSE n

\* The end of the turn, in reduceTurnRecord, is the end of its items, its diff and its
\* plan; the thread is not of the turn.
EndItems(as, status) ==
    [i \in DOMAIN as |-> IF as[i].status = "inProgress" /\ kind[i] # "thread"
                           THEN [as[i] EXCEPT !.status = status]
                         ELSE as[i]]

\* itemStatus: what the item says of itself (raw) before what the event says; an item
\* may have no status, or only say that it did not succeed.
RawStatus == {"none", "unsuccessful", "inProgress", "completed", "failed", "declined"}

ItemStatus(raw, lifecycle) ==
    CASE raw \in ActivityStatus -> raw
      [] raw = "unsuccessful" -> "failed"
      [] OTHER -> IF lifecycle = "completed" THEN "completed" ELSE "inProgress"

\* threadStatus
ThreadStatus(raw) ==
    CASE raw = "active" -> "inProgress"
      [] raw = "idle" -> "idle"
      [] raw = "systemError" -> "failed"
      [] OTHER -> "unknown"

RawThreadStatus == {"active", "idle", "systemError", "notLoaded"}

-----------------------------------------------------------------------------
(* The events of the turn.                                                 *)

TurnIsStarted ==
    /\ turn = "before"
    /\ turn' = "running" /\ turnStatus' = "inProgress"
    /\ UNCHANGED <<kind, full, sent, activities, missed>>

\* item/started carries the text of the item.
ItemStarted(i, n, raw) ==
    /\ turn = "running" /\ sent[i] = "not" /\ kind[i] \in OfItem
    /\ raw \in {"none", "inProgress"}
    /\ sent' = [sent EXCEPT ![i] = "started"]
    /\ full' = [full EXCEPT ![i].text = IF kind[i] = "message" THEN 0 ELSE n]
    /\ activities' = Upsert(i, ItemToActivity(full'[i].text, 0, ItemStatus(raw, "started")))
    /\ UNCHANGED <<kind, turn, turnStatus, missed>>

Delta(i, n) ==
    /\ turn = "running" /\ sent[i] = "started" /\ kind[i] \in Streams
    /\ full[i].output + Separated(i, n) <= MaxOutput
    /\ full' = [full EXCEPT ![i].output = @ + Separated(i, n)]
    /\ activities' = AppendLimited(i, Separated(i, n))
    /\ UNCHANGED <<kind, sent, turn, turnStatus, missed>>

\* What an item carries of its output: aggregatedOutput of a command may be null.
Carries(i) ==
    CASE kind[i] \in {"message", "reasoning"} -> {full[i].output}
      [] kind[i] = "command" -> {0, full[i].output}
      [] OTHER -> {0}

ItemCompleted(i, carried, raw) ==
    /\ turn = "running" /\ sent[i] = "started" /\ kind[i] \in OfItem
    /\ carried \in Carries(i) /\ raw \in RawStatus \ {"inProgress"}
    /\ sent' = [sent EXCEPT ![i] = "completed"]
    /\ activities' = Upsert(i, ItemToActivity(full[i].text, carried, ItemStatus(raw, "completed")))
    /\ missed' = IF carried = full[i].output THEN missed \ {i} ELSE missed
    /\ UNCHANGED <<kind, full, turn, turnStatus>>

\* Bound: what an activity lost is counted up to the length of an output.
MayComeAgain(i) == i \in DOMAIN activities => activities[i].truncatedChars < MaxOutput

\* turn/diff/updated: the whole diff again.
TurnDiffUpdated(i, n) ==
    /\ turn = "running" /\ kind[i] = "turnDiff" /\ MayComeAgain(i)
    /\ sent' = [sent EXCEPT ![i] = "started"]
    /\ full' = [full EXCEPT ![i].text = n]
    /\ activities' = Upsert(i, ItemToActivity(n, 0, "inProgress"))
    /\ missed' = missed \ {i}
    /\ UNCHANGED <<kind, turn, turnStatus>>

\* turn/plan/updated: all steps and the explanation again, with one budget; done when
\* there are steps and each of them is.
TurnPlanUpdated(i, n, done) ==
    /\ turn = "running" /\ kind[i] = "turnPlan" /\ MayComeAgain(i)
    /\ sent' = [sent EXCEPT ![i] = "started"]
    /\ full' = [full EXCEPT ![i].text = n]
    /\ activities' = Upsert(i, ItemToActivity(n, 0, IF done THEN "completed" ELSE "inProgress"))
    /\ missed' = missed \ {i}
    /\ UNCHANGED <<kind, turn, turnStatus>>

\* thread/started carries the preview of the thread.
ThreadStarted(i, n, raw) ==
    /\ kind[i] = "thread" /\ sent[i] = "not" /\ turn = "before"
    /\ sent' = [sent EXCEPT ![i] = "started"]
    /\ full' = [full EXCEPT ![i].text = n]
    /\ activities' = Upsert(i, ItemToActivity(n, 0, ThreadStatus(raw)))
    /\ missed' = missed \ {i}
    /\ UNCHANGED <<kind, turn, turnStatus>>

\* thread/status/changed: a thread not known yet gets an empty preview.
ThreadStatusChanged(i, raw) ==
    /\ kind[i] = "thread"
    /\ activities' = IF i \in DOMAIN activities
                        THEN Put(i, [activities[i] EXCEPT !.status = ThreadStatus(raw)])
                      ELSE Put(i, ItemToActivity(0, 0, ThreadStatus(raw)))
    /\ UNCHANGED <<kind, full, sent, turn, turnStatus, missed>>

\* An error that will not be retried; the end of the turn follows.
ErrorReported ==
    /\ turn = "running" /\ turnStatus' = "failed"
    /\ UNCHANGED <<kind, full, sent, turn, activities, missed>>

\* A turn may end before its items: it is interrupted, or fails.
TurnIsCompleted(status) ==
    /\ turn = "running"
    /\ turn' = "over" /\ turnStatus' = status
    /\ activities' = EndItems(activities, status)
    /\ UNCHANGED <<kind, full, sent, missed>>

-----------------------------------------------------------------------------
(* The answer to thread/resume.                                            *)

\* An item of the answer is reduced five times: with thread/started, turn/started,
\* item/started, item/completed and turn/completed.  The thread is reduced once.
Hydrated(i, carried) ==
    LET a == ItemToActivity(full[i].text, carried, "completed")
        again(b) == MergeSameType(kind[i], b, a)
    IN IF kind[i] = "thread" THEN ItemToActivity(full[i].text, 0, "idle")
       ELSE again(again(again(again(a))))

\* The state is replaced.  The answer has the thread and the items that are completed,
\* and may have one that is not; of a turn that runs it may have all, but nothing is
\* ended by it.  It has neither the diff of a turn nor its plan.
HydrateThread(listed, carried) ==
    /\ turn # "before"
    /\ {i \in Items : sent[i] = "completed" \/ kind[i] = "thread"} \subseteq listed
    /\ \A i \in listed :
         /\ sent[i] # "not" \/ kind[i] = "thread"
         /\ kind[i] \notin {"turnDiff", "turnPlan"}
         /\ carried[i] \in Carries(i)
    /\ activities' = [i \in listed |-> Hydrated(i, carried[i])]
    /\ turnStatus' = IF turn = "over" THEN turnStatus ELSE "inProgress"
    /\ missed' = {i \in Items : sent[i] # "not"
                    /\ (i \notin listed \/ carried[i] # full[i].output)}
    /\ UNCHANGED <<kind, full, sent, turn>>

ActivityNext ==
    \/ TurnIsStarted \/ ErrorReported
    \/ \E i \in Items :
         \/ \E n \in 0 .. MaxText, raw \in RawStatus : ItemStarted(i, n, raw)
         \/ \E n \in 1 .. MaxOutput : Delta(i, n)
         \/ \E n \in 0 .. MaxOutput, raw \in RawStatus : ItemCompleted(i, n, raw)
         \/ \E n \in 0 .. MaxOutput : TurnDiffUpdated(i, n)
         \/ \E n \in 0 .. MaxOutput, done \in BOOLEAN : TurnPlanUpdated(i, n, done)
         \/ \E n \in 0 .. MaxOutput, raw \in RawThreadStatus : ThreadStarted(i, n, raw)
         \/ \E raw \in RawThreadStatus : ThreadStatusChanged(i, raw)
    \/ \E s \in {"completed", "failed", "interrupted"} : TurnIsCompleted(s)
    \/ \E listed \in SUBSET Items : \E carried \in [listed -> 0 .. MaxOutput] :
         HydrateThread(listed, carried)

ActivitySpec == ActivityInit /\ [][ActivityNext]_activityVars

-----------------------------------------------------------------------------
(* Properties.                                                             *)

\* No text is cut without a mark: an activity that is not marked truncated shows all
\* that was sent, unless the thread was loaded meanwhile and the answer lacked some of
\* it; the item that carries it again makes up for that.
NoSilentLoss ==
    \A i \in DOMAIN activities \ missed :
        ~activities[i].truncated =>
            activities[i].text = full[i].text /\ activities[i].output = full[i].output
=============================================================================
