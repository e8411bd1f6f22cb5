------------------------------- MODULE Handoff -------------------------------
(***************************************************************************)
(* The handoff of a conversation and its uncommitted changes between two   *)
(* worktrees of a repository: moveChanges, completeHandoff,                *)
(* rollbackHandoff, retryRecovery and recoverInterruptedHandoffs of        *)
(* src/main/worktree/worktreeService.ts, and handoffThread of              *)
(* src/main/agent/agentService.ts, which drives them.                      *)
(*                                                                         *)
(* Git and the database survive a crash; pc and held are memory of the     *)
(* main process.  A file's content is abstracted to the edits in it: what  *)
(* a worktree holds is the set of edits committed on its HEAD and the set  *)
(* not committed, and a tree identity is their union.  The index is part   *)
(* of the tree.  An action is one git command with the code up to the next *)
(* one; a command may fail, and its failure followed by Kill is a kill in  *)
(* the middle of it.                                                       *)
(***************************************************************************)
EXTENDS Naturals, Sequences, SequencesExt

CONSTANTS
    Locations,    \* the project directory and its managed worktrees
    Edits,        \* identities of edits
    UserStash,    \* the edits in the user's own stash entry; {} for no entry
    Retries,      \* recoveries that may run: the one of the startup or retryRecovery
    Habits,       \* what the user does while a handoff or recovery is running
    None,         \* null
    MaxHandoffs   \* bound: handoffs that move changes

ASSUME LocationsAssumption == Locations # {}
ASSUME EditsAssumption == UserStash \subseteq Edits
ASSUME HabitsAssumption == Habits \subseteq {"edit", "commit", "retry"}
ASSUME MaxHandoffsAssumption == MaxHandoffs \in Nat
ASSUME ProcessesAssumption == "move" \notin Retries

VARIABLES
    committed,  \* the edits on the HEAD of each worktree
    changes,    \* the edits that are not committed
    stashes,    \* refs/stash and its log, shared by the worktrees, latest first
    refs,       \* refs/norevinq/handoffs/<id>
    operation,  \* the row of worktree_handoffs
    context,    \* the worktree of the conversation in project_threads
    service,    \* the main process: down, recovering at startup, up
    pc,         \* the step each process takes next
    held,       \* the operation each process holds
    handoffs,   \* identifiers used
    quiet,      \* history: edits made while no handoff and no recovery was running
    exposed,    \* history: edits made while one was
    overlooked  \* history: handoffs whose record went while their recovery ref exists

git == <<committed, changes, stashes, refs>>
database == <<operation, context>>
memory == <<service, pc, held>>
history == <<handoffs, quiet, exposed, overlooked>>
vars == <<git, database, memory, history>>

Ids == 1 .. MaxHandoffs
Processes == {"move"} \cup Retries

\* owner is the identifier in the marker of the message, 0 for the user's entry.
Entry == [owner : 0 .. MaxHandoffs, edits : SUBSET Edits]

Operation ==
    [id : Ids, from : Locations, to : Locations, stash : Entry \cup {None},
     sourceHead : SUBSET Edits, sourceTree : SUBSET Edits,
     targetHead : SUBSET Edits, targetTree : (SUBSET Edits) \cup {None}]

\* What a process holds: an operation, the conversation's worktree when it looked,
\* and whether the source was clean when it compared the trees.
Held == [op : Operation, context : Locations, clean : BOOLEAN]

\* null is neither an object nor the identity of a tree.
ASSUME NoneAssumption ==
    /\ None \notin Entry /\ None \notin Operation /\ None \notin Held
    /\ None \notin [from : Locations, to : Locations]
    /\ \A edits \in SUBSET Edits : edits # None

Steps ==
    {"idle", "snapshot", "push", "verify", "secure", "mark", "drop", "apply", "record",
     "find", "secureAgain", "dropAgain", "markAgain", "survey",
     "discard", "compare", "reset", "restore", "confirm",
     "cleanDrop", "cleanRef", "cleanRecord"}

TypeOK ==
    /\ committed \in [Locations -> SUBSET Edits]
    /\ changes \in [Locations -> SUBSET Edits]
    /\ stashes \in Seq(Entry)
    /\ refs \in [Ids -> Entry \cup {None}]
    /\ operation \in Operation \cup {None}
    /\ context \in Locations
    /\ service \in {"down", "recovering", "up"}
    /\ pc \in [Processes -> Steps]
    /\ held \in [Processes -> Held \cup {None}]
    /\ \A p \in Processes : pc[p] # "idle" => held[p] # None
    /\ handoffs \in 0 .. MaxHandoffs
    /\ quiet \subseteq Edits /\ exposed \subseteq Edits /\ overlooked \subseteq Ids

Init ==
    /\ committed = [x \in Locations |-> {}]
    /\ changes = [x \in Locations |-> {}]
    /\ stashes = IF UserStash = {} THEN <<>> ELSE <<[owner |-> 0, edits |-> UserStash]>>
    /\ refs = [i \in Ids |-> None]
    /\ operation = None
    /\ context \in Locations
    /\ service = "down"
    /\ pc = [p \in Processes |-> "idle"]
    /\ held = [p \in Processes |-> None]
    /\ handoffs = 0 /\ quiet = {} /\ exposed = {} /\ overlooked = {}

-----------------------------------------------------------------------------
(* Building blocks.                                                        *)

Running == \E p \in Processes : pc[p] # "idle"

Op(p) == held[p].op
From(p) == Op(p).from
To(p) == Op(p).to

\* The identity snapshotWorkingTree and snapshotIndex give.
Tree(x) == committed[x] \cup changes[x]

Goto(p, step) == pc' = [pc EXCEPT ![p] = step] /\ UNCHANGED <<service, held>>
Hold(p, step, h) ==
    /\ pc' = [pc EXCEPT ![p] = step] /\ held' = [held EXCEPT ![p] = h]
    /\ UNCHANGED service

\* An error leaves the record behind and ends the process.
Leave(p) == Hold(p, "idle", None)

\* The row of the operation a process holds still exists.
Recorded(p) == operation # None /\ operation.id = Op(p).id

\* git reset --hard HEAD and git clean -fd, or the part of it that was done.
Clean(x) == changes' = [changes EXCEPT ![x] = {}]
CleanInPart(x) == \E left \in SUBSET changes[x] : changes' = [changes EXCEPT ![x] = left]

\* git stash apply --index, and what it does when it fails: nothing, a conflict
\* that leaves some of the edits, or being killed.
Brings(x, edits) ==
    changes' = [changes EXCEPT ![x] = @ \cup (edits \ committed[x])]
Apply(x, ref) == ref # None /\ Brings(x, ref.edits)
ApplyFails(x, ref) ==
    IF ref = None THEN UNCHANGED changes ELSE \E part \in SUBSET ref.edits : Brings(x, part)

\* dropStashByOid: the entry is looked up, and not finding it is no error.
Dropped(entry) == RemoveFirst(stashes, entry)

\* #rollbackHandoff reads the record again.
EnterRollback(p, record, step) ==
    IF record # None /\ record.id = Op(p).id /\ record.stash # None
      THEN Hold(p, step, [held[p] EXCEPT !.op = record])
      ELSE Leave(p)

-----------------------------------------------------------------------------
(* handoffThread and moveChanges.                                          *)

CanHandOff(to) ==
    /\ service = "up" /\ pc["move"] = "idle"
    /\ operation = None /\ to # context

\* The source has no changes: only the conversation moves.
HandoffWithoutChanges(to) ==
    /\ CanHandOff(to) /\ changes[context] = {}
    /\ context' = to
    /\ UNCHANGED <<git, operation, memory, history>>

\* The checks: there are changes to move and the target is clean.
MoveBegins(to) ==
    /\ CanHandOff(to) /\ handoffs < MaxHandoffs
    /\ changes[context] # {} /\ changes[to] = {}
    /\ handoffs' = handoffs + 1
    /\ Hold("move", "snapshot",
            [op |-> [id |-> handoffs', from |-> context, to |-> to, stash |-> None,
                     sourceHead |-> {}, sourceTree |-> {},
                     targetHead |-> {}, targetTree |-> None],
             context |-> context, clean |-> FALSE])
    /\ UNCHANGED <<git, database, quiet, exposed, overlooked>>

\* The identities are read and the record is inserted.
MoveRecords(p) ==
    /\ pc[p] = "snapshot"
    /\ operation' = [Op(p) EXCEPT !.sourceHead = committed[From(p)],
                                  !.sourceTree = Tree(From(p)),
                                  !.targetHead = committed[To(p)]]
    /\ Hold(p, "push", [held[p] EXCEPT !.op = operation'])
    /\ UNCHANGED <<git, context, history>>

\* git stash push: without changes it succeeds and creates no entry.
Push(p) ==
    stashes' = IF changes[From(p)] = {} THEN stashes
               ELSE <<[owner |-> Op(p).id, edits |-> changes[From(p)]]>> \o stashes

StashPush(p) ==
    /\ pc[p] = "push"
    /\ Push(p) /\ Clean(From(p))
    /\ Goto(p, "verify")
    /\ UNCHANGED <<committed, refs, database, history>>

StashPushFails(p) ==
    /\ pc[p] = "push"
    /\ \/ UNCHANGED <<stashes, changes>>
       \/ Push(p) /\ CleanInPart(From(p))
    /\ Leave(p)
    /\ UNCHANGED <<committed, refs, database, history>>

\* rev-parse refs/stash and git status; the latest entry is taken for the new one.
VerifyStash(p) ==
    /\ pc[p] = "verify"
    /\ IF stashes # <<>> /\ changes[From(p)] = {}
         THEN Hold(p, "secure", [held[p] EXCEPT !.op.stash = Head(stashes)])
         ELSE Leave(p)
    /\ UNCHANGED <<git, database, history>>

SecureRef(p) ==
    /\ pc[p] \in {"secure", "secureAgain"}
    /\ refs' = [refs EXCEPT ![Op(p).id] = Op(p).stash]
    /\ Goto(p, IF pc[p] = "secure" THEN "mark" ELSE "dropAgain")
    /\ UNCHANGED <<committed, changes, stashes, database, history>>

MarkStashed(p) ==
    /\ pc[p] = "mark"
    /\ IF Recorded(p)
         THEN operation' = [operation EXCEPT !.stash = Op(p).stash] /\ Goto(p, "drop")
         ELSE UNCHANGED operation /\ Leave(p)
    /\ UNCHANGED <<git, context, history>>

DropStash(p) ==
    /\ pc[p] \in {"drop", "dropAgain", "cleanDrop"}
    /\ stashes' = Dropped(Op(p).stash)
    /\ Goto(p, CASE pc[p] = "drop" -> "apply"
                 [] pc[p] = "dropAgain" -> "markAgain"
                 [] OTHER -> "cleanRef")
    /\ UNCHANGED <<committed, changes, refs, database, history>>

ApplyToTarget(p) ==
    /\ pc[p] = "apply" /\ Recorded(p)
    /\ Apply(To(p), refs[Op(p).id])
    /\ Goto(p, "record")
    /\ UNCHANGED <<committed, stashes, refs, database, history>>

\* The target is cleaned whatever was left in it, then the source restored.
ApplyToTargetFails(p) ==
    /\ pc[p] = "apply"
    /\ IF Recorded(p) THEN ApplyFails(To(p), refs[Op(p).id]) ELSE UNCHANGED changes
    /\ EnterRollback(p, operation, "discard")
    /\ UNCHANGED <<committed, stashes, refs, database, history>>

\* moveChanges records what the target holds and returns; handoffThread writes the
\* conversation's worktree and completes the handoff, or rolls it back when the
\* write fails.
RecordTarget(p) ==
    /\ pc[p] = "record" /\ Recorded(p) /\ changes[To(p)] # {}
    /\ operation' = [operation EXCEPT !.targetTree = Tree(To(p))]
    /\ \/ context' = To(p) /\ Hold(p, "cleanDrop", [held[p] EXCEPT !.op = operation'])
       \/ UNCHANGED context /\ EnterRollback(p, operation', "compare")
    /\ UNCHANGED <<git, history>>

NothingToRecord(p) ==
    /\ pc[p] = "record" /\ ~(Recorded(p) /\ changes[To(p)] # {})
    /\ Leave(p)
    /\ UNCHANGED <<git, database, history>>

-----------------------------------------------------------------------------
(* #rollbackHandoff.                                                       *)

DiscardPartialApply(p) ==
    /\ pc[p] = "discard"
    /\ Clean(To(p)) /\ Goto(p, "compare")
    /\ UNCHANGED <<committed, stashes, refs, database, history>>

SourceIsClean(p) == Tree(From(p)) = Op(p).sourceHead
SourceIsOriginal(p) == Tree(From(p)) = Op(p).sourceTree
TargetIsClean(p) == Tree(To(p)) = Op(p).targetHead
TargetIsApplied(p) == Tree(To(p)) = Op(p).targetTree

\* Fault: what the target holds is not looked at before it is reset.
Fault_CompareSourceOnly(p) ==
    /\ pc[p] = "compare"
    /\ SourceIsClean(p) \/ SourceIsOriginal(p)
    /\ Hold(p,
            CASE ~TargetIsClean(p) -> "reset"
              [] TargetIsClean(p) /\ SourceIsClean(p) -> "restore"
              [] OTHER -> "confirm",
            [held[p] EXCEPT !.clean = SourceIsClean(p)])
    /\ UNCHANGED <<git, database, history>>

\* Fault: the source is restored while the target keeps what was applied to it.
Fault_RestoreWithoutReset(p) ==
    /\ pc[p] = "compare"
    /\ SourceIsClean(p) \/ SourceIsOriginal(p)
    /\ TargetIsClean(p) \/ TargetIsApplied(p)
    /\ Hold(p, IF SourceIsClean(p) THEN "restore" ELSE "confirm",
            [held[p] EXCEPT !.clean = SourceIsClean(p)])
    /\ UNCHANGED <<git, database, history>>

\* Both worktrees must hold exactly what the record says, or recovery stops.
CompareTrees(p) ==
    /\ pc[p] = "compare"
    /\ SourceIsClean(p) \/ SourceIsOriginal(p)
    /\ TargetIsClean(p) \/ TargetIsApplied(p)
    /\ Hold(p,
            CASE ~TargetIsClean(p) -> "reset"
              [] TargetIsClean(p) /\ SourceIsClean(p) -> "restore"
              [] OTHER -> "confirm",
            [held[p] EXCEPT !.clean = SourceIsClean(p)])
    /\ UNCHANGED <<git, database, history>>

ResetTarget(p) ==
    /\ pc[p] = "reset"
    /\ Clean(To(p)) /\ Goto(p, IF held[p].clean THEN "restore" ELSE "confirm")
    /\ UNCHANGED <<committed, stashes, refs, database, history>>

CleaningFails(p) ==
    /\ pc[p] \in {"discard", "reset"}
    /\ CleanInPart(To(p)) /\ Leave(p)
    /\ UNCHANGED <<committed, stashes, refs, database, history>>

RestoreSource(p) ==
    /\ pc[p] = "restore"
    /\ Apply(From(p), refs[Op(p).id]) /\ Goto(p, "confirm")
    /\ UNCHANGED <<committed, stashes, refs, database, history>>

RestoreSourceFails(p) ==
    /\ pc[p] = "restore"
    /\ ApplyFails(From(p), refs[Op(p).id]) /\ Leave(p)
    /\ UNCHANGED <<committed, stashes, refs, database, history>>

ConfirmSource(p) ==
    /\ pc[p] = "confirm" /\ SourceIsOriginal(p)
    /\ Goto(p, "cleanDrop")
    /\ UNCHANGED <<git, database, history>>

-----------------------------------------------------------------------------
(* #cleanupHandoff.                                                        *)

DeleteRef(p) ==
    /\ pc[p] = "cleanRef"
    /\ refs' = [refs EXCEPT ![Op(p).id] = None]
    /\ Goto(p, "cleanRecord")
    /\ UNCHANGED <<committed, changes, stashes, database, history>>

DeleteRecord(p) ==
    /\ pc[p] = "cleanRecord"
    /\ operation' = IF Recorded(p) THEN None ELSE operation
    /\ Leave(p)
    /\ UNCHANGED <<git, context, history>>

-----------------------------------------------------------------------------
(* #recoverHandoff.                                                        *)

BeginRecovery(p) ==
    /\ operation # None /\ pc[p] = "idle"
    /\ pc' = [pc EXCEPT ![p] = "find"]
    /\ held' = [held EXCEPT ![p] = [op |-> operation, context |-> context, clean |-> FALSE]]

\* retryRecovery: the panel offers it whenever a record is listed.
Retry(p) ==
    /\ service = "up" /\ (Running => "retry" \in Habits)
    /\ BeginRecovery(p)
    /\ UNCHANGED <<git, database, service, history>>

\* Fault: the stash is not searched for the marker.
Fault_FoundWithoutMarker(p, ref) ==
    IF Op(p).stash # None THEN Op(p).stash ELSE ref

\* findStashByMarker: the place of the latest entry with the marker, 0 if there is none.
Marked(id) == SelectInSeq(stashes, LAMBDA e : e.owner = id)

\* resolveOptionalRef: any failure of rev-parse is taken for a ref that does not exist.
Resolved(p) == {refs[Op(p).id], None}

\* The recovery snapshot by the record, the recovery ref or the marker.
Found(p, ref) ==
    LET i == Op(p).id
    IN CASE Op(p).stash # None -> Op(p).stash
         [] Op(p).stash = None /\ ref # None -> ref
         [] Op(p).stash = None /\ ref = None /\ Marked(i) # 0 -> stashes[Marked(i)]
         [] OTHER -> None

\* The recovery takes a handoff without a snapshot for one that took nothing from the
\* source, or is done.
TookNothing(p) ==
    \/ held[p].context = To(p)
    \/ held[p].context = From(p) /\ changes[From(p)] # {} /\ changes[To(p)] = {}

\* No snapshot is found.  The record goes also when the ref exists and was not read.
FindNothing(p) ==
    /\ pc[p] = "find" /\ \E ref \in Resolved(p) : Found(p, ref) = None
    /\ IF Recorded(p) /\ TookNothing(p)
         THEN /\ operation' = None
              /\ overlooked' = overlooked \cup {i \in {Op(p).id} : refs[i] # None}
         ELSE UNCHANGED <<operation, overlooked>>
    /\ Leave(p)
    /\ UNCHANGED <<git, context, handoffs, quiet, exposed>>

FindStash(p) ==
    /\ pc[p] = "find"
    /\ \E ref \in Resolved(p) :
         /\ Found(p, ref) # None
         /\ IF committed[From(p)] = Op(p).sourceHead /\ committed[To(p)] = Op(p).targetHead
              THEN Hold(p, "secureAgain", [held[p] EXCEPT !.op.stash = Found(p, ref)])
              ELSE Leave(p)
    /\ UNCHANGED <<git, database, history>>

\* The record is marked.  A conversation that moved ends the handoff.
MarkRecovered(p) ==
    /\ pc[p] = "markAgain"
    /\ IF Recorded(p)
         THEN /\ operation' = [operation EXCEPT !.stash = Op(p).stash]
              /\ CASE held[p].context = To(p) ->
                        Hold(p, "cleanDrop", [held[p] EXCEPT !.op = operation'])
                   [] held[p].context = From(p) ->
                        Hold(p, "survey", [held[p] EXCEPT !.op = operation'])
                   [] OTHER -> Leave(p)
         ELSE UNCHANGED operation /\ Leave(p)
    /\ UNCHANGED <<git, context, history>>

\* Fault: a target that holds the work ends the handoff, wherever the conversation is.
Fault_SurveyTrustsTarget(p) ==
    /\ pc[p] = "survey"
    /\ CASE SourceIsOriginal(p) \/ TargetIsApplied(p) -> Goto(p, "cleanDrop")
         [] ~SourceIsOriginal(p) /\ ~TargetIsApplied(p) /\ SourceIsClean(p) ->
                EnterRollback(p, operation, "compare")
         [] OTHER -> Leave(p)
    /\ UNCHANGED <<git, database, history>>

\* The conversation did not move: is the source still, or already, as it was, or
\* must the handoff be rolled back?
Survey(p) ==
    /\ pc[p] = "survey"
    /\ CASE SourceIsOriginal(p) /\ TargetIsClean(p) -> Goto(p, "cleanDrop")
         [] /\ ~SourceIsOriginal(p) /\ SourceIsClean(p)
            /\ Op(p).targetTree = None \/ TargetIsApplied(p) \/ TargetIsClean(p) ->
                EnterRollback(p, operation, "compare")
         [] OTHER -> Leave(p)
    /\ UNCHANGED <<git, database, history>>

-----------------------------------------------------------------------------
(* Failures, the process and the user.                                     *)

\* Any other git command fails, or a comparison stops a rollback.
Fails(p) ==
    /\ pc[p] \notin {"idle", "push", "apply", "discard", "reset", "restore",
                     "mark", "markAgain", "cleanRecord"}
    /\ Leave(p)
    /\ UNCHANGED <<git, database, history>>

\* The service is constructed and recovers what it finds before calls are served.
Boot ==
    /\ service = "down" /\ operation = None
    /\ service' = "up"
    /\ UNCHANGED <<git, database, pc, held, history>>

BootRecovers(p) ==
    /\ service = "down" /\ BeginRecovery(p)
    /\ service' = "recovering"
    /\ UNCHANGED <<git, database, history>>

Recovered ==
    /\ service = "recovering" /\ ~Running
    /\ service' = "up"
    /\ UNCHANGED <<git, database, pc, held, history>>

\* The process ends, also between two steps of a handoff.
Kill ==
    /\ service # "down"
    /\ service' = "down"
    /\ pc' = [p \in Processes |-> "idle"] /\ held' = [p \in Processes |-> None]
    /\ UNCHANGED <<git, database, history>>

\* Killed after the target was recorded, before the conversation's write.
KilledBeforeSwitch(p) ==
    /\ pc[p] = "record" /\ Recorded(p) /\ changes[To(p)] # {}
    /\ operation' = [operation EXCEPT !.targetTree = Tree(To(p))]
    /\ service' = "down"
    /\ pc' = [q \in Processes |-> "idle"] /\ held' = [q \in Processes |-> None]
    /\ UNCHANGED <<git, context, history>>

\* The user or another program makes an edit in a worktree.
Edit(x, e) ==
    /\ e \notin quiet \cup exposed \cup UserStash
    /\ Running => "edit" \in Habits
    /\ changes' = [changes EXCEPT ![x] = @ \cup {e}]
    /\ IF Running THEN exposed' = exposed \cup {e} /\ UNCHANGED quiet
       ELSE quiet' = quiet \cup {e} /\ UNCHANGED exposed
    /\ UNCHANGED <<committed, stashes, refs, database, memory, handoffs, overlooked>>

Commit(x) ==
    /\ changes[x] # {}
    /\ Running => "commit" \in Habits
    /\ committed' = [committed EXCEPT ![x] = @ \cup changes[x]]
    /\ Clean(x)
    /\ UNCHANGED <<stashes, refs, database, memory, history>>

MoveStep(p) ==
    \/ MoveRecords(p) \/ StashPush(p) \/ StashPushFails(p) \/ VerifyStash(p)
    \/ SecureRef(p) \/ MarkStashed(p) \/ DropStash(p)
    \/ ApplyToTarget(p) \/ ApplyToTargetFails(p) \/ RecordTarget(p) \/ NothingToRecord(p)

RollbackStep(p) ==
    \/ DiscardPartialApply(p) \/ CompareTrees(p) \/ ResetTarget(p) \/ CleaningFails(p)
    \/ RestoreSource(p) \/ RestoreSourceFails(p) \/ ConfirmSource(p)

RecoverStep(p) == FindNothing(p) \/ FindStash(p) \/ MarkRecovered(p) \/ Survey(p)

Next ==
    \/ \E to \in Locations : HandoffWithoutChanges(to) \/ MoveBegins(to)
    \/ \E p \in Processes :
         \/ MoveStep(p) \/ RollbackStep(p) \/ RecoverStep(p)
         \/ DeleteRef(p) \/ DeleteRecord(p) \/ Fails(p) \/ KilledBeforeSwitch(p)
    \/ \E p \in Retries : Retry(p) \/ BootRecovers(p)
    \/ Boot \/ Recovered \/ Kill
    \/ \E x \in Locations : Commit(x) \/ \E e \in Edits : Edit(x, e)

Spec == Init /\ [][Next]_vars

-----------------------------------------------------------------------------
(* Properties.                                                             *)

Kept(e) ==
    \/ \E x \in Locations : e \in Tree(x)
    \/ \E i \in DOMAIN stashes : e \in stashes[i].edits
    \/ \E i \in Ids : refs[i] # None /\ e \in refs[i].edits

\* No sequence of handoffs, failures of git, crashes and recoveries loses an edit
\* made before it began: at every instant a worktree, the stash or a recovery ref
\* holds it.  docs/AUTONOMOUS_STATE.md: the retry in the panel is safe and performs
\* no destructive cleanup.
NothingLost == \A e \in quiet : Kept(e)

\* When no handoff is recorded and none runs, the recovery snapshots are gone and no
\* edit is uncommitted in two worktrees: work is moved, neither left behind where the
\* user would not find it nor copied.  Only a ref that a recovery could not read, and
\* took for absent when it deleted the record, is left.
NothingHidden ==
    operation = None /\ ~Running =>
        /\ \A i \in Ids : refs[i] # None => i \in overlooked
        /\ \A i \in DOMAIN stashes : stashes[i].owner = 0
        /\ \A x, y \in Locations : x # y => changes[x] \cap changes[y] = {}

\* A handoff ends with the work beside the conversation: in the target once the
\* conversation moved there, back in the source otherwise.  What the user committed
\* in the source meanwhile stays there, and when its ref was not read the ref has it.
WorkFollowsConversation ==
    [][operation # None /\ operation' = None =>
         operation.sourceTree \subseteq
            Tree(context) \cup committed[operation.from]
              \cup UNION {refs[i].edits : i \in overlooked' \ overlooked}]_vars

\* The work a handoff carries: what the source had that is not committed there, as long
\* as something holds it.
Carried ==
    IF operation = None THEN {}
    ELSE {e \in quiet \cap operation.sourceTree : e \notin committed[operation.from] /\ Kept(e)}

\* The rest of the work made while nothing ran, and the worktrees of the handoff.
WorkCommitted == [x \in Locations |-> committed[x] \cap quiet]
WorkLeft == [x \in Locations |-> (changes[x] \cap quiet) \ Carried]
Route == IF operation = None THEN None ELSE [from |-> operation.from, to |-> operation.to]

\* The work in recovery refs that no record names any more.
Stranded == quiet \cap UNION {refs[i].edits : i \in overlooked}

Transfer == INSTANCE WorkTransfer WITH
    committed <- WorkCommitted, changes <- WorkLeft, route <- Route, carried <- Carried,
    stranded <- Stranded

\* Whatever fails or is killed on the way, the work moves as one and only with the
\* conversation: no copy is left, no part stays behind, and no other work is touched.
\* The one exception is a recovery that fails to read the ref: the ref keeps the work.
MovesAsOne == Transfer!Spec

\* docs/AUTONOMOUS_STATE.md: a handoff does not use the user's stash stack.
UserStashUntouched ==
    UserStash # {} => \E i \in DOMAIN stashes : stashes[i].owner = 0
=============================================================================
