---------------------------- MODULE Conversations ----------------------------
(***************************************************************************)
(* The conversations of the projects: what AgentService of                 *)
(* src/main/agent/agentService.ts keeps of them in its snapshot and in the *)
(* database, and what the engine keeps.                                    *)
(*                                                                         *)
(* A call asks the engine for one thing after another; its record says     *)
(* what it asks for now and what becomes of the answer.  The engine serves *)
(* a request and tells of it; the call runs on before the next message is  *)
(* handled.  A request fails when it is refused, and when it times out or  *)
(* the engine dies, served or not.  The search term, the pages after the   *)
(* first, names, goals and worktrees are left out; turns and approvals are *)
(* modelled in Turns.                                                      *)
(***************************************************************************)
EXTENDS ServiceBounds

CONSTANT Convs   \* bound: conversations in one behaviour

ASSUME ConversationsAssumption == None \notin Convs /\ Convs # {} /\ Projects # {}

VARIABLES
    kept,      \* each conversation in the engine: absent, active or archived
    cwd,       \* the project whose directory it was made for
    root,      \* the conversation it continues under another provider, or itself
    assoc,     \* project_threads: the project of each conversation, or None
    archived,  \* project_threads.archived
    pinned,    \* project_threads.pinned
    view,      \* the snapshot: projectId, listArchived, threads, selectedThreadId
    op,        \* the calls in flight
    made,      \* how many calls were made
    wiped,     \* roots of which the user had a conversation deleted
    owned      \* roots that ever belonged to a project

engineStore == <<kept, cwd, root>>
database == <<assoc, archived, pinned>>
convVars == <<engineStore, database, view, op, made, wiped, owned>>

\* What a call is for, and what it asks the engine for.
Ops == {"none", "load", "select", "link", "archive", "unarchive", "delete", "fork",
        "start", "scheduled", "migrate", "rollback", "restore"}
Requests == {"none", "list", "pins", "read", "resume", "archive", "unarchive", "delete", "make"}

NoCall == [op |-> "none", asks |-> "none", answer |-> "none", conv |-> None, new |-> None,
           project |-> None, archived |-> FALSE, page |-> {}, pin |-> FALSE]

EmptyView == [project |-> None, archived |-> FALSE, listed |-> {}, selected |-> None]

ConvTypeOK ==
    /\ kept \in [Convs -> {"absent", "active", "archived"}]
    /\ cwd \in [Convs -> Projects \cup {None}] /\ root \in [Convs -> Convs]
    /\ assoc \in [Convs -> Projects \cup {None}]
    /\ archived \subseteq Convs /\ pinned \subseteq Convs /\ wiped \subseteq Convs /\ owned \subseteq Convs
    /\ view \in [project : Projects \cup {None}, archived : BOOLEAN,
                 listed : SUBSET Convs, selected : Convs \cup {None}]
    /\ op \in [Slots -> [op : Ops, asks : Requests, answer : {"none", "given", "lost"},
                         conv : Convs \cup {None}, new : Convs \cup {None},
                         project : Projects \cup {None}, archived : BOOLEAN,
                         page : SUBSET Convs, pin : BOOLEAN]]
    /\ made \in 0 .. MaxCalls

\* One conversation exists; the app has just started, or shows the list it is on.
ConvInit ==
    LET t == CHOOSE u \in Convs : TRUE
        p == CHOOSE q \in Projects : TRUE IN
    /\ kept \in {[u \in Convs |-> IF u = t THEN s ELSE "absent"] : s \in {"active", "archived"}}
    /\ cwd = [u \in Convs |-> IF u = t THEN p ELSE None]
    /\ root = [u \in Convs |-> u]
    /\ assoc = cwd /\ pinned \in SUBSET {t}
    /\ archived = {u \in Convs : kept[u] = "archived"}
    /\ view \in {EmptyView, [EmptyView EXCEPT !.project = p, !.archived = t \in archived,
                                              !.listed = {t}]}
    /\ op = [c \in Slots |-> NoCall] /\ made = 0
    /\ wiped = {} /\ owned = {t}

-----------------------------------------------------------------------------
(* Building blocks.                                                        *)

Asks(c, r) == op' = [op EXCEPT ![c] = r]

Ends(c) == Asks(c, NoCall)

Without(v, t) ==
    [v EXCEPT !.listed = @ \ {t}, !.selected = IF @ = t THEN None ELSE @]

Selects(v, t) == [v EXCEPT !.listed = @ \cup {t}, !.selected = t]

\* associateThread: a flag that is not given stays, or is FALSE in a new row.
Associate(p, ts, flag) ==
    /\ assoc' = [t \in Convs |-> IF t \in ts THEN p ELSE assoc[t]]
    /\ archived' = CASE flag = "archived" -> archived \cup ts
                     [] flag = "active"   -> archived \ ts
                     [] OTHER             -> archived

SetArchived(t, flag) ==
    archived' = IF flag /\ assoc[t] # None THEN archived \cup {t}
                ELSE IF flag THEN archived ELSE archived \ {t}

\* Deleting the row of a conversation takes its flags along.
RemoveAssociation(t) ==
    /\ assoc' = [assoc EXCEPT ![t] = None]
    /\ archived' = archived \ {t} /\ pinned' = pinned \ {t}

Reloads(c, v, t) ==
    IF v.project = None THEN Ends(c)
    ELSE Asks(c, [NoCall EXCEPT !.op = "load", !.asks = "list", !.conv = t,
                                !.project = v.project, !.archived = v.archived])

-----------------------------------------------------------------------------
(* Calls begin.                                                            *)

Begin(c, o, asks, t, p) ==
    /\ op[c].op = "none" /\ made < MaxCalls
    /\ made' = made + 1
    /\ Asks(c, [NoCall EXCEPT !.op = o, !.asks = asks, !.conv = t, !.project = p,
                              !.pin = t \in pinned])
    /\ wiped' = IF o = "delete" THEN wiped \cup {root[t]} ELSE wiped
    /\ UNCHANGED <<engineStore, database, view>>

LoadProject(c, p, a) ==
    /\ op[c].op = "none" /\ made < MaxCalls
    /\ made' = made + 1
    /\ Asks(c, [NoCall EXCEPT !.op = "load", !.asks = "list", !.project = p, !.archived = a])
    /\ UNCHANGED <<engineStore, database, view, wiped>>

SelectThread(c, t) ==
    t \in view.listed
        /\ Begin(c, "select", IF view.archived THEN "read" ELSE "resume", t, None)

OpenLinkedThread(c, p, t) == assoc[t] = p /\ Begin(c, "link", "resume", t, p)

\* archiveThread, unarchiveThread, deleteThread and forkThread.
ArchiveThread(c, t) == t \in view.listed /\ Begin(c, "archive", "archive", t, None)
UnarchiveThread(c, t) == t \in view.listed /\ Begin(c, "unarchive", "unarchive", t, None)
DeleteThread(c, t) == t \in view.listed /\ Begin(c, "delete", "delete", t, None)
ForkThread(c, t) == t \in view.listed /\ Begin(c, "fork", "make", t, cwd[t])

\* startTurn of a listed conversation with another provider, or of an archived one.
SwitchProvider(c, t) ==
    /\ t \in view.listed /\ ~view.archived /\ view.project # None
    /\ Begin(c, "migrate", "make", t, view.project)
ContinueArchived(c, t) ==
    /\ t \in view.listed /\ view.archived /\ view.project # None
    /\ Begin(c, "restore", "unarchive", t, view.project)

StartConversation(c, o, p) == o \in {"start", "scheduled"} /\ Begin(c, o, "make", None, p)

SetThreadPinned(t) ==
    /\ t \in view.listed /\ view.project # None /\ assoc[t] = view.project
    /\ pinned' \in {pinned \cup {t}, pinned \ {t}} \ {pinned}
    /\ UNCHANGED <<engineStore, assoc, archived, view, op, made, wiped>>

-----------------------------------------------------------------------------
(* The engine serves a request, and #handleNotification hears of it.       *)

\* Answers that have arrived are handled before anything else that arrives.
NoneAnswered == \A c \in Slots : op[c].answer # "given"

Answer(c, a, r) == Asks(c, [r EXCEPT !.answer = a])

\* Fault: the conversation that was continued is deleted, not archived.
Fault_MigrateDeletes(c) == IF op[c].op = "migrate" THEN "absent" ELSE "archived"

\* What thread/archive makes of a conversation.
ArchivedAs(c) == "archived"

EngineReads(c, a) ==
    /\ \/ op[c].asks = "list"
       \/ op[c].asks = "read" /\ kept[op[c].conv] # "absent"
       \/ op[c].asks = "resume" /\ kept[op[c].conv] = "active"
    /\ LET r == op[c] IN
         Answer(c, a, IF r.asks # "list" THEN r
                      ELSE [r EXCEPT !.page = {t \in Convs : cwd[t] = r.project
                              /\ kept[t] = IF r.archived THEN "archived" ELSE "active"}])
    /\ UNCHANGED <<engineStore, database, view>>

EngineArchives(c, a, heard) ==
    LET t == op[c].conv IN
    /\ op[c].asks = "archive" /\ kept[t] = "active"
    /\ kept' = [kept EXCEPT ![t] = ArchivedAs(c)]
    /\ Answer(c, a, op[c])
    /\ IF heard THEN /\ SetArchived(t, TRUE)
                     /\ view' = IF view.archived THEN view ELSE Without(view, t)
       ELSE UNCHANGED <<archived, view>>
    /\ UNCHANGED <<cwd, root, assoc, pinned>>

EngineUnarchives(c, a, heard) ==
    LET t == op[c].conv IN
    /\ op[c].asks = "unarchive" /\ kept[t] = "archived"
    /\ kept' = [kept EXCEPT ![t] = "active"]
    /\ Answer(c, a, op[c])
    /\ IF heard THEN /\ SetArchived(t, FALSE)
                     /\ view' = IF view.archived THEN Without(view, t) ELSE view
       ELSE UNCHANGED <<archived, view>>
    /\ UNCHANGED <<cwd, root, assoc, pinned>>

EngineDeletes(c, a, heard) ==
    LET t == IF op[c].op = "rollback" THEN op[c].new ELSE op[c].conv IN
    /\ op[c].asks = "delete" /\ kept[t] # "absent"
    /\ kept' = [kept EXCEPT ![t] = "absent"]
    /\ Answer(c, a, op[c])
    /\ IF heard THEN RemoveAssociation(t) /\ view' = Without(view, t)
       ELSE UNCHANGED <<database, view>>
    /\ UNCHANGED <<cwd, root>>

\* thread/start and thread/fork; thread/started lists the new one, whatever is shown.
EngineMakes(c, a, heard, t) ==
    /\ op[c].asks = "make" /\ cwd[t] = None
    /\ op[c].op = "fork" => kept[op[c].conv] # "absent"
    /\ kept' = [kept EXCEPT ![t] = "active"] /\ cwd' = [cwd EXCEPT ![t] = op[c].project]
    /\ root' = IF op[c].op = "migrate" THEN [root EXCEPT ![t] = root[op[c].conv]] ELSE root
    /\ Answer(c, a, [op[c] EXCEPT !.new = t])
    /\ view' = IF heard THEN [view EXCEPT !.listed = @ \cup {t}] ELSE view
    /\ UNCHANGED database

\* An answer that arrives comes with its notification; one that is lost may not.
Serve(c) ==
    /\ NoneAnswered /\ op[c].answer = "none"
    /\ \E a \in {"given", "lost"}, heard \in BOOLEAN :
         /\ a = "given" => heard
         /\ \/ EngineReads(c, a)
            \/ EngineArchives(c, a, heard) \/ EngineUnarchives(c, a, heard)
            \/ EngineDeletes(c, a, heard)
            \/ \E t \in Convs : EngineMakes(c, a, heard, t)
    /\ UNCHANGED <<made, wiped>>

-----------------------------------------------------------------------------
(* Calls run on.                                                           *)

Given(c, o) == op[c].op = o /\ op[c].answer = "given"

\* loadProject: the page is associated, then the pinned ones it misses are read.
PageArrives(c) ==
    LET r == op[c] IN
    /\ Given(c, "load")
    /\ Associate(r.project, r.page, IF r.archived THEN "archived" ELSE "active")
    /\ Asks(c, [r EXCEPT !.asks = "pins", !.answer = "none",
                  !.page = @ \cup {t \in pinned : assoc[t] = r.project
                                                  /\ (t \in archived) = r.archived}])
    /\ UNCHANGED <<engineStore, pinned, view, made, wiped>>

\* The list is shown: those read that still exist.  The load of a conversation that was
\* brought back from the archive ends with its selection.
ListShown(c) ==
    LET r == op[c]
        listed == {t \in r.page : kept[t] # "absent"}
        v == [project |-> r.project, archived |-> r.archived, listed |-> listed,
              selected |-> IF view.selected \in listed THEN view.selected ELSE None] IN
    /\ r.op = "load" /\ r.asks = "pins" /\ NoneAnswered
    /\ view' = IF r.conv = None THEN v ELSE Selects(v, r.conv)
    /\ Ends(c)
    /\ UNCHANGED <<engineStore, database, made, wiped>>

\* selectThread associates the conversation with the project that is shown now.
Selected(c) ==
    LET t == op[c].conv IN
    /\ Given(c, "select")
    /\ IF view.project = None THEN UNCHANGED <<assoc, archived>>
       ELSE Associate(view.project, {t}, "keep")
    /\ view' = Selects(view, t) /\ Ends(c)
    /\ UNCHANGED <<engineStore, pinned, made, wiped>>

LinkOpened(c) ==
    /\ Given(c, "link")
    /\ view' = [project |-> op[c].project, archived |-> FALSE, listed |-> {op[c].conv},
                selected |-> op[c].conv]
    /\ Ends(c)
    /\ UNCHANGED <<engineStore, database, made, wiped>>

\* archiveThread, unarchiveThread and deleteThread do what their notification did, and
\* the list is loaded again.
Changed(c) ==
    LET t == op[c].conv
        v == Without(view, t) IN
    /\ op[c].op \in {"archive", "unarchive", "delete"} /\ op[c].answer = "given"
    /\ IF op[c].op = "delete" THEN RemoveAssociation(t)
       ELSE SetArchived(t, op[c].op = "archive") /\ UNCHANGED <<assoc, pinned>>
    /\ view' = v /\ Reloads(c, v, None)
    /\ UNCHANGED <<engineStore, made, wiped>>

\* forkThread throws when no project is shown any more.
Forked(c) ==
    LET t == op[c].new IN
    /\ Given(c, "fork")
    /\ IF view.project = None THEN UNCHANGED <<assoc, archived, view>>
       ELSE /\ Associate(view.project, {t}, "keep")
            /\ view' = [project |-> view.project, archived |-> FALSE, listed |-> {t},
                        selected |-> t]
    /\ Ends(c)
    /\ UNCHANGED <<engineStore, pinned, made, wiped>>

Started(c) ==
    LET t == op[c].new IN
    /\ op[c].op \in {"start", "scheduled"} /\ op[c].answer = "given"
    /\ Associate(op[c].project, {t}, "keep")
    /\ view' = IF op[c].op = "start" THEN Selects([view EXCEPT !.project = op[c].project], t)
               ELSE [view EXCEPT !.listed = @ \cup {t}]
    /\ Ends(c)
    /\ UNCHANGED <<engineStore, pinned, made, wiped>>

Restored(c) ==
    LET t == op[c].conv
        v == Selects([view EXCEPT !.archived = FALSE], t) IN
    /\ Given(c, "restore")
    /\ SetArchived(t, FALSE)
    /\ view' = v /\ Reloads(c, [v EXCEPT !.project = op[c].project], t)
    /\ UNCHANGED <<engineStore, assoc, pinned, made, wiped>>

-----------------------------------------------------------------------------
(* #migrateThreadProvider.                                                 *)

\* The new conversation is associated and takes the pin; when the row of the old one is
\* gone the pin cannot move, and the new one is given up.
MigrationMade(c) ==
    LET r == op[c] IN
    /\ Given(c, "migrate") /\ r.asks = "make"
    /\ IF r.pin /\ assoc[r.conv] # r.project
         THEN /\ UNCHANGED database
              /\ Asks(c, [r EXCEPT !.op = "rollback", !.asks = "delete", !.answer = "none"])
         ELSE /\ Associate(r.project, {r.new}, "active")
              /\ pinned' = IF r.pin THEN (pinned \ {r.conv}) \cup {r.new} ELSE pinned
              /\ Asks(c, [r EXCEPT !.asks = "archive", !.answer = "none"])
    /\ UNCHANGED <<engineStore, view, made, wiped>>

MigrationCommits(c) ==
    LET r == op[c] IN
    /\ Given(c, "migrate") /\ r.asks = "archive"
    /\ SetArchived(r.conv, TRUE)
    /\ view' = Selects(Without(view, r.conv), r.new)
    /\ Ends(c)
    /\ UNCHANGED <<engineStore, assoc, pinned, made, wiped>>

\* The name could not be set or the old conversation not be archived.  The row of the new
\* one is removed and the pin goes back; if it cannot, nobody deletes the new one.
MigrationFails(c) ==
    LET r == op[c] IN
    /\ r.op = "migrate" /\ r.asks = "archive" /\ r.answer # "given"
    /\ assoc' = [assoc EXCEPT ![r.new] = None] /\ archived' = archived \ {r.new}
    /\ IF r.pin /\ assoc[r.conv] # r.project
         THEN pinned' = pinned \ {r.new} /\ Ends(c)
         ELSE /\ pinned' = (pinned \ {r.new}) \cup (IF r.pin THEN {r.conv} ELSE {})
              /\ Asks(c, [r EXCEPT !.op = "rollback", !.asks = "delete", !.answer = "none"])
    /\ UNCHANGED <<engineStore, view, made, wiped>>

RollbackEnds(c) ==
    /\ op[c].op = "rollback" /\ op[c].answer # "none"
    /\ Ends(c)
    /\ UNCHANGED <<engineStore, database, view, made, wiped>>

-----------------------------------------------------------------------------

\* A request fails and with it the call.  selectThread brings back a conversation that
\* turns out to be archived, and asks for it again.
CallFails(c) ==
    /\ op[c].asks \notin {"none", "pins"} /\ op[c].answer # "given"
    /\ ~(op[c].op = "migrate" /\ op[c].asks = "archive")
    /\ Ends(c)
    /\ UNCHANGED <<engineStore, database, view, made, wiped>>

FoundArchived(c) ==
    /\ op[c].op = "select" /\ op[c].asks = "resume" /\ op[c].answer = "none"
    /\ kept[op[c].conv] = "archived" /\ NoneAnswered
    /\ Asks(c, [op[c] EXCEPT !.asks = "unarchive"])
    /\ UNCHANGED <<engineStore, database, view, made, wiped>>

\* The app ends or crashes and starts again.
AppRestarts ==
    /\ view # EmptyView
    /\ view' = EmptyView /\ op' = [c \in Slots |-> NoCall]
    /\ UNCHANGED <<engineStore, database, made, wiped>>

ConvStep ==
    \/ \E c \in Slots :
         \/ \E p \in Projects, a \in BOOLEAN : LoadProject(c, p, a)
         \/ \E t \in Convs :
              \/ SelectThread(c, t) \/ ArchiveThread(c, t) \/ UnarchiveThread(c, t)
              \/ DeleteThread(c, t) \/ ForkThread(c, t) \/ SwitchProvider(c, t)
              \/ ContinueArchived(c, t)
              \/ \E p \in Projects : OpenLinkedThread(c, p, t)
         \/ \E o \in Ops, p \in Projects : StartConversation(c, o, p)
         \/ Serve(c)
         \/ PageArrives(c) \/ ListShown(c) \/ Selected(c) \/ LinkOpened(c) \/ Changed(c)
         \/ Forked(c) \/ Started(c) \/ Restored(c)
         \/ MigrationMade(c) \/ MigrationCommits(c) \/ MigrationFails(c) \/ RollbackEnds(c)
         \/ CallFails(c) \/ FoundArchived(c)
    \/ \E t \in Convs : SetThreadPinned(t)
    \/ AppRestarts

ConvNext ==
    /\ ConvStep
    /\ owned' = owned \cup {t \in Convs : root'[t] = t /\ assoc'[t] # None}

ConvSpec == ConvInit /\ [][ConvNext]_convVars

-----------------------------------------------------------------------------

\* Whatever step of a switch of provider fails, and whatever else happens to the list,
\* a conversation that belonged to a project and was not deleted by the user is not
\* lost: it, or one that continues it, still exists in the engine and belongs to one.
ConversationIsKept ==
    \A t \in owned \ wiped :
        \E u \in Convs : root[u] = t /\ kept[u] # "absent" /\ assoc[u] # None
=============================================================================
