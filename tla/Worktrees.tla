------------------------------ MODULE Worktrees ------------------------------
(***************************************************************************)
(* The managed worktrees of one project: create, list, lock, unlock and    *)
(* remove of src/main/worktree/worktreeService.ts, the rows of             *)
(* managed_worktrees and the worktree of project_threads in                *)
(* src/main/state/database.ts, and the start of a conversation in a        *)
(* worktree, in src/main/agent/agentService.ts.                            *)
(*                                                                         *)
(* Each git command is awaited, so calls interleave between any two.  git  *)
(* is external: any command may fail; without --force it does not remove a *)
(* worktree with work in it, and never one that is locked.  Handoffs,      *)
(* which move work between worktrees, are the subject of Handoff.          *)
(***************************************************************************)
EXTENDS ServiceBounds

CONSTANTS
    Trees,  \* bound: the identifiers of the worktrees created
    Chats   \* the conversations

ASSUME WorktreesAssumption == {None, "absent"} \cap Trees = {}

VARIABLES
    registered,   \* the project is in the table projects
    treeRecords,  \* managed_worktrees
    dirs,         \* the directories, and what git says of them
    inTree,       \* project_threads: absent, None for the project itself, or a worktree
    listed,       \* the worktrees the window shows
    treeCall      \* the calls under way

treeVars == <<registered, treeRecords, dirs, inTree, listed, treeCall>>

NoDir == [there |-> FALSE, locked |-> FALSE, work |-> FALSE]
NoTreeCall == [op |-> "none", tree |-> None, force |-> FALSE, chat |-> None]
TreeSteps == {"none", "adding", "including", "listing", "undoing", "removing", "removed", "relisting",
          "starting"}

TreeTypeOK ==
    /\ registered \in BOOLEAN /\ treeRecords \subseteq Trees /\ listed \subseteq Trees
    /\ dirs \in [Trees -> [there : BOOLEAN, locked : BOOLEAN, work : BOOLEAN]]
    /\ \A t \in Trees : ~dirs[t].there => dirs[t] = NoDir
    /\ inTree \in [Chats -> Trees \cup {None, "absent"}]
    /\ treeCall \in [Slots -> [op : TreeSteps, tree : Trees \cup {None}, force : BOOLEAN,
                               chat : Chats \cup {None}]]

TreeInit ==
    /\ registered = TRUE /\ treeRecords = {} /\ listed = {}
    /\ dirs = [t \in Trees |-> NoDir]
    /\ inTree = [c \in Chats |-> "absent"]
    /\ treeCall = [s \in Slots |-> NoTreeCall]

TreeGoes(s, op) == treeCall' = [treeCall EXCEPT ![s].op = op]
TreeEnds(s) == treeCall' = [treeCall EXCEPT ![s] = NoTreeCall]
AtStep(s, op) == treeCall[s].op = op
CalledTree(s) == treeCall[s].tree

-----------------------------------------------------------------------------
(* create.                                                                 *)

CreateTree(s, t) ==
    /\ AtStep(s, "none") /\ registered
    /\ ~dirs[t].there /\ t \notin treeRecords /\ \A r \in Slots : CalledTree(r) # t
    /\ treeCall' = [treeCall EXCEPT ![s] = [NoTreeCall EXCEPT !.op = "adding", !.tree = t]]
    /\ UNCHANGED <<registered, treeRecords, dirs, inTree, listed>>

\* git worktree add; when it fails there is nothing to undo.
TreeAdded(s) ==
    /\ AtStep(s, "adding")
    /\ dirs' = [dirs EXCEPT ![CalledTree(s)].there = TRUE]
    /\ TreeGoes(s, "including")
    /\ UNCHANGED <<registered, treeRecords, inTree, listed>>

\* copyWorktreeIncludes has copied the files; the row refers to the project.
IncludesCopied(s) ==
    /\ AtStep(s, "including")
    /\ IF registered
         THEN treeRecords' = treeRecords \cup {CalledTree(s)} /\ TreeGoes(s, "listing")
         ELSE UNCHANGED treeRecords /\ TreeGoes(s, "undoing")
    /\ UNCHANGED <<registered, dirs, inTree, listed>>

\* Every other failure of create removes the directory; the row stays.
CreateFails(s) ==
    /\ \/ AtStep(s, "adding") /\ TreeEnds(s)
       \/ AtStep(s, "including") /\ TreeGoes(s, "undoing")
       \/ AtStep(s, "listing") /\ TreeGoes(s, "undoing")
       \/ AtStep(s, "undoing") /\ TreeEnds(s)
    /\ UNCHANGED <<registered, treeRecords, dirs, inTree, listed>>

CreateUndone(s) ==
    /\ AtStep(s, "undoing") /\ ~dirs[CalledTree(s)].locked
    /\ dirs' = [dirs EXCEPT ![CalledTree(s)] = NoDir]
    /\ TreeEnds(s)
    /\ UNCHANGED <<registered, treeRecords, inTree, listed>>

-----------------------------------------------------------------------------
(* list, lock and unlock.                                                  *)

\* The rows, each with what git says of it; also the answer of create and remove.
Listed(s) ==
    /\ \/ AtStep(s, "none") /\ registered /\ UNCHANGED treeCall
       \/ (AtStep(s, "listing") \/ AtStep(s, "relisting")) /\ registered /\ TreeEnds(s)
    /\ listed' = treeRecords
    /\ UNCHANGED <<registered, treeRecords, dirs, inTree>>

SetLocked(t, locked) ==
    /\ t \in treeRecords /\ registered /\ dirs[t].there /\ dirs[t].locked # locked
    /\ dirs' = [dirs EXCEPT ![t].locked = locked]
    /\ listed' = treeRecords
    /\ UNCHANGED <<registered, treeRecords, inTree, treeCall>>

-----------------------------------------------------------------------------
(* remove.                                                                 *)

\* countThreadsForWorktree; the count of pending recoveries is left to Handoff.
TreeIsFree(t) == \A c \in Chats : inTree[c] # t

RemoveWorktree(s, t, force) ==
    /\ AtStep(s, "none") /\ registered /\ t \in treeRecords
    /\ TreeIsFree(t)
    /\ treeCall' = [treeCall EXCEPT ![s] = [NoTreeCall EXCEPT
           !.op = IF dirs[t].there THEN "removing" ELSE "removed", !.tree = t, !.force = force]]
    /\ UNCHANGED <<registered, treeRecords, dirs, inTree, listed>>

\* git worktree remove, with --force if the user asked for it.
TreeRemoved(s) ==
    LET t == CalledTree(s) IN
    /\ AtStep(s, "removing")
    /\ dirs[t].there /\ ~dirs[t].locked /\ (treeCall[s].force \/ ~dirs[t].work)
    /\ dirs' = [dirs EXCEPT ![t] = NoDir]
    /\ TreeGoes(s, "removed")
    /\ UNCHANGED <<registered, treeRecords, inTree, listed>>

RemoveFails(s) ==
    /\ AtStep(s, "removing") \/ AtStep(s, "relisting")
    /\ TreeEnds(s)
    /\ UNCHANGED <<registered, treeRecords, dirs, inTree, listed>>

\* Fault: nothing was in the worktree when the removal began.
Fault_KeepAssociations(t) == inTree

\* deleteManagedWorktree: conversations that came meanwhile fall back to the project.
Detached(t) == [c \in Chats |-> IF inTree[c] = t THEN None ELSE inTree[c]]

RecordDeleted(s) ==
    LET t == CalledTree(s) IN
    /\ AtStep(s, "removed")
    /\ inTree' = Detached(t)
    /\ treeRecords' = treeRecords \ {t}
    /\ treeCall' = [treeCall EXCEPT ![s] = [NoTreeCall EXCEPT !.op = "relisting"]]
    /\ UNCHANGED <<registered, dirs, listed>>

-----------------------------------------------------------------------------
(* Conversations, work, and the project.                                   *)

\* requireWorktreePath, then thread/start is awaited.
BeginConversation(s, c, t) ==
    /\ AtStep(s, "none") /\ registered /\ inTree[c] = "absent"
    /\ \A r \in Slots : treeCall[r].chat # c
    /\ t \in listed \cap treeRecords /\ dirs[t].there
    /\ treeCall' = [treeCall EXCEPT ![s] =
           [NoTreeCall EXCEPT !.op = "starting", !.tree = t, !.chat = c]]
    /\ UNCHANGED <<registered, treeRecords, dirs, inTree, listed>>

\* associateThread refers to the project, not to the worktree.
ConversationStarted(s) ==
    /\ AtStep(s, "starting")
    /\ inTree' = IF registered THEN [inTree EXCEPT ![treeCall[s].chat] = CalledTree(s)] ELSE inTree
    /\ TreeEnds(s)
    /\ UNCHANGED <<registered, treeRecords, dirs, listed>>

\* A turn, a terminal or the user's editor changes files of a worktree the window shows.
\* Nobody works in one whose create has not returned.
Work(t) ==
    /\ dirs[t].there /\ ~dirs[t].work /\ t \in listed
    /\ \A s \in Slots : CalledTree(s) = t => treeCall[s].op \in {"removing", "removed", "starting"}
    /\ dirs' = [dirs EXCEPT ![t].work = TRUE]
    /\ UNCHANGED <<registered, treeRecords, inTree, listed, treeCall>>

\* removeProject: the rows go by ON DELETE CASCADE, the directories stay.
ProjectRemoved ==
    /\ registered
    /\ registered' = FALSE
    /\ treeRecords' = {} /\ listed' = {}
    /\ inTree' = [c \in Chats |-> "absent"]
    /\ UNCHANGED <<dirs, treeCall>>

AppKilled ==
    /\ \E s \in Slots : ~AtStep(s, "none")
    /\ treeCall' = [s \in Slots |-> NoTreeCall]
    /\ listed' = {}
    /\ UNCHANGED <<registered, treeRecords, dirs, inTree>>

TreeNext ==
    \/ \E s \in Slots :
         \/ \E t \in Trees : CreateTree(s, t)
         \/ TreeAdded(s) \/ IncludesCopied(s) \/ CreateFails(s) \/ CreateUndone(s) \/ Listed(s)
         \/ \E t \in Trees, force \in BOOLEAN : RemoveWorktree(s, t, force)
         \/ TreeRemoved(s) \/ RemoveFails(s) \/ RecordDeleted(s)
         \/ \E c \in Chats, t \in Trees : BeginConversation(s, c, t)
         \/ ConversationStarted(s)
    \/ \E t \in Trees, locked \in BOOLEAN : SetLocked(t, locked)
    \/ \E t \in Trees : Work(t)
    \/ ProjectRemoved \/ AppKilled

TreeSpec == TreeInit /\ [][TreeNext]_treeVars

-----------------------------------------------------------------------------
(* Properties.                                                             *)

\* Call s removes t by force, as the user asked.
ForcedRemoval(s, t) == AtStep(s, "removing") /\ CalledTree(s) = t /\ treeCall[s].force

\* Work in a worktree disappears only when the user forced its removal, never because a
\* create is undone, a command fails or the application is killed; and the deletion of a
\* record leaves no conversation in the worktree it described, also none that was started
\* there while git removed it.
WorktreeWorkIsKept ==
    [][\A t \in Trees :
         /\ dirs[t].work /\ ~dirs'[t].work => \E s \in Slots : ForcedRemoval(s, t)
         /\ t \in treeRecords /\ t \notin treeRecords' =>
              \A c \in Chats : inTree[c] = t => inTree'[c] # t]_treeVars
=============================================================================
