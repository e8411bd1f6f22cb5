------------------------------ MODULE Discards ------------------------------
(***************************************************************************)
(* The changes of one project under the Git panel: GitService of           *)
(* src/main/git/gitService.ts with its recoverable discards, and the hunks *)
(* of src/main/git/diffService.ts.                                         *)
(*                                                                         *)
(* A change is an edit of a path: committed, staged, in the working tree,  *)
(* in a stash entry or in a discard ref.  One path may be staged as the    *)
(* new name of another; such a rename is neither committed nor unstaged,   *)
(* only discarded.  An action is one Git command, external, with the check *)
(* the service makes of its answer; the user works on the files outside    *)
(* the app between any two.  A command that fails may have done its work.  *)
(***************************************************************************)
EXTENDS ServiceBounds, Sequences

CONSTANTS
    Source,       \* a path, committed from the beginning
    Target,       \* a path that Source may be renamed to; not committed
    MaxEdits,     \* bound: edits of one path
    MaxDiscards,  \* MAX_DISCARD_SNAPSHOTS
    MaxDiscarded, \* bound: discards begun in one behaviour
    MaxStash,     \* bound: entries the user's own stashing makes
    Habits        \* what the user does: "recreate", make a new file where a renamed one
                  \* was; "stash", use the stash while a discard is under way

ASSUME DiscardsAssumption ==
    /\ Source # Target /\ {MaxEdits, MaxDiscards, MaxDiscarded, MaxStash} \subseteq Nat

VARIABLES
    committed, staged, changed, \* the edits in HEAD, in the index, and in the tree alone
    rename,     \* Source -> Target in the index: "no", "yes", or "half" without Target
    unmerged,   \* an apply left conflicts
    stashes,    \* the stash, newest first
    refs,       \* refs/norevinq/discards/<id>
    discarding, \* the operation that holds the lock of the project
    discarded,  \* how many discards were begun
    taken       \* edits a discard took out of the index and the tree

tree == <<committed, staged, changed, rename, unmerged>>
discardVars == <<tree, stashes, refs, discarding, discarded, taken>>

Paths == {Source, Target}
Edits == Paths \X (1 .. MaxEdits)
Discarded == 1 .. MaxDiscarded

At(es, path) == {e \in es : e[1] = path}

\* What stash push records; id 0 is the user's.
Entries == [id : 0 .. MaxDiscarded, staged : SUBSET Edits, changed : SUBSET Edits,
            rename : BOOLEAN, tracked : BOOLEAN, path : Paths]

NoOperation == [step |-> "idle", id |-> 0, path |-> Source, selector |-> 0, sources |-> FALSE]

DiscardTypeOK ==
    /\ committed \subseteq Edits /\ staged \subseteq Edits /\ changed \subseteq Edits
    /\ rename \in {"no", "yes", "half"} /\ unmerged \in BOOLEAN
    /\ \A i \in 1 .. Len(stashes) : stashes[i] \in Entries
    /\ DOMAIN refs \subseteq Discarded /\ \A i \in DOMAIN refs : refs[i] \in Entries
    /\ discarding.step \in {"idle", "push", "find", "secure", "verify", "drop", "sources",
                            "apply", "forget"}
    /\ discarding.id \in 0 .. MaxDiscarded /\ discarded \in 0 .. MaxDiscarded
    /\ taken \subseteq Edits

DiscardInit ==
    /\ committed = {} /\ staged = {} /\ changed = {} /\ rename = "no" /\ unmerged = FALSE
    /\ stashes = <<>> /\ refs = <<>> /\ discarding = NoOperation /\ discarded = 0
    /\ taken = {}

-----------------------------------------------------------------------------
(* Building blocks.                                                        *)

\* getStatus, parsePorcelainV2Z: the files with changes.  A renamed file is listed under
\* its new name; a file made again where it was is listed as untracked.
ChangedFiles ==
    {path \in Paths : At(staged \cup changed, path) # {}}
        \cup (IF rename = "yes" THEN {Target} ELSE {})
        \cup (IF rename = "half" THEN {Source} ELSE {})

TrackedAtHead(path) == path = Source \/ At(committed, path) # {}

Step(s) == discarding' = [discarding EXCEPT !.step = s]

Release == discarding' = NoOperation

WithoutEntry(s, n) == [i \in 1 .. Len(s) - 1 |-> IF i < n THEN s[i] ELSE s[i + 1]]

Entry(id, path, of) ==
    [id |-> id, staged |-> At(staged, path), changed |-> At(changed, path),
     rename |-> rename = "yes" /\ path = Target, tracked |-> of, path |-> path]

EditsOf(entry) == entry.staged \cup entry.changed

\* stash push -- path: the path is as in HEAD; of a rename the missing source is left.
Push(entry) ==
    /\ stashes' = <<entry>> \o stashes
    /\ staged' = staged \ At(staged, entry.path) /\ changed' = changed \ At(changed, entry.path)
    /\ rename' = IF entry.rename THEN "half" ELSE rename
    /\ UNCHANGED <<committed, unmerged>>

\* stash apply --index, onto files that HEAD may have changed meanwhile.
Apply(entry) ==
    /\ staged' = staged \cup (entry.staged \ committed)
    /\ changed' = changed \cup (entry.changed \ (committed \cup entry.staged))
    /\ rename' = IF entry.rename /\ rename = "no" THEN "yes" ELSE rename
    /\ UNCHANGED <<committed, unmerged>>

CanApply(entry) ==
    /\ At(staged \cup changed, entry.path) = {}
    /\ entry.path = Source => rename = "no"
    /\ entry.rename => rename = "no" /\ At(staged \cup changed, Source) = {}

-----------------------------------------------------------------------------
(* discardFile.                                                            *)

DiscardBegins(path) ==
    /\ discarding.step = "idle" /\ discarded < MaxDiscarded
    /\ path \in ChangedFiles /\ ~unmerged
    /\ Cardinality(DOMAIN refs) < MaxDiscards
    /\ discarded' = discarded + 1
    /\ discarding' = [step |-> "push", id |-> discarded', path |-> path, selector |-> 0,
                      sources |-> rename = "yes" /\ path = Target]
    /\ UNCHANGED <<tree, stashes, refs, taken>>

\* Nothing is stashed when nothing is left to stash, and no entry found afterwards.
StashPush ==
    /\ discarding.step = "push" /\ ~unmerged
    /\ LET entry == Entry(discarding.id, discarding.path, TrackedAtHead(discarding.path)) IN
         IF EditsOf(entry) = {} /\ ~entry.rename THEN UNCHANGED <<tree, stashes, taken>>
         ELSE Push(entry) /\ taken' = taken \cup EditsOf(entry)
    /\ Step("find") \/ Release
    /\ UNCHANGED <<refs, discarded>>

\* findStashBySubject
FindStash ==
    /\ discarding.step = "find"
    /\ \/ \E n \in 1 .. Len(stashes) :
            /\ stashes[n].id = discarding.id
            /\ discarding' = [discarding EXCEPT !.step = "secure", !.selector = n]
       \/ (\A n \in 1 .. Len(stashes) : stashes[n].id # discarding.id) /\ Release
    /\ UNCHANGED <<tree, stashes, refs, discarded, taken>>

Own == CHOOSE n \in 1 .. Len(stashes) : stashes[n].id = discarding.id

\* update-ref of the commit that was found, and of what it records.
SecureRef ==
    /\ discarding.step = "secure"
    /\ \E n \in 1 .. Len(stashes) : stashes[n].id = discarding.id
    /\ refs' = [i \in DOMAIN refs \cup {discarding.id} |->
                  IF i = discarding.id THEN stashes[Own] ELSE refs[i]]
    /\ Step("verify") \/ Release
    /\ UNCHANGED <<tree, stashes, discarded, taken>>

VerifyStash ==
    /\ discarding.step = "verify"
    /\ IF discarding.selector <= Len(stashes) /\ stashes[discarding.selector].id = discarding.id
         THEN Step("drop") ELSE Release
    /\ UNCHANGED <<tree, stashes, refs, discarded, taken>>

\* stash drop takes what is at the selector by now.
DropStash ==
    /\ discarding.step = "drop"
    /\ stashes' = IF discarding.selector <= Len(stashes) THEN WithoutEntry(stashes, discarding.selector)
                  ELSE stashes
    /\ (IF discarding.sources /\ stashes' # stashes THEN Step("sources") ELSE Release) \/ Release
    /\ UNCHANGED <<tree, refs, discarded, taken>>

\* restore --source=HEAD --staged --worktree -- <the source of the rename>
RestoreSources ==
    /\ discarding.step = "sources"
    /\ staged' = staged \ At(staged, Source) /\ changed' = changed \ At(changed, Source)
    /\ rename' = IF rename = "half" THEN "no" ELSE rename
    /\ taken' = taken \cup At(staged \cup changed, Source)
    /\ Release
    /\ UNCHANGED <<committed, unmerged, stashes, refs, discarded>>

\* A command fails or times out before it does anything, or the app crashes.
CommandFails ==
    /\ discarding.step # "idle"
    /\ Release
    /\ UNCHANGED <<tree, stashes, refs, discarded, taken>>

-----------------------------------------------------------------------------
(* restoreDiscard.                                                         *)

Occupied(entry) ==
    ~entry.tracked /\ At(committed \cup staged \cup changed, entry.path) # {}

\* The target has no changes: neither the file nor, of a rename, the file it was, by its
\* name now or before.
RestoreBegins(id) ==
    /\ discarding.step = "idle" /\ id \in DOMAIN refs
    /\ ({refs[id].path} \cup (IF refs[id].rename THEN {Source} ELSE {}))
         \cap (ChangedFiles \cup (IF rename = "yes" THEN {Source} ELSE {})) = {}
    /\ ~Occupied(refs[id])
    /\ discarding' = [NoOperation EXCEPT !.step = "apply", !.id = id]
    /\ UNCHANGED <<tree, stashes, refs, discarded, taken>>

\* Fault: the ref goes first, and a failed apply leaves nothing to try again with.
Fault_ForgetFirst ==
    /\ discarding.step = "apply" /\ discarding.id \in DOMAIN refs
    /\ refs' = [i \in DOMAIN refs \ {discarding.id} |-> refs[i]]
    /\ Release
    /\ UNCHANGED <<tree, stashes, discarded, taken>>

\* Git refuses when files were changed since, or cannot merge and leaves conflicts.
ApplyStash ==
    LET entry == refs[discarding.id] IN
    /\ discarding.step = "apply" /\ discarding.id \in DOMAIN refs /\ ~unmerged
    /\ \/ /\ CanApply(entry) /\ Apply(entry)
          /\ Step("forget") \/ Release
          /\ taken' = taken \ EditsOf(entry)
       \/ /\ ~CanApply(entry) \/ At(committed, entry.path) # {}
          /\ Release
          /\ unmerged' = TRUE /\ UNCHANGED <<committed, staged, changed, rename, taken>>
    /\ UNCHANGED <<stashes, refs, discarded>>

\* update-ref -d, once the edits are back.
ForgetRef ==
    /\ discarding.step = "forget"
    /\ refs' = [i \in DOMAIN refs \ {discarding.id} |-> refs[i]]
    /\ Release
    /\ UNCHANGED <<tree, stashes, discarded, taken>>

-----------------------------------------------------------------------------
(* stage, unstage, commit, and the hunks of a diff: none of them waits for a *)
(* discard.                                                                *)

Stage(path) ==
    /\ At(changed, path) # {}
    /\ staged' = staged \cup At(changed, path) /\ changed' = changed \ At(changed, path)
    /\ UNCHANGED <<committed, rename, unmerged, stashes, refs, discarding, discarded, taken>>

Unstage(path) ==
    /\ At(staged, path) # {} /\ rename = "no"
    /\ changed' = changed \cup At(staged, path) /\ staged' = staged \ At(staged, path)
    /\ UNCHANGED <<committed, rename, unmerged, stashes, refs, discarding, discarded, taken>>

Commit ==
    /\ staged # {} /\ ~unmerged /\ rename = "no"
    /\ committed' = committed \cup staged /\ staged' = {}
    /\ UNCHANGED <<changed, rename, unmerged, stashes, refs, discarding, discarded, taken>>

\* getDiff: what a diff of the index or of the working tree shows.
Hunks(mode) == IF mode = "staged" THEN staged ELSE changed

\* A hunk of an earlier diff: git apply refuses one that is no longer as it was shown.
\* An untracked file is not reverted.
ApplyHunk(e, action) ==
    /\ e \in Hunks(IF action = "unstage" THEN "staged" ELSE "working")
    /\ CASE action = "stage"   -> /\ staged' = staged \cup {e} /\ changed' = changed \ {e}
         [] action = "unstage" -> /\ rename = "no"
                                  /\ changed' = changed \cup {e} /\ staged' = staged \ {e}
         [] action = "revert"  -> /\ TrackedAtHead(e[1])
                                  /\ changed' = changed \ {e} /\ UNCHANGED staged
    /\ UNCHANGED <<committed, rename, unmerged, stashes, refs, discarding, discarded, taken>>

-----------------------------------------------------------------------------
(* The user, outside the app.                                              *)

Somewhere == committed \cup staged \cup changed \cup taken
                 \cup UNION {EditsOf(stashes[i]) : i \in 1 .. Len(stashes)}

Edit(e) ==
    /\ e \in Edits \ Somewhere /\ ~unmerged
    /\ e[1] = Source => rename = "no" \/ "recreate" \in Habits
    /\ changed' = changed \cup {e}
    /\ UNCHANGED <<committed, staged, rename, unmerged, stashes, refs, discarding, discarded, taken>>

\* git mv; the edits of the source would move along, so it has none.
Rename ==
    /\ rename = "no" /\ At(committed \cup staged \cup changed, Target) = {}
    /\ At(staged \cup changed, Source) = {}
    /\ rename' = "yes"
    /\ UNCHANGED <<committed, staged, changed, unmerged, stashes, refs, discarding, discarded, taken>>

MayStash == discarding.step = "idle" \/ "stash" \in Habits

UserStashes(path) ==
    /\ MayStash
    /\ At(staged \cup changed, path) # {} /\ rename = "no" /\ ~unmerged
    /\ Cardinality({i \in 1 .. Len(stashes) : stashes[i].id = 0}) < MaxStash
    /\ Push(Entry(0, path, TRUE))
    /\ UNCHANGED <<refs, discarding, discarded, taken>>

\* git stash pop, of an entry a discard made as well.
UserPops ==
    /\ MayStash /\ stashes # <<>> /\ ~unmerged
    /\ CanApply(stashes[1]) /\ Apply(stashes[1]) /\ stashes' = WithoutEntry(stashes, 1)
    /\ taken' = taken \ EditsOf(stashes[1])
    /\ UNCHANGED <<refs, discarding, discarded>>

ResolveConflicts ==
    /\ unmerged /\ unmerged' = FALSE
    /\ UNCHANGED <<committed, staged, changed, rename, stashes, refs, discarding, discarded, taken>>

DiscardNext ==
    \/ \E path \in Paths :
         DiscardBegins(path) \/ Stage(path) \/ Unstage(path) \/ UserStashes(path)
    \/ StashPush \/ FindStash \/ SecureRef \/ VerifyStash \/ DropStash \/ RestoreSources
    \/ CommandFails
    \/ \E id \in Discarded : RestoreBegins(id)
    \/ ApplyStash \/ ForgetRef
    \/ Commit
    \/ \E e \in Edits : Edit(e) \/ \E a \in {"stage", "unstage", "revert"} : ApplyHunk(e, a)
    \/ Rename \/ UserPops \/ ResolveConflicts

DiscardSpec == DiscardInit /\ [][DiscardNext]_discardVars

-----------------------------------------------------------------------------

Recoverable ==
    UNION ({EditsOf(stashes[i]) : i \in 1 .. Len(stashes)}
             \cup {EditsOf(refs[i]) : i \in DOMAIN refs})

\* What a discard takes from the user can be brought back: it stays in a ref or in the
\* stash until a restore has put it back, whichever command fails, whatever the user
\* edits and commits meanwhile and stashes between two operations, and if the app
\* crashes.
DiscardsAreRecoverable == taken \subseteq Recoverable
=============================================================================
