---------------------------- MODULE ServiceProofs ----------------------------
(***************************************************************************)
(* Proofs about services that share no state: updates, pull requests,      *)
(* worktrees, conversations, activity, discards, file previews, the        *)
(* browser preview, the stored data at startup, the window, and the        *)
(* security scans with their runtime and the estimate of their usage.      *)
(***************************************************************************)
EXTENDS Updates, PullRequests, Worktrees, Conversations, Activity, Discards,
        FilePreviews, BrowserPreview, LocalData, Window, Scans, SecurityRuntime,
        UsageEstimate, SequenceTheorems, FiniteSetTheorems, TLAPS

-----------------------------------------------------------------------------
(* Updates.  The phase has to follow the updater in both directions: only    *)
(* then is an event of the updater one of the work the phase claims.         *)

UpInv ==
    /\ PhaseFollowsUpdater
    /\ updater = "check" => updatePhase = "checking"
    /\ updater = "download" => updatePhase = "downloading"

LEMMA UpStart == UpInit => UpInv
BY DEF UpInit, UpInv, PhaseFollowsUpdater

LEMMA UpKept == UpInv /\ [UpNext]_upVars => UpInv'
<1> SUFFICES ASSUME UpInv, [UpNext]_upVars PROVE UpInv'
    OBVIOUS
<1> USE DEF UpInv, PhaseFollowsUpdater
<1>1. CASE StartAutomaticChecks \/ DisposeUpdates
    BY <1>1 DEF StartAutomaticChecks, DisposeUpdates
<1>2. CASE UserChecks \/ UpdateTimerFires
    BY <1>2 DEF UserChecks, UpdateTimerFires, CheckForUpdates
<1>3. CASE DownloadUpdate \/ InstallUpdate
    BY <1>3 DEF DownloadUpdate, InstallUpdate, RecordError
<1>4. CASE Event
    BY <1>4 DEF Event, Available, NotAvailable, DownloadProgress, Downloaded, Cancelled, RecordError
<1>5. CASE UNCHANGED upVars
    BY <1>5 DEF upVars
<1> QED
    BY <1>1, <1>2, <1>3, <1>4, <1>5 DEF UpNext

\* However many calls are made and errors reported, the phase claims no work the updater
\* is not at, a download stays installable until an error is reported, and after one it
\* can be asked for again (#connectDriver, #recordError and the calls).
THEOREM PhasesFollowTheUpdater == UpSpec => []PhaseFollowsUpdater
<1>1. UpInv => PhaseFollowsUpdater
    BY DEF UpInv
<1> QED
    BY UpStart, UpKept, <1>1, PTL DEF UpSpec

-----------------------------------------------------------------------------
(* Pull requests.  Between the list and the creation the call remembers that *)
(* its branch has no request of the app: only the call that others share is  *)
(* under way, and it opens the only requests of the app.                     *)

PRInv ==
    /\ OnePullRequestPerBranch
    /\ ghCall \in [Slots -> [at : Stages, branch : Heads, base : Bases \cup {None}]]
    /\ \A c \in Slots : ghCall[c].at # "free" => activeCreates = c
    /\ \A p \in pulls : p.by = "app" => p.owner = "we"
    /\ \A c \in Slots : ghCall[c].at \in {"push", "create"} =>
         \A p \in pulls : ~(p.by = "app" /\ p.branch = ghCall[c].branch)

LEMMA PRStart == PRInit => PRInv
BY PullRequestsAssumption DEF PRInit, PRInv, OnePullRequestPerBranch, NoGhCall, Stages, Heads

LEMMA PRKept == PRInv /\ [PRNext]_prVars => PRInv'
<1> SUFFICES ASSUME PRInv, [PRNext]_prVars PROVE PRInv'
    OBVIOUS
<1> USE ServiceBoundsAssumption DEF PRInv, OnePullRequestPerBranch, GhAt, Stages, Heads
<1>1. ASSUME NEW c \in Slots, NEW base \in Bases, CreatePullRequest(c, base) PROVE PRInv'
    BY <1>1 DEF CreatePullRequest
<1>2. ASSUME NEW c \in Slots, Preflight(c) \/ Verify(c) PROVE PRInv'
    BY <1>2 DEF Preflight, Verify
<1>3. ASSUME NEW c \in Slots, List(c) \/ Relist(c) \/ Fails(c) PROVE PRInv'
    BY <1>3 DEF List, Relist, Fails, SettleCreate, Goes, OpenPullRequests, NoGhCall
<1>4. ASSUME NEW c \in Slots, PushHead(c) PROVE PRInv'
    BY <1>4 DEF PushHead, Goes
<1>5. ASSUME NEW c \in Slots, GhCreate(c) PROVE PRInv'
    BY <1>5 DEF GhCreate, OpenPull, SettleCreate, Goes, NoGhCall
<1>6. CASE \E branch \in Heads : Checkout(branch)
    BY <1>6 DEF Checkout
<1>7. ASSUME NEW owner, NEW branch, NEW base, PersonOpens(owner, branch, base) PROVE PRInv'
    BY <1>7 DEF PersonOpens, OpenPull
<1>8. CASE \E p \in pulls : PersonCloses(p)
    BY <1>8 DEF PersonCloses
<1>9. CASE UNCHANGED prVars
    BY <1>9 DEF prVars
<1> QED
    BY <1>1, <1>2, <1>3, <1>4, <1>5, <1>6, <1>7, <1>8, <1>9 DEF PRNext

\* For any number of calls, branches and bases, the app has one open pull request for a
\* branch at a time (createPullRequest).
THEOREM BranchesHaveOnePullRequest == PRSpec => []OnePullRequestPerBranch
<1>1. PRInv => OnePullRequestPerBranch
    BY DEF PRInv
<1> QED
    BY PRStart, PRKept, <1>1, PTL DEF PRSpec

-----------------------------------------------------------------------------
(* Worktrees.  A directory that a create may have to remove by force is one  *)
(* nobody has worked in: the window shows it when the create has returned.   *)

NotYetShown == {"adding", "including", "listing", "undoing"}

TreeCallOK ==
    treeCall \in [Slots -> [op : TreeSteps, tree : Trees \cup {None}, force : BOOLEAN,
                            chat : Chats \cup {None}]]

TreeInv ==
    /\ dirs \in [Trees -> [there : BOOLEAN, locked : BOOLEAN, work : BOOLEAN]]
    /\ TreeCallOK
    /\ inTree \in [Chats -> Trees \cup {None, "absent"}]
    /\ \A t \in Trees : dirs[t].work => dirs[t].there
    /\ \A s \in Slots : AtStep(s, "removing") => CalledTree(s) \in Trees
    /\ \A s \in Slots : treeCall[s].op \in NotYetShown =>
         CalledTree(s) \in Trees /\ ~dirs[CalledTree(s)].work

LEMMA TreeStart == TreeInit => TreeInv
BY DEF TreeInit, TreeInv, TreeCallOK, NoDir, NoTreeCall, NotYetShown, AtStep, TreeSteps

\* A call that goes on keeps its worktree; one that ends is at rest.
LEMMA CallGoes ==
    ASSUME TreeCallOK, NEW s \in Slots, NEW next \in TreeSteps, TreeGoes(s, next)
    PROVE  /\ TreeCallOK'
           /\ \A r \in Slots \ {s} : treeCall'[r] = treeCall[r]
           /\ treeCall'[s].op = next /\ treeCall'[s].tree = treeCall[s].tree
BY DEF TreeCallOK, TreeGoes

LEMMA CallEnds ==
    ASSUME TreeCallOK, NEW s \in Slots, TreeEnds(s)
    PROVE  /\ TreeCallOK'
           /\ \A r \in Slots \ {s} : treeCall'[r] = treeCall[r]
           /\ treeCall'[s].op = "none"
BY DEF TreeCallOK, TreeEnds, NoTreeCall, TreeSteps

\* What WorktreeWorkIsKept says of a step.
TreeStepKeepsWork ==
    \A t \in Trees :
      /\ dirs[t].work /\ ~dirs'[t].work => \E s \in Slots : ForcedRemoval(s, t)
      /\ t \in treeRecords /\ t \notin treeRecords' => \A c \in Chats : inTree[c] = t => inTree'[c] # t

LEMMA TreeStep == TreeInv /\ [TreeNext]_treeVars => TreeInv' /\ (TreeStepKeepsWork \/ UNCHANGED treeVars)
<1> SUFFICES ASSUME TreeInv, [TreeNext]_treeVars
             PROVE  TreeInv' /\ (TreeStepKeepsWork \/ UNCHANGED treeVars)
    OBVIOUS
<1> USE WorktreesAssumption DEF TreeInv, TreeStepKeepsWork, AtStep, CalledTree, NotYetShown, TreeSteps
<1>1. ASSUME NEW s \in Slots, NEW t \in Trees, CreateTree(s, t) PROVE TreeInv' /\ TreeStepKeepsWork
    BY <1>1 DEF TreeCallOK, CreateTree, NoTreeCall
<1>2. ASSUME NEW s \in Slots, TreeAdded(s) PROVE TreeInv' /\ TreeStepKeepsWork
  <2>1. \A t \in Trees : dirs'[t].work = dirs[t].work /\ (dirs[t].there => dirs'[t].there)
    BY <1>2 DEF TreeAdded
  <2>2. dirs' \in [Trees -> [there : BOOLEAN, locked : BOOLEAN, work : BOOLEAN]]
    BY <1>2 DEF TreeAdded
  <2>3. TreeGoes(s, "including")
    BY <1>2 DEF TreeAdded
  <2>4. UNCHANGED <<inTree, treeRecords>> /\ treeCall[s].op = "adding"
    BY <1>2 DEF TreeAdded
  <2> QED
    BY <2>1, <2>2, <2>3, <2>4, CallGoes
<1>3. ASSUME NEW s \in Slots, IncludesCopied(s) \/ CreateFails(s) PROVE TreeInv' /\ TreeStepKeepsWork
  <2>1. UNCHANGED <<dirs, inTree>> /\ treeRecords \subseteq treeRecords'
    BY <1>3 DEF IncludesCopied, CreateFails
  <2>2. treeCall[s].op \in NotYetShown
    BY <1>3 DEF IncludesCopied, CreateFails
  <2>3. TreeGoes(s, "listing") \/ TreeGoes(s, "undoing") \/ TreeEnds(s)
    BY <1>3 DEF IncludesCopied, CreateFails
  <2>4. CASE TreeEnds(s)
    BY <2>1, <2>4, CallEnds
  <2>5. CASE TreeGoes(s, "listing") \/ TreeGoes(s, "undoing")
    BY <2>1, <2>2, <2>5, CallGoes
  <2> QED
    BY <2>3, <2>4, <2>5
<1>4. ASSUME NEW s \in Slots, CreateUndone(s) PROVE TreeInv' /\ TreeStepKeepsWork
    BY <1>4, CallEnds DEF CreateUndone, NoDir
<1>5. ASSUME NEW s \in Slots, Listed(s) PROVE TreeInv' /\ TreeStepKeepsWork
  <2>1. UNCHANGED <<dirs, inTree, treeRecords>>
    BY <1>5 DEF Listed
  <2>2. UNCHANGED treeCall \/ TreeEnds(s)
    BY <1>5 DEF Listed
  <2>3. CASE TreeEnds(s)
    BY <2>1, <2>3, CallEnds
  <2>4. CASE UNCHANGED treeCall
    BY <2>1, <2>4 DEF TreeCallOK
  <2> QED
    BY <2>2, <2>3, <2>4
<1>6. ASSUME NEW s \in Slots, NEW t \in Trees, NEW force \in BOOLEAN, RemoveWorktree(s, t, force)
      PROVE  TreeInv' /\ TreeStepKeepsWork
    BY <1>6 DEF TreeCallOK, RemoveWorktree, NoTreeCall
<1>7. ASSUME NEW s \in Slots, TreeRemoved(s) PROVE TreeInv' /\ TreeStepKeepsWork
  <2>1. CalledTree(s) \in Trees /\ AtStep(s, "removing") /\ UNCHANGED <<inTree, treeRecords>>
    BY <1>7 DEF TreeRemoved
  <2>2. dirs[CalledTree(s)].work => ForcedRemoval(s, CalledTree(s))
    BY <1>7 DEF TreeRemoved, ForcedRemoval
  <2>3. /\ dirs' \in [Trees -> [there : BOOLEAN, locked : BOOLEAN, work : BOOLEAN]]
        /\ ~dirs'[CalledTree(s)].work /\ \A t \in Trees \ {CalledTree(s)} : dirs'[t] = dirs[t]
    BY <1>7, <2>1 DEF TreeRemoved, NoDir
  <2>4. TreeGoes(s, "removed")
    BY <1>7 DEF TreeRemoved
  <2>5. TreeInv'
    BY <2>1, <2>3, <2>4, CallGoes
  <2>6. TreeStepKeepsWork
    BY <2>1, <2>2, <2>3
  <2> QED
    BY <2>5, <2>6
<1>8. ASSUME NEW s \in Slots, RemoveFails(s) PROVE TreeInv' /\ TreeStepKeepsWork
    BY <1>8, CallEnds DEF RemoveFails
<1>9. ASSUME NEW s \in Slots, RecordDeleted(s) PROVE TreeInv' /\ TreeStepKeepsWork
    BY <1>9 DEF TreeCallOK, RecordDeleted, Detached, NoTreeCall
<1>10. ASSUME NEW s \in Slots, NEW c \in Chats, NEW t \in Trees, BeginConversation(s, c, t)
       PROVE  TreeInv' /\ TreeStepKeepsWork
    BY <1>10 DEF TreeCallOK, BeginConversation, NoTreeCall
<1>11. ASSUME NEW s \in Slots, ConversationStarted(s) PROVE TreeInv' /\ TreeStepKeepsWork
  <2>1. UNCHANGED <<dirs, treeRecords>> /\ TreeEnds(s)
    BY <1>11 DEF ConversationStarted
  <2>2. inTree' \in [Chats -> Trees \cup {None, "absent"}]
    BY <1>11 DEF TreeCallOK, ConversationStarted
  <2> QED
    BY <2>1, <2>2, CallEnds
<1>12. ASSUME NEW t \in Trees, NEW locked \in BOOLEAN, SetLocked(t, locked)
       PROVE  TreeInv' /\ TreeStepKeepsWork
    BY <1>12 DEF TreeCallOK, SetLocked
<1>13. ASSUME NEW t \in Trees, Work(t) PROVE TreeInv' /\ TreeStepKeepsWork
  <2>1. /\ dirs' = [dirs EXCEPT ![t].work = TRUE] /\ dirs[t].there
        /\ UNCHANGED <<inTree, treeRecords, treeCall>>
        /\ \A s \in Slots : treeCall[s].op \in NotYetShown => CalledTree(s) # t
    BY <1>13 DEF Work
  <2>2. /\ dirs' \in [Trees -> [there : BOOLEAN, locked : BOOLEAN, work : BOOLEAN]]
        /\ dirs'[t].work /\ dirs'[t].there /\ \A u \in Trees \ {t} : dirs'[u] = dirs[u]
    BY <2>1
  <2>3. TreeCallOK'
    BY <2>1 DEF TreeCallOK
  <2> QED
    BY <2>1, <2>2, <2>3
<1>14. CASE ProjectRemoved
    BY <1>14 DEF TreeCallOK, ProjectRemoved
<1>15. CASE AppKilled
    BY <1>15 DEF TreeCallOK, AppKilled, NoTreeCall
<1>16. CASE UNCHANGED treeVars
    BY <1>16 DEF TreeCallOK, treeVars
<1> QED
    BY <1>1, <1>2, <1>3, <1>4, <1>5, <1>6, <1>7, <1>8, <1>9, <1>10, <1>11, <1>12, <1>13, <1>14,
       <1>15, <1>16 DEF TreeNext

\* For any number of worktrees, conversations and calls, work disappears only by a forced
\* removal, and no conversation stays in a worktree whose record is deleted.
THEOREM WorkIsKept == TreeSpec => WorktreeWorkIsKept
<1>1. TreeInv /\ [TreeNext]_treeVars => [TreeStepKeepsWork]_treeVars
    BY TreeStep
<1>2. TreeInv /\ [TreeNext]_treeVars => TreeInv'
    BY TreeStep
<1>3. TreeSpec => [][TreeStepKeepsWork]_treeVars
    BY TreeStart, <1>1, <1>2, PTL DEF TreeSpec
<1> QED
    BY <1>3, PTL DEF WorktreeWorkIsKept, TreeStepKeepsWork

-----------------------------------------------------------------------------
(* Conversations.  A conversation begun in the application is never replaced *)
(* by its continuation: it stays, archived, with its row.  For this, what a  *)
(* switch of provider gives up must be the continuation, what the user       *)
(* deletes must be known from the begin of the call, and a row is made only  *)
(* for a conversation that is there.                                         *)

CallTypes ==
    [op : Ops, asks : Requests, answer : {"none", "given", "lost"},
     conv : Convs \cup {None}, new : Convs \cup {None}, project : Projects \cup {None},
     archived : BOOLEAN, page : SUBSET Convs, pin : BOOLEAN]

ExistingConvs == {t \in Convs : cwd[t] # None}

AsksFor(o) ==
    CASE o = "none"               -> {"none"}
      [] o = "load"               -> {"list", "pins"}
      [] o = "select"             -> {"read", "resume", "unarchive"}
      [] o = "link"               -> {"resume"}
      [] o = "archive"            -> {"archive"}
      [] o = "unarchive"          -> {"unarchive"}
      [] o = "restore"            -> {"unarchive"}
      [] o = "delete"             -> {"delete"}
      [] o = "rollback"           -> {"delete"}
      [] o = "migrate"            -> {"make", "archive"}
      [] OTHER                    -> {"make"}

ViewTypes ==
    [project : Projects \cup {None}, archived : BOOLEAN, listed : SUBSET ExistingConvs,
     selected : Convs \cup {None}]

ConvDataOK ==
    /\ kept \in [Convs -> {"absent", "active", "archived"}]
    /\ cwd \in [Convs -> Projects \cup {None}] /\ root \in [Convs -> Convs]
    /\ assoc \in [Convs -> Projects \cup {None}]
    /\ pinned \subseteq Convs /\ view \in ViewTypes
    /\ op \in [Slots -> CallTypes]

\* What has not been made is nowhere, and roots are conversations that exist.
Unmade ==
    \A t \in Convs :
      /\ t \notin ExistingConvs => kept[t] = "absent" /\ assoc[t] = None /\ root[t] = t
      /\ t \in ExistingConvs => root[t] \in ExistingConvs

\* What call r works on.
CallOK(r) ==
    /\ r.asks \in AsksFor(r.op)
    /\ {r.conv, r.new} \subseteq ExistingConvs \cup {None} /\ r.page \subseteq ExistingConvs
    /\ r.op \notin {"none", "load", "start", "scheduled"} => r.conv # None
    /\ r.op \in {"load", "start", "scheduled", "fork", "migrate"} => r.project # None
    /\ r.op = "rollback" \/ (r.op = "migrate" /\ r.asks = "archive") => r.new # None
    /\ r.op \in {"migrate", "rollback"} /\ r.new # None => root[r.new] # r.new

DeleteOK(r) == r.op = "delete" => root[r.conv] \in wiped

\* An answer that is being handled speaks of what is still there.
AnswerOK(r) ==
    r.answer = "given" =>
      /\ r.op = "load" => \A t \in r.page : kept[t] # "absent"
      /\ r.op = "select" => kept[r.conv] # "absent"
      /\ r.asks = "make" => r.new # None /\ kept[r.new] # "absent"

RowsOK ==
    /\ \A t \in Convs : root[t] = t /\ assoc[t] # None /\ t \notin wiped => kept[t] # "absent"
    /\ owned \subseteq ExistingConvs
    /\ \A t \in owned : root[t] = t /\ (t \notin wiped => assoc[t] # None)

ConvInv ==
    /\ ConvDataOK /\ Unmade /\ RowsOK
    /\ \A c \in Slots : CallOK(op[c]) /\ DeleteOK(op[c]) /\ AnswerOK(op[c])

OwnedGrows == owned' = owned \cup {t \in Convs : root'[t] = t /\ assoc'[t] # None}

LEMMA ConvStart == ConvInit => ConvInv
<1> SUFFICES ASSUME ConvInit PROVE ConvInv
    OBVIOUS
<1> DEFINE t == CHOOSE u \in Convs : TRUE
           p == CHOOSE q \in Projects : TRUE
<1>1. t \in Convs /\ p \in Projects /\ p # None /\ t # None
    BY ConversationsAssumption, ServiceBoundsAssumption
<1>2. /\ cwd = [u \in Convs |-> IF u = t THEN p ELSE None] /\ assoc = cwd
      /\ root = [u \in Convs |-> u]
      /\ owned = {t} /\ wiped = {}
    BY DEF ConvInit
<1>3. \E s \in {"active", "archived"} : kept = [u \in Convs |-> IF u = t THEN s ELSE "absent"]
    BY DEF ConvInit
<1>4. pinned \subseteq {t}
    BY DEF ConvInit
<1>5. op = [c \in Slots |-> NoCall]
    BY DEF ConvInit
<1>10. \/ view = EmptyView
       \/ view = [EmptyView EXCEPT !.project = p, !.archived = t \in archived, !.listed = {t}]
    BY DEF ConvInit
<1> HIDE DEF t, p
<1>6. ExistingConvs = {t}
    BY <1>1, <1>2 DEF ExistingConvs
<1>7. NoCall \in CallTypes /\ CallOK(NoCall) /\ DeleteOK(NoCall) /\ AnswerOK(NoCall)
    BY DEF NoCall, CallTypes, Ops, Requests, CallOK, AsksFor, DeleteOK, AnswerOK
<1>11. view \in ViewTypes
  <2>1. CASE view = EmptyView
    BY <2>1 DEF EmptyView, ViewTypes
  <2>2. CASE view = [EmptyView EXCEPT !.project = p, !.archived = t \in archived, !.listed = {t}]
    <3>1. view = [project |-> p, archived |-> t \in archived, listed |-> {t}, selected |-> None]
      BY <2>2 DEF EmptyView
    <3> QED
      BY <3>1, <1>1, <1>6 DEF ViewTypes
  <2> QED
    BY <1>10, <2>1, <2>2
<1>8. ConvDataOK
    BY <1>11, <1>1, <1>2, <1>3, <1>4, <1>5, <1>6, <1>7 DEF ConvDataOK
<1>9. Unmade /\ RowsOK
    BY <1>1, <1>2, <1>3, <1>6 DEF Unmade, RowsOK
<1> QED
    BY <1>5, <1>7, <1>8, <1>9 DEF ConvInv

\* Steps of the application leave the engine as it is.  They keep the invariant when the
\* rows they make are of conversations that are there, and those they remove of ones the
\* user deleted or that never counted.
LEMMA RowsStay ==
    ASSUME ConvInv, UNCHANGED engineStore, wiped \subseteq wiped', OwnedGrows,
           assoc' \in [Convs -> Projects \cup {None}],
           \A t \in Convs : assoc'[t] # assoc[t] =>
             IF assoc'[t] = None THEN t \notin owned \ wiped ELSE kept[t] # "absent"
    PROVE  Unmade' /\ RowsOK'
<1> USE DEF ConvInv, ConvDataOK, Unmade, RowsOK, engineStore, OwnedGrows, ExistingConvs
<1>1. Unmade'
    OBVIOUS
<1>2. RowsOK'
    OBVIOUS
<1> QED
    BY <1>1, <1>2

LEMMA CallsStay ==
    ASSUME ConvInv, UNCHANGED engineStore, wiped \subseteq wiped',
           NEW c \in Slots, NEW r \in CallTypes, op' = [op EXCEPT ![c] = r],
           CallOK(r), AnswerOK(r), r.op = "delete" => root[r.conv] \in wiped'
    PROVE  /\ op' \in [Slots -> CallTypes]
           /\ \A d \in Slots : CallOK(op[d])' /\ DeleteOK(op[d])' /\ AnswerOK(op[d])'
<1>1. op' \in [Slots -> CallTypes] /\ op'[c] = r /\ \A d \in Slots \ {c} : op'[d] = op[d]
    BY DEF ConvInv, ConvDataOK
<1>2. UNCHANGED <<kept, cwd, root>> /\ ExistingConvs' = ExistingConvs
    BY DEF engineStore, ExistingConvs
<1>3. \A d \in Slots : CallOK(op[d])'
    BY <1>1, <1>2 DEF ConvInv, CallOK, AsksFor
<1>4. \A d \in Slots : DeleteOK(op[d])'
    BY <1>1, <1>2 DEF ConvInv, DeleteOK
<1>5. \A d \in Slots : AnswerOK(op[d])'
    BY <1>1, <1>2 DEF ConvInv, AnswerOK
<1> QED
    BY <1>1, <1>3, <1>4, <1>5

LEMMA AppStep ==
    ASSUME ConvInv, UNCHANGED engineStore, wiped \subseteq wiped', OwnedGrows,
           view' \in ViewTypes, pinned' \subseteq Convs,
           assoc' \in [Convs -> Projects \cup {None}],
           \A t \in Convs : assoc'[t] # assoc[t] =>
             IF assoc'[t] = None THEN t \notin owned \ wiped ELSE kept[t] # "absent",
           NEW c \in Slots, NEW r \in CallTypes, op' = [op EXCEPT ![c] = r],
           CallOK(r), AnswerOK(r), r.op = "delete" => root[r.conv] \in wiped'
    PROVE  ConvInv'
<1>1. Unmade' /\ RowsOK'
    BY RowsStay
<1>2. /\ op' \in [Slots -> CallTypes]
      /\ \A d \in Slots : CallOK(op[d])' /\ DeleteOK(op[d])' /\ AnswerOK(op[d])'
    BY CallsStay
<1>3. ConvDataOK'
    BY <1>2 DEF ConvInv, ConvDataOK, engineStore, ExistingConvs, ViewTypes
<1> QED
    BY <1>1, <1>2, <1>3 DEF ConvInv

\* Whatever the list does, it shows conversations that exist.
LEMMA Shown ==
    ASSUME NEW v \in ViewTypes, NEW t \in ExistingConvs
    PROVE  /\ Without(v, t) \in ViewTypes /\ Selects(v, t) \in ViewTypes
           /\ [v EXCEPT !.archived = FALSE] \in ViewTypes
           /\ [v EXCEPT !.listed = @ \cup {t}] \in ViewTypes
           /\ \A p \in Projects : [v EXCEPT !.project = p] \in ViewTypes
BY DEF ViewTypes, Without, Selects, ExistingConvs

\* The record of a call, and what the invariant says of it.
LEMMA Call ==
    ASSUME ConvInv, NEW c \in Slots
    PROVE  op[c] \in CallTypes /\ CallOK(op[c]) /\ DeleteOK(op[c]) /\ AnswerOK(op[c])
BY DEF ConvInv, ConvDataOK

LEMMA NoCallOK == NoCall \in CallTypes /\ CallOK(NoCall) /\ AnswerOK(NoCall) /\ NoCall.op = "none"
BY DEF NoCall, CallTypes, Ops, Requests, CallOK, AsksFor, AnswerOK

\* A call begins with the first request of its kind.
LEMMA CallBegins ==
    ASSUME ConvInv, OwnedGrows, NEW c \in Slots, NEW o \in Ops \ {"rollback"},
           NEW asks \in AsksFor(o) \cap Requests, o = "migrate" => asks = "make",
           NEW t \in ExistingConvs \cup {None}, NEW p \in Projects \cup {None},
           o \notin {"none", "load", "start", "scheduled"} => t # None,
           o \in {"load", "start", "scheduled", "fork", "migrate"} => p # None,
           Begin(c, o, asks, t, p)
    PROVE  ConvInv'
<1> DEFINE pin == t \in pinned
           r == [NoCall EXCEPT !.op = o, !.asks = asks, !.conv = t, !.project = p, !.pin = pin]
<1>1. /\ op' = [op EXCEPT ![c] = r] /\ UNCHANGED <<engineStore, assoc, pinned, view>>
      /\ wiped \subseteq wiped' /\ (o = "delete" => root[t] \in wiped')
    BY DEF Begin, Asks, database
<1>2. pin \in BOOLEAN
    OBVIOUS
<1> HIDE DEF pin
<1>3. /\ r \in CallTypes
      /\ r.op = o /\ r.asks = asks /\ r.answer = "none" /\ r.conv = t /\ r.new = None
      /\ r.project = p /\ r.page = {}
    BY <1>2 DEF NoCall, CallTypes, ExistingConvs
<1> HIDE DEF r
<1>4. CallOK(r) /\ AnswerOK(r)
    BY <1>3 DEF CallOK, AnswerOK
<1>5. view \in ViewTypes /\ pinned \subseteq Convs /\ assoc \in [Convs -> Projects \cup {None}]
    BY DEF ConvInv, ConvDataOK
<1>6. view' \in ViewTypes /\ pinned' \subseteq Convs /\ assoc' = assoc /\ UNCHANGED engineStore
    BY <1>1, <1>5
<1>7. r.op = "delete" => root[r.conv] \in wiped'
    BY <1>1, <1>3
<1> QED
    BY <1>1, <1>3, <1>4, <1>5, <1>6, <1>7, AppStep

LEMMA Begins ==
    ASSUME ConvInv, OwnedGrows, NEW c \in Slots, NEW t \in Convs,
           \/ SelectThread(c, t) \/ ArchiveThread(c, t) \/ UnarchiveThread(c, t)
           \/ DeleteThread(c, t) \/ ForkThread(c, t) \/ SwitchProvider(c, t)
           \/ ContinueArchived(c, t) \/ \E p \in Projects : OpenLinkedThread(c, p, t)
    PROVE  ConvInv'
<1> USE DEF Ops, Requests, AsksFor
<1>1. t # None /\ None \notin Projects /\ view.project \in Projects \cup {None}
    BY ConversationsAssumption, ServiceBoundsAssumption DEF ConvInv, ConvDataOK, ViewTypes
<1>2. t \in view.listed => t \in ExistingConvs
    BY DEF ConvInv, ConvDataOK, ViewTypes
<1>3. CASE SelectThread(c, t)
    BY <1>1, <1>2, <1>3, CallBegins DEF SelectThread
<1>4. CASE ArchiveThread(c, t) \/ UnarchiveThread(c, t) \/ DeleteThread(c, t)
    BY <1>1, <1>2, <1>4, CallBegins DEF ArchiveThread, UnarchiveThread, DeleteThread
<1>5. CASE ForkThread(c, t)
  <2>1. t \in ExistingConvs /\ Begin(c, "fork", "make", t, cwd[t])
    BY <1>2, <1>5 DEF ForkThread
  <2>2. cwd[t] # None /\ cwd[t] \in Projects
    BY <2>1 DEF ExistingConvs, ConvInv, ConvDataOK
  <2> QED
    BY <1>1, <2>1, <2>2, CallBegins
<1>6. CASE SwitchProvider(c, t) \/ ContinueArchived(c, t)
    BY <1>1, <1>2, <1>6, CallBegins DEF SwitchProvider, ContinueArchived
<1>7. ASSUME NEW p \in Projects, OpenLinkedThread(c, p, t) PROVE ConvInv'
  <2>1. t \in ExistingConvs
    BY <1>1, <1>7 DEF OpenLinkedThread, ConvInv, Unmade
  <2> QED
    BY <1>1, <1>7, <2>1, CallBegins DEF OpenLinkedThread
<1> QED
    BY <1>3, <1>4, <1>5, <1>6, <1>7

\* The facts that the steps of the application rest on.
LEMMA Data ==
    ASSUME ConvInv
    PROVE  /\ view \in ViewTypes /\ pinned \subseteq Convs /\ assoc \in [Convs -> Projects \cup {None}]
           /\ view.listed \subseteq ExistingConvs /\ view.project \in Projects \cup {None}
           /\ ExistingConvs \subseteq Convs /\ None \notin ExistingConvs /\ None \notin Projects
BY ConversationsAssumption, ServiceBoundsAssumption DEF ConvInv, ConvDataOK, ViewTypes, ExistingConvs

\* A call that ends leaves the record that says nothing.
LEMMA CallEnded ==
    ASSUME ConvInv, UNCHANGED <<engineStore, wiped>>, OwnedGrows,
           view' \in ViewTypes, pinned' \subseteq Convs,
           assoc' \in [Convs -> Projects \cup {None}],
           \A t \in Convs : assoc'[t] # assoc[t] =>
             IF assoc'[t] = None THEN t \notin owned \ wiped ELSE kept[t] # "absent",
           NEW c \in Slots, Ends(c)
    PROVE  ConvInv'
BY NoCallOK, AppStep DEF Ends, Asks

\* What is loaded after a call.
LEMMA Reloaded ==
    ASSUME ConvInv, UNCHANGED <<engineStore, wiped>>, OwnedGrows,
           view' \in ViewTypes, pinned' \subseteq Convs,
           assoc' \in [Convs -> Projects \cup {None}],
           \A t \in Convs : assoc'[t] # assoc[t] =>
             IF assoc'[t] = None THEN t \notin owned \ wiped ELSE kept[t] # "absent",
           NEW c \in Slots, NEW v \in ViewTypes, NEW t \in ExistingConvs \cup {None}, Reloads(c, v, t)
    PROVE  ConvInv'
<1>1. CASE v.project = None
    BY <1>1, CallEnded DEF Reloads
<1>2. CASE v.project # None
  <2> DEFINE r == [NoCall EXCEPT !.op = "load", !.asks = "list", !.conv = t,
                                 !.project = v.project, !.archived = v.archived]
  <2>1. op' = [op EXCEPT ![c] = r]
    BY <1>2 DEF Reloads, Asks
  <2>2. /\ r \in CallTypes /\ r.op = "load" /\ r.asks = "list" /\ r.answer = "none"
        /\ r.conv = t /\ r.new = None /\ r.page = {} /\ r.project # None
    BY <1>2 DEF NoCall, CallTypes, Ops, Requests, ViewTypes, ExistingConvs
  <2> HIDE DEF r
  <2>3. CallOK(r) /\ AnswerOK(r)
    BY <2>2 DEF CallOK, AnswerOK, AsksFor
  <2> QED
    BY <2>1, <2>2, <2>3, AppStep
<1> QED
    BY <1>1, <1>2

LEMMA LoadsAndStarts ==
    ASSUME ConvInv, OwnedGrows, NEW c \in Slots, NEW p \in Projects,
           \/ \E a \in BOOLEAN : LoadProject(c, p, a)
           \/ \E o \in Ops : StartConversation(c, o, p)
    PROVE  ConvInv'
<1>1. ASSUME NEW a \in BOOLEAN, LoadProject(c, p, a) PROVE ConvInv'
  <2> DEFINE r == [NoCall EXCEPT !.op = "load", !.asks = "list", !.project = p, !.archived = a]
  <2>1. op' = [op EXCEPT ![c] = r] /\ UNCHANGED <<engineStore, assoc, pinned, view, wiped>>
    BY <1>1 DEF LoadProject, Asks, database
  <2>2. /\ r \in CallTypes /\ r.op = "load" /\ r.asks = "list" /\ r.answer = "none"
        /\ r.conv = None /\ r.new = None /\ r.page = {} /\ r.project = p
    BY <1>1 DEF NoCall, CallTypes, Ops, Requests
  <2> HIDE DEF r
  <2>3. CallOK(r) /\ AnswerOK(r)
    BY <2>2, Data DEF CallOK, AnswerOK, AsksFor
  <2>4. view' \in ViewTypes /\ pinned' \subseteq Convs /\ assoc' = assoc
        /\ assoc' \in [Convs -> Projects \cup {None}]
    BY <2>1, Data
  <2> QED
    BY <2>1, <2>2, <2>3, <2>4, AppStep
<1>2. ASSUME NEW o \in Ops, StartConversation(c, o, p) PROVE ConvInv'
    BY <1>2, Data, CallBegins DEF StartConversation, Ops, Requests, AsksFor
<1> QED
    BY <1>1, <1>2

-----------------------------------------------------------------------------
(* Calls run on.                                                           *)

\* A row that is made for a conversation that is there.
LEMMA Associated ==
    ASSUME ConvInv, NEW p \in Projects, NEW ts \in SUBSET Convs, NEW flag,
           \A t \in ts : kept[t] # "absent", Associate(p, ts, flag)
    PROVE  /\ assoc' \in [Convs -> Projects \cup {None}]
           /\ \A t \in Convs : assoc'[t] # assoc[t] =>
                IF assoc'[t] = None THEN t \notin owned \ wiped ELSE kept[t] # "absent"
BY Data DEF Associate

LEMMA AssociatedOne ==
    ASSUME ConvInv, NEW p \in Projects, NEW t \in ExistingConvs, NEW flag,
           kept[t] # "absent", Associate(p, {t}, flag)
    PROVE  /\ assoc' \in [Convs -> Projects \cup {None}]
           /\ \A u \in Convs : assoc'[u] # assoc[u] =>
                IF assoc'[u] = None THEN u \notin owned \ wiped ELSE kept[u] # "absent"
BY Data DEF Associate

LEMMA Loads ==
    ASSUME ConvInv, OwnedGrows, NEW c \in Slots, PageArrives(c) \/ ListShown(c) \/ LinkOpened(c)
    PROVE  ConvInv'
<1>1. op[c] \in CallTypes /\ CallOK(op[c]) /\ AnswerOK(op[c])
    BY Call
<1>2. CASE PageArrives(c)
  <2> DEFINE more == {t \in pinned : assoc[t] = op[c].project /\ (t \in archived) = op[c].archived}
             r == [op[c] EXCEPT !.asks = "pins", !.answer = "none", !.page = @ \cup more]
  <2>1. op' = [op EXCEPT ![c] = r] /\ UNCHANGED <<engineStore, pinned, view, wiped>>
    BY <1>2 DEF PageArrives, Asks
  <2>2. op[c].op = "load" /\ op[c].project \in Projects
    BY <1>1, <1>2 DEF PageArrives, Given, CallOK, CallTypes
  <2>3. more \subseteq ExistingConvs
    BY <2>2, Data DEF ConvInv, Unmade
  <2> HIDE DEF more
  <2>4. /\ r \in CallTypes /\ r.op = op[c].op /\ r.asks = "pins" /\ r.answer = "none"
        /\ r.conv = op[c].conv /\ r.new = op[c].new /\ r.page = op[c].page \cup more
        /\ r.project = op[c].project
    BY <1>1, <2>3, Data DEF CallTypes, Requests
  <2> HIDE DEF r
  <2>5. CallOK(r) /\ AnswerOK(r)
    BY <1>1, <2>2, <2>3, <2>4 DEF CallOK, AnswerOK, AsksFor
  <2>6. op[c].page \in SUBSET Convs /\ \A t \in op[c].page : kept[t] # "absent"
    BY <1>1, <1>2, <2>2 DEF PageArrives, Given, AnswerOK, CallTypes
  <2>7. /\ assoc' \in [Convs -> Projects \cup {None}]
        /\ \A t \in Convs : assoc'[t] # assoc[t] =>
             IF assoc'[t] = None THEN t \notin owned \ wiped ELSE kept[t] # "absent"
    BY <1>2, <2>2, <2>6, Associated DEF PageArrives
  <2>8. view' \in ViewTypes /\ pinned' \subseteq Convs
    BY <2>1, Data
  <2> QED
    BY <2>1, <2>2, <2>4, <2>5, <2>7, <2>8, AppStep
<1>3. CASE ListShown(c)
  <2> DEFINE shown == {t \in op[c].page : kept[t] # "absent"}
             v == [project |-> op[c].project, archived |-> op[c].archived, listed |-> shown,
                   selected |-> IF view.selected \in shown THEN view.selected ELSE None]
  <2>1. /\ view' = IF op[c].conv = None THEN v ELSE Selects(v, op[c].conv)
        /\ Ends(c) /\ UNCHANGED <<engineStore, assoc, pinned, wiped>>
    BY <1>3 DEF ListShown, database
  <2>2. shown \subseteq ExistingConvs /\ op[c].conv \in ExistingConvs \cup {None}
        /\ op[c].project \in Projects \cup {None} /\ op[c].archived \in BOOLEAN
    BY <1>1 DEF CallOK, CallTypes
  <2> HIDE DEF shown
  <2>3. v \in ViewTypes
    BY <2>2, Data DEF ViewTypes
  <2> HIDE DEF v
  <2>4. view' \in ViewTypes
    BY <2>1, <2>2, <2>3, Shown
  <2>5. pinned' \subseteq Convs /\ assoc' = assoc /\ assoc' \in [Convs -> Projects \cup {None}]
    BY <2>1, Data
  <2> QED
    BY <2>1, <2>4, <2>5, CallEnded
<1>4. CASE LinkOpened(c)
  <2>1. op[c].conv \in ExistingConvs /\ op[c].project \in Projects \cup {None}
    BY <1>1, <1>4 DEF LinkOpened, Given, CallOK, CallTypes
  <2>2. view' \in ViewTypes
    BY <1>4, <2>1, Data DEF LinkOpened, ViewTypes
  <2>3. /\ Ends(c) /\ UNCHANGED <<engineStore, wiped>>
        /\ pinned' \subseteq Convs /\ assoc' = assoc /\ assoc' \in [Convs -> Projects \cup {None}]
    BY <1>4, Data DEF LinkOpened, database
  <2> QED
    BY <2>2, <2>3, CallEnded
<1> QED
    BY <1>2, <1>3, <1>4

LEMMA Answered ==
    ASSUME ConvInv, OwnedGrows, NEW c \in Slots,
           Selected(c) \/ Forked(c) \/ Started(c) \/ Changed(c) \/ Restored(c)
    PROVE  ConvInv'
<1>1. op[c] \in CallTypes /\ CallOK(op[c]) /\ DeleteOK(op[c]) /\ AnswerOK(op[c])
    BY Call
<1>2. CASE Selected(c)
  <2>1. op[c].conv \in ExistingConvs /\ kept[op[c].conv] # "absent"
    BY <1>1, <1>2 DEF Selected, Given, CallOK, AnswerOK
  <2>2. /\ assoc' \in [Convs -> Projects \cup {None}]
        /\ \A t \in Convs : assoc'[t] # assoc[t] =>
             IF assoc'[t] = None THEN t \notin owned \ wiped ELSE kept[t] # "absent"
    <3>1. CASE view.project = None
      BY <1>2, <3>1, Data DEF Selected
    <3>2. CASE view.project # None
      <4>1. Associate(view.project, {op[c].conv}, "keep") /\ view.project \in Projects
        BY <1>2, <3>2, Data DEF Selected
      <4> QED
        BY <2>1, <4>1, AssociatedOne
    <3> QED
      BY <3>1, <3>2
  <2>3. view' \in ViewTypes
    BY <1>2, <2>1, Shown, Data DEF Selected
  <2>4. Ends(c) /\ UNCHANGED <<engineStore, wiped>> /\ pinned' \subseteq Convs
    BY <1>2, Data DEF Selected
  <2> QED
    BY <2>2, <2>3, <2>4, CallEnded
<1>3. CASE Forked(c)
  <2>1. op[c].new \in ExistingConvs /\ kept[op[c].new] # "absent"
    BY <1>1, <1>3 DEF Forked, Given, CallOK, AnswerOK, AsksFor
  <2>2. /\ assoc' \in [Convs -> Projects \cup {None}]
        /\ \A t \in Convs : assoc'[t] # assoc[t] =>
             IF assoc'[t] = None THEN t \notin owned \ wiped ELSE kept[t] # "absent"
        /\ view' \in ViewTypes
    <3>1. CASE view.project = None
      BY <1>3, <3>1, Data DEF Forked
    <3>2. CASE view.project # None
      <4>1. /\ Associate(view.project, {op[c].new}, "keep") /\ view.project \in Projects
            /\ view' = [project |-> view.project, archived |-> FALSE, listed |-> {op[c].new},
                        selected |-> op[c].new]
        BY <1>3, <3>2, Data DEF Forked
      <4>2. view' \in ViewTypes
        BY <2>1, <4>1, Data DEF ViewTypes
      <4> QED
        BY <2>1, <4>1, <4>2, AssociatedOne
    <3> QED
      BY <3>1, <3>2
  <2>3. Ends(c) /\ UNCHANGED <<engineStore, wiped>> /\ pinned' \subseteq Convs
    BY <1>3, Data DEF Forked
  <2> QED
    BY <2>2, <2>3, CallEnded
<1>4. CASE Started(c)
  <2>1. op[c].new \in ExistingConvs /\ kept[op[c].new] # "absent" /\ op[c].project \in Projects
    BY <1>1, <1>4 DEF Started, CallOK, AnswerOK, AsksFor, CallTypes
  <2>2. /\ assoc' \in [Convs -> Projects \cup {None}]
        /\ \A t \in Convs : assoc'[t] # assoc[t] =>
             IF assoc'[t] = None THEN t \notin owned \ wiped ELSE kept[t] # "absent"
    <3>1. Associate(op[c].project, {op[c].new}, "keep")
      BY <1>4 DEF Started
    <3> QED
      BY <2>1, <3>1, AssociatedOne
  <2>3. view' \in ViewTypes
    BY <1>4, <2>1, Shown, Data DEF Started
  <2>4. Ends(c) /\ UNCHANGED <<engineStore, wiped>> /\ pinned' \subseteq Convs
    BY <1>4, Data DEF Started
  <2> QED
    BY <2>2, <2>3, <2>4, CallEnded
<1>5. CASE Changed(c)
  <2> DEFINE v == Without(view, op[c].conv)
  <2>1. op[c].conv \in ExistingConvs
    BY <1>1, <1>5 DEF Changed, CallOK
  <2>2. v \in ViewTypes
    BY <2>1, Shown, Data
  <2>3. view' = v /\ Reloads(c, v, None) /\ UNCHANGED <<engineStore, wiped>>
    BY <1>5 DEF Changed
  <2>4. /\ assoc' \in [Convs -> Projects \cup {None}] /\ pinned' \subseteq Convs
        /\ \A t \in Convs : assoc'[t] # assoc[t] =>
             IF assoc'[t] = None THEN t \notin owned \ wiped ELSE kept[t] # "absent"
    <3>1. CASE op[c].op = "delete"
      <4>1. RemoveAssociation(op[c].conv)
        BY <1>5, <3>1 DEF Changed
      <4>2. op[c].conv \notin owned \ wiped
        BY <1>1, <3>1 DEF DeleteOK, ConvInv, RowsOK
      <4> QED
        BY <4>1, <4>2, Data DEF RemoveAssociation
    <3>2. CASE op[c].op # "delete"
      BY <1>5, <3>2, Data DEF Changed
    <3> QED
      BY <3>1, <3>2
  <2> HIDE DEF v
  <2> QED
    BY <2>2, <2>3, <2>4, Reloaded
<1>6. CASE Restored(c)
  <2> DEFINE v == Selects([view EXCEPT !.archived = FALSE], op[c].conv)
             w == [v EXCEPT !.project = op[c].project]
  <2>1. op[c].conv \in ExistingConvs /\ op[c].project \in Projects \cup {None}
    BY <1>1, <1>6 DEF Restored, Given, CallOK, CallTypes
  <2>2. v \in ViewTypes
    BY <2>1, Shown, Data
  <2>3. view' = v /\ Reloads(c, w, op[c].conv) /\ UNCHANGED <<engineStore, wiped, assoc, pinned>>
    BY <1>6 DEF Restored
  <2> HIDE DEF v
  <2>4. w \in ViewTypes
    BY <2>1, <2>2 DEF ViewTypes
  <2> HIDE DEF w
  <2>5. view' \in ViewTypes /\ assoc' = assoc /\ assoc' \in [Convs -> Projects \cup {None}]
        /\ pinned' \subseteq Convs
    BY <2>2, <2>3, Data
  <2> QED
    BY <2>1, <2>3, <2>4, <2>5, Reloaded
<1> QED
    BY <1>2, <1>3, <1>4, <1>5, <1>6

LEMMA Migrates ==
    ASSUME ConvInv, OwnedGrows, NEW c \in Slots,
           MigrationMade(c) \/ MigrationCommits(c) \/ MigrationFails(c)
    PROVE  ConvInv'
<1> DEFINE back == [op[c] EXCEPT !.op = "rollback", !.asks = "delete", !.answer = "none"]
           on == [op[c] EXCEPT !.asks = "archive", !.answer = "none"]
<1>1. op[c] \in CallTypes /\ CallOK(op[c]) /\ AnswerOK(op[c]) /\ op[c].op = "migrate"
    BY Call DEF MigrationMade, MigrationCommits, MigrationFails, Given
<1>2. /\ {op[c].conv, op[c].new} \subseteq ExistingConvs /\ op[c].project \in Projects
      /\ root[op[c].new] # op[c].new
    BY <1>1, Data DEF MigrationMade, MigrationCommits, MigrationFails, Given, CallOK, AnswerOK, CallTypes
<1>3. /\ back \in CallTypes /\ back.op = "rollback" /\ back.asks = "delete" /\ back.answer = "none"
      /\ on \in CallTypes /\ on.op = "migrate" /\ on.asks = "archive" /\ on.answer = "none"
      /\ \A r \in {back, on} : r.conv = op[c].conv /\ r.new = op[c].new
                               /\ r.project = op[c].project /\ r.page = op[c].page
    BY <1>1 DEF CallTypes, Ops, Requests
<1> HIDE DEF back, on
<1>4. CallOK(back) /\ AnswerOK(back) /\ CallOK(on) /\ AnswerOK(on)
    BY <1>1, <1>2, <1>3, Data DEF CallOK, AnswerOK, AsksFor
<1>5. CASE MigrationMade(c)
  <2>1. kept[op[c].new] # "absent" /\ UNCHANGED <<engineStore, view, wiped>>
    BY <1>1, <1>5 DEF MigrationMade, Given, AnswerOK
  <2>2. view' \in ViewTypes
    BY <2>1, Data
  <2>3. CASE op[c].pin /\ assoc[op[c].conv] # op[c].project
    <3>1. op' = [op EXCEPT ![c] = back] /\ UNCHANGED <<assoc, pinned>>
      BY <1>5, <2>3 DEF MigrationMade, Asks, database, back
    <3>2. assoc' = assoc /\ assoc' \in [Convs -> Projects \cup {None}] /\ pinned' \subseteq Convs
      BY <3>1, Data
    <3> QED
      BY <1>3, <1>4, <2>1, <2>2, <3>1, <3>2, AppStep
  <2>4. CASE ~(op[c].pin /\ assoc[op[c].conv] # op[c].project)
    <3>1. /\ op' = [op EXCEPT ![c] = on] /\ Associate(op[c].project, {op[c].new}, "active")
          /\ pinned' \subseteq pinned \cup {op[c].new}
      BY <1>5, <2>4 DEF MigrationMade, Asks, on
    <3>2. /\ assoc' \in [Convs -> Projects \cup {None}]
          /\ \A t \in Convs : assoc'[t] # assoc[t] =>
               IF assoc'[t] = None THEN t \notin owned \ wiped ELSE kept[t] # "absent"
      BY <1>2, <2>1, <3>1, AssociatedOne
    <3>3. pinned' \subseteq Convs
      BY <1>2, <3>1, Data
    <3> QED
      BY <1>3, <1>4, <2>1, <2>2, <3>1, <3>2, <3>3, AppStep
  <2> QED
    BY <2>3, <2>4
<1>6. CASE MigrationCommits(c)
  <2>1. view' \in ViewTypes
    BY <1>2, <1>6, Shown, Data DEF MigrationCommits
  <2>2. Ends(c) /\ UNCHANGED <<engineStore, wiped>> /\ pinned' \subseteq Convs
        /\ assoc' = assoc /\ assoc' \in [Convs -> Projects \cup {None}]
    BY <1>6, Data DEF MigrationCommits
  <2> QED
    BY <2>1, <2>2, CallEnded
<1>7. CASE MigrationFails(c)
  <2>1. assoc' = [assoc EXCEPT ![op[c].new] = None] /\ UNCHANGED <<engineStore, view, wiped>>
    BY <1>7 DEF MigrationFails
  <2>2. op[c].new \notin owned
    BY <1>2 DEF ConvInv, RowsOK
  <2>3. /\ assoc' \in [Convs -> Projects \cup {None}]
        /\ \A t \in Convs : assoc'[t] # assoc[t] =>
             IF assoc'[t] = None THEN t \notin owned \ wiped ELSE kept[t] # "absent"
    BY <1>2, <2>1, <2>2, Data
  <2>4. view' \in ViewTypes
    BY <2>1, Data
  <2>5. pinned' \subseteq Convs
    BY <1>2, <1>7, Data DEF MigrationFails
  <2>6. Ends(c) \/ op' = [op EXCEPT ![c] = back]
    BY <1>7 DEF MigrationFails, Asks, back
  <2>7. CASE Ends(c)
    BY <2>1, <2>3, <2>4, <2>5, <2>7, CallEnded
  <2>8. CASE op' = [op EXCEPT ![c] = back]
    BY <1>3, <1>4, <2>1, <2>3, <2>4, <2>5, <2>8, AppStep
  <2> QED
    BY <2>6, <2>7, <2>8
<1> QED
    BY <1>5, <1>6, <1>7

LEMMA EndsOrAsksAgain ==
    ASSUME ConvInv, OwnedGrows, NEW c \in Slots, RollbackEnds(c) \/ CallFails(c) \/ FoundArchived(c)
    PROVE  ConvInv'
<1>1. /\ UNCHANGED <<engineStore, wiped>> /\ view' \in ViewTypes /\ pinned' \subseteq Convs
      /\ assoc' = assoc /\ assoc' \in [Convs -> Projects \cup {None}]
    BY Data DEF RollbackEnds, CallFails, FoundArchived, database
<1>2. CASE RollbackEnds(c) \/ CallFails(c)
  <2>1. Ends(c)
    BY <1>2 DEF RollbackEnds, CallFails
  <2> QED
    BY <1>1, <2>1, CallEnded
<1>3. CASE FoundArchived(c)
  <2> DEFINE r == [op[c] EXCEPT !.asks = "unarchive"]
  <2>1. op[c] \in CallTypes /\ CallOK(op[c]) /\ op[c].op = "select" /\ op[c].answer = "none"
        /\ op' = [op EXCEPT ![c] = r]
    BY <1>3, Call DEF FoundArchived, Asks
  <2>2. r \in CallTypes /\ r.op = "select" /\ r.asks = "unarchive" /\ r.answer = "none"
        /\ r.conv = op[c].conv /\ r.new = op[c].new /\ r.page = op[c].page
    BY <2>1 DEF CallTypes, Requests
  <2> HIDE DEF r
  <2>3. CallOK(r) /\ AnswerOK(r)
    BY <2>1, <2>2 DEF CallOK, AnswerOK, AsksFor
  <2> QED
    BY <1>1, <2>1, <2>2, <2>3, AppStep
<1> QED
    BY <1>2, <1>3

-----------------------------------------------------------------------------
(* The engine serves a request.  No other answer is being handled, so what    *)
(* the other calls know of the engine does not matter.                        *)

LEMMA ConvEngineStep ==
    ASSUME ConvInv, NoneAnswered, UNCHANGED wiped, NEW c \in Slots,
           ExistingConvs \subseteq ExistingConvs', \A t \in ExistingConvs : root'[t] = root[t],
           op' \in [Slots -> CallTypes], \A d \in Slots \ {c} : op'[d] = op[d],
           CallOK(op[c])', DeleteOK(op[c])', AnswerOK(op[c])'
    PROVE  \A d \in Slots : CallOK(op[d])' /\ DeleteOK(op[d])' /\ AnswerOK(op[d])'
<1> SUFFICES ASSUME NEW d \in Slots \ {c}
             PROVE  CallOK(op[d])' /\ DeleteOK(op[d])' /\ AnswerOK(op[d])'
    OBVIOUS
<1>1. op[d] \in CallTypes /\ CallOK(op[d]) /\ DeleteOK(op[d]) /\ op'[d] = op[d]
    BY Call
<1>2. op[d].answer # "given"
    BY DEF NoneAnswered
<1>3. CallOK(op[d])'
    BY <1>1 DEF CallOK, AsksFor
<1>4. DeleteOK(op[d])'
    BY <1>1, Data DEF DeleteOK, CallOK
<1>5. AnswerOK(op[d])'
    BY <1>1, <1>2 DEF AnswerOK
<1> QED
    BY <1>3, <1>4, <1>5

LEMMA Reads ==
    ASSUME ConvInv, OwnedGrows, NoneAnswered, UNCHANGED wiped, NEW c \in Slots,
           NEW a \in {"given", "lost"}, EngineReads(c, a)
    PROVE  ConvInv'
<1> DEFINE found == {t \in Convs : cwd[t] = op[c].project
                       /\ kept[t] = IF op[c].archived THEN "archived" ELSE "active"}
           r == [op[c] EXCEPT !.answer = a]
           s == [r EXCEPT !.page = found]
<1>1. /\ op[c] \in CallTypes /\ CallOK(op[c]) /\ DeleteOK(op[c])
      /\ UNCHANGED <<engineStore, assoc, pinned, view>>
      /\ op[c].asks \in {"list", "read", "resume"}
      /\ op[c].asks # "list" => kept[op[c].conv] # "absent"
    BY Call DEF EngineReads, database
<1>2. op' = [op EXCEPT ![c] = IF op[c].asks # "list" THEN r ELSE s]
    BY DEF EngineReads, Answer, Asks
<1>3. found \subseteq ExistingConvs /\ \A t \in found : kept[t] # "absent"
    BY DEF ConvInv, Unmade
<1> HIDE DEF found
<1>4. /\ r \in CallTypes /\ s \in CallTypes /\ r.page = op[c].page /\ s.page = found
      /\ \A x \in {r, s} : x.op = op[c].op /\ x.asks = op[c].asks /\ x.answer = a
                           /\ x.conv = op[c].conv /\ x.new = op[c].new /\ x.project = op[c].project
  <2>1. found \in SUBSET Convs
    BY <1>3, Data
  <2> QED
    BY <1>1, <2>1 DEF CallTypes
<1> HIDE DEF r, s
<1>5. op[c].op = "load" => op[c].asks = "list"
    BY <1>1 DEF CallOK, AsksFor
<1>6. CallOK(r) /\ CallOK(s) /\ (op[c].asks # "list" => AnswerOK(r)) /\ (op[c].asks = "list" => AnswerOK(s))
  <2>1. CallOK(r) /\ CallOK(s)
    BY <1>1, <1>3, <1>4 DEF CallOK, AsksFor
  <2>2. op[c].asks # "list" => AnswerOK(r)
    BY <1>1, <1>4, <1>5 DEF AnswerOK
  <2>3. op[c].asks = "list" => AnswerOK(s)
    BY <1>1, <1>3, <1>4 DEF AnswerOK, CallOK, AsksFor
  <2> QED
    BY <2>1, <2>2, <2>3
<1>7. /\ view' \in ViewTypes /\ pinned' \subseteq Convs /\ assoc' = assoc
      /\ assoc' \in [Convs -> Projects \cup {None}] /\ UNCHANGED engineStore
    BY <1>1, Data
<1>8. r.op = "delete" => root[r.conv] \in wiped'
    BY <1>1, <1>4 DEF DeleteOK
<1>9. s.op = "delete" => root[s.conv] \in wiped'
    BY <1>1, <1>4 DEF DeleteOK
<1>10. CASE op[c].asks # "list"
    BY <1>2, <1>4, <1>6, <1>7, <1>8, <1>10, AppStep
<1>11. CASE op[c].asks = "list"
    BY <1>2, <1>4, <1>6, <1>7, <1>9, <1>11, AppStep
<1> QED
    BY <1>10, <1>11

\* The call that was answered, when the engine changed a conversation it has.
LEMMA Served ==
    ASSUME ConvInv, NoneAnswered, UNCHANGED <<wiped, cwd, root>>, NEW c \in Slots,
           NEW a \in {"given", "lost"}, Answer(c, a, op[c]), op[c].asks # "make",
           op[c].op # "load", op[c].op = "select" => kept'[op[c].conv] # "absent"
    PROVE  /\ op' \in [Slots -> CallTypes]
           /\ \A d \in Slots : CallOK(op[d])' /\ DeleteOK(op[d])' /\ AnswerOK(op[d])'
<1> DEFINE r == [op[c] EXCEPT !.answer = a]
<1>1. op[c] \in CallTypes /\ CallOK(op[c]) /\ DeleteOK(op[c]) /\ op \in [Slots -> CallTypes]
    BY Call DEF ConvInv, ConvDataOK
<1>2. op' = [op EXCEPT ![c] = r]
    BY DEF Answer, Asks
<1>3. /\ r \in CallTypes /\ r.op = op[c].op /\ r.asks = op[c].asks /\ r.conv = op[c].conv
      /\ r.new = op[c].new /\ r.page = op[c].page /\ r.project = op[c].project
    BY <1>1 DEF CallTypes
<1> HIDE DEF r
<1>4. op' \in [Slots -> CallTypes] /\ op'[c] = r /\ \A d \in Slots \ {c} : op'[d] = op[d]
    BY <1>1, <1>2, <1>3
<1>5. ExistingConvs' = ExistingConvs
    BY DEF ExistingConvs
<1>6. CallOK(op[c])'
    BY <1>1, <1>3, <1>4, <1>5 DEF CallOK, AsksFor
<1>7. DeleteOK(op[c])' /\ AnswerOK(op[c])'
    BY <1>1, <1>3, <1>4 DEF DeleteOK, AnswerOK
<1> QED
    BY <1>4, <1>5, <1>6, <1>7, ConvEngineStep

LEMMA Changes ==
    ASSUME ConvInv, OwnedGrows, NoneAnswered, UNCHANGED wiped, NEW c \in Slots,
           NEW a \in {"given", "lost"}, NEW heard \in BOOLEAN,
           \/ EngineArchives(c, a, heard) \/ EngineUnarchives(c, a, heard)
           \/ EngineDeletes(c, a, heard)
    PROVE  ConvInv'
<1>1. op[c] \in CallTypes /\ CallOK(op[c]) /\ DeleteOK(op[c])
    BY Call
<1>2. /\ kept \in [Convs -> {"absent", "active", "archived"}] /\ root \in [Convs -> Convs]
      /\ \A t \in Convs : t \notin ExistingConvs => kept[t] = "absent" /\ assoc[t] = None /\ root[t] = t
      /\ RowsOK
    BY DEF ConvInv, ConvDataOK, Unmade
<1>3. UNCHANGED <<cwd, root>> /\ ExistingConvs' = ExistingConvs
    BY DEF EngineArchives, EngineUnarchives, EngineDeletes, ExistingConvs
<1>4. CASE EngineArchives(c, a, heard) \/ EngineUnarchives(c, a, heard)
  <2> DEFINE t == op[c].conv
  <2>1. /\ op[c].asks \in {"archive", "unarchive"} /\ UNCHANGED <<assoc, pinned>>
        /\ Answer(c, a, op[c]) /\ kept[t] # "absent"
        /\ \E state \in {"active", "archived"} : kept' = [kept EXCEPT ![t] = state]
    BY <1>4 DEF EngineArchives, EngineUnarchives, ArchivedAs
  <2>2. op[c].op \in {"archive", "unarchive", "restore", "select", "migrate"}
    BY <1>1, <2>1 DEF CallOK, AsksFor, CallTypes, Ops
  <2>3. t \in ExistingConvs
    BY <1>1, <2>2 DEF CallOK
  <2>4. /\ kept' \in [Convs -> {"absent", "active", "archived"}]
        /\ \A u \in Convs : (kept'[u] = "absent") <=> (kept[u] = "absent")
    <3>1. PICK state \in {"active", "archived"} : kept' = [kept EXCEPT ![t] = state]
      BY <2>1
    <3>2. t \in Convs /\ kept[t] # "absent"
      BY <2>1, <2>3, Data
    <3> HIDE DEF t
    <3> QED
      BY <1>2, <3>1, <3>2
  <2>5. view' \in ViewTypes
    <3>1. view' = view \/ view' = Without(view, t)
      BY <1>4 DEF EngineArchives, EngineUnarchives
    <3> QED
      BY <2>3, <3>1, Shown, Data
  <2>6. ViewTypes' = ViewTypes
    BY <1>3 DEF ViewTypes
  <2>7. /\ op' \in [Slots -> CallTypes]
        /\ \A d \in Slots : CallOK(op[d])' /\ DeleteOK(op[d])' /\ AnswerOK(op[d])'
    BY <1>3, <2>1, <2>2, <2>3, <2>4, Data, Served
  <2>8. ConvDataOK'
    BY <1>3, <2>1, <2>4, <2>5, <2>6, <2>7 DEF ConvInv, ConvDataOK
  <2>9. Unmade'
    BY <1>3, <2>1, <2>4 DEF ConvInv, Unmade
  <2>10. RowsOK'
    BY <1>2, <1>3, <2>1, <2>4, Data DEF RowsOK, OwnedGrows
  <2> QED
    BY <2>7, <2>8, <2>9, <2>10 DEF ConvInv
<1>5. CASE EngineDeletes(c, a, heard)
  <2> DEFINE t == IF op[c].op = "rollback" THEN op[c].new ELSE op[c].conv
  <2>1. /\ op[c].asks = "delete" /\ Answer(c, a, op[c]) /\ kept' = [kept EXCEPT ![t] = "absent"]
        /\ IF heard THEN RemoveAssociation(t) /\ view' = Without(view, t)
           ELSE UNCHANGED <<assoc, pinned, view>>
    BY <1>5 DEF EngineDeletes, database
  <2>2. op[c].op \in {"delete", "rollback"}
    BY <1>1, <2>1 DEF CallOK, AsksFor, CallTypes, Ops
  <2>3. t \in ExistingConvs /\ (root[t] = t => t \in wiped)
    BY <1>1, <2>2 DEF CallOK, DeleteOK
  <2> HIDE DEF t
  <2>4. /\ kept' \in [Convs -> {"absent", "active", "archived"}] /\ kept'[t] = "absent"
        /\ \A u \in Convs \ {t} : kept'[u] = kept[u]
    BY <1>2, <2>1, <2>3, Data
  <2>5. /\ assoc' \in [Convs -> Projects \cup {None}] /\ pinned' \subseteq Convs
        /\ assoc'[t] \in {assoc[t], None} /\ \A u \in Convs \ {t} : assoc'[u] = assoc[u]
    BY <2>1, <2>3, Data DEF RemoveAssociation
  <2>6. view' \in ViewTypes /\ ViewTypes' = ViewTypes
    <3>1. ViewTypes' = ViewTypes
      BY <1>3 DEF ViewTypes
    <3>2. view' = view \/ view' = Without(view, t)
      BY <2>1
    <3> QED
      BY <2>3, <3>1, <3>2, Shown, Data
  <2>7. /\ op' \in [Slots -> CallTypes]
        /\ \A d \in Slots : CallOK(op[d])' /\ DeleteOK(op[d])' /\ AnswerOK(op[d])'
    BY <1>3, <2>1, <2>2, Served
  <2>8. ConvDataOK'
    BY <1>3, <2>4, <2>5, <2>6, <2>7 DEF ConvInv, ConvDataOK
  <2>9. Unmade'
    BY <1>2, <1>3, <2>3, <2>4, <2>5, Data DEF ConvInv, Unmade
  <2>10. RowsOK'
    <3>1. \A u \in Convs : root'[u] = u /\ assoc'[u] # None /\ u \notin wiped' => kept'[u] # "absent"
      BY <1>2, <1>3, <2>3, <2>4, <2>5 DEF RowsOK
    <3>2. owned' \subseteq ExistingConvs'
      BY <1>2, <1>3, <2>5, Data DEF RowsOK, OwnedGrows
    <3>3. \A u \in owned' : root'[u] = u /\ (u \notin wiped' => assoc'[u] # None)
      BY <1>2, <1>3, <2>3, <2>5, Data DEF RowsOK, OwnedGrows
    <3> QED
      BY <3>1, <3>2, <3>3 DEF RowsOK
  <2> QED
    BY <2>7, <2>8, <2>9, <2>10 DEF ConvInv
<1> QED
    BY <1>4, <1>5

\* thread/start and thread/fork.
LEMMA Makes ==
    ASSUME ConvInv, OwnedGrows, NoneAnswered, UNCHANGED wiped, NEW c \in Slots,
           NEW a \in {"given", "lost"}, NEW heard \in BOOLEAN, NEW t \in Convs,
           EngineMakes(c, a, heard, t)
    PROVE  ConvInv'
<1> DEFINE r == [[op[c] EXCEPT !.new = t] EXCEPT !.answer = a]
<1>1. /\ op[c] \in CallTypes /\ CallOK(op[c]) /\ DeleteOK(op[c]) /\ op \in [Slots -> CallTypes]
      /\ op[c].asks = "make" /\ t \notin ExistingConvs
    BY Call DEF EngineMakes, ExistingConvs, ConvInv, ConvDataOK
<1>2. op[c].op \in {"start", "scheduled", "fork", "migrate"}
    BY <1>1 DEF CallOK, AsksFor, CallTypes, Ops
<1>3. /\ kept' = [kept EXCEPT ![t] = "active"] /\ cwd' = [cwd EXCEPT ![t] = op[c].project]
      /\ root' = IF op[c].op = "migrate" THEN [root EXCEPT ![t] = root[op[c].conv]] ELSE root
      /\ op' = [op EXCEPT ![c] = r] /\ UNCHANGED <<assoc, pinned>>
      /\ view' = IF heard THEN [view EXCEPT !.listed = @ \cup {t}] ELSE view
    BY DEF EngineMakes, Answer, Asks, database
<1>4. op[c].project \in Projects /\ (op[c].op = "migrate" => op[c].conv \in ExistingConvs)
    BY <1>1, <1>2 DEF CallOK, CallTypes
<1>5. /\ r \in CallTypes /\ r.op = op[c].op /\ r.asks = "make" /\ r.answer = a
      /\ r.conv = op[c].conv /\ r.new = t /\ r.page = op[c].page /\ r.project = op[c].project
    BY <1>1 DEF CallTypes
<1> HIDE DEF r
<1>6. /\ kept \in [Convs -> {"absent", "active", "archived"}]
      /\ cwd \in [Convs -> Projects \cup {None}] /\ root \in [Convs -> Convs]
      /\ Unmade /\ RowsOK
    BY DEF ConvInv, ConvDataOK
<1>7. /\ kept' \in [Convs -> {"absent", "active", "archived"}] /\ kept'[t] = "active"
      /\ \A u \in Convs \ {t} : kept'[u] = kept[u]
    BY <1>3, <1>6
<1>8. /\ cwd' \in [Convs -> Projects \cup {None}] /\ ExistingConvs' = ExistingConvs \cup {t}
    BY <1>3, <1>4, <1>6, Data DEF ExistingConvs
<1>9. /\ root' \in [Convs -> Convs] /\ \A u \in Convs \ {t} : root'[u] = root[u]
      /\ root'[t] \in ExistingConvs'
      /\ op[c].op = "migrate" => root'[t] # t
    <2>1. CASE op[c].op = "migrate"
      <3>1. root[op[c].conv] \in ExistingConvs
        BY <1>4, <1>6, <2>1, Data DEF Unmade
      <3> QED
        BY <1>1, <1>3, <1>6, <1>8, <2>1, <3>1, Data
    <2>2. CASE op[c].op # "migrate"
      BY <1>1, <1>3, <1>6, <1>8, <2>2 DEF Unmade
    <2> QED
      BY <2>1, <2>2
<1>10. op' \in [Slots -> CallTypes] /\ op'[c] = r /\ \A d \in Slots \ {c} : op'[d] = op[d]
    BY <1>1, <1>3, <1>5
<1>11. CallOK(op[c])'
  <2>1. {r.conv, r.new} \subseteq ExistingConvs' \cup {None} /\ r.page \subseteq ExistingConvs'
    BY <1>1, <1>5, <1>8, Data DEF CallOK
  <2>2. /\ r.asks \in AsksFor(r.op)
        /\ r.op \notin {"none", "load", "start", "scheduled"} => r.conv # None
        /\ r.project # None /\ r.new # None
    <3>1. r.project # None /\ r.new # None
      BY <1>4, <1>5, Data, ConversationsAssumption
    <3>2. op[c].op \notin {"none", "load", "start", "scheduled"} => op[c].conv # None
      BY <1>1 DEF CallOK
    <3>3. r.asks \in AsksFor(r.op)
      BY <1>2, <1>5 DEF AsksFor
    <3> QED
      BY <1>5, <3>1, <3>2, <3>3
  <2>3. r.op \in {"migrate", "rollback"} => root'[r.new] # r.new
    BY <1>2, <1>5, <1>9
  <2> QED
    BY <1>10, <2>1, <2>2, <2>3 DEF CallOK, AsksFor
<1>12. DeleteOK(op[c])' /\ AnswerOK(op[c])'
    BY <1>2, <1>5, <1>7, <1>10, ConversationsAssumption DEF DeleteOK, AnswerOK
<1>13. \A d \in Slots : CallOK(op[d])' /\ DeleteOK(op[d])' /\ AnswerOK(op[d])'
    BY <1>1, <1>8, <1>9, <1>10, <1>11, <1>12, Data, ConvEngineStep
<1>14. (view \in ViewTypes)'
    BY <1>3, <1>8, Data DEF ViewTypes
<1>15. ConvDataOK'
    BY <1>3, <1>7, <1>8, <1>9, <1>10, <1>14, Data DEF ConvDataOK
<1>16. Unmade'
    BY <1>3, <1>6, <1>7, <1>8, <1>9 DEF Unmade
<1>17. RowsOK'
    BY <1>1, <1>3, <1>6, <1>7, <1>8, <1>9 DEF RowsOK, Unmade, OwnedGrows
<1> QED
    BY <1>13, <1>15, <1>16, <1>17 DEF ConvInv

LEMMA Serves ==
    ASSUME ConvInv, OwnedGrows, NEW c \in Slots, Serve(c)
    PROVE  ConvInv'
<1>1. NoneAnswered /\ UNCHANGED wiped
    BY DEF Serve
<1>2. PICK a \in {"given", "lost"}, heard \in BOOLEAN :
        \/ EngineReads(c, a)
        \/ EngineArchives(c, a, heard) \/ EngineUnarchives(c, a, heard)
        \/ EngineDeletes(c, a, heard)
        \/ \E t \in Convs : EngineMakes(c, a, heard, t)
    BY DEF Serve
<1>3. CASE EngineReads(c, a)
    BY <1>1, <1>3, Reads
<1>4. CASE EngineArchives(c, a, heard) \/ EngineUnarchives(c, a, heard) \/ EngineDeletes(c, a, heard)
    BY <1>1, <1>4, Changes
<1>5. ASSUME NEW t \in Convs, EngineMakes(c, a, heard, t) PROVE ConvInv'
    BY <1>1, <1>5, Makes
<1> QED
    BY <1>2, <1>3, <1>4, <1>5

-----------------------------------------------------------------------------

\* Steps that begin, serve and end no call.
LEMMA NoCallMoves ==
    ASSUME ConvInv, OwnedGrows, AppRestarts \/ \E t \in Convs : SetThreadPinned(t)
    PROVE  ConvInv'
<1>1. /\ UNCHANGED <<kept, cwd, root, assoc, wiped>> /\ pinned' \subseteq Convs
      /\ view' = view \/ view' = EmptyView
      /\ op' = op \/ op' = [c \in Slots |-> NoCall]
    BY Data DEF AppRestarts, SetThreadPinned, engineStore, database
<1>2. ExistingConvs' = ExistingConvs /\ ViewTypes' = ViewTypes
    BY <1>1 DEF ExistingConvs, ViewTypes
<1>3. Unmade' /\ RowsOK'
    BY <1>1, Data, RowsStay DEF engineStore
<1>4. view' \in ViewTypes
  <2>1. EmptyView \in ViewTypes
    BY DEF EmptyView, ViewTypes
  <2> QED
    BY <1>1, <2>1, Data
<1>5. op' \in [Slots -> CallTypes] /\ \A c \in Slots : op'[c] = op[c] \/ op'[c] = NoCall
    BY <1>1, NoCallOK DEF ConvInv, ConvDataOK
<1>6. ConvDataOK'
    BY <1>1, <1>2, <1>4, <1>5 DEF ConvInv, ConvDataOK
<1>7. ASSUME NEW c \in Slots PROVE CallOK(op[c])' /\ DeleteOK(op[c])' /\ AnswerOK(op[c])'
  <2>1. CASE op'[c] = op[c]
    BY <1>1, <1>2, <2>1, Call DEF CallOK, AsksFor, DeleteOK, AnswerOK
  <2>2. CASE op'[c] = NoCall
    BY <1>2, <2>2, NoCallOK DEF CallOK, AsksFor, DeleteOK, AnswerOK, NoCall
  <2> QED
    BY <1>5, <2>1, <2>2
<1> QED
    BY <1>3, <1>6, <1>7 DEF ConvInv

LEMMA ConvKept == ConvInv /\ [ConvNext]_convVars => ConvInv'
<1> SUFFICES ASSUME ConvInv, [ConvNext]_convVars PROVE ConvInv'
    OBVIOUS
<1>1. CASE UNCHANGED convVars
    BY <1>1 DEF ConvInv, ConvDataOK, Unmade, RowsOK, CallOK, AsksFor, DeleteOK, AnswerOK,
                ExistingConvs, ViewTypes, convVars, engineStore, database
<1>2. CASE ConvNext
  <2>1. OwnedGrows /\ ConvStep
    BY <1>2 DEF ConvNext, OwnedGrows
  <2>2. ASSUME NEW c \in Slots, NEW p \in Projects,
               \/ \E a \in BOOLEAN : LoadProject(c, p, a)
               \/ \E o \in Ops : StartConversation(c, o, p)
        PROVE  ConvInv'
    BY <2>1, <2>2, LoadsAndStarts
  <2>3. ASSUME NEW c \in Slots, NEW t \in Convs,
               \/ SelectThread(c, t) \/ ArchiveThread(c, t) \/ UnarchiveThread(c, t)
               \/ DeleteThread(c, t) \/ ForkThread(c, t) \/ SwitchProvider(c, t)
               \/ ContinueArchived(c, t) \/ \E p \in Projects : OpenLinkedThread(c, p, t)
        PROVE  ConvInv'
    BY <2>1, <2>3, Begins
  <2>4. ASSUME NEW c \in Slots, Serve(c) PROVE ConvInv'
    BY <2>1, <2>4, Serves
  <2>5. ASSUME NEW c \in Slots, PageArrives(c) \/ ListShown(c) \/ LinkOpened(c) PROVE ConvInv'
    BY <2>1, <2>5, Loads
  <2>6. ASSUME NEW c \in Slots, Selected(c) \/ Forked(c) \/ Started(c) \/ Changed(c) \/ Restored(c)
        PROVE  ConvInv'
    BY <2>1, <2>6, Answered
  <2>7. ASSUME NEW c \in Slots, MigrationMade(c) \/ MigrationCommits(c) \/ MigrationFails(c)
        PROVE  ConvInv'
    BY <2>1, <2>7, Migrates
  <2>8. ASSUME NEW c \in Slots, RollbackEnds(c) \/ CallFails(c) \/ FoundArchived(c) PROVE ConvInv'
    BY <2>1, <2>8, EndsOrAsksAgain
  <2>9. CASE AppRestarts \/ \E t \in Convs : SetThreadPinned(t)
    BY <2>1, <2>9, NoCallMoves
  <2> QED
    BY <2>1, <2>2, <2>3, <2>4, <2>5, <2>6, <2>7, <2>8, <2>9 DEF ConvStep
<1> QED
    BY <1>1, <1>2

\* For any number of conversations, projects and calls, a conversation that belonged to a
\* project and was not deleted by the user still exists and belongs to one
\* (#migrateThreadProvider and the calls that run beside it).
THEOREM ConversationsAreKept == ConvSpec => []ConversationIsKept
<1>1. ConvInv => ConversationIsKept
    BY DEF ConvInv, RowsOK, ConversationIsKept, ExistingConvs
<1> QED
    BY ConvStart, ConvKept, <1>1, PTL DEF ConvSpec

-----------------------------------------------------------------------------
(* Activity.  What is shown never exceeds what was sent, so that an item    *)
(* that comes again, and whole, makes up for what the reducer has missed.   *)

ShownItems == [status : ActivityStatus, text : Nat, output : Nat, truncated : BOOLEAN,
          truncatedChars : Nat]

SentIsTyped ==
    /\ kind \in [Items -> Kinds]
    /\ full \in [Items -> [text : Nat, output : Nat]]
    /\ sent \in [Items -> {"not", "started", "completed"}]
    /\ DOMAIN activities \subseteq Items
    /\ \A i \in DOMAIN activities : activities[i] \in ShownItems

ShownWasSent ==
    \A i \in DOMAIN activities :
        activities[i].text <= full[i].text /\ activities[i].output <= full[i].output

OnlyStreamsHaveOutput == \A i \in Items : kind[i] \notin Streams => full[i].output = 0

NothingBeforeItsStart ==
    \A i \in Items : sent[i] = "not" =>
        /\ full[i].text = 0 /\ full[i].output = 0
        /\ i \in DOMAIN activities => kind[i] = "thread"

UnknownIsMissed == \A i \in Items : sent[i] # "not" /\ i \notin DOMAIN activities => i \in missed

ActivityInv ==
    /\ SentIsTyped /\ ShownWasSent /\ OnlyStreamsHaveOutput
    /\ NothingBeforeItsStart /\ UnknownIsMissed /\ NoSilentLoss

\* The reducer's operators.
LEMMA ItemShows ==
    ASSUME NEW text \in Nat, NEW output \in Nat, NEW status \in ActivityStatus
    PROVE  /\ ItemToActivity(text, output, status) \in ShownItems
           /\ ItemToActivity(text, output, status).text <= text
           /\ ItemToActivity(text, output, status).output <= output
           /\ ~ItemToActivity(text, output, status).truncated =>
                /\ ItemToActivity(text, output, status).text = text
                /\ ItemToActivity(text, output, status).output = output
<1> DEFINE safe == AtMost(text, Limit)
           rest == AtMost(output, Limit - safe)
           over == (text - safe) + (output - rest)
           cut == over > 0
           a(t, r, b, o) == [status |-> status, text |-> t, output |-> r, truncated |-> b,
                             truncatedChars |-> o]
<1>1. Limit \in Nat
    BY ActivityAssumption
<1>2. safe \in Nat /\ safe <= text /\ safe <= Limit
    BY <1>1 DEF AtMost
<1>3. rest \in Nat /\ rest <= output
  <2> HIDE DEF safe
  <2> QED
    BY <1>1, <1>2 DEF AtMost
<1> HIDE DEF safe, rest
<1>4. over \in Nat /\ (~cut => safe = text /\ rest = output)
    BY <1>2, <1>3
<1>5. cut \in BOOLEAN
    OBVIOUS
<1>6. ItemToActivity(text, output, status) = a(safe, rest, cut, over)
    BY DEF ItemToActivity, safe, rest
<1> HIDE DEF over
<1>7. a(safe, rest, cut, over).text = safe /\ a(safe, rest, cut, over).output = rest
      /\ a(safe, rest, cut, over).truncated = cut
    OBVIOUS
<1>8. \A b \in BOOLEAN : a(safe, rest, b, over) \in ShownItems
    BY <1>2, <1>3, <1>4 DEF ShownItems
<1> HIDE DEF cut, a
<1> QED
    BY <1>2, <1>3, <1>4, <1>5, <1>6, <1>7, <1>8

LEMMA MergeShows ==
    ASSUME NEW k \in Kinds, NEW old \in ShownItems, NEW new \in ShownItems
    PROVE  /\ MergeSameType(k, old, new) \in ShownItems
           /\ MergeSameType(k, old, new).text = MergedText(k, old, new)
           /\ MergeSameType(k, old, new).output = MergedOutput(k, old, new)
           /\ MergeSameType(k, old, new).status = new.status
           /\ ~MergeSameType(k, old, new).truncated <=> ~new.truncated /\ ~old.truncated
<1> DEFINE b == new.truncated \/ old.truncated
           t == MergedText(k, old, new)
           o == MergedOutput(k, old, new)
           n == new.truncatedChars + old.truncatedChars
           a(c) == [new EXCEPT !.text = t, !.output = o, !.truncated = c, !.truncatedChars = n]
<1>1. /\ old.text \in Nat /\ old.output \in Nat /\ old.truncatedChars \in Nat
      /\ new.text \in Nat /\ new.output \in Nat /\ new.truncatedChars \in Nat
    BY DEF ShownItems
<1>2. t \in Nat
    BY <1>1 DEF MergedText, Longer, Kinds
<1>3. o \in Nat
    BY <1>1 DEF MergedOutput, Longer
<1>4. n \in Nat
    BY <1>1
<1>5. b \in BOOLEAN
    OBVIOUS
<1>6. MergeSameType(k, old, new) = a(b)
    BY DEF MergeSameType
<1> HIDE DEF t, o, n
<1>7. \A c \in BOOLEAN : a(c) \in ShownItems /\ a(c).text = t /\ a(c).output = o /\ a(c).status = new.status
                         /\ a(c).truncated = c
    BY <1>2, <1>3, <1>4 DEF ShownItems
<1> HIDE DEF a
<1> QED
    BY <1>5, <1>6, <1>7 DEF t, o

LEMMA ActivityStart == ActivityInit => ActivityInv
<1> SUFFICES ASSUME ActivityInit PROVE ActivityInv
    OBVIOUS
<1>1. DOMAIN activities = {}
    BY DEF ActivityInit
<1>2. \A i \in Items : full[i].text = 0 /\ full[i].output = 0 /\ sent[i] = "not"
    BY DEF ActivityInit
<1>3. SentIsTyped
    BY <1>1 DEF ActivityInit, SentIsTyped
<1> QED
    BY <1>1, <1>2, <1>3 DEF ActivityInv, ShownWasSent, OnlyStreamsHaveOutput,
       NothingBeforeItsStart, UnknownIsMissed, NoSilentLoss

\* One item is sent, or one activity is shown anew.
LEMMA OneIsShown ==
    ASSUME ActivityInv, NEW i \in Items, NEW a \in ShownItems, activities' = Put(i, a),
           UNCHANGED kind,
           full' \in [Items -> [text : Nat, output : Nat]],
           sent' \in [Items -> {"not", "started", "completed"}],
           \A j \in Items : j # i => full'[j] = full[j] /\ sent'[j] = sent[j],
           missed' = missed \/ missed' = missed \ {i},
           a.text <= full'[i].text, a.output <= full'[i].output,
           kind[i] \notin Streams => full'[i].output = 0,
           sent'[i] = "not" => full'[i].text = 0 /\ full'[i].output = 0 /\ kind[i] = "thread",
           i \notin missed' /\ ~a.truncated => a.text = full'[i].text /\ a.output = full'[i].output
    PROVE  ActivityInv'
<1>1. /\ DOMAIN activities' = DOMAIN activities \cup {i}
      /\ activities'[i] = a
      /\ \A j \in DOMAIN activities : j # i => activities'[j] = activities[j]
    BY DEF Put
<1>2. SentIsTyped'
    BY <1>1 DEF ActivityInv, SentIsTyped
<1>3. ShownWasSent'
    BY <1>1 DEF ActivityInv, ShownWasSent, SentIsTyped
<1>4. OnlyStreamsHaveOutput'
    BY DEF ActivityInv, OnlyStreamsHaveOutput
<1>5. NothingBeforeItsStart'
    BY <1>1 DEF ActivityInv, NothingBeforeItsStart
<1>6. UnknownIsMissed'
    BY <1>1 DEF ActivityInv, UnknownIsMissed
<1>7. NoSilentLoss'
    BY <1>1 DEF ActivityInv, NoSilentLoss, SentIsTyped
<1> QED
    BY <1>2, <1>3, <1>4, <1>5, <1>6, <1>7 DEF ActivityInv

\* What a delta adds to: the activity, or a placeholder.
LEMMA ExistingIs ==
    ASSUME ActivityInv, NEW i \in Items
    PROVE  /\ Existing(i) \in ShownItems
           /\ Existing(i).text <= full[i].text /\ Existing(i).output <= full[i].output
           /\ i \in DOMAIN activities => Existing(i) = activities[i]
<1>1. CASE i \in DOMAIN activities
    BY <1>1 DEF ActivityInv, SentIsTyped, ShownWasSent, Existing
<1>2. CASE i \notin DOMAIN activities
  <2>1. Existing(i) = ItemToActivity(0, 0, "inProgress")
    BY <1>2 DEF Existing, Placeholder
  <2>2. 0 \in Nat /\ "inProgress" \in ActivityStatus
    BY DEF ActivityStatus
  <2>3. Existing(i) \in ShownItems /\ Existing(i).text <= 0 /\ Existing(i).output <= 0
    BY <2>1, <2>2, ItemShows
  <2>4. full[i].text \in Nat /\ full[i].output \in Nat
    BY DEF ActivityInv, SentIsTyped
  <2> QED
    BY <1>2, <2>3, <2>4 DEF ShownItems
<1> QED
    BY <1>1, <1>2

\* An item that is shown again: what the merge keeps was sent, and is all of it if
\* nothing was cut and the item was whole, or its output was known and it carries none.
LEMMA ShownAgain ==
    ASSUME ActivityInv, NEW i \in Items, NEW text \in Nat, NEW output \in Nat,
           NEW status \in ActivityStatus,
           activities' = Upsert(i, ItemToActivity(text, output, status)),
           UNCHANGED kind,
           full' \in [Items -> [text : Nat, output : Nat]], full'[i].text = text,
           full'[i].output = full[i].output,
           sent' \in [Items -> {"not", "started", "completed"}], sent'[i] # "not",
           \A j \in Items : j # i => full'[j] = full[j] /\ sent'[j] = sent[j],
           missed' = missed \/ missed' = missed \ {i},
           kind[i] \in {"turnDiff", "turnPlan", "thread"} \/ sent[i] = "not"
             \/ text = full[i].text,
           output = 0 \/ (output = full[i].output /\ kind[i] # "fileChange" /\ kind[i] # "mcpTool"),
           i \notin missed' => output = full[i].output \/ (i \notin missed /\ sent[i] # "not"),
           sent[i] = "not" => output = 0
    PROVE  ActivityInv'
<1> DEFINE new == ItemToActivity(text, output, status)
           a == IF i \in DOMAIN activities THEN MergeSameType(kind[i], activities[i], new) ELSE new
<1>0. /\ kind[i] \in Kinds /\ full[i].text \in Nat /\ full[i].output \in Nat
      /\ kind[i] \notin Streams => full[i].output = 0
      /\ sent[i] = "not" => full[i].output = 0 /\ full[i].text = 0
      /\ sent[i] = "not" /\ i \in DOMAIN activities => kind[i] = "thread"
      /\ sent[i] # "not" /\ i \notin DOMAIN activities => i \in missed
    BY DEF ActivityInv, SentIsTyped, OnlyStreamsHaveOutput, NothingBeforeItsStart, UnknownIsMissed
<1>1. /\ new \in ShownItems /\ new.text <= text /\ new.output <= output
      /\ ~new.truncated => new.text = text /\ new.output = output
    BY ItemShows
<1>2. activities' = Put(i, a)
    BY DEF Upsert
<1>3. CASE i \notin DOMAIN activities
  <2>1. a = new
    BY <1>3
  <2>2. a.output <= full[i].output /\ new.output \in Nat /\ new.text \in Nat
    BY <1>0, <1>1, <2>1 DEF ShownItems
  <2>3. i \notin missed' /\ ~a.truncated => a.text = text /\ a.output = full[i].output
    BY <1>0, <1>1, <1>3, <2>1
  <2> HIDE DEF a, new
  <2> QED
    BY <1>0, <1>1, <1>2, <2>1, <2>2, <2>3, OneIsShown
<1>4. CASE i \in DOMAIN activities
  <2> DEFINE old == activities[i]
  <2>1. /\ old \in ShownItems /\ old.text \in Nat /\ old.output \in Nat
        /\ old.text <= full[i].text /\ old.output <= full[i].output
        /\ i \notin missed /\ ~old.truncated => old.text = full[i].text /\ old.output = full[i].output
    BY <1>4 DEF ActivityInv, SentIsTyped, ShownWasSent, NoSilentLoss, ShownItems
  <2>2. new.text \in Nat /\ new.output \in Nat
    BY <1>1 DEF ShownItems
  <2> HIDE DEF new, old
  <2>3. /\ a \in ShownItems
        /\ a.text = MergedText(kind[i], old, new) /\ a.output = MergedOutput(kind[i], old, new)
        /\ ~a.truncated <=> ~new.truncated /\ ~old.truncated
    BY <1>0, <1>1, <1>4, <2>1, MergeShows DEF old
  <2> HIDE DEF a
  <2>4. kind[i] \in {"message", "reasoning", "command", "fileChange"} => text = full[i].text
    BY <1>0, <1>4
  <2>5. a.text <= text /\ (~a.truncated => a.text = text)
    BY <1>0, <1>1, <2>1, <2>2, <2>3, <2>4 DEF MergedText, Longer, Kinds
  <2>6. a.output <= full[i].output
    BY <1>0, <1>1, <2>1, <2>2, <2>3 DEF MergedOutput, Longer
  <2>7. i \notin missed' /\ ~a.truncated => a.output = full[i].output
    BY <1>0, <1>1, <2>1, <2>2, <2>3 DEF MergedOutput, Longer
  <2> QED
    BY <1>0, <1>2, <2>3, <2>5, <2>6, <2>7, OneIsShown
<1> QED
    BY <1>3, <1>4

LEMMA ItemIsSent ==
    ASSUME ActivityInv, NEW i \in Items,
           \/ \E n \in 0 .. MaxText, raw \in RawStatus : ItemStarted(i, n, raw)
           \/ \E n \in 0 .. MaxOutput, raw \in RawStatus : ItemCompleted(i, n, raw)
    PROVE  ActivityInv'
<1>0. /\ kind \in [Items -> Kinds] /\ full \in [Items -> [text : Nat, output : Nat]]
      /\ sent \in [Items -> {"not", "started", "completed"}]
      /\ full[i].text \in Nat /\ full[i].output \in Nat
      /\ kind[i] \notin Streams => full[i].output = 0
      /\ sent[i] = "not" => full[i].output = 0 /\ full[i].text = 0
    BY DEF ActivityInv, SentIsTyped, OnlyStreamsHaveOutput, NothingBeforeItsStart
<1>1. CASE \E n \in 0 .. MaxText, raw \in RawStatus : ItemStarted(i, n, raw)
  <2>1. PICK n \in 0 .. MaxText, raw \in RawStatus : ItemStarted(i, n, raw)
    BY <1>1
  <2> DEFINE text == IF kind[i] = "message" THEN 0 ELSE n
             status == ItemStatus(raw, "started")
  <2>2. text \in Nat
    BY ActivityAssumption
  <2>3. status \in ActivityStatus
    BY DEF ItemStatus, ActivityStatus, RawStatus
  <2> HIDE DEF text, status
  <2>4. /\ full' = [full EXCEPT ![i].text = text]
        /\ sent' = [sent EXCEPT ![i] = "started"]
        /\ sent[i] = "not" /\ UNCHANGED <<kind, missed>>
    BY <2>1 DEF ItemStarted, text
  <2>5. /\ full' \in [Items -> [text : Nat, output : Nat]]
        /\ full'[i].text = text /\ full'[i].output = full[i].output
        /\ \A j \in Items : j # i => full'[j] = full[j]
    BY <1>0, <2>2, <2>4
  <2>6. /\ sent' \in [Items -> {"not", "started", "completed"}] /\ sent'[i] # "not"
        /\ \A j \in Items : j # i => sent'[j] = sent[j]
    BY <1>0, <2>4
  <2>7. activities' = Upsert(i, ItemToActivity(text, 0, status))
    BY <2>1, <2>5 DEF ItemStarted, status
  <2> QED
    BY <1>0, <2>2, <2>3, <2>4, <2>5, <2>6, <2>7, ShownAgain
<1>2. CASE \E n \in 0 .. MaxOutput, raw \in RawStatus : ItemCompleted(i, n, raw)
  <2>1. PICK n \in 0 .. MaxOutput, raw \in RawStatus : ItemCompleted(i, n, raw)
    BY <1>2
  <2> DEFINE status == ItemStatus(raw, "completed")
  <2>2. n \in Nat
    BY ActivityAssumption
  <2>3. status \in ActivityStatus
    BY DEF ItemStatus, ActivityStatus, RawStatus
  <2>4. activities' = Upsert(i, ItemToActivity(full[i].text, n, status))
    BY <2>1 DEF ItemCompleted
  <2> HIDE DEF status
  <2>5. /\ UNCHANGED <<kind, full>> /\ sent[i] = "started"
        /\ sent' = [sent EXCEPT ![i] = "completed"]
        /\ missed' = IF n = full[i].output THEN missed \ {i} ELSE missed
        /\ n \in Carries(i)
    BY <2>1 DEF ItemCompleted
  <2>6. n = 0 \/ (n = full[i].output /\ kind[i] # "fileChange" /\ kind[i] # "mcpTool")
    BY <2>5 DEF Carries
  <2>7. /\ sent' \in [Items -> {"not", "started", "completed"}] /\ sent'[i] # "not"
        /\ \A j \in Items : j # i => sent'[j] = sent[j]
    BY <1>0, <2>5
  <2>8. i \notin missed' => n = full[i].output \/ (i \notin missed /\ sent[i] # "not")
    BY <2>5
  <2> QED
    BY <1>0, <2>2, <2>3, <2>4, <2>5, <2>6, <2>7, <2>8, ShownAgain
<1> QED
    BY <1>1, <1>2

LEMMA WholeIsSent ==
    ASSUME ActivityInv, NEW i \in Items,
           \/ \E n \in 0 .. MaxOutput : TurnDiffUpdated(i, n)
           \/ \E n \in 0 .. MaxOutput, done \in BOOLEAN : TurnPlanUpdated(i, n, done)
           \/ \E n \in 0 .. MaxOutput, raw \in RawThreadStatus : ThreadStarted(i, n, raw)
    PROVE  ActivityInv'
<1>0. /\ full \in [Items -> [text : Nat, output : Nat]]
      /\ sent \in [Items -> {"not", "started", "completed"}]
      /\ kind[i] \notin Streams => full[i].output = 0
    BY DEF ActivityInv, SentIsTyped, OnlyStreamsHaveOutput
<1>1. \A raw \in RawThreadStatus : ThreadStatus(raw) \in ActivityStatus
    BY DEF ThreadStatus, ActivityStatus, RawThreadStatus
<1>2. PICK n \in 0 .. MaxOutput, status \in ActivityStatus :
        /\ activities' = Upsert(i, ItemToActivity(n, 0, status))
        /\ full' = [full EXCEPT ![i].text = n] /\ sent' = [sent EXCEPT ![i] = "started"]
        /\ missed' = missed \ {i} /\ UNCHANGED kind
        /\ kind[i] \in {"turnDiff", "turnPlan", "thread"}
  <2>1. CASE \E n \in 0 .. MaxOutput : TurnDiffUpdated(i, n)
    <3>1. "inProgress" \in ActivityStatus
      BY DEF ActivityStatus
    <3> QED
      BY <2>1, <3>1 DEF TurnDiffUpdated
  <2>2. CASE \E n \in 0 .. MaxOutput, done \in BOOLEAN : TurnPlanUpdated(i, n, done)
    <3>1. PICK n \in 0 .. MaxOutput, done \in BOOLEAN : TurnPlanUpdated(i, n, done)
      BY <2>2
    <3>2. (IF done THEN "completed" ELSE "inProgress") \in ActivityStatus
      BY DEF ActivityStatus
    <3> QED
      BY <3>1, <3>2 DEF TurnPlanUpdated
  <2>3. CASE \E n \in 0 .. MaxOutput, raw \in RawThreadStatus : ThreadStarted(i, n, raw)
    BY <1>1, <2>3 DEF ThreadStarted
  <2> QED
    BY <2>1, <2>2, <2>3
<1>3. n \in Nat /\ 0 \in Nat
    BY ActivityAssumption
<1>4. full[i].output = 0
    BY <1>0, <1>2 DEF Streams
<1>5. /\ full' \in [Items -> [text : Nat, output : Nat]]
      /\ full'[i].text = n /\ full'[i].output = full[i].output
      /\ \A j \in Items : j # i => full'[j] = full[j]
    BY <1>0, <1>2, <1>3
<1>6. /\ sent' \in [Items -> {"not", "started", "completed"}] /\ sent'[i] # "not"
      /\ \A j \in Items : j # i => sent'[j] = sent[j]
    BY <1>0, <1>2
<1> QED
    BY <1>2, <1>3, <1>4, <1>5, <1>6, ShownAgain

LEMMA DeltaIsAppended ==
    ASSUME ActivityInv, NEW i \in Items, NEW n \in 1 .. MaxOutput, Delta(i, n)
    PROVE  ActivityInv'
<1> DEFINE m == Separated(i, n)
           accepted == AtMost(m, Room(i))
           over == m - accepted
           old == Existing(i)
           output == old.output + accepted
           chars == old.truncatedChars + over
           a(b) == [old EXCEPT !.output = output, !.truncated = b, !.truncatedChars = chars]
           cut == old.truncated \/ over > 0
<1>0. /\ full \in [Items -> [text : Nat, output : Nat]]
      /\ sent \in [Items -> {"not", "started", "completed"}]
      /\ full[i].text \in Nat /\ full[i].output \in Nat
      /\ sent[i] # "not" /\ i \notin DOMAIN activities => i \in missed
      /\ i \in DOMAIN activities /\ i \notin missed /\ ~activities[i].truncated =>
           activities[i].text = full[i].text /\ activities[i].output = full[i].output
    BY DEF ActivityInv, SentIsTyped, UnknownIsMissed, NoSilentLoss
<1>1. /\ old \in ShownItems /\ old.text \in Nat /\ old.output \in Nat /\ old.truncatedChars \in Nat
      /\ old.text <= full[i].text /\ old.output <= full[i].output
      /\ i \in DOMAIN activities => old = activities[i]
    BY ExistingIs DEF ShownItems
<1>2. m \in Nat
    BY ActivityAssumption DEF Separated
<1>3. Room(i) \in Nat
    BY <1>1, ActivityAssumption DEF Room
<1>4. accepted \in Nat /\ accepted <= m
    BY <1>2, <1>3 DEF AtMost
<1>5. /\ sent[i] = "started" /\ kind[i] \in Streams
      /\ full' = [full EXCEPT ![i].output = @ + m]
      /\ UNCHANGED <<kind, sent, missed>>
    BY DEF Delta
<1>6. activities' = Put(i, a(cut))
    BY DEF Delta, AppendLimited
<1> HIDE DEF m, accepted, old
<1>7. over \in Nat /\ (~cut => accepted = m /\ ~old.truncated)
    BY <1>2, <1>4
<1>8. output \in Nat /\ chars \in Nat /\ output = old.output + accepted
    BY <1>1, <1>4, <1>7
<1> HIDE DEF over, output, chars
<1>9. \A b \in BOOLEAN : /\ a(b) \in ShownItems /\ a(b).text = old.text
                         /\ a(b).output = output /\ a(b).truncated = b
    BY <1>1, <1>8 DEF ShownItems
<1>10. cut \in BOOLEAN
    OBVIOUS
<1> HIDE DEF cut, a
<1>11. /\ full' \in [Items -> [text : Nat, output : Nat]]
       /\ full'[i].text = full[i].text /\ full'[i].output = full[i].output + m
       /\ \A j \in Items : j # i => full'[j] = full[j]
    BY <1>0, <1>2, <1>5
<1>12. /\ a(cut).text <= full'[i].text /\ a(cut).output <= full'[i].output
    BY <1>0, <1>1, <1>2, <1>4, <1>9, <1>10, <1>11, <1>8
<1>13. i \notin missed' /\ ~a(cut).truncated => a(cut).text = full'[i].text /\ a(cut).output = full'[i].output
    BY <1>0, <1>1, <1>5, <1>7, <1>9, <1>10, <1>11, <1>8
<1>14. a(cut) \in ShownItems
    BY <1>9, <1>10
<1> QED
    BY <1>0, <1>5, <1>6, <1>11, <1>12, <1>13, <1>14, OneIsShown

LEMMA ThreadIsShown ==
    ASSUME ActivityInv, NEW i \in Items, NEW raw \in RawThreadStatus, ThreadStatusChanged(i, raw)
    PROVE  ActivityInv'
<1>0. /\ kind[i] = "thread" /\ UNCHANGED <<kind, full, sent, missed>>
    BY DEF ThreadStatusChanged
<1>1. /\ full \in [Items -> [text : Nat, output : Nat]]
      /\ sent \in [Items -> {"not", "started", "completed"}]
      /\ full[i].text \in Nat /\ full[i].output \in Nat
      /\ kind[i] \notin Streams => full[i].output = 0
      /\ sent[i] = "not" => full[i].output = 0 /\ full[i].text = 0
      /\ sent[i] # "not" /\ i \notin DOMAIN activities => i \in missed
    BY DEF ActivityInv, SentIsTyped, OnlyStreamsHaveOutput, NothingBeforeItsStart, UnknownIsMissed
<1>2. ThreadStatus(raw) \in ActivityStatus
    BY DEF ThreadStatus, ActivityStatus, RawThreadStatus
<1>3. CASE i \in DOMAIN activities
  <2> DEFINE a == [activities[i] EXCEPT !.status = ThreadStatus(raw)]
  <2>1. activities[i] \in ShownItems
    BY <1>3 DEF ActivityInv, SentIsTyped
  <2>2. /\ a \in ShownItems /\ a.text = activities[i].text /\ a.output = activities[i].output
        /\ a.truncated = activities[i].truncated
    BY <1>2, <2>1 DEF ShownItems
  <2>3. activities' = Put(i, a)
    BY <1>3 DEF ThreadStatusChanged
  <2>4. /\ activities[i].text <= full[i].text /\ activities[i].output <= full[i].output
        /\ i \notin missed /\ ~activities[i].truncated =>
             activities[i].text = full[i].text /\ activities[i].output = full[i].output
    BY <1>3 DEF ActivityInv, ShownWasSent, NoSilentLoss
  <2> HIDE DEF a
  <2> QED
    BY <1>0, <1>1, <2>2, <2>3, <2>4, OneIsShown
<1>4. CASE i \notin DOMAIN activities
  <2> DEFINE a == ItemToActivity(0, 0, ThreadStatus(raw))
  <2>1. /\ a \in ShownItems /\ a.text <= 0 /\ a.output <= 0
        /\ ~a.truncated => a.text = 0 /\ a.output = 0
    BY <1>2, ItemShows
  <2>2. activities' = Put(i, a)
    BY <1>4 DEF ThreadStatusChanged
  <2> HIDE DEF a
  <2>3. a.text \in Nat /\ a.output \in Nat
    BY <2>1 DEF ShownItems
  <2>4. i \notin missed => full[i].text = 0 /\ full[i].output = 0
    BY <1>1, <1>4
  <2> QED
    BY <1>0, <1>1, <2>1, <2>2, <2>3, <2>4, OneIsShown
<1> QED
    BY <1>3, <1>4

\* The turn begins, fails or ends: only the status of an activity changes.
LEMMA TurnMovesOn ==
    ASSUME ActivityInv,
           \/ TurnIsStarted \/ ErrorReported
           \/ \E s \in {"completed", "failed", "interrupted"} : TurnIsCompleted(s)
           \/ UNCHANGED activityVars
    PROVE  ActivityInv'
<1>1. UNCHANGED <<kind, full, sent, missed>>
    BY DEF TurnIsStarted, ErrorReported, TurnIsCompleted, activityVars
<1>2. /\ DOMAIN activities' = DOMAIN activities
      /\ \A i \in DOMAIN activities :
           /\ activities'[i] \in ShownItems
           /\ activities'[i].text = activities[i].text
           /\ activities'[i].output = activities[i].output
           /\ activities'[i].truncated = activities[i].truncated
  <2>0. \A i \in DOMAIN activities : activities[i] \in ShownItems
    BY DEF ActivityInv, SentIsTyped
  <2>1. CASE UNCHANGED activities
    BY <2>0, <2>1
  <2>2. CASE \E s \in {"completed", "failed", "interrupted"} : TurnIsCompleted(s)
    <3>1. PICK s \in {"completed", "failed", "interrupted"} : TurnIsCompleted(s)
      BY <2>2
    <3>2. activities' = EndItems(activities, s)
      BY <3>1 DEF TurnIsCompleted
    <3>3. s \in ActivityStatus
      BY DEF ActivityStatus
    <3>4. DOMAIN activities' = DOMAIN activities
      BY <3>2 DEF EndItems
    <3>5. ASSUME NEW i \in DOMAIN activities
          PROVE  activities'[i] = activities[i] \/ activities'[i] = [activities[i] EXCEPT !.status = s]
      BY <3>2 DEF EndItems
    <3>6. ASSUME NEW a \in ShownItems
          PROVE  /\ [a EXCEPT !.status = s] \in ShownItems
                 /\ [a EXCEPT !.status = s].text = a.text
                 /\ [a EXCEPT !.status = s].output = a.output
                 /\ [a EXCEPT !.status = s].truncated = a.truncated
      BY <3>3 DEF ShownItems
    <3> QED
      BY <2>0, <3>4, <3>5, <3>6
  <2> QED
    BY <2>1, <2>2 DEF TurnIsStarted, ErrorReported, activityVars
<1>3. SentIsTyped' /\ ShownWasSent' /\ NoSilentLoss'
    BY <1>1, <1>2 DEF ActivityInv, SentIsTyped, ShownWasSent, NoSilentLoss
<1>4. OnlyStreamsHaveOutput' /\ NothingBeforeItsStart' /\ UnknownIsMissed'
    BY <1>1, <1>2 DEF ActivityInv, OnlyStreamsHaveOutput, NothingBeforeItsStart, UnknownIsMissed
<1> QED
    BY <1>3, <1>4 DEF ActivityInv

\* An item that is reduced again and again stays what it is.
LEMMA HydratedShows ==
    ASSUME ActivityInv, NEW i \in Items, NEW carried \in Nat, carried <= full[i].output
    PROVE  /\ Hydrated(i, carried) \in ShownItems
           /\ Hydrated(i, carried).text <= full[i].text
           /\ Hydrated(i, carried).output <= full[i].output
           /\ ~Hydrated(i, carried).truncated /\ carried = full[i].output =>
                /\ Hydrated(i, carried).text = full[i].text
                /\ Hydrated(i, carried).output = full[i].output
<1>0. /\ full[i].text \in Nat /\ full[i].output \in Nat /\ kind[i] \in Kinds
      /\ kind[i] \notin Streams => full[i].output = 0
    BY DEF ActivityInv, SentIsTyped, OnlyStreamsHaveOutput
<1>1. CASE kind[i] = "thread"
  <2>1. full[i].output = 0
    BY <1>0, <1>1 DEF Streams
  <2>2. Hydrated(i, carried) = ItemToActivity(full[i].text, 0, "idle")
    BY <1>1 DEF Hydrated
  <2>3. "idle" \in ActivityStatus /\ 0 \in Nat
    BY DEF ActivityStatus
  <2> QED
    BY <1>0, <2>1, <2>2, <2>3, ItemShows
<1>2. CASE kind[i] # "thread"
  <2> DEFINE a == ItemToActivity(full[i].text, carried, "completed")
             again(b) == MergeSameType(kind[i], b, a)
             Same(b) == /\ b \in ShownItems /\ b.text = a.text /\ b.output = a.output
                        /\ ~b.truncated <=> ~a.truncated
  <2>1. "completed" \in ActivityStatus
    BY DEF ActivityStatus
  <2>2. /\ a \in ShownItems /\ a.text <= full[i].text /\ a.output <= carried
        /\ ~a.truncated => a.text = full[i].text /\ a.output = carried
    BY <1>0, <2>1, ItemShows
  <2>3. Hydrated(i, carried) = again(again(again(again(a))))
    BY <1>2 DEF Hydrated
  <2> HIDE DEF a
  <2>4. a.text \in Nat /\ a.output \in Nat
    BY <2>2 DEF ShownItems
  <2>5. ASSUME NEW b, Same(b) PROVE Same(again(b))
    <3>1. /\ again(b) \in ShownItems
          /\ again(b).text = MergedText(kind[i], b, a)
          /\ again(b).output = MergedOutput(kind[i], b, a)
          /\ ~again(b).truncated <=> ~a.truncated /\ ~b.truncated
      BY <1>0, <2>2, <2>5, MergeShows
    <3>2. MergedText(kind[i], b, a) = a.text
      BY <1>0, <2>4, <2>5 DEF MergedText, Longer, Kinds
    <3>3. MergedOutput(kind[i], b, a) = a.output
      BY <2>4, <2>5 DEF MergedOutput, Longer
    <3> HIDE DEF again
    <3> QED
      BY <2>5, <3>1, <3>2, <3>3
  <2>6. Same(a)
    BY <2>2
  <2> HIDE DEF again, Same
  <2>7. Same(Hydrated(i, carried))
    BY <2>3, <2>5, <2>6
  <2>8. a.output <= full[i].output
    BY <1>0, <2>2, <2>4
  <2> QED
    BY <1>0, <2>2, <2>4, <2>7, <2>8 DEF Same
<1> QED
    BY <1>1, <1>2

LEMMA ThreadIsLoaded ==
    ASSUME ActivityInv, NEW items \in SUBSET Items, NEW carried \in [items -> 0 .. MaxOutput],
           HydrateThread(items, carried)
    PROVE  ActivityInv'
<1>1. /\ UNCHANGED <<kind, full, sent>>
      /\ {i \in Items : sent[i] = "completed" \/ kind[i] = "thread"} \subseteq items
      /\ \A i \in items : (sent[i] # "not" \/ kind[i] = "thread") /\ carried[i] \in Carries(i)
      /\ activities' = [i \in items |-> Hydrated(i, carried[i])]
      /\ missed' = {i \in Items : sent[i] # "not" /\ (i \notin items \/ carried[i] # full[i].output)}
    BY DEF HydrateThread
<1>2. \A i \in items : carried[i] \in Nat /\ carried[i] <= full[i].output
  <2> SUFFICES ASSUME NEW i \in items PROVE carried[i] \in Nat /\ carried[i] <= full[i].output
    OBVIOUS
  <2>1. full[i].output \in Nat
    BY DEF ActivityInv, SentIsTyped
  <2>2. carried[i] \in {0, full[i].output}
    BY <1>1 DEF Carries
  <2> QED
    BY <2>1, <2>2
<1>3. \A i \in items :
        /\ activities'[i] \in ShownItems
        /\ activities'[i].text <= full[i].text /\ activities'[i].output <= full[i].output
        /\ ~activities'[i].truncated /\ carried[i] = full[i].output =>
             activities'[i].text = full[i].text /\ activities'[i].output = full[i].output
    BY <1>1, <1>2, HydratedShows
<1>4. DOMAIN activities' = items
    BY <1>1
<1>5. \A i \in items : i \notin missed' => carried[i] = full[i].output
  <2> SUFFICES ASSUME NEW i \in items, i \notin missed' PROVE carried[i] = full[i].output
    OBVIOUS
  <2>1. CASE sent[i] # "not"
    BY <1>1, <2>1
  <2>2. CASE sent[i] = "not"
    <3>1. full[i].output = 0
      BY <2>2 DEF ActivityInv, NothingBeforeItsStart
    <3> QED
      BY <1>2, <3>1
  <2> QED
    BY <2>1, <2>2
<1>6. SentIsTyped' /\ ShownWasSent' /\ NoSilentLoss'
    BY <1>1, <1>3, <1>4, <1>5 DEF ActivityInv, SentIsTyped, ShownWasSent, NoSilentLoss
<1>7. OnlyStreamsHaveOutput' /\ NothingBeforeItsStart' /\ UnknownIsMissed'
    BY <1>1, <1>4 DEF ActivityInv, OnlyStreamsHaveOutput, NothingBeforeItsStart, UnknownIsMissed
<1> QED
    BY <1>6, <1>7 DEF ActivityInv

LEMMA ActivityKept == ActivityInv /\ [ActivityNext]_activityVars => ActivityInv'
<1> SUFFICES ASSUME ActivityInv, [ActivityNext]_activityVars PROVE ActivityInv'
    OBVIOUS
<1>1. CASE \/ TurnIsStarted \/ ErrorReported
           \/ \E s \in {"completed", "failed", "interrupted"} : TurnIsCompleted(s)
           \/ UNCHANGED activityVars
    BY <1>1, TurnMovesOn
<1>2. CASE \E i \in Items :
             \/ \E n \in 0 .. MaxText, raw \in RawStatus : ItemStarted(i, n, raw)
             \/ \E n \in 0 .. MaxOutput, raw \in RawStatus : ItemCompleted(i, n, raw)
    BY <1>2, ItemIsSent
<1>3. CASE \E i \in Items :
             \/ \E n \in 0 .. MaxOutput : TurnDiffUpdated(i, n)
             \/ \E n \in 0 .. MaxOutput, done \in BOOLEAN : TurnPlanUpdated(i, n, done)
             \/ \E n \in 0 .. MaxOutput, raw \in RawThreadStatus : ThreadStarted(i, n, raw)
    BY <1>3, WholeIsSent
<1>4. CASE \E i \in Items : \E n \in 1 .. MaxOutput : Delta(i, n)
    BY <1>4, DeltaIsAppended
<1>5. CASE \E i \in Items : \E raw \in RawThreadStatus : ThreadStatusChanged(i, raw)
    BY <1>5, ThreadIsShown
<1>6. CASE \E items \in SUBSET Items : \E carried \in [items -> 0 .. MaxOutput] :
             HydrateThread(items, carried)
    BY <1>6, ThreadIsLoaded
<1> QED
    BY <1>1, <1>2, <1>3, <1>4, <1>5, <1>6 DEF ActivityNext

\* An activity that is not marked as cut shows all that the engine has sent of it, however
\* its events and the answers to thread/resume are interleaved (reduceNotification,
\* #hydrateThread).
THEOREM NothingIsCutSilently == ActivitySpec => []NoSilentLoss
<1>1. ActivityInv => NoSilentLoss
    BY DEF ActivityInv
<1> QED
    BY <1>1, ActivityStart, ActivityKept, PTL DEF ActivitySpec

-----------------------------------------------------------------------------
(* Discards.  While one is under way nobody else touches the stash, so that *)
(* what is dropped is what the ref already holds, and a rename is in the    *)
(* way of new edits of the file it was, so that restoring it takes nothing. *)

StashRecords == [id : Nat, staged : SUBSET Edits, changed : SUBSET Edits,
            rename : BOOLEAN, tracked : BOOLEAN, path : Paths]

DiscardSteps == {"push", "find", "secure", "verify", "drop", "sources"}

DiscardsUnderWay == [step : {"idle", "apply", "forget"} \cup DiscardSteps, id : Nat, path : Paths,
               selector : Nat, sources : BOOLEAN]

DiscardTypes ==
    /\ staged \subseteq Edits /\ changed \subseteq Edits /\ committed \subseteq Edits
    /\ stashes \in Seq(StashRecords)
    /\ DOMAIN refs \subseteq Nat
    /\ \A i \in DOMAIN refs : refs[i] \in StashRecords
    /\ discarding \in DiscardsUnderWay
    /\ discarded \in Nat

\* An entry holds edits of its path, and the new name of the renamed one.
OfItsPath(entry) ==
    /\ \A e \in EditsOf(entry) : e[1] = entry.path
    /\ entry.rename => entry.path = Target

RenameKeepsSource ==
    /\ \A i \in 1 .. Len(stashes) : OfItsPath(stashes[i])
    /\ \A i \in DOMAIN refs : OfItsPath(refs[i])
    /\ rename # "no" => At(staged \cup changed, Source) = {}
    /\ discarding.sources => rename # "no"
    /\ discarding.step = "sources" => discarding.sources

\* Every discard has an entry and a ref of its own.
EntriesAreTheirDiscards ==
    /\ \A i \in 1 .. Len(stashes) : stashes[i].id <= discarded
    /\ \A i \in DOMAIN refs : i <= discarded
    /\ \A m, n \in 1 .. Len(stashes) : stashes[m].id = stashes[n].id /\ stashes[m].id # 0 => m = n
    /\ discarding.id <= discarded
    /\ discarding.step \in DiscardSteps => discarding.id # 0
    /\ discarding.step = "push" => \A i \in 1 .. Len(stashes) : stashes[i].id # discarding.id
    /\ discarding.step \in {"push", "find", "secure"} => discarding.id \notin DOMAIN refs

DropIsSecured ==
    /\ discarding.step \in {"secure", "verify", "drop"} => discarding.selector # 0
    /\ discarding.step \in {"verify", "drop"} =>
         /\ discarding.id \in DOMAIN refs
         /\ \A n \in 1 .. Len(stashes) : stashes[n].id = discarding.id => stashes[n] = refs[discarding.id]
    /\ discarding.step = "drop" =>
         /\ discarding.selector \in 1 .. Len(stashes)
         /\ stashes[discarding.selector].id = discarding.id

ForgottenIsBack ==
    discarding.step = "forget" /\ discarding.id \in DOMAIN refs =>
        taken \cap EditsOf(refs[discarding.id]) = {}

DiscardInv ==
    /\ DiscardTypes /\ RenameKeepsSource /\ EntriesAreTheirDiscards
    /\ DropIsSecured /\ ForgottenIsBack /\ DiscardsAreRecoverable

LEMMA InRecoverable ==
    ASSUME NEW x
    PROVE  x \in Recoverable <=> \/ \E n \in 1 .. Len(stashes) : x \in EditsOf(stashes[n])
                                 \/ \E i \in DOMAIN refs : x \in EditsOf(refs[i])
BY DEF Recoverable

LEMMA InRecoverableThen ==
    ASSUME NEW x
    PROVE  x \in Recoverable' <=> \/ \E n \in 1 .. Len(stashes') : x \in EditsOf(stashes'[n])
                                  \/ \E i \in DOMAIN refs' : x \in EditsOf(refs'[i])
BY DEF Recoverable, EditsOf

LEMMA RemovedAt ==
    ASSUME NEW S, NEW s \in Seq(S), NEW n \in 1 .. Len(s)
    PROVE  /\ WithoutEntry(s, n) \in Seq(S)
           /\ Len(WithoutEntry(s, n)) = Len(s) - 1
           /\ \A i \in 1 .. Len(s) - 1 :
                WithoutEntry(s, n)[i] = s[IF i < n THEN i ELSE i + 1]
<1>1. Len(s) \in Nat /\ Len(s) - 1 \in Nat
    BY LenProperties
<1>2. \A i \in 1 .. Len(s) - 1 : (IF i < n THEN s[i] ELSE s[i + 1]) \in S
    BY <1>1, ElementOfSeq
<1>3. WithoutEntry(s, n) \in [1 .. Len(s) - 1 -> S]
    BY <1>2 DEF WithoutEntry
<1>4. WithoutEntry(s, n) \in Seq(S)
    BY <1>1, <1>3, SeqDef
<1>5. Len(WithoutEntry(s, n)) = Len(s) - 1
    BY <1>1, <1>3, <1>4, LenProperties DEF WithoutEntry
<1> QED
    BY <1>4, <1>5 DEF WithoutEntry

LEMMA PushedOn ==
    ASSUME NEW S, NEW s \in Seq(S), NEW e \in S
    PROVE  /\ <<e>> \o s \in Seq(S)
           /\ Len(<<e>> \o s) = Len(s) + 1
           /\ (<<e>> \o s)[1] = e
           /\ \A i \in 1 .. Len(s) : (<<e>> \o s)[i + 1] = s[i]
           /\ \A i \in 1 .. Len(s) + 1 :
                i # 1 => i - 1 \in 1 .. Len(s) /\ (<<e>> \o s)[i] = s[i - 1]
<1>1. Len(s) \in Nat /\ <<e>> \in Seq(S) /\ Len(<<e>>) = 1 /\ <<e>>[1] = e
    BY LenProperties
<1>2. /\ Len(<<e>> \o s) = Len(s) + 1
      /\ \A i \in 1 .. Len(s) + 1 : (<<e>> \o s)[i] = IF i <= 1 THEN <<e>>[i] ELSE s[i - 1]
    BY <1>1, ConcatProperties
<1>3. <<e>> \o s \in Seq(S)
    BY <1>1, ConcatProperties
<1>4. (<<e>> \o s)[1] = e
    BY <1>1, <1>2
<1>5. \A i \in 1 .. Len(s) : (<<e>> \o s)[i + 1] = s[i]
    BY <1>1, <1>2
<1>6. \A i \in 1 .. Len(s) + 1 :
                i # 1 => i - 1 \in 1 .. Len(s) /\ (<<e>> \o s)[i] = s[i - 1]
    BY <1>1, <1>2
<1> QED
    BY <1>2, <1>3, <1>4, <1>5, <1>6

LEMMA EntryIsRecord ==
    ASSUME DiscardTypes, NEW id \in Nat, NEW path \in Paths, NEW of \in BOOLEAN
    PROVE  /\ Entry(id, path, of) \in StashRecords /\ OfItsPath(Entry(id, path, of))
           /\ Entry(id, path, of).id = id
           /\ Entry(id, path, of).rename => rename = "yes"
<1> DEFINE renamed == rename = "yes" /\ path = Target
           e(r) == [id |-> id, staged |-> At(staged, path), changed |-> At(changed, path),
                    rename |-> r, tracked |-> of, path |-> path]
<1>1. At(staged, path) \in SUBSET Edits /\ At(changed, path) \in SUBSET Edits
    BY DEF DiscardTypes, At
<1>2. renamed \in BOOLEAN
    OBVIOUS
<1>3. \A r \in BOOLEAN : e(r) \in StashRecords
    BY <1>1 DEF StashRecords
<1>4. Entry(id, path, of) = e(renamed)
    BY DEF Entry
<1>5. OfItsPath(Entry(id, path, of)) /\ Entry(id, path, of).id = id
    BY DEF Entry, OfItsPath, EditsOf, At
<1>6. Entry(id, path, of).rename => rename = "yes"
    BY DEF Entry
<1> QED
    BY <1>2, <1>3, <1>4, <1>5, <1>6

LEMMA NoOperationIs ==
    /\ NoOperation \in DiscardsUnderWay
    /\ NoOperation.step = "idle" /\ NoOperation.id = 0 /\ ~NoOperation.sources
<1>1. NoOperation \in DiscardsUnderWay
    BY DEF NoOperation, DiscardsUnderWay, Paths
<1> QED
    BY <1>1 DEF NoOperation

LEMMA DiscardStart == DiscardInit => DiscardInv
<1> SUFFICES ASSUME DiscardInit PROVE DiscardInv
    OBVIOUS
<1>1. stashes = <<>> /\ refs = <<>> /\ Len(stashes) = 0 /\ DOMAIN refs = {}
    BY DEF DiscardInit
<1>2. stashes \in Seq(StashRecords)
    BY <1>1
<1>3. discarding = NoOperation
    BY DEF DiscardInit
<1>4. DiscardTypes
    BY <1>1, <1>2, <1>3, NoOperationIs DEF DiscardInit, DiscardTypes
<1>5. \A i : i \notin 1 .. Len(stashes) /\ i \notin DOMAIN refs
    BY <1>1
<1>6. RenameKeepsSource
    BY <1>3, <1>5, NoOperationIs DEF DiscardInit, RenameKeepsSource
<1>7. EntriesAreTheirDiscards
    BY <1>3, <1>5, NoOperationIs DEF DiscardInit, EntriesAreTheirDiscards, DiscardSteps
<1>8. DropIsSecured /\ ForgottenIsBack /\ DiscardsAreRecoverable
    BY <1>3, NoOperationIs DEF DiscardInit, DropIsSecured, ForgottenIsBack, DiscardsAreRecoverable
<1> QED
    BY <1>4, <1>6, <1>7, <1>8 DEF DiscardInv

-----------------------------------------------------------------------------
\* What keeps the edits within reach, when the stash and the refs are as they were.
LEMMA OnlyEditsMove ==
    ASSUME DiscardInv, UNCHANGED <<stashes, refs, discarding, discarded, taken>>,
           staged' \subseteq Edits, changed' \subseteq Edits, committed' \subseteq Edits,
           rename' # "no" => At(staged' \cup changed', Source) = {},
           rename # "no" => rename' # "no"
    PROVE  DiscardInv'
<1>1. DiscardTypes'
    BY DEF DiscardInv, DiscardTypes
<1>2. RenameKeepsSource'
    BY DEF DiscardInv, RenameKeepsSource, OfItsPath, At, EditsOf
<1>3. EntriesAreTheirDiscards'
    BY DEF DiscardInv, EntriesAreTheirDiscards
<1>4. DropIsSecured'
    BY DEF DiscardInv, DropIsSecured
<1>5. ForgottenIsBack'
    BY DEF DiscardInv, ForgottenIsBack, EditsOf
<1>6. DiscardsAreRecoverable'
    BY DEF DiscardInv, DiscardsAreRecoverable, Recoverable, EditsOf
<1> QED
    BY <1>1, <1>2, <1>3, <1>4, <1>5, <1>6 DEF DiscardInv

\* The user and the panel move edits between the tree, the index and HEAD.
LEMMA WorkOnFiles ==
    ASSUME DiscardInv, "recreate" \notin Habits,
           \/ \E path \in Paths : Stage(path) \/ Unstage(path)
           \/ \E e \in Edits : Edit(e) \/ \E a \in {"stage", "unstage", "revert"} : ApplyHunk(e, a)
           \/ Commit \/ Rename \/ ResolveConflicts
    PROVE  DiscardInv'
<1>0. /\ staged \subseteq Edits /\ changed \subseteq Edits /\ committed \subseteq Edits
      /\ rename # "no" => At(staged \cup changed, Source) = {}
    BY DEF DiscardInv, DiscardTypes, RenameKeepsSource
<1>1. UNCHANGED <<stashes, refs, discarding, discarded, taken>>
  <2>1. ASSUME NEW path \in Paths, Stage(path) \/ Unstage(path)
        PROVE  UNCHANGED <<stashes, refs, discarding, discarded, taken>>
    BY <2>1 DEF Stage, Unstage
  <2>2. ASSUME NEW e \in Edits, NEW a \in {"stage", "unstage", "revert"}, Edit(e) \/ ApplyHunk(e, a)
        PROVE  UNCHANGED <<stashes, refs, discarding, discarded, taken>>
    BY <2>2 DEF Edit, ApplyHunk
  <2>3. ASSUME Commit \/ Rename \/ ResolveConflicts
        PROVE  UNCHANGED <<stashes, refs, discarding, discarded, taken>>
    BY <2>3 DEF Commit, Rename, ResolveConflicts
  <2> QED
    BY <2>1, <2>2, <2>3
<1>2. CASE \E path \in Paths : Stage(path) \/ Unstage(path)
  <2>1. PICK path \in Paths : Stage(path) \/ Unstage(path)
    BY <1>2
  <2>2. staged' \cup changed' = staged \cup changed /\ UNCHANGED <<committed, rename>>
    BY <2>1 DEF Stage, Unstage, At
  <2> QED
    BY <1>0, <1>1, <2>2, OnlyEditsMove
<1>3. CASE \E e \in Edits : Edit(e)
  <2>1. PICK e \in Edits : Edit(e)
    BY <1>3
  <2>2. rename # "no" => e[1] # Source
    BY <2>1 DEF Edit
  <2>3. changed' = changed \cup {e} /\ UNCHANGED <<staged, committed, rename>>
    BY <2>1 DEF Edit
  <2>4. rename' # "no" => At(staged' \cup changed', Source) = {}
    BY <1>0, <2>2, <2>3 DEF At
  <2> QED
    BY <1>0, <1>1, <2>3, <2>4, OnlyEditsMove
<1>4. CASE \E e \in Edits, a \in {"stage", "unstage", "revert"} : ApplyHunk(e, a)
  <2>1. PICK e \in Edits, a \in {"stage", "unstage", "revert"} : ApplyHunk(e, a)
    BY <1>4
  <2>2. e \in staged \cup changed
    BY <2>1 DEF ApplyHunk, Hunks
  <2>3. /\ UNCHANGED <<committed, rename>>
        /\ staged' \cup changed' \subseteq staged \cup changed
    BY <2>1, <2>2 DEF ApplyHunk
  <2>4. rename' # "no" => At(staged' \cup changed', Source) = {}
    BY <1>0, <2>3 DEF At
  <2> QED
    BY <1>0, <1>1, <2>3, <2>4, OnlyEditsMove
<1>5. CASE Commit
  <2>1. UNCHANGED <<changed, rename>> /\ staged' = {} /\ committed' = committed \cup staged
    BY <1>5 DEF Commit
  <2> QED
    BY <1>0, <1>1, <2>1, OnlyEditsMove DEF At
<1>6. CASE Rename
  <2>1. UNCHANGED <<staged, changed, committed>> /\ At(staged \cup changed, Source) = {}
    BY <1>6 DEF Rename
  <2>2. rename = "no"
    BY <1>6 DEF Rename
  <2> QED
    BY <1>0, <1>1, <2>1, <2>2, OnlyEditsMove
<1>7. CASE ResolveConflicts
    BY <1>0, <1>1, <1>7, OnlyEditsMove DEF ResolveConflicts
<1> QED
    BY <1>2, <1>3, <1>4, <1>5, <1>6, <1>7

LEMMA EntriesAreRecords ==
    ASSUME DiscardInv, NEW i \in 1 .. Len(stashes)
    PROVE  stashes[i] \in StashRecords /\ stashes[i].id \in Nat /\ stashes[i].id <= discarded
<1>1. stashes \in Seq(StashRecords)
    BY DEF DiscardInv, DiscardTypes
<1>2. stashes[i] \in StashRecords
    BY <1>1, ElementOfSeq
<1> QED
    BY <1>2 DEF DiscardInv, EntriesAreTheirDiscards, StashRecords

\* A step of a discard that only goes on to the next one.
LEMMA OnlyGoesOn ==
    ASSUME DiscardInv, UNCHANGED <<tree, stashes, refs, taken>>,
           discarded' \in Nat, discarded <= discarded', discarding' \in DiscardsUnderWay,
           discarding'.sources => rename # "no",
           discarding'.step = "sources" => discarding'.sources,
           discarding'.id <= discarded',
           discarding'.step \in DiscardSteps => discarding'.id # 0,
           discarding'.step = "push" => \A i \in 1 .. Len(stashes) : stashes[i].id # discarding'.id,
           discarding'.step \in {"push", "find", "secure"} => discarding'.id \notin DOMAIN refs,
           discarding'.step \in {"verify", "drop"} =>
             /\ discarding'.id \in DOMAIN refs
             /\ \A n \in 1 .. Len(stashes) :
                  stashes[n].id = discarding'.id => stashes[n] = refs[discarding'.id],
           discarding'.step \in {"secure", "verify", "drop"} => discarding'.selector # 0,
           discarding'.step = "drop" =>
             /\ discarding'.selector \in 1 .. Len(stashes)
             /\ stashes[discarding'.selector].id = discarding'.id,
           discarding'.step # "forget"
    PROVE  DiscardInv'
<1>0. UNCHANGED <<committed, staged, changed, rename>>
    BY DEF tree
<1>1. DiscardTypes'
    BY <1>0 DEF DiscardInv, DiscardTypes
<1>2. RenameKeepsSource'
    BY <1>0 DEF DiscardInv, RenameKeepsSource, OfItsPath, At, EditsOf
<1>3. EntriesAreTheirDiscards'
  <2>1. \A i \in 1 .. Len(stashes) : stashes[i].id <= discarded'
    BY EntriesAreRecords DEF DiscardInv, DiscardTypes
  <2>2. \A i \in DOMAIN refs : i <= discarded'
    BY DEF DiscardInv, DiscardTypes, EntriesAreTheirDiscards
  <2> QED
    BY <2>1, <2>2 DEF DiscardInv, EntriesAreTheirDiscards
<1>4. DropIsSecured' /\ ForgottenIsBack'
    BY DEF DropIsSecured, ForgottenIsBack
<1>5. DiscardsAreRecoverable'
    BY DEF DiscardInv, DiscardsAreRecoverable, Recoverable, EditsOf
<1> QED
    BY <1>1, <1>2, <1>3, <1>4, <1>5 DEF DiscardInv

LEMMA StepIs ==
    ASSUME DiscardInv, NEW s \in {"idle", "apply", "forget"} \cup DiscardSteps, Step(s)
    PROVE  /\ discarding' \in DiscardsUnderWay
           /\ discarding'.step = s /\ discarding'.id = discarding.id
           /\ discarding'.selector = discarding.selector
           /\ discarding'.sources = discarding.sources
BY DEF DiscardInv, DiscardTypes, DiscardsUnderWay, Step

LEMMA ReleaseIs ==
    ASSUME Release
    PROVE  /\ discarding' \in DiscardsUnderWay
           /\ discarding'.step = "idle" /\ discarding'.id = 0 /\ ~discarding'.sources
BY NoOperationIs DEF Release

\* The lock is given up, or taken, and nothing else happens.
LEMMA DiscardGoesOn ==
    ASSUME DiscardInv,
           \/ \E path \in Paths : DiscardBegins(path)
           \/ FindStash \/ VerifyStash \/ CommandFails
           \/ \E id \in Discarded : RestoreBegins(id)
    PROVE  DiscardInv'
<1>0. /\ DiscardTypes /\ RenameKeepsSource /\ EntriesAreTheirDiscards /\ DropIsSecured
      /\ discarding \in DiscardsUnderWay /\ discarded \in Nat /\ discarding.id \in Nat
      /\ stashes \in Seq(StashRecords)
    BY DEF DiscardInv, DiscardTypes, DiscardsUnderWay
<1>1. CASE Release /\ UNCHANGED <<tree, stashes, refs, taken, discarded>>
    BY <1>0, <1>1, ReleaseIs, OnlyGoesOn DEF DiscardSteps
<1>2. CASE \E path \in Paths : DiscardBegins(path)
  <2>1. PICK path \in Paths : DiscardBegins(path)
    BY <1>2
  <2> DEFINE b == rename = "yes" /\ path = Target
  <2>2. b \in BOOLEAN /\ (b => rename # "no")
    OBVIOUS
  <2>3. discarding' = [step |-> "push", id |-> discarded', path |-> path, selector |-> 0,
                       sources |-> b]
    BY <2>1 DEF DiscardBegins
  <2> HIDE DEF b
  <2>4. discarded' = discarded + 1 /\ UNCHANGED <<tree, stashes, refs, taken>>
    BY <2>1 DEF DiscardBegins
  <2>5. /\ discarding' \in DiscardsUnderWay /\ discarding'.step = "push"
        /\ discarding'.id = discarded + 1 /\ (discarding'.sources => rename # "no")
    BY <1>0, <2>2, <2>3, <2>4 DEF DiscardsUnderWay, DiscardSteps
  <2>6. \A i \in 1 .. Len(stashes) : stashes[i].id # discarded + 1
    BY <1>0, EntriesAreRecords
  <2>7. discarded + 1 \notin DOMAIN refs
    BY <1>0 DEF EntriesAreTheirDiscards
  <2> QED
    BY <1>0, <2>4, <2>5, <2>6, <2>7, OnlyGoesOn
<1>3. CASE FindStash /\ ~Release
  <2>1. PICK n \in 1 .. Len(stashes) :
          discarding' = [discarding EXCEPT !.step = "secure", !.selector = n]
    BY <1>3 DEF FindStash
  <2>2. discarding.step = "find" /\ UNCHANGED <<tree, stashes, refs, discarded, taken>>
    BY <1>3 DEF FindStash
  <2>3. /\ discarding' \in DiscardsUnderWay /\ discarding'.step = "secure"
        /\ discarding'.id = discarding.id /\ discarding'.sources = discarding.sources
        /\ discarding'.selector = n
    <3>1. n \in Nat /\ n # 0
      BY <1>0, LenProperties
    <3> QED
      BY <1>0, <2>1, <3>1 DEF DiscardsUnderWay, DiscardSteps
  <2>4. discarding.id # 0 /\ discarding.id \notin DOMAIN refs /\ discarding.id <= discarded
    BY <1>0, <2>2 DEF EntriesAreTheirDiscards, DiscardSteps
  <2> QED
    BY <1>0, <2>2, <2>3, <2>4, OnlyGoesOn DEF RenameKeepsSource
<1>4. CASE VerifyStash /\ ~Release
  <2>1. /\ discarding.step = "verify" /\ Step("drop")
        /\ discarding.selector <= Len(stashes)
        /\ stashes[discarding.selector].id = discarding.id
        /\ UNCHANGED <<tree, stashes, refs, discarded, taken>>
    BY <1>4 DEF VerifyStash
  <2>2. /\ discarding' \in DiscardsUnderWay /\ discarding'.step = "drop"
        /\ discarding'.id = discarding.id /\ discarding'.sources = discarding.sources
        /\ discarding'.selector = discarding.selector
    BY <2>1, StepIs DEF DiscardSteps
  <2>3. /\ discarding.id # 0 /\ discarding.id <= discarded
        /\ discarding.id \in DOMAIN refs
        /\ \A n \in 1 .. Len(stashes) : stashes[n].id = discarding.id => stashes[n] = refs[discarding.id]
    BY <1>0, <2>1 DEF EntriesAreTheirDiscards, DiscardSteps, DropIsSecured
  <2>4. discarding.selector \in 1 .. Len(stashes)
    BY <1>0, <2>1, LenProperties DEF DropIsSecured, DiscardsUnderWay
  <2> QED
    BY <1>0, <2>1, <2>2, <2>3, <2>4, OnlyGoesOn DEF RenameKeepsSource
<1>5. CASE \E id \in Discarded : RestoreBegins(id)
  <2>1. PICK id \in Discarded : RestoreBegins(id)
    BY <1>5
  <2>2. /\ id \in DOMAIN refs
        /\ discarding' = [NoOperation EXCEPT !.step = "apply", !.id = id]
        /\ UNCHANGED <<tree, stashes, refs, discarded, taken>>
    BY <2>1 DEF RestoreBegins
  <2>3. id \in Nat /\ id <= discarded
    BY <1>0, <2>2 DEF DiscardTypes, EntriesAreTheirDiscards
  <2>4. /\ discarding' \in DiscardsUnderWay /\ discarding'.step = "apply" /\ discarding'.id = id
        /\ ~discarding'.sources
    BY <2>2, <2>3, NoOperationIs DEF DiscardsUnderWay
  <2> QED
    BY <1>0, <2>2, <2>3, <2>4, OnlyGoesOn DEF DiscardSteps
<1>6. CASE CommandFails
    BY <1>1, <1>6 DEF CommandFails
<1>7. (FindStash \/ VerifyStash) /\ Release => Release /\ UNCHANGED <<tree, stashes, refs, taken, discarded>>
    BY DEF FindStash, VerifyStash
<1> QED
    BY <1>1, <1>2, <1>3, <1>4, <1>5, <1>6, <1>7

-----------------------------------------------------------------------------
\* An entry is put on the stash: what it takes out of the tree is in it.
LEMMA StashGrows ==
    ASSUME DiscardInv, NEW entry \in StashRecords, OfItsPath(entry), Push(entry),
           entry.rename => rename # "no", entry.id <= discarded,
           entry.id # 0 => \A i \in 1 .. Len(stashes) : stashes[i].id # entry.id,
           UNCHANGED <<refs, discarded>>,
           taken' = taken \/ taken' = taken \cup EditsOf(entry),
           discarding' \in DiscardsUnderWay, discarding'.step \in {"find", "idle"},
           discarding'.sources => discarding.sources, discarding'.id <= discarded,
           discarding'.step = "find" => discarding'.id # 0 /\ discarding'.id \notin DOMAIN refs
    PROVE  DiscardInv'
<1>0. /\ DiscardTypes /\ RenameKeepsSource /\ EntriesAreTheirDiscards /\ stashes \in Seq(StashRecords)
      /\ discarded \in Nat /\ Len(stashes) \in Nat
    BY LenProperties DEF DiscardInv, DiscardTypes
<1>1. stashes' = <<entry>> \o stashes
    BY DEF Push
<1>2. /\ stashes' \in Seq(StashRecords) /\ Len(stashes') = Len(stashes) + 1
      /\ stashes'[1] = entry
      /\ \A i \in 1 .. Len(stashes) : stashes'[i + 1] = stashes[i]
      /\ \A i \in 1 .. Len(stashes') :
           i # 1 => i - 1 \in 1 .. Len(stashes) /\ stashes'[i] = stashes[i - 1]
    BY <1>0, <1>1, PushedOn
<1>3. /\ staged' \subseteq staged /\ changed' \subseteq changed
      /\ committed' = committed
    BY DEF Push
<1>4. (rename' # "no") = (rename # "no")
    BY DEF Push
<1>5. DiscardTypes'
    BY <1>0, <1>2, <1>3 DEF DiscardTypes
<1>6. RenameKeepsSource'
  <2>1. \A i \in 1 .. Len(stashes') : OfItsPath(stashes'[i])
    BY <1>0, <1>2 DEF RenameKeepsSource
  <2>2. \A i \in DOMAIN refs' : OfItsPath(refs'[i])
    BY <1>0 DEF RenameKeepsSource
  <2>3. rename' # "no" => At(staged' \cup changed', Source) = {}
    BY <1>0, <1>3, <1>4 DEF RenameKeepsSource, At
  <2> QED
    BY <1>0, <1>4, <2>1, <2>2, <2>3 DEF RenameKeepsSource, OfItsPath, EditsOf, At
<1>7. EntriesAreTheirDiscards'
  <2>1. \A i \in 1 .. Len(stashes') : stashes'[i].id <= discarded
    BY <1>2, EntriesAreRecords
  <2>2. ASSUME NEW m \in 1 .. Len(stashes'), NEW n \in 1 .. Len(stashes'),
               stashes'[m].id = stashes'[n].id, stashes'[m].id # 0
        PROVE  m = n
    <3>1. ASSUME NEW k \in 1 .. Len(stashes'), k # 1
          PROVE  entry.id # 0 => stashes'[k].id # entry.id
      BY <1>2, <3>1
    <3>2. CASE m # 1 /\ n # 1
      <4>1. /\ m - 1 \in 1 .. Len(stashes) /\ stashes'[m] = stashes[m - 1]
            /\ n - 1 \in 1 .. Len(stashes) /\ stashes'[n] = stashes[n - 1]
        BY <1>2, <3>2
      <4>2. m - 1 = n - 1
        BY <1>0, <2>2, <4>1 DEF EntriesAreTheirDiscards
      <4> QED
        BY <1>0, <1>2, <4>2
    <3> QED
      BY <1>2, <2>2, <3>1, <3>2
  <2> QED
    BY <1>0, <2>1, <2>2 DEF EntriesAreTheirDiscards, DiscardSteps
<1>8. DropIsSecured' /\ ForgottenIsBack'
    BY DEF DropIsSecured, ForgottenIsBack
<1>9. DiscardsAreRecoverable'
  <2> SUFFICES ASSUME NEW x \in taken' PROVE x \in Recoverable'
    BY DEF DiscardsAreRecoverable
  <2>1. CASE x \in EditsOf(entry)
    <3>1. 1 \in 1 .. Len(stashes') /\ x \in EditsOf(stashes'[1])
      BY <1>0, <1>2, <2>1
    <3> QED
      BY <3>1, InRecoverableThen
  <2>2. CASE x \in taken
    <3>1. x \in Recoverable
      BY <2>2 DEF DiscardInv, DiscardsAreRecoverable
    <3>2. CASE \E i \in DOMAIN refs : x \in EditsOf(refs[i])
      BY <3>2, InRecoverableThen
    <3>3. CASE \E i \in 1 .. Len(stashes) : x \in EditsOf(stashes[i])
      <4>1. PICK i \in 1 .. Len(stashes) : x \in EditsOf(stashes[i])
        BY <3>3
      <4>2. i + 1 \in 1 .. Len(stashes') /\ x \in EditsOf(stashes'[i + 1])
        BY <1>0, <1>2, <4>1
      <4> QED
        BY <4>2, InRecoverableThen
    <3> QED
      BY <3>1, <3>2, <3>3, InRecoverable
  <2> QED
    BY <2>1, <2>2
<1> QED
    BY <1>5, <1>6, <1>7, <1>8, <1>9 DEF DiscardInv

\* An entry leaves the stash: what was taken with it is in a ref, or back.
LEMMA StashShrinks ==
    ASSUME DiscardInv, NEW n \in 1 .. Len(stashes), stashes' = WithoutEntry(stashes, n),
           UNCHANGED <<refs, discarded>>, taken' \subseteq taken,
           \A x \in EditsOf(stashes[n]) : x \in taken' => \E i \in DOMAIN refs : x \in EditsOf(refs[i]),
           staged' \subseteq Edits, changed' \subseteq Edits, committed' \subseteq Edits,
           rename' # "no" => At(staged' \cup changed', Source) = {},
           rename # "no" => rename' # "no",
           discarding' \in DiscardsUnderWay, discarding'.step \in {"sources", "idle"},
           discarding'.sources => discarding.sources, discarding'.id <= discarded,
           discarding'.step = "sources" => discarding'.id # 0 /\ discarding'.sources
    PROVE  DiscardInv'
<1>0. /\ DiscardTypes /\ RenameKeepsSource /\ EntriesAreTheirDiscards /\ stashes \in Seq(StashRecords)
      /\ discarded \in Nat /\ Len(stashes) \in Nat
    BY LenProperties DEF DiscardInv, DiscardTypes
<1> DEFINE was(i) == IF i < n THEN i ELSE i + 1
<1>1. /\ stashes' \in Seq(StashRecords) /\ Len(stashes') = Len(stashes) - 1
      /\ \A i \in 1 .. Len(stashes') : stashes'[i] = stashes[was(i)]
    BY <1>0, RemovedAt
<1>2. /\ \A i \in 1 .. Len(stashes') : was(i) \in 1 .. Len(stashes)
      /\ \A i, j \in 1 .. Len(stashes') : was(i) = was(j) => i = j
      /\ \A k \in 1 .. Len(stashes) : k # n => \E i \in 1 .. Len(stashes') : was(i) = k
  <2>1. \A i \in 1 .. Len(stashes') : was(i) \in 1 .. Len(stashes)
    BY <1>0, <1>1
  <2>2. \A i, j \in 1 .. Len(stashes') : was(i) = was(j) => i = j
    BY <1>0, <1>1
  <2>3. ASSUME NEW k \in 1 .. Len(stashes), k # n
        PROVE  \E i \in 1 .. Len(stashes') : was(i) = k
    <3>1. CASE k < n
      <4>1. k \in 1 .. Len(stashes') /\ was(k) = k
        BY <1>0, <1>1, <3>1
      <4> QED
        BY <4>1
    <3>2. CASE k > n
      <4>1. k - 1 \in 1 .. Len(stashes') /\ was(k - 1) = k
        BY <1>0, <1>1, <3>2
      <4> QED
        BY <4>1
    <3> QED
      BY <1>0, <2>3, <3>1, <3>2
  <2> QED
    BY <2>1, <2>2, <2>3
<1> HIDE DEF was
<1>3. DiscardTypes'
    BY <1>0, <1>1 DEF DiscardTypes
<1>4. RenameKeepsSource'
  <2>1. \A i \in 1 .. Len(stashes') : OfItsPath(stashes'[i])
    BY <1>0, <1>1, <1>2 DEF RenameKeepsSource
  <2>2. \A i \in DOMAIN refs' : OfItsPath(refs'[i])
    BY <1>0 DEF RenameKeepsSource
  <2> QED
    BY <1>0, <2>1, <2>2 DEF RenameKeepsSource, OfItsPath, EditsOf, At
<1>5. EntriesAreTheirDiscards'
  <2>1. \A i \in 1 .. Len(stashes') : stashes'[i].id <= discarded
    BY <1>1, <1>2, EntriesAreRecords
  <2>2. ASSUME NEW i \in 1 .. Len(stashes'), NEW j \in 1 .. Len(stashes'),
               stashes'[i].id = stashes'[j].id, stashes'[i].id # 0
        PROVE  i = j
    <3>1. /\ was(i) \in 1 .. Len(stashes) /\ stashes'[i] = stashes[was(i)]
          /\ was(j) \in 1 .. Len(stashes) /\ stashes'[j] = stashes[was(j)]
      BY <1>1, <1>2
    <3>2. was(i) = was(j)
      BY <1>0, <2>2, <3>1 DEF EntriesAreTheirDiscards
    <3> QED
      BY <1>2, <3>2
  <2>3. discarding' \in DiscardsUnderWay /\ discarding'.step \notin {"push", "find", "secure"}
    OBVIOUS
  <2>4. discarding'.step \in DiscardSteps => discarding'.id # 0
    BY DEF DiscardSteps
  <2>5. \A i \in DOMAIN refs : i <= discarded
    BY <1>0 DEF EntriesAreTheirDiscards
  <2> QED
    BY <2>1, <2>2, <2>3, <2>4, <2>5 DEF EntriesAreTheirDiscards
<1>6. DropIsSecured' /\ ForgottenIsBack'
    BY DEF DropIsSecured, ForgottenIsBack
<1>7. DiscardsAreRecoverable'
  <2> SUFFICES ASSUME NEW x \in taken' PROVE x \in Recoverable'
    BY DEF DiscardsAreRecoverable
  <2>1. x \in Recoverable
    BY DEF DiscardInv, DiscardsAreRecoverable
  <2>2. CASE \E i \in DOMAIN refs : x \in EditsOf(refs[i])
    BY <2>2, InRecoverableThen
  <2>3. CASE \E k \in 1 .. Len(stashes) : x \in EditsOf(stashes[k])
    <3>1. PICK k \in 1 .. Len(stashes) : x \in EditsOf(stashes[k])
      BY <2>3
    <3>2. CASE k = n
      <4>1. \E i \in DOMAIN refs : x \in EditsOf(refs[i])
        BY <3>1, <3>2
      <4> QED
        BY <4>1, InRecoverableThen
    <3>3. CASE k # n
      <4>1. PICK i \in 1 .. Len(stashes') : was(i) = k
        BY <1>2, <3>3
      <4>2. x \in EditsOf(stashes'[i])
        BY <1>1, <3>1, <4>1
      <4> QED
        BY <4>2, InRecoverableThen
    <3> QED
      BY <3>2, <3>3
  <2> QED
    BY <2>1, <2>2, <2>3, InRecoverable
<1> QED
    BY <1>3, <1>4, <1>5, <1>6, <1>7 DEF DiscardInv

\* What is applied again: the edits of an entry, and the rename.
LEMMA ApplyKeepsSource ==
    ASSUME DiscardInv, NEW entry \in StashRecords, OfItsPath(entry), CanApply(entry), Apply(entry)
    PROVE  /\ staged' \subseteq Edits /\ changed' \subseteq Edits /\ committed' \subseteq Edits
           /\ rename' # "no" => At(staged' \cup changed', Source) = {}
           /\ rename # "no" => rename' # "no"
<1>0. DiscardTypes /\ RenameKeepsSource
    BY DEF DiscardInv
<1>1. entry.staged \subseteq Edits /\ entry.changed \subseteq Edits
    BY DEF StashRecords
<1>2. /\ committed' = committed
      /\ staged' \subseteq staged \cup entry.staged /\ changed' \subseteq changed \cup entry.changed
      /\ rename' = IF entry.rename /\ rename = "no" THEN "yes" ELSE rename
    BY DEF Apply
<1>3. rename' # "no" => entry.path # Source /\ At(staged \cup changed, Source) = {}
  <2>1. CASE rename = "no"
    <3>1. rename' # "no" => entry.rename
      BY <1>2, <2>1
    <3>2. entry.rename => entry.path = Target
      BY DEF OfItsPath
    <3>3. entry.rename => At(staged \cup changed, Source) = {}
      BY DEF CanApply
    <3> QED
      BY <3>1, <3>2, <3>3, DiscardsAssumption
  <2>2. CASE rename # "no"
    BY <1>0, <2>2 DEF CanApply, RenameKeepsSource
  <2> QED
    BY <2>1, <2>2
<1>4. \A e \in entry.staged \cup entry.changed : e[1] = entry.path
    BY DEF OfItsPath, EditsOf
<1>5. rename' # "no" => At(staged' \cup changed', Source) = {}
    BY <1>2, <1>3, <1>4 DEF At
<1> QED
    BY <1>0, <1>1, <1>2, <1>5 DEF DiscardTypes

LEMMA DiscardPushes ==
    ASSUME DiscardInv, StashPush
    PROVE  DiscardInv'
<1> DEFINE of == TrackedAtHead(discarding.path)
           entry == Entry(discarding.id, discarding.path, of)
<1>0. /\ discarding.step = "push" /\ UNCHANGED <<refs, discarded>>
      /\ Step("find") \/ Release
    BY DEF StashPush
<1>1. /\ DiscardTypes /\ RenameKeepsSource /\ EntriesAreTheirDiscards /\ discarded \in Nat
      /\ discarding.id \in Nat /\ discarding.path \in Paths
    BY DEF DiscardInv, DiscardTypes, DiscardsUnderWay
<1>2. /\ discarding.id # 0 /\ discarding.id \notin DOMAIN refs /\ discarding.id <= discarded
      /\ \A i \in 1 .. Len(stashes) : stashes[i].id # discarding.id
    BY <1>0, <1>1 DEF EntriesAreTheirDiscards, DiscardSteps
<1>3. /\ discarding' \in DiscardsUnderWay /\ discarding'.step \in {"find", "idle"}
      /\ discarding'.sources => discarding.sources
      /\ discarding'.id <= discarded
      /\ discarding'.step = "find" => discarding'.id = discarding.id
  <2>1. CASE Step("find")
    BY <1>2, <2>1, StepIs DEF DiscardSteps
  <2>2. CASE Release
    BY <1>1, <2>2, ReleaseIs
  <2> QED
    BY <1>0, <2>1, <2>2
<1>4. /\ entry \in StashRecords /\ OfItsPath(entry) /\ entry.id = discarding.id
      /\ entry.rename => rename # "no"
  <2>1. of \in BOOLEAN
    BY DEF TrackedAtHead
  <2> HIDE DEF of
  <2> QED
    BY <1>1, <2>1, EntryIsRecord
<1>5. CASE UNCHANGED <<tree, stashes, taken>>
  <2>1. discarding'.sources => rename # "no"
    BY <1>1, <1>3 DEF RenameKeepsSource
  <2> QED
    BY <1>0, <1>1, <1>2, <1>3, <1>5, <2>1, OnlyGoesOn DEF DiscardSteps
<1>6. CASE Push(entry) /\ taken' = taken \cup EditsOf(entry)
  <2> HIDE DEF entry
  <2> QED
    BY <1>0, <1>2, <1>3, <1>4, <1>6, StashGrows
<1> QED
    BY <1>5, <1>6 DEF StashPush

LEMMA DiscardSecures ==
    ASSUME DiscardInv, SecureRef
    PROVE  DiscardInv'
<1>0. /\ discarding.step = "secure" /\ UNCHANGED <<tree, stashes, discarded, taken>>
      /\ Step("verify") \/ Release
      /\ \E n \in 1 .. Len(stashes) : stashes[n].id = discarding.id
    BY DEF SecureRef
<1>1. /\ DiscardTypes /\ RenameKeepsSource /\ EntriesAreTheirDiscards /\ DropIsSecured
      /\ discarded \in Nat /\ discarding \in DiscardsUnderWay /\ stashes \in Seq(StashRecords)
      /\ discarding.id \in Nat
    BY DEF DiscardInv, DiscardTypes, DiscardsUnderWay
<1>2. /\ discarding.id # 0 /\ discarding.id \notin DOMAIN refs /\ discarding.id <= discarded
      /\ discarding.selector # 0
    BY <1>0, <1>1 DEF EntriesAreTheirDiscards, DiscardSteps, DropIsSecured
<1>3. Own \in 1 .. Len(stashes) /\ stashes[Own].id = discarding.id
    BY <1>0 DEF Own
<1>4. /\ DOMAIN refs' = DOMAIN refs \cup {discarding.id}
      /\ refs'[discarding.id] = stashes[Own]
      /\ \A i \in DOMAIN refs : refs'[i] = refs[i]
    BY <1>2 DEF SecureRef
<1> HIDE DEF Own
<1>5. stashes[Own] \in StashRecords
    BY <1>3, EntriesAreRecords
<1>6. \A n \in 1 .. Len(stashes) : stashes[n].id = discarding.id => stashes[n] = refs'[discarding.id]
    BY <1>1, <1>2, <1>3, <1>4 DEF EntriesAreTheirDiscards
<1>7. /\ discarding' \in DiscardsUnderWay /\ discarding'.step \in {"verify", "idle"}
      /\ discarding'.sources => discarding.sources
      /\ discarding'.id <= discarded
      /\ discarding'.step = "verify" =>
           discarding'.id = discarding.id /\ discarding'.selector = discarding.selector
  <2>1. CASE Step("verify")
    BY <1>2, <2>1, StepIs DEF DiscardSteps
  <2>2. CASE Release
    BY <1>1, <2>2, ReleaseIs
  <2> QED
    BY <1>0, <2>1, <2>2
<1>8. UNCHANGED <<committed, staged, changed, rename>>
    BY <1>0 DEF tree
<1>9. DiscardTypes'
    BY <1>0, <1>1, <1>4, <1>5, <1>7, <1>8 DEF DiscardTypes
<1>10. RenameKeepsSource'
  <2>1. OfItsPath(stashes[Own])
    BY <1>1, <1>3 DEF RenameKeepsSource
  <2>2. \A i \in DOMAIN refs' : OfItsPath(refs'[i])
    BY <1>1, <1>4, <2>1 DEF RenameKeepsSource
  <2>3. \A i \in 1 .. Len(stashes') : OfItsPath(stashes'[i])
    BY <1>0, <1>1 DEF RenameKeepsSource
  <2>4. rename' # "no" => At(staged' \cup changed', Source) = {}
    BY <1>1, <1>8 DEF RenameKeepsSource
  <2> QED
    BY <1>1, <1>7, <1>8, <2>2, <2>3, <2>4 DEF RenameKeepsSource, OfItsPath, EditsOf, At
<1>11. EntriesAreTheirDiscards'
    BY <1>0, <1>1, <1>2, <1>4, <1>7 DEF EntriesAreTheirDiscards, DiscardSteps
<1>12. DropIsSecured' /\ ForgottenIsBack'
    BY <1>0, <1>2, <1>4, <1>6, <1>7 DEF DropIsSecured, ForgottenIsBack
<1>13. DiscardsAreRecoverable'
  <2> SUFFICES ASSUME NEW x \in taken PROVE x \in Recoverable'
    BY <1>0 DEF DiscardsAreRecoverable
  <2>1. x \in Recoverable
    BY DEF DiscardInv, DiscardsAreRecoverable
  <2>2. CASE \E n \in 1 .. Len(stashes) : x \in EditsOf(stashes[n])
    BY <1>0, <2>2, InRecoverableThen
  <2>3. CASE \E i \in DOMAIN refs : x \in EditsOf(refs[i])
    BY <1>4, <2>3, InRecoverableThen
  <2> QED
    BY <2>1, <2>2, <2>3, InRecoverable
<1> QED
    BY <1>9, <1>10, <1>11, <1>12, <1>13 DEF DiscardInv

LEMMA DiscardDrops ==
    ASSUME DiscardInv, DropStash
    PROVE  DiscardInv'
<1>0. /\ discarding.step = "drop" /\ UNCHANGED <<tree, refs, discarded, taken>>
    BY DEF DropStash
<1>1. /\ DiscardTypes /\ RenameKeepsSource /\ EntriesAreTheirDiscards /\ DropIsSecured
      /\ discarded \in Nat /\ stashes \in Seq(StashRecords) /\ Len(stashes) \in Nat
    BY LenProperties DEF DiscardInv, DiscardTypes
<1>2. /\ discarding.selector \in 1 .. Len(stashes)
      /\ discarding.id \in DOMAIN refs
      /\ stashes[discarding.selector] = refs[discarding.id]
      /\ discarding.id # 0 /\ discarding.id <= discarded
    BY <1>0, <1>1 DEF DropIsSecured, EntriesAreTheirDiscards, DiscardSteps
<1>3. stashes' = WithoutEntry(stashes, discarding.selector)
    BY <1>1, <1>2 DEF DropStash
<1>4. Release \/ (discarding.sources /\ Step("sources"))
    BY DEF DropStash
<1>5. /\ discarding' \in DiscardsUnderWay /\ discarding'.step \in {"sources", "idle"}
      /\ discarding'.sources => discarding.sources
      /\ discarding'.id <= discarded
      /\ discarding'.step = "sources" => discarding'.id # 0 /\ discarding'.sources
  <2>1. CASE discarding.sources /\ Step("sources")
    BY <1>2, <2>1, StepIs DEF DiscardSteps
  <2>2. CASE Release
    BY <1>1, <2>2, ReleaseIs
  <2> QED
    BY <1>4, <2>1, <2>2
<1>6. /\ staged' \subseteq Edits /\ changed' \subseteq Edits /\ committed' \subseteq Edits
      /\ rename' # "no" => At(staged' \cup changed', Source) = {}
      /\ rename # "no" => rename' # "no"
    BY <1>0, <1>1 DEF tree, DiscardTypes, RenameKeepsSource
<1>7. \A x \in EditsOf(stashes[discarding.selector]) : \E i \in DOMAIN refs : x \in EditsOf(refs[i])
    BY <1>2
<1> QED
    BY <1>0, <1>2, <1>3, <1>5, <1>6, <1>7, StashShrinks

\* There is nothing to take of the file that was renamed.
LEMMA DiscardRestoresSources ==
    ASSUME DiscardInv, RestoreSources
    PROVE  DiscardInv'
<1>0. /\ discarding.step = "sources" /\ Release
      /\ UNCHANGED <<committed, unmerged, stashes, refs, discarded>>
    BY DEF RestoreSources
<1>1. DiscardTypes /\ RenameKeepsSource /\ EntriesAreTheirDiscards /\ discarded \in Nat
    BY DEF DiscardInv, DiscardTypes
<1>2. At(staged, Source) = {} /\ At(changed, Source) = {} /\ At(staged \cup changed, Source) = {}
    BY <1>0, <1>1 DEF RenameKeepsSource, At
<1>3. UNCHANGED <<staged, changed, taken>>
    BY <1>2 DEF RestoreSources
<1>4. /\ discarding' \in DiscardsUnderWay /\ discarding'.step = "idle"
      /\ discarding'.id = 0 /\ ~discarding'.sources
    BY <1>0, ReleaseIs
<1>5. DiscardTypes'
    BY <1>0, <1>1, <1>3, <1>4 DEF DiscardTypes
<1>6. RenameKeepsSource'
    BY <1>0, <1>1, <1>2, <1>3, <1>4 DEF RenameKeepsSource, OfItsPath, EditsOf, At
<1>7. EntriesAreTheirDiscards'
    BY <1>0, <1>1, <1>4 DEF EntriesAreTheirDiscards, DiscardSteps
<1>8. DropIsSecured' /\ ForgottenIsBack'
    BY <1>4 DEF DropIsSecured, ForgottenIsBack
<1>9. DiscardsAreRecoverable'
    BY <1>0, <1>3 DEF DiscardInv, DiscardsAreRecoverable, Recoverable, EditsOf
<1> QED
    BY <1>5, <1>6, <1>7, <1>8, <1>9 DEF DiscardInv

LEMMA DiscardApplies ==
    ASSUME DiscardInv, ApplyStash
    PROVE  DiscardInv'
<1> DEFINE entry == refs[discarding.id]
<1>0. /\ discarding.step = "apply" /\ discarding.id \in DOMAIN refs
      /\ UNCHANGED <<stashes, refs, discarded>>
    BY DEF ApplyStash
<1>1. /\ DiscardTypes /\ RenameKeepsSource /\ EntriesAreTheirDiscards /\ discarded \in Nat
      /\ stashes \in Seq(StashRecords)
    BY DEF DiscardInv, DiscardTypes
<1>2. entry \in StashRecords /\ OfItsPath(entry)
    BY <1>0, <1>1 DEF DiscardTypes, RenameKeepsSource
<1>3. \/ CanApply(entry) /\ Apply(entry) /\ taken' = taken \ EditsOf(entry)
           /\ (Step("forget") \/ Release)
      \/ Release /\ UNCHANGED <<committed, staged, changed, rename, taken>>
    BY DEF ApplyStash
<1> HIDE DEF entry
<1>4. /\ staged' \subseteq Edits /\ changed' \subseteq Edits /\ committed' \subseteq Edits
      /\ rename' # "no" => At(staged' \cup changed', Source) = {}
      /\ rename # "no" => rename' # "no"
  <2>1. CASE CanApply(entry) /\ Apply(entry)
    BY <1>2, <2>1, ApplyKeepsSource
  <2>2. CASE UNCHANGED <<committed, staged, changed, rename>>
    BY <1>1, <2>2 DEF DiscardTypes, RenameKeepsSource
  <2> QED
    BY <1>3, <2>1, <2>2
<1>5. /\ taken' \subseteq taken
      /\ Step("forget") \/ Release
      /\ Step("forget") /\ ~Release => taken' \cap EditsOf(entry) = {}
    BY <1>3
<1>6. /\ discarding' \in DiscardsUnderWay /\ discarding'.step \in {"forget", "idle"}
      /\ discarding'.sources => discarding.sources
      /\ discarding'.id <= discarded
      /\ discarding'.step = "forget" =>
           discarding'.id = discarding.id /\ taken' \cap EditsOf(entry) = {}
  <2>1. CASE Step("forget") /\ ~Release
    BY <1>1, <1>5, <2>1, StepIs DEF EntriesAreTheirDiscards
  <2>2. CASE Release
    BY <1>1, <2>2, ReleaseIs
  <2> QED
    BY <1>5, <2>1, <2>2
<1>7. DiscardTypes'
    BY <1>0, <1>1, <1>4, <1>6 DEF DiscardTypes
<1>8. RenameKeepsSource'
  <2>1. \A i \in 1 .. Len(stashes') : OfItsPath(stashes'[i])
    BY <1>0, <1>1 DEF RenameKeepsSource
  <2>2. \A i \in DOMAIN refs' : OfItsPath(refs'[i])
    BY <1>0, <1>1 DEF RenameKeepsSource
  <2> QED
    BY <1>1, <1>4, <1>6, <2>1, <2>2 DEF RenameKeepsSource, OfItsPath, EditsOf, At
<1>9. EntriesAreTheirDiscards'
  <2>1. discarding'.step \notin DiscardSteps
    BY <1>6 DEF DiscardSteps
  <2>2. discarding'.step \notin {"push", "find", "secure"}
    BY <1>6
  <2> QED
    BY <1>0, <1>1, <1>6, <2>1, <2>2 DEF EntriesAreTheirDiscards
<1>10. DropIsSecured'
    BY <1>6 DEF DropIsSecured
<1>11. ForgottenIsBack'
    BY <1>0, <1>6 DEF ForgottenIsBack, entry, EditsOf
<1>12. DiscardsAreRecoverable'
    BY <1>0, <1>5 DEF DiscardInv, DiscardsAreRecoverable, Recoverable, EditsOf
<1> QED
    BY <1>7, <1>8, <1>9, <1>10, <1>11, <1>12 DEF DiscardInv

LEMMA DiscardForgets ==
    ASSUME DiscardInv, ForgetRef
    PROVE  DiscardInv'
<1>0. /\ discarding.step = "forget" /\ Release /\ UNCHANGED <<tree, stashes, discarded, taken>>
    BY DEF ForgetRef
<1>1. /\ DiscardTypes /\ RenameKeepsSource /\ EntriesAreTheirDiscards /\ ForgottenIsBack
      /\ discarded \in Nat
    BY DEF DiscardInv, DiscardTypes
<1>2. /\ DOMAIN refs' = DOMAIN refs \ {discarding.id}
      /\ \A i \in DOMAIN refs' : refs'[i] = refs[i]
    BY DEF ForgetRef
<1>3. /\ discarding' \in DiscardsUnderWay /\ discarding'.step = "idle"
      /\ discarding'.id = 0 /\ ~discarding'.sources
    BY <1>0, ReleaseIs
<1>4. UNCHANGED <<committed, staged, changed, rename>>
    BY <1>0 DEF tree
<1>5. DiscardTypes'
    BY <1>0, <1>1, <1>2, <1>3, <1>4 DEF DiscardTypes
<1>6. RenameKeepsSource'
  <2>1. \A i \in 1 .. Len(stashes') : OfItsPath(stashes'[i])
    BY <1>0, <1>1 DEF RenameKeepsSource
  <2>2. \A i \in DOMAIN refs' : OfItsPath(refs'[i])
    BY <1>1, <1>2 DEF RenameKeepsSource
  <2> QED
    BY <1>1, <1>3, <1>4, <2>1, <2>2 DEF RenameKeepsSource, OfItsPath, EditsOf, At
<1>7. EntriesAreTheirDiscards'
    BY <1>0, <1>1, <1>2, <1>3 DEF EntriesAreTheirDiscards, DiscardSteps
<1>8. DropIsSecured' /\ ForgottenIsBack'
    BY <1>3 DEF DropIsSecured, ForgottenIsBack
<1>9. DiscardsAreRecoverable'
  <2> SUFFICES ASSUME NEW x \in taken PROVE x \in Recoverable'
    BY <1>0 DEF DiscardsAreRecoverable
  <2>1. x \in Recoverable
    BY DEF DiscardInv, DiscardsAreRecoverable
  <2>2. CASE \E n \in 1 .. Len(stashes) : x \in EditsOf(stashes[n])
    BY <1>0, <2>2, InRecoverableThen
  <2>3. CASE \E i \in DOMAIN refs : x \in EditsOf(refs[i])
    <3>1. PICK i \in DOMAIN refs : x \in EditsOf(refs[i])
      BY <2>3
    <3>2. i # discarding.id
      BY <1>0, <1>1, <3>1 DEF ForgottenIsBack
    <3>3. i \in DOMAIN refs' /\ x \in EditsOf(refs'[i])
      BY <1>2, <3>1, <3>2
    <3> QED
      BY <3>3, InRecoverableThen
  <2> QED
    BY <2>1, <2>2, <2>3, InRecoverable
<1> QED
    BY <1>5, <1>6, <1>7, <1>8, <1>9 DEF DiscardInv

\* The user's own stashing, between two operations.
LEMMA UserUsesStash ==
    ASSUME DiscardInv, "stash" \notin Habits,
           UserPops \/ \E path \in Paths : UserStashes(path)
    PROVE  DiscardInv'
<1>1. /\ DiscardTypes /\ RenameKeepsSource /\ EntriesAreTheirDiscards /\ discarded \in Nat
      /\ stashes \in Seq(StashRecords) /\ discarding \in DiscardsUnderWay /\ discarding.id <= discarded
    BY DEF DiscardInv, DiscardTypes, EntriesAreTheirDiscards
<1>2. discarding.step = "idle" /\ UNCHANGED <<refs, discarding, discarded>>
    BY DEF UserPops, UserStashes, MayStash
<1>3. CASE UserPops
  <2>1. /\ stashes # <<>> /\ CanApply(stashes[1]) /\ Apply(stashes[1])
        /\ stashes' = WithoutEntry(stashes, 1) /\ taken' = taken \ EditsOf(stashes[1])
    BY <1>3 DEF UserPops
  <2>2. 1 \in 1 .. Len(stashes)
    BY <1>1, <2>1, EmptySeq, LenProperties
  <2>3. stashes[1] \in StashRecords /\ OfItsPath(stashes[1])
    BY <1>1, <2>2, EntriesAreRecords DEF RenameKeepsSource
  <2>4. /\ staged' \subseteq Edits /\ changed' \subseteq Edits /\ committed' \subseteq Edits
        /\ rename' # "no" => At(staged' \cup changed', Source) = {}
        /\ rename # "no" => rename' # "no"
    BY <2>1, <2>3, ApplyKeepsSource
  <2> QED
    BY <1>1, <1>2, <2>1, <2>2, <2>4, StashShrinks
<1>4. CASE \E path \in Paths : UserStashes(path)
  <2>1. PICK path \in Paths : UserStashes(path)
    BY <1>4
  <2> DEFINE entry == Entry(0, path, TRUE)
  <2>2. Push(entry) /\ UNCHANGED taken
    BY <2>1 DEF UserStashes
  <2>3. /\ entry \in StashRecords /\ OfItsPath(entry) /\ entry.id = 0
        /\ entry.rename => rename # "no"
    BY <1>1, EntryIsRecord
  <2> HIDE DEF entry
  <2> QED
    BY <1>1, <1>2, <2>2, <2>3, StashGrows
<1> QED
    BY <1>3, <1>4

\* What a discard takes from the user can be brought back, whichever command fails and
\* whatever else happens between two of them (discardFile, restoreDiscard), as long as
\* nobody else uses the stash while a discard is under way, and no new file is made where
\* a renamed one was.
THEOREM DiscardedCanBeRestored ==
    ASSUME "stash" \notin Habits, "recreate" \notin Habits
    PROVE  DiscardSpec => []DiscardsAreRecoverable
<1>1. DiscardInv /\ [DiscardNext]_discardVars => DiscardInv'
  <2> SUFFICES ASSUME DiscardInv, [DiscardNext]_discardVars PROVE DiscardInv'
    OBVIOUS
  <2>1. CASE UNCHANGED discardVars
    <3>1. UNCHANGED <<tree, stashes, refs, taken, discarded, discarding, staged, changed, committed, rename>>
      BY <2>1 DEF discardVars, tree
    <3> QED
      BY <3>1, OnlyEditsMove DEF DiscardInv, DiscardTypes, RenameKeepsSource
  <2>2. CASE \/ \E path \in Paths : DiscardBegins(path)
             \/ FindStash \/ VerifyStash \/ CommandFails
             \/ \E id \in Discarded : RestoreBegins(id)
    BY <2>2, DiscardGoesOn
  <2>3. CASE \/ \E path \in Paths : Stage(path) \/ Unstage(path)
             \/ \E e \in Edits : Edit(e) \/ \E a \in {"stage", "unstage", "revert"} : ApplyHunk(e, a)
             \/ Commit \/ Rename \/ ResolveConflicts
    BY <2>3, WorkOnFiles
  <2>4. CASE UserPops \/ \E path \in Paths : UserStashes(path)
    BY <2>4, UserUsesStash
  <2>5. CASE StashPush \/ SecureRef \/ DropStash \/ RestoreSources \/ ApplyStash \/ ForgetRef
    BY <2>5, DiscardPushes, DiscardSecures, DiscardDrops, DiscardRestoresSources,
       DiscardApplies, DiscardForgets
  <2> QED
    BY <2>1, <2>2, <2>3, <2>4, <2>5 DEF DiscardNext
<1>2. DiscardInv => DiscardsAreRecoverable
    BY DEF DiscardInv
<1> QED
    BY <1>1, <1>2, DiscardStart, PTL DEF DiscardSpec

-----------------------------------------------------------------------------
(* Previews of files.  A range header is parsed into the bytes it names;     *)
(* what is served is the file that was resolved, as large as it is then.     *)

\* What parseByteRange computes is what RFC 9110 says a range names.
LEMMA ParsedIsNamed ==
    ASSUME NEW r \in Ranges, NEW n \in Nat
    PROVE  ParseByteRange(r, n) = Named(r, n)
<1>0. None \notin Nat /\ MaxSize \in Nat
    BY FilePreviewsAssumption
<1>1. CASE r = None
    BY <1>0, <1>1 DEF ParseByteRange, Named
<1>2. CASE r # None /\ r.first = None
  <2>1. r.last = None \/ r.last \in Nat
    BY <1>0, <1>2 DEF Ranges, Number
  <2>2. CASE r.last = None
    BY <1>0, <1>2, <2>2 DEF ParseByteRange, Named
  <2>3. CASE r.last \in Nat
    BY <1>0, <1>2, <2>3 DEF ParseByteRange, Named
  <2> QED
    BY <2>1, <2>2, <2>3
<1>3. CASE r # None /\ r.first # None
  <2>1. r.first \in Nat /\ (r.last = None \/ r.last \in Nat)
    BY <1>0, <1>3 DEF Ranges, Number
  <2>2. CASE r.last = None
    BY <1>0, <1>3, <2>1, <2>2 DEF ParseByteRange, Named
  <2>3. CASE r.last \in Nat
    BY <1>0, <1>3, <2>1, <2>3 DEF ParseByteRange, Named
  <2> QED
    BY <2>1, <2>2, <2>3
<1> QED
    BY <1>1, <1>2, <1>3

FilesInv ==
    /\ disk \in Files \cup {0}
    /\ size \in [Files -> Sizes]
    /\ files \in Nat
    /\ opening # None => opening.file \in Files
    /\ ResponseIsThePreview

LEMMA FilesStart == FilesInit => FilesInv
BY FilePreviewsAssumption DEF FilesInit, FilesInv, ResponseIsThePreview, Files, Sizes

LEMMA FilesKept == FilesInv /\ [FilesNext]_filesVars => FilesInv'
<1> SUFFICES ASSUME FilesInv, [FilesNext]_filesVars PROVE FilesInv'
    OBVIOUS
<1> USE DEF FilesInv, world
<1>1. CASE UnlinkFile \/ TimePasses
    BY <1>1 DEF UnlinkFile, TimePasses, ResponseIsThePreview
<1>2. ASSUME NEW n \in Sizes, WriteFile(n) PROVE FilesInv'
    BY <1>2 DEF WriteFile, ResponseIsThePreview
<1>3. ASSUME NEW n \in Sizes, ReplaceFile(n) PROVE FilesInv'
  <2>1. files' \in Files
    BY <1>3, FilePreviewsAssumption DEF ReplaceFile, Files
  <2> QED
    BY <1>3, <2>1, FilePreviewsAssumption DEF ReplaceFile, ResponseIsThePreview, Files
<1>4. CASE LookAt
    BY <1>4 DEF LookAt, CallsService, ResponseIsThePreview
<1>5. CASE ReadPreview \/ ReadAgentImage
    BY <1>5 DEF ReadPreview, ReadAgentImage, ResponseIsThePreview
<1>6. ASSUME NEW i \in 1 .. MaxTokens, ResolvePreviewToken(i) PROVE FilesInv'
    BY <1>6 DEF ResolvePreviewToken, ResponseIsThePreview
<1>7. ASSUME NEW r \in Ranges, ServePreview(r) PROVE FilesInv'
  <2>1. UNCHANGED <<disk, size, files>> /\ opening' = None
    BY <1>7 DEF ServePreview
  <2>2. CASE disk # opening.file
    BY <1>7, <2>1, <2>2 DEF ServePreview, ResponseIsThePreview
  <2>3. CASE disk = opening.file
    <3> DEFINE a == [file |-> disk, of |-> opening.file, size |-> size[disk],
                     range |-> r, sent |-> ParseByteRange(r, size[disk])]
    <3>1. answers' = answers \cup {a}
      BY <1>7, <2>3 DEF ServePreview
    <3>2. size[disk] \in Nat
      BY <1>7, <2>3, FilePreviewsAssumption DEF ServePreview, Sizes
    <3>3. a.file = a.of /\ a.sent = Named(a.range, a.size)
      BY <2>3, <3>2, ParsedIsNamed
    <3> QED
      BY <2>1, <3>1, <3>3 DEF ResponseIsThePreview
  <2> QED
    BY <2>2, <2>3
<1>8. ASSUME NEW a \in answers, AnswerRead(a) PROVE FilesInv'
    BY <1>8 DEF AnswerRead, ResponseIsThePreview
<1>9. CASE UNCHANGED filesVars
    BY <1>9 DEF filesVars, ResponseIsThePreview
<1> QED
    BY <1>1, <1>2, <1>3, <1>4, <1>5, <1>6, <1>7, <1>8, <1>9 DEF FilesNext

\* A response carries the file that was previewed, and exactly the bytes its range names
\* in it (fileProtocol.ts), whatever other processes do to the path in between: for any
\* number of files, requests and tokens, and files of any size.
THEOREM ResponsesAreThePreview == FilesSpec => []ResponseIsThePreview
<1>1. FilesInv => ResponseIsThePreview
    BY DEF FilesInv
<1> QED
    BY <1>1, FilesStart, FilesKept, PTL DEF FilesSpec

-----------------------------------------------------------------------------
(* The browser preview.  What is still loading when the panel is looked at   *)
(* decides: a load that has replaced the page has cleared the error, only a  *)
(* load that is awaited or under way keeps the panel loading, and no page    *)
(* has come between the end of a view and the report of its end.             *)

BrowserInv ==
    /\ pane \in Nat /\ panes \in Nat
    /\ navigating \in BOOLEAN
    /\ pane = 0 => inProgress = None /\ loadedUrl = None
    /\ pane # 0 => preview.open
    /\ inProgress \in Urls \cup {None} /\ loadedUrl \in Urls \cup {None}
    /\ reached => /\ inProgress # None /\ loadedUrl = inProgress
                  /\ ~failed /\ ~orphaned /\ ~preview.error
    /\ navigating => inProgress # None
    /\ orphaned => loadedUrl = None \/ failed
    /\ preview.loading => inProgress # None \/ orphaned
    /\ inProgress = None /\ loadedUrl # None =>
         preview.url = loadedUrl /\ (~failed => ~preview.error)

BrowserTypes ==
    /\ preview \in [open : BOOLEAN, url : Urls \cup {None}, loading : BOOLEAN, error : BOOLEAN]
    /\ BrowserInv

LEMMA BrowserStart == BrowserInit => BrowserTypes
<1> SUFFICES ASSUME BrowserInit PROVE BrowserTypes
    OBVIOUS
<1>1. preview = [open |-> FALSE, url |-> None, loading |-> FALSE, error |-> FALSE]
    BY DEF BrowserInit, EmptySnapshot
<1>2. preview \in [open : BOOLEAN, url : Urls \cup {None}, loading : BOOLEAN, error : BOOLEAN]
    BY <1>1
<1>3. navigating \in BOOLEAN
    BY DEF BrowserInit
<1> QED
    BY <1>1, <1>2, <1>3, BrowserAssumption DEF BrowserInit, BrowserInv, BrowserTypes

LEMMA BrowserKept == BrowserTypes /\ [BrowserNext]_browserVars => BrowserTypes'
<1> SUFFICES ASSUME BrowserTypes, [BrowserNext]_browserVars PROVE BrowserTypes'
    OBVIOUS
<1> USE BrowserAssumption DEF BrowserInv, BrowserTypes, contents
<1> DEFINE Snapshots == [open : BOOLEAN, url : Urls \cup {None}, loading : BOOLEAN, error : BOOLEAN]
<1>0. /\ preview \in Snapshots
      /\ preview = [open |-> preview.open, url |-> preview.url,
                    loading |-> preview.loading, error |-> preview.error]
    OBVIOUS
<1>1. CASE OpenPreview
  <2>1. preview' = [open |-> TRUE, url |-> preview.url, loading |-> preview.loading,
                    error |-> FALSE]
    BY <1>0, <1>1 DEF OpenPreview
  <2>2. preview' \in Snapshots
    BY <1>0, <2>1
  <2>3. pane' # 0 /\ pane' \in Nat /\ panes' \in Nat
    BY <1>1 DEF OpenPreview, EnsureView
  <2> QED
    BY <1>1, <2>1, <2>2, <2>3 DEF OpenPreview
<1>2. ASSUME NEW u \in Urls, Navigate(u) PROVE BrowserTypes'
  <2>1. preview' = [open |-> TRUE, url |-> u, loading |-> ~navigating, error |-> navigating]
    BY <1>2 DEF Navigate
  <2>2. preview' \in Snapshots
    BY <2>1
  <2>3. inProgress' = u /\ u # None /\ reached' = FALSE /\ loadedUrl' = loadedUrl
        /\ failed' = failed /\ orphaned' = orphaned
    BY <1>2 DEF Navigate, BeginsLoad
  <2>4. pane' # 0 /\ pane' \in Nat /\ panes' \in Nat
    BY <1>2 DEF Navigate, EnsureView
  <2>5. navigating' \in BOOLEAN
    BY <1>2 DEF Navigate
  <2> QED
    BY <2>1, <2>2, <2>3, <2>4, <2>5
<1>3. ASSUME NEW u \in Urls, Revisit(u) PROVE BrowserTypes'
  <2>1. preview' \in Snapshots /\ preview'.open = preview.open
    <3>1. CASE preview' = preview
      BY <1>0, <3>1
    <3>2. CASE preview' = [preview EXCEPT !.loading = ~navigating, !.error = navigating]
      <4>1. preview' = [open |-> preview.open, url |-> preview.url,
                        loading |-> ~navigating, error |-> navigating]
        BY <1>0, <3>2
      <4> QED
        BY <1>0, <4>1
    <3> QED
      BY <1>3, <3>1, <3>2 DEF Revisit
  <2>2. inProgress' = u /\ u # None /\ reached' = FALSE /\ loadedUrl' = loadedUrl
        /\ failed' = failed /\ orphaned' = orphaned /\ ~navigating'
    BY <1>3 DEF Revisit, BeginsLoad
  <2>3. pane' = pane /\ pane # 0 /\ panes' = panes
    BY <1>3 DEF Revisit
  <2>4. navigating' \in BOOLEAN
    BY <1>3 DEF Revisit
  <2> QED
    BY <2>1, <2>2, <2>3, <2>4
<1>4. CASE ClosePreview
    BY <1>4 DEF ClosePreview, EmptySnapshot
<1>5. CASE LoadCommits
  <2>1. inProgress \in Urls
    BY <1>5 DEF LoadCommits
  <2>2. preview' = [open |-> preview.open, url |-> inProgress,
                    loading |-> preview.loading, error |-> FALSE]
    BY <1>0, <1>5 DEF LoadCommits, DidNavigate
  <2> QED
    BY <1>0, <1>5, <2>1, <2>2 DEF LoadCommits
<1>6. CASE LoadEnds
    BY <1>6 DEF LoadEnds, LoadIsOver
<1>7. CASE PageLoadFails
    BY <1>7 DEF PageLoadFails, LoadIsOver
<1>8. CASE LoadIsGivenUp
    BY <1>8 DEF LoadIsGivenUp, LoadIsOver
<1>9. CASE RenderProcessGone
    BY <1>9 DEF RenderProcessGone
<1>10. CASE ViewDestroyed
    BY <1>10 DEF ViewDestroyed
<1>11. CASE UNCHANGED browserVars
    BY <1>11 DEF browserVars
<1> QED
    BY <1>1, <1>2, <1>3, <1>4, <1>5, <1>6, <1>7, <1>8, <1>9, <1>10, <1>11 DEF BrowserNext

\* The panel shows the page: when nothing loads any more, its address, no load, and no
\* error once its load has succeeded (browserService.ts).  Whatever calls are made, loads
\* given up, views closed and made again, for any number of addresses and views.
THEOREM PanelFollowsThePage == BrowserSpec => []PanelShowsThePage
<1>1. BrowserTypes => PanelShowsThePage
    BY DEF BrowserTypes, BrowserInv, PanelShowsThePage
<1> QED
    BY <1>1, BrowserStart, BrowserKept, PTL DEF BrowserSpec

-----------------------------------------------------------------------------
(* Local data at a start.  Whoever is past a step of the start has seen its  *)
(* outcome, whichever process brought it about, and only one process holds   *)
(* the lock: what it has found stays so until it dies.                       *)

PastDirectory == {"nameCheck", "naming", "locking"} \cup Holding
PastDatabase == {"locking"} \cup Holding
PastHome == {"homeMade", "opening", "migrating", "open"}

DataTypes ==
    /\ startStep \in [Instances -> {"off"} \cup BeforeLock \cup Holding]
    /\ userDir \in Names /\ rows \in Names /\ home \in Names
    /\ current \in {"none", "empty", "filled"}
    /\ version \in Nat

OneHolds == \A i, j \in Instances : startStep[i] \in Holding /\ startStep[j] \in Holding => i = j

DirectoryIsAdopted ==
    /\ current = "filled" => userDir # "legacy"
    /\ userDir = "none" => rows = "none" /\ home = "none"
    /\ \A i \in Instances : startStep[i] \in PastDirectory => userDir # "legacy"

DatabaseIsAdopted ==
    /\ freshRows => rows = "none"
    /\ \A i \in Instances : startStep[i] \in PastDatabase => rows # "legacy"

HomeIsAdopted ==
    /\ freshHome => home = "none"
    /\ \A i \in Instances : startStep[i] = "homing" => home = "legacy" /\ ~freshHome
    /\ \A i \in Instances : startStep[i] \in PastHome => home # "legacy"

DataInv ==
    /\ DataTypes /\ OneHolds
    /\ DirectoryIsAdopted /\ DatabaseIsAdopted /\ HomeIsAdopted
    /\ SchemaMatchesVersion /\ EngineHasTheKey

LEMMA DataStart == DataInit => DataInv
<1> SUFFICES ASSUME DataInit PROVE DataInv
    OBVIOUS
<1>1. startStep = [i \in Instances |-> "off"]
    BY DEF DataInit
<1>2. DataTypes
    BY <1>1, LocalDataAssumption DEF DataInit, DataTypes, Names
<1>3. OneHolds /\ DirectoryIsAdopted /\ DatabaseIsAdopted /\ HomeIsAdopted
    BY <1>1 DEF DataInit, OneHolds, DirectoryIsAdopted, DatabaseIsAdopted, HomeIsAdopted,
                PastDirectory, PastDatabase, PastHome, Holding
<1>4. SchemaMatchesVersion /\ EngineHasTheKey
    BY <1>1 DEF DataInit, SchemaMatchesVersion, EngineHasTheKey, OpenApps
<1> QED
    BY <1>2, <1>3, <1>4 DEF DataInv

\* A process goes on: what it may hold, and what it has to have seen.
LEMMA ProcessGoesOn ==
    ASSUME DataInv, NEW i \in Instances, NEW s \in {"off"} \cup BeforeLock \cup Holding,
           GoesTo(i, s)
    PROVE  /\ startStep' \in [Instances -> {"off"} \cup BeforeLock \cup Holding]
           /\ startStep'[i] = s
           /\ \A j \in Instances : j # i => startStep'[j] = startStep[j]
BY DEF DataInv, DataTypes, GoesTo

\* What a step of a start has to keep, beside the types.
LEMMA StepKeeps ==
    ASSUME DataInv, NEW i \in Instances, NEW s \in {"off"} \cup BeforeLock \cup Holding,
           GoesTo(i, s),
           s \in Holding => startStep[i] \in Holding
                             \/ \A j \in Instances : startStep[j] \notin Holding,
           s # "open", startStep[i] # "open" \/ s = "off", UNCHANGED keyVars,
           userDir' \in Names, rows' \in Names, home' \in Names,
           current' \in {"none", "empty", "filled"}
    PROVE  /\ startStep'[i] = s /\ \A j \in Instances : j # i => startStep'[j] = startStep[j]
           /\ OneHolds' /\ EngineHasTheKey'
           /\ OpenApps' \subseteq OpenApps
           /\ version' \in Nat => DataTypes'
<1>1. /\ startStep' \in [Instances -> {"off"} \cup BeforeLock \cup Holding]
      /\ startStep'[i] = s
      /\ \A j \in Instances : j # i => startStep'[j] = startStep[j]
    BY ProcessGoesOn
<1>2. OneHolds'
    BY <1>1 DEF DataInv, OneHolds
<1>3. OpenApps' \subseteq OpenApps
    BY <1>1 DEF OpenApps
<1>4. EngineHasTheKey'
    BY <1>3 DEF DataInv, EngineHasTheKey, keyVars, KeyInForce
<1> QED
    BY <1>1, <1>2, <1>3, <1>4 DEF DataTypes

LEMMA SchemaKept ==
    ASSUME SchemaMatchesVersion, OpenApps' \subseteq OpenApps, UNCHANGED <<version, changes>>
    PROVE  SchemaMatchesVersion'
BY DEF SchemaMatchesVersion

LEMMA BeforeTheLock ==
    ASSUME DataInv, NEW i \in Instances,
           \/ LaunchApp(i) \/ DirectoriesChecked(i) \/ EmptyRemoved(i) \/ DirectoryMoved(i)
           \/ NameChecked(i) \/ DatabaseRenamed(i) \/ LockRequested(i)
    PROVE  DataInv'
<1> DEFINE OfStart == {"off"} \cup BeforeLock \cup Holding
<1> USE DEF Dies, dataFiles, BeforeLock, Holding
<1>0. DataTypes /\ OneHolds /\ DirectoryIsAdopted /\ DatabaseIsAdopted /\ HomeIsAdopted
      /\ SchemaMatchesVersion
    BY DEF DataInv
<1>1. PICK s \in OfStart :
        /\ GoesTo(i, s) /\ startStep[i] \notin Holding
        /\ s \in Holding => s = "homeCheck" /\ startStep[i] = "locking"
                              /\ \A j \in Instances : startStep[j] \notin Holding
    BY <1>0 DEF LaunchApp, DirectoriesChecked, EmptyRemoved, DirectoryMoved, NameChecked,
           DatabaseRenamed, LockRequested, AfterDirectory
<1>2. UNCHANGED <<freshRows, home, freshHome, version, changes, keyVars>>
    BY DEF LaunchApp, DirectoriesChecked, EmptyRemoved, DirectoryMoved, NameChecked,
           DatabaseRenamed, LockRequested, dataFiles
<1>3. userDir' \in Names /\ rows' \in Names /\ current' \in {"none", "empty", "filled"}
    BY <1>0 DEF LaunchApp, DirectoriesChecked, EmptyRemoved, DirectoryMoved, NameChecked,
           DatabaseRenamed, LockRequested, DataTypes, Names
<1>4. /\ startStep'[i] = s /\ \A j \in Instances : j # i => startStep'[j] = startStep[j]
      /\ OneHolds' /\ EngineHasTheKey' /\ OpenApps' \subseteq OpenApps /\ DataTypes'
    BY <1>0, <1>1, <1>2, <1>3, StepKeeps DEF DataTypes
<1>5. SchemaMatchesVersion'
    BY <1>0, <1>2, <1>4, SchemaKept
<1>6. HomeIsAdopted'
    BY <1>0, <1>1, <1>2, <1>4 DEF HomeIsAdopted, PastHome
<1>7. DirectoryIsAdopted'
  <2>1. \/ userDir' = userDir /\ (current' = current \/ current' = "none")
        \/ userDir' = "current" /\ current' = "filled"
    BY DEF LaunchApp, DirectoriesChecked, EmptyRemoved, DirectoryMoved, NameChecked,
           DatabaseRenamed, LockRequested
  <2>2. rows = "none" => rows' = "none"
    BY DEF LaunchApp, DirectoriesChecked, EmptyRemoved, DirectoryMoved, NameChecked,
           DatabaseRenamed, LockRequested
  <2>3. s \in PastDirectory => userDir' # "legacy"
    BY <1>0, <1>1, <1>4 DEF LaunchApp, DirectoriesChecked, EmptyRemoved, DirectoryMoved, NameChecked,
           DatabaseRenamed, LockRequested, AfterDirectory, PastDirectory, DirectoryIsAdopted, GoesTo, DataTypes
  <2> QED
    BY <1>0, <1>2, <1>4, <2>1, <2>2, <2>3 DEF DirectoryIsAdopted
<1>8. DatabaseIsAdopted'
  <2>1. \/ rows' = rows
        \/ rows = "legacy" /\ rows' = "current"
    BY DEF LaunchApp, DirectoriesChecked, EmptyRemoved, DirectoryMoved, NameChecked,
           DatabaseRenamed, LockRequested
  <2>2. s \in PastDatabase => rows' # "legacy"
    <3>1. CASE NameChecked(i)
      BY <1>0, <1>4, <3>1 DEF NameChecked, PastDatabase, PastDirectory, DirectoryIsAdopted,
             DatabaseIsAdopted, DataTypes, Names, GoesTo
    <3>2. CASE DatabaseRenamed(i) \/ LockRequested(i)
      BY <1>0, <1>4, <3>2 DEF DatabaseRenamed, LockRequested, PastDatabase, DatabaseIsAdopted,
             DataTypes, GoesTo
    <3>3. CASE LaunchApp(i) \/ DirectoriesChecked(i) \/ EmptyRemoved(i) \/ DirectoryMoved(i)
      BY <1>0, <1>4, <3>3 DEF LaunchApp, DirectoriesChecked, EmptyRemoved, DirectoryMoved,
             AfterDirectory, PastDatabase, DataTypes, GoesTo
    <3> QED
      BY <3>1, <3>2, <3>3
  <2> QED
    BY <1>0, <1>2, <1>4, <2>1, <2>2 DEF DatabaseIsAdopted
<1> QED
    BY <1>4, <1>5, <1>6, <1>7, <1>8 DEF DataInv

LEMMA UnderTheLock ==
    ASSUME DataInv, NEW i \in Instances,
           \/ HomeChecked(i) \/ HomeRenamed(i) \/ HomeMade(i) \/ DatabaseOpened(i)
    PROVE  DataInv'
<1> DEFINE OfStart == {"off"} \cup BeforeLock \cup Holding
<1> USE DEF dataFiles, Holding
<1>0. DataTypes /\ OneHolds /\ DirectoryIsAdopted /\ DatabaseIsAdopted /\ HomeIsAdopted
      /\ SchemaMatchesVersion
    BY DEF DataInv
<1>1. PICK s \in OfStart : GoesTo(i, s) /\ s \in Holding /\ s # "open"
                          /\ startStep[i] \in Holding /\ startStep[i] # "open"
    BY DEF HomeChecked, HomeRenamed, HomeMade, DatabaseOpened
<1>2. /\ userDir' \in Names /\ rows' \in Names /\ home' \in Names
      /\ current' \in {"none", "empty", "filled"}
      /\ UNCHANGED <<userDir, rows, keyVars>>
    BY <1>0 DEF HomeChecked, HomeRenamed, HomeMade, DatabaseOpened, DataTypes, Names
<1>3. /\ startStep'[i] = s /\ \A j \in Instances : j # i => startStep'[j] = startStep[j]
      /\ OneHolds' /\ EngineHasTheKey' /\ OpenApps' \subseteq OpenApps
      /\ version' \in Nat => DataTypes'
    BY <1>1, <1>2, StepKeeps
<1>4. \A j \in Instances : j # i => startStep[j] \notin Holding
    BY <1>0, <1>1 DEF OneHolds
<1>5. OpenApps' = {}
    BY <1>1, <1>3, <1>4 DEF OpenApps
<1>6. userDir # "legacy" /\ rows # "legacy"
    BY <1>0, <1>1 DEF DirectoryIsAdopted, DatabaseIsAdopted, PastDirectory, PastDatabase
<1>7. version' \in Nat /\ changes' = 1 .. version'
    BY <1>0 DEF HomeChecked, HomeRenamed, HomeMade, DatabaseOpened, DataTypes, SchemaMatchesVersion
<1>8. SchemaMatchesVersion'
    BY <1>5, <1>7 DEF SchemaMatchesVersion
<1>9. DirectoryIsAdopted'
  <2>1. home = "none" /\ userDir = "none" => home' = "none"
    BY <1>0 DEF HomeChecked, HomeRenamed, HomeMade, DatabaseOpened, HomeIsAdopted
  <2> QED
    BY <1>0, <1>2, <1>6, <2>1 DEF DirectoryIsAdopted
<1>10. DatabaseIsAdopted'
  <2>1. freshRows' => rows = "none"
    BY <1>0, <1>6 DEF HomeChecked, HomeRenamed, HomeMade, DatabaseOpened, DatabaseIsAdopted,
           DataTypes, Names
  <2> QED
    BY <1>2, <1>6, <2>1 DEF DatabaseIsAdopted
<1>11. HomeIsAdopted'
  <2>1. CASE HomeChecked(i)
    BY <1>0, <1>3, <1>4, <1>6, <2>1
       DEF HomeChecked, HomeIsAdopted, DirectoryIsAdopted, PastHome, DataTypes, Names, GoesTo
  <2>2. CASE HomeRenamed(i)
    BY <1>0, <1>3, <1>4, <2>2 DEF HomeRenamed, HomeIsAdopted, PastHome, DataTypes, GoesTo
  <2>3. CASE HomeMade(i)
    BY <1>0, <1>3, <1>4, <2>3 DEF HomeMade, HomeIsAdopted, PastHome, DataTypes, Names, GoesTo
  <2>4. CASE DatabaseOpened(i)
    BY <1>0, <1>3, <1>4, <2>4 DEF DatabaseOpened, HomeIsAdopted, PastHome, DataTypes, GoesTo
  <2> QED
    BY <2>1, <2>2, <2>3, <2>4
<1> QED
    BY <1>3, <1>7, <1>8, <1>9, <1>10, <1>11 DEF DataInv

LEMMA VersionKept ==
    ASSUME DataInv, NEW i \in Instances, VersionMigrated(i)
    PROVE  DataInv'
<1>1. /\ version \in Nat /\ changes = 1 .. version
      /\ version' = version + 1 /\ changes' = changes \cup {version + 1}
    BY DEF DataInv, DataTypes, SchemaMatchesVersion, VersionMigrated
<1>2. version' \in Nat /\ changes' = 1 .. version'
    BY <1>1
<1>3. OpenApps = {} /\ OpenApps' = {}
    BY DEF DataInv, OneHolds, Holding, OpenApps, VersionMigrated
<1>4. UNCHANGED <<dataFiles, startStep, keyVars>>
    BY DEF VersionMigrated
<1> QED
    BY <1>2, <1>3, <1>4 DEF DataInv, DataTypes, OneHolds, DirectoryIsAdopted, DatabaseIsAdopted,
       HomeIsAdopted, SchemaMatchesVersion, EngineHasTheKey, dataFiles, keyVars

LEMMA ApplicationKept ==
    ASSUME DataInv, NEW i \in Instances, NEW readable \in BOOLEAN, ApplicationOpens(i, readable)
    PROVE  DataInv'
<1>0. DataTypes /\ OneHolds /\ DirectoryIsAdopted /\ DatabaseIsAdopted /\ HomeIsAdopted
      /\ SchemaMatchesVersion
    BY DEF DataInv
<1>1. GoesTo(i, "open") /\ startStep[i] = "migrating" /\ version = LastVersion
      /\ UNCHANGED <<dataFiles, version, changes, vault>>
    BY DEF ApplicationOpens
<1>2. /\ startStep' \in [Instances -> {"off"} \cup BeforeLock \cup Holding]
      /\ startStep'[i] = "open" /\ \A j \in Instances : j # i => startStep'[j] = startStep[j]
    BY <1>1, ProcessGoesOn DEF Holding
<1>3. DataTypes' /\ OneHolds' /\ DatabaseIsAdopted' /\ HomeIsAdopted' /\ DirectoryIsAdopted'
    BY <1>0, <1>1, <1>2 DEF DataTypes, OneHolds, DirectoryIsAdopted, DatabaseIsAdopted, HomeIsAdopted,
       PastHome, PastDatabase, PastDirectory, Holding, dataFiles
<1>4. SchemaMatchesVersion'
    BY <1>0, <1>1 DEF SchemaMatchesVersion
<1>5. EngineHasTheKey'
    BY DEF ApplicationOpens, EngineHasTheKey, KeyInForce
<1> QED
    BY <1>3, <1>4, <1>5 DEF DataInv

LEMMA KeyKept ==
    ASSUME DataInv, NEW key, ChangeKey(key)
    PROVE  DataInv'
<1>1. UNCHANGED <<dataFiles, version, changes, startStep>>
    BY DEF ChangeKey
<1>2. EngineHasTheKey'
    BY DEF ChangeKey, EngineHasTheKey, KeyInForce
<1> QED
    BY <1>1, <1>2 DEF DataInv, DataTypes, OneHolds, DirectoryIsAdopted, DatabaseIsAdopted,
       HomeIsAdopted, SchemaMatchesVersion, dataFiles, OpenApps

LEMMA DeathKept ==
    ASSUME DataInv, NEW i \in Instances, ProcessDies(i)
    PROVE  DataInv'
<1>0. DataTypes /\ OneHolds /\ DirectoryIsAdopted /\ DatabaseIsAdopted /\ HomeIsAdopted
      /\ SchemaMatchesVersion /\ EngineHasTheKey
    BY DEF DataInv
<1>1. GoesTo(i, "off") /\ UNCHANGED <<dataFiles, version, changes, launchKey, stale>>
    BY DEF ProcessDies, Dies
<1>2. /\ startStep' \in [Instances -> {"off"} \cup BeforeLock \cup Holding]
      /\ startStep'[i] = "off" /\ \A j \in Instances : j # i => startStep'[j] = startStep[j]
    BY <1>1, ProcessGoesOn
<1>3. DataTypes' /\ OneHolds' /\ DatabaseIsAdopted' /\ HomeIsAdopted' /\ DirectoryIsAdopted'
    BY <1>0, <1>1, <1>2 DEF DataTypes, OneHolds, DirectoryIsAdopted, DatabaseIsAdopted, HomeIsAdopted,
       PastHome, PastDatabase, PastDirectory, Holding, dataFiles
<1>4. OpenApps' \subseteq OpenApps
    BY <1>2 DEF OpenApps
<1>5. SchemaMatchesVersion'
    BY <1>0, <1>1, <1>4 DEF SchemaMatchesVersion
<1>6. EngineHasTheKey'
  <2>1. CASE startStep[i] = "open"
    <3>1. OpenApps' = {}
      BY <1>0, <1>2, <2>1 DEF OpenApps, OneHolds, Holding
    <3> QED
      BY <3>1 DEF EngineHasTheKey
  <2>2. CASE startStep[i] # "open"
    <3>1. vault' = vault
      BY <2>2 DEF ProcessDies
    <3> QED
      BY <1>0, <1>1, <1>4, <3>1 DEF EngineHasTheKey, KeyInForce
  <2> QED
    BY <2>1, <2>2
<1> QED
    BY <1>3, <1>5, <1>6 DEF DataInv

LEMMA DataKept == DataInv /\ [DataNext]_dataVars => DataInv'
<1> SUFFICES ASSUME DataInv, [DataNext]_dataVars PROVE DataInv'
    OBVIOUS
<1>1. ASSUME UNCHANGED <<dataFiles, version, changes, startStep, vault, launchKey, stale>>
      PROVE  DataInv'
    BY <1>1 DEF DataInv, DataTypes, OneHolds, DirectoryIsAdopted, DatabaseIsAdopted,
       HomeIsAdopted, SchemaMatchesVersion, EngineHasTheKey, KeyInForce, dataFiles, OpenApps
<1>2. CASE TurnBegins \/ UNCHANGED dataVars
    BY <1>1, <1>2 DEF TurnBegins, dataVars, dataFiles
<1> QED
    BY <1>2, BeforeTheLock, UnderTheLock, VersionKept, ApplicationKept, KeyKept, DeathKept
       DEF DataNext

\* One process at most is open, it uses the rows and sessions the user has, with the
\* tables its version says, and launches the engine with the key that is stored
\* (userDataMigration.ts, codexHome.ts, database.ts, credentialStore.ts,
\* providerService.ts): for any number of processes, killed and started at any step.
THEOREM StoredDataComesIntoForce == DataSpec => []StoredDataIsInForce
<1>1. ASSUME DataInv PROVE StoredDataIsInForce
  <2>1. \A i, j \in OpenApps : i = j
    BY <1>1 DEF DataInv, OneHolds, OpenApps, Holding
  <2>2. UserDataIsAdopted
    BY <1>1 DEF DataInv, DataTypes, DirectoryIsAdopted, DatabaseIsAdopted, HomeIsAdopted, PastHome,
       PastDatabase, PastDirectory, Holding, UserDataIsAdopted, OpenApps, Names
  <2> QED
    BY <1>1, <2>1, <2>2 DEF StoredDataIsInForce, DataInv
<1> QED
    BY <1>1, DataStart, DataKept, PTL DEF DataSpec

-----------------------------------------------------------------------------
(* Window.  The last message on the wire about a service says what the      *)
(* service is at; when there is none, the page shows it already, or has     *)
(* still to ask.  Of the terminal the wire holds whatever makes up the      *)
(* difference, from the last message that tells all of it.                  *)

PageNumbers == Nat \ {0}

WindowCalls == [asks : {"state", "operation"}, of : Channels] \cup [asks : {"bootstrap", "terminal"}]
PageCalls == [page : PageNumbers, call : WindowCalls]

Outputs == Seq(Nat) \cup {None}

Wire == [kind : {"state"}, to : Nat, of : Channels, is : Nat]
          \cup [kind : {"bootstrap"}, to : PageNumbers, is : [StateChannels -> Nat]]
          \cup [kind : {"sessions"}, to : PageNumbers, is : Outputs]
          \cup [kind : {"session"}, is : Seq(Nat)] \cup [kind : {"removed"}]
          \cup [kind : {"output"}, is : Nat]

WindowTypes ==
    /\ states \in [Channels -> Nat] /\ terminal \in Outputs /\ chunks \in Nat
    /\ page \in PageNumbers /\ mounted \in BOOLEAN
    /\ displayed \in [Channels -> Nat \cup {None}]
    /\ invoked \in Seq(PageCalls) /\ wire \in Seq(Wire)
    /\ working # None => working \in [page : PageNumbers, of : Channels]

Replies == {"state", "bootstrap", "sessions"}

\* Nothing is for a page that is still to come, and nothing outlives the window.
PagesInOrder ==
    /\ \A n \in 1 .. Len(wire) : wire[n].kind \in Replies => wire[n].to <= page
    /\ \A n \in 1 .. Len(invoked) : invoked[n].page <= page
    /\ working # None => working.page <= page
    /\ ~opened => ~mounted /\ ~webContents /\ wire = <<>> /\ invoked = <<>>
    /\ ~mounted => \A c \in Channels : displayed[c] = None

\* A message about the state of service c, for one of the pages in to; 0 stands for all.
Speaks(m, c, to) ==
    \/ m.kind = "state" /\ m.of = c /\ m.to \in to
    \/ m.kind = "bootstrap" /\ c \in StateChannels /\ m.to \in to

WireSays(m, c) == IF m.kind = "state" THEN m.is ELSE m.is[c]

Silent(w, c, to) == \A n \in 1 .. Len(w) : ~Speaks(w[n], c, to)

LastSays(w, c, to, v) ==
    \A n \in 1 .. Len(w) :
        Speaks(w[n], c, to) /\ (\A k \in 1 .. Len(w) : k > n => ~Speaks(w[k], c, to)) =>
            WireSays(w[n], c) = v

\* Until the page is one of those pushes go to, it has not heard of the conversations.
AgentIsUnheard ==
    opened /\ ~webContents =>
        /\ \A n \in 1 .. Len(invoked) : invoked[n].call.asks # "operation"
        /\ working # None => working.page < page
        /\ Silent(wire, AgentChannel, {0, page}) /\ displayed[AgentChannel] = None

AgentIsCurrent ==
    /\ LastSays(wire, AgentChannel, {0}, states[AgentChannel])
    /\ LastSays(wire, AgentChannel, {0, page}, states[AgentChannel])
    /\ Silent(wire, AgentChannel, {0, page}) =>
         displayed[AgentChannel] \in {None, states[AgentChannel]}

\* The page has still to be answered.
Pending(asked, call, to) == \E n \in 1 .. Len(asked) : asked[n] = [page |-> to, call |-> call]

ServiceIsCurrent(c) ==
    mounted /\ ~Pending(invoked, [asks |-> "state", of |-> c], page) =>
        /\ webContents
        /\ LastSays(wire, c, {0, page}, states[c])
        /\ Silent(wire, c, {0, page}) => displayed[c] = states[c]

\* What a message makes of what the page knows of the terminal.
TellsAll(m, to) == m.kind \in {"session", "removed"} \/ (m.kind = "sessions" /\ m.to = to)

Told(known, m, to) ==
    IF m.kind \in {"state", "bootstrap"} \/ (m.kind = "sessions" /\ m.to # to) THEN known
    ELSE IF m.kind = "sessions" THEN m.is
    ELSE ReduceTerminalEvent(known, m)

TerminalComes(w, known, k, h, all, to) ==
    /\ k \in 0 .. Len(w)
    /\ IF k = 0 THEN h[0] = known ELSE TellsAll(w[k], to) /\ h[k] = Told(None, w[k], to)
    /\ \A n \in 1 .. Len(w) : n > k => h[n] = Told(h[n - 1], w[n], to)
    /\ h[Len(w)] = all

Comes(w, known, all, to) ==
    \E k \in Nat, h \in [Nat -> Outputs] : TerminalComes(w, known, k, h, all, to)

TerminalIsCurrent ==
    mounted /\ ~Pending(invoked, [asks |-> "terminal"], page) =>
        webContents /\ Comes(wire, sessions, terminal, page)

WindowInv ==
    /\ WindowTypes /\ PagesInOrder /\ AgentIsUnheard /\ AgentIsCurrent
    /\ \A c \in StateChannels : ServiceIsCurrent(c)
    /\ TerminalIsCurrent

LEMMA WireAppended ==
    ASSUME NEW S, NEW w \in Seq(S), NEW m \in S
    PROVE  /\ Append(w, m) \in Seq(S) /\ Len(Append(w, m)) = Len(w) + 1 /\ Len(w) \in Nat
           /\ \A n \in 1 .. Len(w) : Append(w, m)[n] = w[n]
           /\ Append(w, m)[Len(w) + 1] = m
BY LenProperties

LEMMA WithoutHead ==
    ASSUME NEW S, NEW w \in Seq(S), w # <<>>
    PROVE  /\ Tail(w) \in Seq(S) /\ Len(Tail(w)) = Len(w) - 1 /\ Len(w) \in Nat \ {0}
           /\ \A n \in 1 .. Len(w) - 1 : Tail(w)[n] = w[n + 1]
           /\ Head(w) = w[1] /\ Head(w) \in S
<1>1. Len(w) \in Nat \ {0}
    BY EmptySeq
<1>2. Tail(w) \in Seq(S) /\ Len(Tail(w)) = Len(w) - 1
    BY HeadTailProperties
<1>3. \A n \in 1 .. Len(w) - 1 : Tail(w)[n] = w[n + 1]
    BY <1>2, HeadTailProperties
<1>4. Head(w) = w[1]
    BY <1>1
<1>5. Head(w) \in S
    BY HeadTailProperties
<1> QED
    BY <1>1, <1>2, <1>3, <1>4, <1>5

\* What is said of a service, when a message is added that speaks of it or does not.
LEMMA LastSpeaks ==
    ASSUME NEW w \in Seq(Wire), NEW m \in Wire, NEW c, NEW to, NEW v,
           Speaks(m, c, to), WireSays(m, c) = v
    PROVE  LastSays(Append(w, m), c, to, v) /\ ~Silent(Append(w, m), c, to)
<1> DEFINE a == Append(w, m)
           l == Len(w) + 1
<1>1. /\ a \in Seq(Wire) /\ Len(a) = l /\ Len(w) \in Nat
      /\ \A n \in 1 .. Len(w) : a[n] = w[n]
      /\ a[l] = m
    BY WireAppended
<1> HIDE DEF a
<1>2. l \in 1 .. Len(a)
    BY <1>1
<1>3. ASSUME NEW n \in 1 .. Len(a), Speaks(a[n], c, to),
             \A k \in 1 .. Len(a) : k > n => ~Speaks(a[k], c, to)
      PROVE  WireSays(a[n], c) = v
  <2>1. ~(l > n)
    BY <1>1, <1>2, <1>3
  <2>2. n = l
    BY <1>1, <2>1
  <2> QED
    BY <1>1, <2>2
<1>4. LastSays(a, c, to, v)
    BY <1>3 DEF LastSays
<1>5. ~Silent(a, c, to)
    BY <1>1, <1>2 DEF Silent
<1> QED
    BY <1>4, <1>5 DEF a

LEMMA LastIsSilent ==
    ASSUME NEW w \in Seq(Wire), NEW m \in Wire, NEW c, NEW to, NEW v, ~Speaks(m, c, to)
    PROVE  /\ LastSays(w, c, to, v) => LastSays(Append(w, m), c, to, v)
           /\ Silent(Append(w, m), c, to) <=> Silent(w, c, to)
<1> DEFINE a == Append(w, m)
           l == Len(w) + 1
<1>1. /\ a \in Seq(Wire) /\ Len(a) = l /\ Len(w) \in Nat
      /\ \A n \in 1 .. Len(w) : a[n] = w[n]
      /\ a[l] = m
    BY WireAppended
<1> HIDE DEF a
<1>2. \A n \in 1 .. Len(a) : n \in 1 .. Len(w) \/ n = l
    BY <1>1
<1>3. \A n \in 1 .. Len(w) : n \in 1 .. Len(a)
    BY <1>1
<1>4. ASSUME LastSays(w, c, to, v), NEW n \in 1 .. Len(a), Speaks(a[n], c, to),
             \A k \in 1 .. Len(a) : k > n => ~Speaks(a[k], c, to)
      PROVE  WireSays(a[n], c) = v
  <2>1. n \in 1 .. Len(w) /\ a[n] = w[n]
    BY <1>1, <1>2, <1>4
  <2>2. \A k \in 1 .. Len(w) : k > n => ~Speaks(w[k], c, to)
    BY <1>1, <1>3, <1>4
  <2> QED
    BY <1>4, <2>1, <2>2 DEF LastSays
<1>5. LastSays(w, c, to, v) => LastSays(a, c, to, v)
    BY <1>4 DEF LastSays
<1>6. Silent(a, c, to) <=> Silent(w, c, to)
    BY <1>1, <1>2, <1>3 DEF Silent
<1> QED
    BY <1>5, <1>6 DEF a

\* ... and when the first message is delivered.
LEMMA FirstIsHeard ==
    ASSUME NEW w \in Seq(Wire), w # <<>>, NEW c, NEW to, NEW v
    PROVE  /\ LastSays(w, c, to, v) =>
                /\ LastSays(Tail(w), c, to, v)
                /\ Silent(Tail(w), c, to) /\ Speaks(Head(w), c, to) => WireSays(Head(w), c) = v
           /\ Silent(w, c, to) <=> Silent(Tail(w), c, to) /\ ~Speaks(Head(w), c, to)
<1> DEFINE t == Tail(w)
<1>1. /\ t \in Seq(Wire) /\ Len(t) = Len(w) - 1 /\ Len(w) \in Nat \ {0}
      /\ \A n \in 1 .. Len(w) - 1 : t[n] = w[n + 1]
      /\ Head(w) = w[1]
    BY WithoutHead
<1> HIDE DEF t
<1>2. \A n \in 1 .. Len(w) : n = 1 \/ (n - 1 \in 1 .. Len(t) /\ t[n - 1] = w[n])
    BY <1>1
<1>3. \A n \in 1 .. Len(t) : n + 1 \in 1 .. Len(w) /\ t[n] = w[n + 1]
    BY <1>1
<1>4. Silent(w, c, to) <=> Silent(t, c, to) /\ ~Speaks(Head(w), c, to)
  <2>1. 1 \in 1 .. Len(w)
    BY <1>1
  <2> QED
    BY <1>1, <1>2, <1>3, <2>1 DEF Silent
<1>5. ASSUME LastSays(w, c, to, v), NEW n \in 1 .. Len(t), Speaks(t[n], c, to),
             \A k \in 1 .. Len(t) : k > n => ~Speaks(t[k], c, to)
      PROVE  WireSays(t[n], c) = v
  <2>1. ASSUME NEW k \in 1 .. Len(w), k > n + 1 PROVE ~Speaks(w[k], c, to)
    <3>1. k - 1 \in 1 .. Len(t) /\ k - 1 > n /\ t[k - 1] = w[k]
      BY <1>1, <2>1
    <3> QED
      BY <1>5, <3>1
  <2> QED
    BY <1>3, <1>5, <2>1 DEF LastSays
<1>6. ASSUME LastSays(w, c, to, v), Silent(t, c, to), Speaks(Head(w), c, to)
      PROVE  WireSays(Head(w), c) = v
  <2>1. \A k \in 1 .. Len(w) : k > 1 => ~Speaks(w[k], c, to)
    BY <1>2, <1>6 DEF Silent
  <2>2. 1 \in 1 .. Len(w)
    BY <1>1
  <2> QED
    BY <1>1, <1>6, <2>1, <2>2 DEF LastSays
<1>7. LastSays(w, c, to, v) => LastSays(t, c, to, v)
    BY <1>5 DEF LastSays
<1> QED
    BY <1>4, <1>6, <1>7 DEF t

LEMMA NothingSpeaks ==
    ASSUME NEW w, NEW c, NEW to, NEW v, Silent(w, c, to)
    PROVE  LastSays(w, c, to, v)
BY DEF Silent, LastSays

\* Every service is asked once the page is mounted.
LEMMA EveryServiceIsListed ==
    /\ SetToSeq(StateChannels) \in Seq(StateChannels)
    /\ \A c \in StateChannels :
         \E n \in 1 .. Len(SetToSeq(StateChannels)) : SetToSeq(StateChannels)[n] = c
<1> DEFINE S == StateChannels
           l == Cardinality(S)
           s == SetToSeq(S)
<1>1. IsFiniteSet(S) /\ l \in Nat /\ ExistsBijection(1 .. l, S)
    BY WindowAssumption, FS_CardinalityType
<1>2. PICK b \in [1 .. l -> S] : \A m, n \in 1 .. l : b[m] = b[n] => m = n
    BY <1>1 DEF ExistsBijection, Bijection, Injection, IsInjective
<1>3. \E f \in [1 .. l -> S] : IsInjective(f)
    BY <1>2 DEF IsInjective
<1>4. s \in Injection(1 .. l, S)
  <2>1. s \in [1 .. l -> S] /\ IsInjective(s)
    BY <1>3 DEF SetToSeq
  <2> QED
    BY <2>1 DEF Injection
<1>5. Cardinality(1 .. l) = l
    BY <1>1, FS_Interval
<1>6. s \in Surjection(1 .. l, S)
    BY <1>1, <1>4, <1>5, FS_Injection
<1>7. s \in Seq(S)
    BY <1>1, <1>6, SeqDef DEF Surjection
<1>8. Len(s) = l
    BY <1>1, <1>6, <1>7, LenProperties DEF Surjection
<1> QED
    BY <1>6, <1>7, <1>8 DEF Surjection

\* What is on the wire, by its kind.
LEMMA WireIs ==
    ASSUME NEW m \in Wire
    PROVE  /\ m.kind \in Replies \cup {"session", "removed", "output"}
           /\ m.kind = "state" => m.to \in Nat /\ m.of \in Channels /\ m.is \in Nat
           /\ m.kind = "bootstrap" => m.to \in PageNumbers /\ m.is \in [StateChannels -> Nat]
           /\ m.kind = "sessions" => m.to \in PageNumbers /\ m.is \in Outputs
           /\ m.kind = "session" => m.is \in Seq(Nat)
           /\ m.kind = "output" => m.is \in Nat
BY DEF Wire, Replies

LEMMA ToldIsOutput ==
    ASSUME NEW m \in Wire, NEW known \in Outputs, NEW to
    PROVE  Told(known, m, to) \in Outputs
<1>1. ASSUME m.kind = "output", known # None PROVE Append(known, m.is) \in Seq(Nat)
    BY <1>1, WireIs DEF Outputs
<1> QED
    BY <1>1, WireIs DEF Told, ReduceTerminalEvent, Outputs, Replies

\* The terminal, when a message is added.
LEMMA TerminalGoesOn ==
    ASSUME NEW w \in Seq(Wire), NEW m \in Wire, NEW known, NEW all \in Outputs, NEW to,
           Comes(w, known, all, to)
    PROVE  Comes(Append(w, m), known, Told(all, m, to), to)
<1> DEFINE a == Append(w, m)
           l == Len(w) + 1
           t == Told(all, m, to)
<1>1. /\ a \in Seq(Wire) /\ Len(a) = l /\ Len(w) \in Nat
      /\ \A n \in 1 .. Len(w) : a[n] = w[n]
      /\ a[l] = m
    BY WireAppended
<1>2. t \in Outputs
    BY ToldIsOutput
<1>3. PICK k \in Nat : \E h \in [Nat -> Outputs] : TerminalComes(w, known, k, h, all, to)
    BY DEF Comes
<1>4. PICK h \in [Nat -> Outputs] : TerminalComes(w, known, k, h, all, to)
    BY <1>3
<1> DEFINE g == [h EXCEPT ![l] = t]
<1> HIDE DEF a
<1>5. k \in 0 .. Len(w) /\ k \in 0 .. Len(a) /\ l \in Nat /\ Len(w) # l /\ k # l
    BY <1>1, <1>4 DEF TerminalComes
<1>6. g \in [Nat -> Outputs] /\ g[l] = t /\ \A n \in Nat : n # l => g[n] = h[n]
    BY <1>2, <1>5
<1>7. IF k = 0 THEN g[0] = known ELSE TellsAll(a[k], to) /\ g[k] = Told(None, a[k], to)
  <2>1. k # 0 => k \in 1 .. Len(w)
    BY <1>5
  <2>2. g[k] = h[k]
    BY <1>5, <1>6
  <2> HIDE DEF g
  <2> QED
    BY <1>1, <1>4, <2>1, <2>2 DEF TerminalComes
<1>8. ASSUME NEW n \in 1 .. Len(a), n > k PROVE g[n] = Told(g[n - 1], a[n], to)
  <2>1. CASE n = l
    <3>1. n - 1 = Len(w) /\ Len(w) \in Nat
      BY <1>1, <2>1
    <3>2. g[n - 1] = all
      BY <1>4, <1>5, <1>6, <3>1 DEF TerminalComes
    <3> QED
      BY <1>1, <1>6, <2>1, <3>2
  <2>2. CASE n # l
    <3>1. n \in 1 .. Len(w) /\ n - 1 \in Nat /\ n - 1 # l
      BY <1>1, <2>2
    <3>2. g[n] = h[n] /\ g[n - 1] = h[n - 1] /\ a[n] = w[n]
      BY <1>1, <1>6, <2>2, <3>1
    <3>3. h[n] = Told(h[n - 1], w[n], to)
      BY <1>4, <1>8, <3>1 DEF TerminalComes
    <3> QED
      BY <3>2, <3>3
  <2> QED
    BY <2>1, <2>2
<1> HIDE DEF g, t
<1>9. TerminalComes(a, known, k, g, t, to)
    BY <1>1, <1>5, <1>6, <1>7, <1>8 DEF TerminalComes
<1> QED
    BY <1>6, <1>9 DEF Comes, a, t

LEMMA TerminalIsTold ==
    ASSUME NEW w \in Seq(Wire), NEW m \in Wire, NEW known, NEW to, TellsAll(m, to)
    PROVE  Comes(Append(w, m), known, Told(None, m, to), to)
<1> DEFINE a == Append(w, m)
           l == Len(w) + 1
           t == Told(None, m, to)
           h == [n \in Nat |-> t]
<1>1. /\ a \in Seq(Wire) /\ Len(a) = l /\ Len(w) \in Nat
      /\ a[l] = m
    BY WireAppended
<1>2. t \in Outputs
    BY ToldIsOutput DEF Outputs
<1>3. h \in [Nat -> Outputs]
    BY <1>2
<1> HIDE DEF a, t
<1>4. l \in Nat /\ l # 0 /\ l \in 0 .. Len(a) /\ h[l] = t
    BY <1>1
<1> HIDE DEF h
<1>5. TerminalComes(a, known, l, h, t, to)
    BY <1>1, <1>4 DEF TerminalComes, t
<1> QED
    BY <1>3, <1>4, <1>5 DEF Comes, a, t

\* ... and when the first is delivered.
LEMMA TerminalIsHeard ==
    ASSUME NEW w \in Seq(Wire), w # <<>>, NEW known, NEW all, NEW to, Comes(w, known, all, to)
    PROVE  Comes(Tail(w), Told(known, Head(w), to), all, to)
<1> DEFINE t == Tail(w)
           now == Told(known, Head(w), to)
<1>1. /\ t \in Seq(Wire) /\ Len(t) = Len(w) - 1 /\ Len(w) \in Nat \ {0}
      /\ \A n \in 1 .. Len(w) - 1 : t[n] = w[n + 1]
      /\ Head(w) = w[1]
    BY WithoutHead
<1>2. PICK k \in Nat : \E h \in [Nat -> Outputs] : TerminalComes(w, known, k, h, all, to)
    BY DEF Comes
<1>3. PICK h \in [Nat -> Outputs] : TerminalComes(w, known, k, h, all, to)
    BY <1>2
<1> DEFINE g == [n \in Nat |-> h[n + 1]]
           j == IF k = 0 THEN 0 ELSE k - 1
<1> HIDE DEF t
<1>4. g \in [Nat -> Outputs] /\ \A n \in Nat : g[n] = h[n + 1]
    OBVIOUS
<1>5. k \in 0 .. Len(w) /\ j \in 0 .. Len(t) /\ j \in Nat /\ Len(t) \in Nat
    BY <1>1, <1>3 DEF TerminalComes
<1> HIDE DEF g
<1>6. ASSUME k \in {0, 1} PROVE h[1] = now
  <2>1. CASE k = 0
    <3>1. h[0] = known
      BY <1>3, <2>1 DEF TerminalComes
    <3>2. 1 \in 1 .. Len(w) /\ 1 > k
      BY <1>1, <2>1
    <3>3. h[1] = Told(h[1 - 1], w[1], to)
      BY <1>3, <3>2 DEF TerminalComes
    <3> QED
      BY <1>1, <3>1, <3>3
  <2>2. CASE k = 1
    <3>1. TellsAll(w[1], to) /\ h[1] = Told(None, w[1], to)
      BY <1>3, <2>2 DEF TerminalComes
    <3>2. Told(None, w[1], to) = Told(known, w[1], to)
      BY <3>1 DEF TellsAll, Told, ReduceTerminalEvent
    <3> QED
      BY <1>1, <3>1, <3>2
  <2> QED
    BY <1>6, <2>1, <2>2
<1>7. IF j = 0 THEN g[0] = now ELSE TellsAll(t[j], to) /\ g[j] = Told(None, t[j], to)
  <2>1. CASE k \in {0, 1}
    <3>1. j = 0 /\ g[0] = h[1]
      BY <1>4, <2>1
    <3> QED
      BY <1>6, <2>1, <3>1
  <2>2. CASE k \notin {0, 1}
    <3>1. j \in Nat /\ j # 0 /\ j + 1 = k /\ j \in 1 .. Len(w) - 1
      BY <1>5, <2>2
    <3>2. t[j] = w[k] /\ g[j] = h[k]
      BY <1>1, <1>4, <3>1
    <3>3. TellsAll(w[k], to) /\ h[k] = Told(None, w[k], to)
      BY <1>3, <2>2 DEF TerminalComes
    <3> QED
      BY <3>1, <3>2, <3>3
  <2> QED
    BY <2>1, <2>2
<1>8. ASSUME NEW n \in 1 .. Len(t), n > j PROVE g[n] = Told(g[n - 1], t[n], to)
  <2>1. n \in Nat /\ n - 1 \in Nat /\ n + 1 \in 1 .. Len(w) /\ n + 1 > k /\ (n - 1) + 1 = n
        /\ n \in 1 .. Len(w) - 1
    BY <1>1, <1>5, <1>8
  <2>2. g[n] = h[n + 1] /\ g[n - 1] = h[n] /\ t[n] = w[n + 1]
    BY <1>1, <1>4, <2>1
  <2>3. h[n + 1] = Told(h[(n + 1) - 1], w[n + 1], to)
    BY <1>3, <2>1 DEF TerminalComes
  <2>4. (n + 1) - 1 = n
    BY <2>1
  <2> QED
    BY <2>2, <2>3, <2>4
<1>9. g[Len(t)] = all
  <2>1. Len(t) + 1 = Len(w)
    BY <1>1
  <2>2. h[Len(w)] = all
    BY <1>3 DEF TerminalComes
  <2> QED
    BY <1>4, <1>5, <2>1, <2>2
<1> HIDE DEF j, now
<1>10. TerminalComes(t, now, j, g, all, to)
    BY <1>5, <1>7, <1>8, <1>9 DEF TerminalComes
<1> QED
    BY <1>4, <1>5, <1>10 DEF Comes, t, now

LEMMA NothingComes ==
    ASSUME NEW known, NEW all, NEW to, Comes(<<>>, known, all, to)
    PROVE  known = all
<1>1. Len(<<>>) = 0
    OBVIOUS
<1> QED
    BY <1>1 DEF Comes, TerminalComes

\* A request is handled: only it is not pending any more.
LEMMA HeadIsHandled ==
    ASSUME NEW asked \in Seq(PageCalls), asked # <<>>
    PROVE  /\ Head(asked) \in PageCalls /\ Tail(asked) \in Seq(PageCalls)
           /\ \E n \in 1 .. Len(asked) : asked[n] = Head(asked)
           /\ \A n \in 1 .. Len(Tail(asked)) :
                \E k \in 1 .. Len(asked) : Tail(asked)[n] = asked[k]
           /\ \A call, to : Pending(asked, call, to) /\ ~Pending(Tail(asked), call, to) =>
                Head(asked) = [page |-> to, call |-> call]
<1> DEFINE t == Tail(asked)
<1>1. /\ t \in Seq(PageCalls) /\ Len(t) = Len(asked) - 1 /\ Len(asked) \in Nat \ {0}
      /\ \A n \in 1 .. Len(asked) - 1 : t[n] = asked[n + 1]
      /\ Head(asked) = asked[1] /\ Head(asked) \in PageCalls
    BY WithoutHead
<1> HIDE DEF t
<1>2. \A n \in 1 .. Len(t) : n + 1 \in 1 .. Len(asked) /\ t[n] = asked[n + 1]
    BY <1>1
<1>3. 1 \in 1 .. Len(asked)
    BY <1>1
<1>4. ASSUME NEW call, NEW to, Pending(asked, call, to), ~Pending(t, call, to)
      PROVE  Head(asked) = [page |-> to, call |-> call]
  <2>1. PICK n \in 1 .. Len(asked) : asked[n] = [page |-> to, call |-> call]
    BY <1>4 DEF Pending
  <2>2. n # 1 => n - 1 \in 1 .. Len(t) /\ t[n - 1] = asked[n]
    BY <1>1
  <2>3. n = 1
    BY <1>4, <2>1, <2>2 DEF Pending
  <2> QED
    BY <1>1, <2>1, <2>3
<1> QED
    BY <1>1, <1>2, <1>3, <1>4 DEF t

LEMMA WindowStart == WindowInit => WindowInv
<1> SUFFICES ASSUME WindowInit PROVE WindowInv
    OBVIOUS
<1>1. Len(<<>>) = 0 /\ wire = <<>> /\ invoked = <<>>
    BY DEF WindowInit
<1>2. WindowTypes
  <2>1. states \in [Channels -> Nat] /\ displayed \in [Channels -> Nat \cup {None}]
    BY DEF WindowInit, Nothing
  <2>2. page \in PageNumbers
    BY DEF WindowInit, PageNumbers
  <2>3. terminal \in Outputs
    BY DEF WindowInit, Outputs
  <2>4. mounted \in BOOLEAN
    BY DEF WindowInit
  <2>5. invoked \in Seq(PageCalls) /\ wire \in Seq(Wire) /\ working = None /\ chunks \in Nat
    BY DEF WindowInit
  <2> QED
    BY <2>1, <2>2, <2>3, <2>4, <2>5 DEF WindowTypes
<1>3. PagesInOrder
    BY <1>1 DEF WindowInit, PagesInOrder, Nothing
<1>4. \A c, to : Silent(wire, c, to)
    BY <1>1 DEF Silent
<1>5. \A c, to, v : LastSays(wire, c, to, v)
    BY <1>4, NothingSpeaks
<1>6. displayed[AgentChannel] = None
    BY DEF WindowInit, Nothing, Channels
<1>7. AgentIsUnheard /\ AgentIsCurrent
    BY <1>1, <1>4, <1>5, <1>6 DEF WindowInit, AgentIsUnheard, AgentIsCurrent
<1>8. ~mounted
    BY DEF WindowInit
<1> QED
    BY <1>2, <1>3, <1>7, <1>8 DEF WindowInv, ServiceIsCurrent, TerminalIsCurrent

\* A service pushes what it has become.
LEMMA Pushed ==
    ASSUME WindowInv, NEW m \in Wire, m.kind \in Replies => m.kind = "state" /\ m.to = 0,
           wire' = IF webContents THEN Append(wire, m) ELSE wire,
           UNCHANGED <<opened, page, mounted, webContents, displayed, sessions, invoked, working>>,
           states' \in [Channels -> Nat], terminal' \in Outputs, chunks' \in Nat,
           terminal' = Told(terminal, m, page),
           \A c \in Channels : states'[c] = IF Speaks(m, c, {0}) THEN WireSays(m, c) ELSE states[c]
    PROVE  WindowInv'
<1> USE DEF WindowInv
<1>1. wire \in Seq(Wire) /\ page \in PageNumbers /\ terminal \in Outputs
    BY DEF WindowTypes
<1>2. /\ Append(wire, m) \in Seq(Wire) /\ Len(Append(wire, m)) = Len(wire) + 1
      /\ Len(wire) \in Nat
      /\ \A n \in 1 .. Len(wire) : Append(wire, m)[n] = wire[n]
      /\ Append(wire, m)[Len(wire) + 1] = m
    BY <1>1, WireAppended
<1>3. WindowTypes'
    BY <1>2 DEF WindowTypes
<1>4. PagesInOrder'
  <2>1. \A n \in 1 .. Len(wire') : wire'[n].kind \in Replies => wire'[n].to <= page
    <3>1. CASE webContents
      <4>1. \A n \in 1 .. Len(wire') : n \in 1 .. Len(wire) \/ n = Len(wire) + 1
        BY <1>2, <3>1
      <4>2. m.kind \in Replies => m.to <= page
        BY <1>1 DEF PageNumbers
      <4> QED
        BY <1>2, <3>1, <4>1, <4>2 DEF PagesInOrder
    <3>2. CASE ~webContents
      BY <3>2 DEF PagesInOrder
    <3> QED
      BY <3>1, <3>2
  <2>2. ~opened => wire' = <<>>
    BY DEF PagesInOrder
  <2> QED
    BY <2>1, <2>2 DEF PagesInOrder
<1>5. AgentIsUnheard'
    BY DEF AgentIsUnheard
<1>6. AgentChannel \in Channels /\ \A c \in StateChannels : c \in Channels
    BY DEF Channels
<1>7. \A c, to : 0 \in to => (Speaks(m, c, to) <=> Speaks(m, c, {0}))
    BY DEF Speaks, Replies
<1>8. ASSUME NEW c \in Channels, NEW to, 0 \in to, webContents, LastSays(wire, c, to, states[c])
      PROVE  LastSays(wire', c, to, states'[c])
  <2>1. CASE Speaks(m, c, to)
    <3>1. WireSays(m, c) = states'[c]
      BY <1>7, <1>8, <2>1
    <3> QED
      BY <1>1, <1>8, <2>1, <3>1, LastSpeaks
  <2>2. CASE ~Speaks(m, c, to)
    <3>1. states'[c] = states[c]
      BY <1>7, <1>8, <2>2
    <3> QED
      BY <1>1, <1>8, <2>2, <3>1, LastIsSilent
  <2> QED
    BY <2>1, <2>2
<1>9. ASSUME NEW c \in Channels, NEW to, 0 \in to, webContents, Silent(wire', c, to)
      PROVE  Silent(wire, c, to) /\ states'[c] = states[c]
  <2>1. ~Speaks(m, c, to)
    BY <1>1, <1>9, LastSpeaks
  <2>2. Silent(wire, c, to)
    BY <1>1, <1>9, <2>1, LastIsSilent
  <2>3. states'[c] = states[c]
    BY <1>7, <1>9, <2>1
  <2> QED
    BY <2>2, <2>3
<1>10. AgentIsCurrent'
  <2>1. CASE webContents
    BY <1>6, <1>8, <1>9, <2>1 DEF AgentIsCurrent
  <2>2. CASE ~webContents
    <3>1. Silent(wire, AgentChannel, {0, page}) /\ displayed[AgentChannel] = None
      <4>1. CASE opened
        BY <2>2, <4>1 DEF AgentIsUnheard
      <4>2. CASE ~opened
        BY <1>6, <4>2 DEF PagesInOrder, Silent
      <4> QED
        BY <4>1, <4>2
    <3>2. Silent(wire, AgentChannel, {0})
      BY <3>1 DEF Silent, Speaks
    <3> QED
      BY <2>2, <3>1, <3>2, NothingSpeaks DEF AgentIsCurrent
  <2> QED
    BY <2>1, <2>2
<1>11. ASSUME NEW c \in StateChannels PROVE ServiceIsCurrent(c)'
    BY <1>6, <1>8, <1>9 DEF ServiceIsCurrent
<1>12. TerminalIsCurrent'
  <2> SUFFICES ASSUME mounted, ~Pending(invoked, [asks |-> "terminal"], page)
               PROVE  webContents /\ Comes(wire', sessions, terminal', page)
    BY DEF TerminalIsCurrent
  <2>1. webContents /\ Comes(wire, sessions, terminal, page)
    BY DEF TerminalIsCurrent
  <2> QED
    BY <1>1, <2>1, TerminalGoesOn
<1> QED
    BY <1>3, <1>4, <1>5, <1>10, <1>11, <1>12

LEMMA ServiceIsPushed ==
    ASSUME WindowInv, NEW c \in Channels, ServiceChanges(c)
    PROVE  WindowInv'
<1> DEFINE v == states[c] + 1
           m == [kind |-> "state", to |-> 0, of |-> c, is |-> v]
<1>1. /\ states \in [Channels -> Nat] /\ terminal \in Outputs /\ chunks \in Nat
      /\ wire \in Seq(Wire)
    BY DEF WindowInv, WindowTypes
<1>2. v \in Nat /\ states' = [states EXCEPT ![c] = v]
    BY <1>1 DEF ServiceChanges
<1>3. states' \in [Channels -> Nat] /\ states'[c] = v
    BY <1>1, <1>2
<1> HIDE DEF v
<1>4. m \in Wire
    BY <1>2 DEF Wire
<1>5. wire' = IF webContents THEN Append(wire, m) ELSE wire
    BY <1>3 DEF ServiceChanges, Send
<1>6. \A d \in Channels : states'[d] = IF Speaks(m, d, {0}) THEN WireSays(m, d) ELSE states[d]
    BY <1>1, <1>2 DEF Speaks, WireSays
<1>7. m.kind = "state" /\ m.to = 0 /\ Told(terminal, m, page) = terminal
    BY DEF Told
<1>8. /\ UNCHANGED <<opened, page, mounted, webContents, displayed, sessions, invoked, working>>
      /\ UNCHANGED <<terminal, chunks>>
    BY DEF ServiceChanges, window
<1> HIDE DEF m
<1> QED
    BY <1>1, <1>3, <1>4, <1>5, <1>6, <1>7, <1>8, Pushed

LEMMA TerminalIsPushed ==
    ASSUME WindowInv, TerminalOpens \/ TerminalWrites \/ TerminalIsCleared \/ TerminalCloses
    PROVE  WindowInv'
<1>1. /\ states \in [Channels -> Nat] /\ terminal \in Outputs /\ chunks \in Nat
      /\ wire \in Seq(Wire)
    BY DEF WindowInv, WindowTypes
<1>2. ASSUME NEW m \in Wire, m.kind \in {"session", "removed", "output"},
             TerminalChanges(m), terminal' \in Outputs, chunks' \in Nat,
             terminal' = ReduceTerminalEvent(terminal, m)
      PROVE  WindowInv'
  <2>1. m.kind \notin Replies
    BY <1>2 DEF Replies
  <2>2. \A d \in Channels : ~Speaks(m, d, {0})
    BY <1>2 DEF Speaks
  <2>3. terminal' = Told(terminal, m, page)
    BY <1>2 DEF Told
  <2>4. /\ UNCHANGED <<opened, page, mounted, webContents, displayed, sessions, invoked, working>>
        /\ UNCHANGED states
        /\ wire' = IF webContents THEN Append(wire, m) ELSE wire
    BY <1>2 DEF TerminalChanges, Send, window
  <2> QED
    BY <1>1, <1>2, <2>1, <2>2, <2>3, <2>4, Pushed
<1> DEFINE empty == [kind |-> "session", is |-> <<>>]
           removed == [kind |-> "removed"]
           output(n) == [kind |-> "output", is |-> n]
<1>3. /\ empty \in Wire /\ empty.kind = "session" /\ empty.is = <<>>
      /\ removed \in Wire /\ removed.kind = "removed"
      /\ \A n \in Nat : output(n) \in Wire /\ output(n).kind = "output" /\ output(n).is = n
    BY DEF Wire
<1>4. CASE TerminalOpens \/ TerminalIsCleared
  <2>1. terminal' = <<>> /\ chunks' = chunks /\ TerminalChanges(empty)
    BY <1>4 DEF TerminalOpens, TerminalIsCleared
  <2>2. <<>> \in Outputs
    BY DEF Outputs
  <2> HIDE DEF empty, removed, output
  <2> QED
    BY <1>1, <1>2, <1>3, <2>1, <2>2 DEF ReduceTerminalEvent
<1>5. CASE TerminalWrites
  <2>1. chunks' \in Nat /\ terminal # None /\ terminal' = Append(terminal, chunks')
        /\ TerminalChanges(output(chunks'))
    BY <1>1, <1>5 DEF TerminalWrites
  <2>2. terminal \in Seq(Nat)
    BY <1>1, <2>1 DEF Outputs
  <2>3. terminal' \in Outputs
    BY <2>1, <2>2 DEF Outputs
  <2>4. output(chunks') \in Wire /\ output(chunks').kind = "output" /\ output(chunks').is = chunks'
    BY <1>3, <2>1
  <2> HIDE DEF empty, removed, output
  <2> QED
    BY <1>2, <2>1, <2>3, <2>4 DEF ReduceTerminalEvent
<1>6. CASE TerminalCloses
  <2>1. terminal' = None /\ chunks' = chunks /\ TerminalChanges(removed)
    BY <1>6 DEF TerminalCloses
  <2>2. None \in Outputs
    BY DEF Outputs
  <2> HIDE DEF empty, removed, output
  <2> QED
    BY <1>1, <1>2, <1>3, <2>1, <2>2 DEF ReduceTerminalEvent
<1> QED
    BY <1>4, <1>5, <1>6

\* A reply tells the state of the moment.
Settles(call) == Pending(invoked, call, page) /\ ~Pending(invoked', call, page)

PageAnswers(m) ==
    /\ m.kind \in Replies /\ m.to <= page /\ opened
    /\ wire' = Append(wire, m)
    /\ UNCHANGED <<states, terminal, chunks, opened, page, mounted, displayed, sessions>>
    /\ webContents => webContents'
    /\ invoked' \in Seq(PageCalls)
    /\ \A n \in 1 .. Len(invoked') : \E k \in 1 .. Len(invoked) : invoked'[n] = invoked[k]
    /\ working' \in {working, None}
    /\ \A c \in Channels : \A to : Speaks(m, c, to) => WireSays(m, c) = states[c]
    /\ m.kind = "sessions" => m.is = terminal
    /\ ~webContents' => ~Speaks(m, AgentChannel, {0, page})
    /\ \A c \in StateChannels :
         Settles([asks |-> "state", of |-> c]) => webContents' /\ Speaks(m, c, {0, page})
    /\ Settles([asks |-> "terminal"]) => webContents' /\ TellsAll(m, page)

LEMMA ReplyTells ==
    ASSUME WindowInv, NEW m \in Wire, PageAnswers(m)
    PROVE  WindowInv'
<1> USE DEF WindowInv, PageAnswers, Settles
<1>1. wire \in Seq(Wire) /\ page \in PageNumbers /\ terminal \in Outputs
    BY DEF WindowTypes
<1>2. /\ Append(wire, m) \in Seq(Wire) /\ Len(Append(wire, m)) = Len(wire) + 1
      /\ Len(wire) \in Nat
      /\ \A n \in 1 .. Len(wire) : Append(wire, m)[n] = wire[n]
      /\ Append(wire, m)[Len(wire) + 1] = m
    BY <1>1, WireAppended
<1>3. WindowTypes'
    BY <1>2 DEF WindowTypes
<1>4. PagesInOrder'
  <2>1. \A n \in 1 .. Len(wire') : n \in 1 .. Len(wire) \/ n = Len(wire) + 1
    BY <1>2
  <2>2. \A n \in 1 .. Len(wire') : wire'[n].kind \in Replies => wire'[n].to <= page
    BY <1>2, <2>1 DEF PagesInOrder
  <2>3. \A n \in 1 .. Len(invoked') : invoked'[n].page <= page
    BY DEF PagesInOrder
  <2> QED
    BY <2>2, <2>3 DEF PagesInOrder
<1>5. AgentChannel \in Channels /\ \A c \in StateChannels : c \in Channels
    BY DEF Channels
<1>6. \A c \in Channels : \A to : LastSays(wire, c, to, states[c]) => LastSays(wire', c, to, states'[c])
  <2> SUFFICES ASSUME NEW c \in Channels, NEW to, LastSays(wire, c, to, states[c])
               PROVE  LastSays(wire', c, to, states[c])
    OBVIOUS
  <2>1. CASE Speaks(m, c, to)
    BY <1>1, <2>1, LastSpeaks
  <2>2. CASE ~Speaks(m, c, to)
    BY <1>1, <2>2, LastIsSilent
  <2> QED
    BY <2>1, <2>2
<1>7. \A c, to : Silent(wire', c, to) <=> Silent(wire, c, to) /\ ~Speaks(m, c, to)
  <2> SUFFICES ASSUME NEW c, NEW to
               PROVE  Silent(wire', c, to) <=> Silent(wire, c, to) /\ ~Speaks(m, c, to)
    OBVIOUS
  <2>1. CASE Speaks(m, c, to)
    BY <1>1, <2>1, LastSpeaks
  <2>2. CASE ~Speaks(m, c, to)
    BY <1>1, <2>2, LastIsSilent
  <2> QED
    BY <2>1, <2>2
<1>8. AgentIsUnheard'
    BY <1>7 DEF AgentIsUnheard
<1>9. AgentIsCurrent'
    BY <1>5, <1>6, <1>7 DEF AgentIsCurrent
<1>10. ASSUME NEW c \in StateChannels PROVE ServiceIsCurrent(c)'
  <2> DEFINE call == [asks |-> "state", of |-> c]
  <2> SUFFICES ASSUME mounted, ~Pending(invoked', call, page)
               PROVE  /\ webContents'
                      /\ LastSays(wire', c, {0, page}, states[c])
                      /\ Silent(wire', c, {0, page}) => displayed[c] = states[c]
    BY DEF ServiceIsCurrent
  <2>1. CASE Pending(invoked, call, page)
    <3>1. webContents' /\ Speaks(m, c, {0, page})
      BY <2>1
    <3>2. WireSays(m, c) = states[c]
      BY <1>5, <3>1
    <3> QED
      BY <1>1, <3>1, <3>2, LastSpeaks
  <2>2. CASE ~Pending(invoked, call, page)
    BY <1>5, <1>6, <1>7, <2>2 DEF ServiceIsCurrent
  <2> QED
    BY <2>1, <2>2
<1>11. TerminalIsCurrent'
  <2> DEFINE call == [asks |-> "terminal"]
  <2> SUFFICES ASSUME mounted, ~Pending(invoked', call, page)
               PROVE  webContents' /\ Comes(wire', sessions, terminal, page)
    BY DEF TerminalIsCurrent
  <2>1. Told(terminal, m, page) = terminal
    BY DEF Told, Replies
  <2>2. CASE Pending(invoked, call, page)
    <3>1. webContents' /\ TellsAll(m, page)
      BY <2>2
    <3>2. Told(None, m, page) = terminal
      BY <3>1 DEF Told, TellsAll, Replies
    <3> QED
      BY <1>1, <3>1, <3>2, TerminalIsTold
  <2>3. CASE ~Pending(invoked, call, page)
    <3>1. webContents /\ Comes(wire, sessions, terminal, page)
      BY <2>3 DEF TerminalIsCurrent
    <3> QED
      BY <1>1, <2>1, <3>1, TerminalGoesOn
  <2> QED
    BY <2>2, <2>3
<1> QED
    BY <1>3, <1>4, <1>8, <1>9, <1>10, <1>11

LEMMA StateIsAnswered ==
    ASSUME WindowInv, HandleState \/ HandleTerminalState \/ HandleBootstrap
    PROVE  WindowInv'
<1>1. /\ states \in [Channels -> Nat] /\ terminal \in Outputs
      /\ invoked \in Seq(PageCalls) /\ invoked # <<>> /\ page \in PageNumbers
      /\ webContents => webContents'
    BY DEF WindowInv, WindowTypes, HandleState, HandleTerminalState, HandleBootstrap
<1> DEFINE p == NextCall.page
           c == NextCall.call.of
           snapshots == [d \in StateChannels |-> states[d]]
           one == [kind |-> "state", to |-> p, of |-> c, is |-> states[c]]
           every == [kind |-> "bootstrap", to |-> p, is |-> snapshots]
           shells == [kind |-> "sessions", to |-> p, is |-> terminal]
<1>2. /\ NextCall \in PageCalls /\ invoked' \in Seq(PageCalls)
      /\ \A n \in 1 .. Len(invoked') : \E k \in 1 .. Len(invoked) : invoked'[n] = invoked[k]
      /\ \A call, to : Pending(invoked, call, to) /\ ~Pending(invoked', call, to) =>
           NextCall = [page |-> to, call |-> call]
  <2>1. invoked' = Tail(invoked)
    BY DEF Handled, HandleState, HandleTerminalState, HandleBootstrap
  <2> QED
    BY <1>1, <2>1, HeadIsHandled DEF NextCall
<1>3. p \in PageNumbers /\ p <= page
  <2>1. \E n \in 1 .. Len(invoked) : invoked[n] = NextCall
    BY <1>1, HeadIsHandled DEF NextCall
  <2> QED
    BY <1>2, <2>1 DEF WindowInv, PagesInOrder, PageCalls
<1>4. p \in Nat
    BY <1>3 DEF PageNumbers
<1>5. opened
    BY <1>1 DEF WindowInv, PagesInOrder
<1>6. /\ UNCHANGED <<states, terminal, chunks, opened, page, mounted, displayed, sessions>>
      /\ working' \in {working, None}
    BY DEF HandleState, HandleTerminalState, HandleBootstrap, main, window
<1>7. snapshots \in [StateChannels -> Nat]
    BY <1>1 DEF Channels
<1>8. CASE HandleState
  <2>1. NextCall.call.asks = "state" /\ wire' = Append(wire, one) /\ webContents'
    BY <1>8 DEF HandleState, Reply
  <2>2. c \in Channels
    BY <1>2, <2>1 DEF PageCalls, WindowCalls
  <2>3. one \in Wire /\ one.kind = "state" /\ one.to = p
    BY <1>1, <1>4, <2>2 DEF Wire
  <2>4. \A d \in Channels : \A to : Speaks(one, d, to) => WireSays(one, d) = states[d]
    BY DEF Speaks, WireSays
  <2>5. ASSUME NEW d \in StateChannels,
               Pending(invoked, [asks |-> "state", of |-> d], page),
               ~Pending(invoked', [asks |-> "state", of |-> d], page)
        PROVE  Speaks(one, d, {0, page})
    <3>1. NextCall = [page |-> page, call |-> [asks |-> "state", of |-> d]]
      BY <1>2, <2>5
    <3>2. p = page /\ c = d
      BY <3>1
    <3> QED
      BY <3>2 DEF Speaks
  <2>6. Pending(invoked, [asks |-> "terminal"], page)
          => Pending(invoked', [asks |-> "terminal"], page)
    <3>1. NextCall # [page |-> page, call |-> [asks |-> "terminal"]]
      BY <2>1
    <3> QED
      BY <1>2, <3>1
  <2> HIDE DEF one, p, c
  <2>7. /\ one.kind \in Replies /\ one.to <= page /\ opened /\ wire' = Append(wire, one)
        /\ one.kind = "sessions" => one.is = terminal
        /\ ~webContents' => ~Speaks(one, AgentChannel, {0, page})
    BY <1>3, <1>5, <2>1, <2>3 DEF Replies
  <2>8. \A d \in Channels : \A to : Speaks(one, d, to) => WireSays(one, d) = states[d]
    BY <2>4
  <2>9. \A d \in StateChannels :
          Settles([asks |-> "state", of |-> d]) => webContents' /\ Speaks(one, d, {0, page})
    BY <2>1, <2>5 DEF Settles
  <2>10. Settles([asks |-> "terminal"]) => webContents' /\ TellsAll(one, page)
    BY <2>6 DEF Settles
  <2>11. PageAnswers(one)
    BY <1>1, <1>2, <1>6, <2>7, <2>8, <2>9, <2>10 DEF PageAnswers
  <2> QED
    BY <2>3, <2>11, ReplyTells
<1>9. CASE HandleTerminalState
  <2>1. NextCall.call.asks = "terminal" /\ wire' = Append(wire, shells) /\ webContents'
    BY <1>9 DEF HandleTerminalState, Reply
  <2>2. shells \in Wire /\ shells.kind = "sessions" /\ shells.to = p /\ shells.is = terminal
    BY <1>1, <1>3 DEF Wire
  <2>3. \A d, to : ~Speaks(shells, d, to)
    BY DEF Speaks
  <2>4. ASSUME NEW d \in StateChannels,
               Pending(invoked, [asks |-> "state", of |-> d], page)
        PROVE  Pending(invoked', [asks |-> "state", of |-> d], page)
    <3>1. NextCall # [page |-> page, call |-> [asks |-> "state", of |-> d]]
      BY <2>1
    <3> QED
      BY <1>2, <2>4, <3>1
  <2>5. ASSUME Pending(invoked, [asks |-> "terminal"], page),
               ~Pending(invoked', [asks |-> "terminal"], page)
        PROVE  TellsAll(shells, page)
    <3>1. NextCall = [page |-> page, call |-> [asks |-> "terminal"]]
      BY <1>2, <2>5
    <3>2. p = page
      BY <3>1
    <3> QED
      BY <3>2 DEF TellsAll
  <2> HIDE DEF shells, p
  <2>7. /\ shells.kind \in Replies /\ shells.to <= page /\ opened /\ wire' = Append(wire, shells)
        /\ shells.kind = "sessions" => shells.is = terminal
        /\ ~webContents' => ~Speaks(shells, AgentChannel, {0, page})
    BY <1>3, <1>5, <2>1, <2>2, <2>3 DEF Replies
  <2>8. \A d \in Channels : \A to : Speaks(shells, d, to) => WireSays(shells, d) = states[d]
    BY <2>3
  <2>9. \A d \in StateChannels :
          Settles([asks |-> "state", of |-> d]) => webContents' /\ Speaks(shells, d, {0, page})
    BY <2>4 DEF Settles
  <2>10. Settles([asks |-> "terminal"]) => webContents' /\ TellsAll(shells, page)
    BY <2>1, <2>5 DEF Settles
  <2>11. PageAnswers(shells)
    BY <1>1, <1>2, <1>6, <2>7, <2>8, <2>9, <2>10 DEF PageAnswers
  <2> QED
    BY <2>2, <2>11, ReplyTells
<1>10. CASE HandleBootstrap
  <2>1. NextCall.call.asks = "bootstrap" /\ wire' = Append(wire, every)
    BY <1>10 DEF HandleBootstrap, Reply
  <2>2. every \in Wire /\ every.kind = "bootstrap" /\ every.to = p /\ every.is = snapshots
    BY <1>3, <1>7 DEF Wire
  <2>3. \A d \in Channels : \A to : Speaks(every, d, to) => WireSays(every, d) = states[d]
    BY DEF Speaks, WireSays
  <2>4. \A to : ~Speaks(every, AgentChannel, to)
    BY WindowAssumption DEF Speaks
  <2>5. ASSUME NEW d \in StateChannels,
               Pending(invoked, [asks |-> "state", of |-> d], page)
        PROVE  Pending(invoked', [asks |-> "state", of |-> d], page)
    <3>1. NextCall # [page |-> page, call |-> [asks |-> "state", of |-> d]]
      BY <2>1
    <3> QED
      BY <1>2, <2>5, <3>1
  <2>6. Pending(invoked, [asks |-> "terminal"], page)
          => Pending(invoked', [asks |-> "terminal"], page)
    <3>1. NextCall # [page |-> page, call |-> [asks |-> "terminal"]]
      BY <2>1
    <3> QED
      BY <1>2, <3>1
  <2> HIDE DEF every, p
  <2>7. /\ every.kind \in Replies /\ every.to <= page /\ opened /\ wire' = Append(wire, every)
        /\ every.kind = "sessions" => every.is = terminal
        /\ ~webContents' => ~Speaks(every, AgentChannel, {0, page})
    BY <1>3, <1>5, <2>1, <2>2, <2>4 DEF Replies
  <2>8. \A d \in Channels : \A to : Speaks(every, d, to) => WireSays(every, d) = states[d]
    BY <2>3
  <2>9. \A d \in StateChannels :
          Settles([asks |-> "state", of |-> d]) => webContents' /\ Speaks(every, d, {0, page})
    BY <2>5 DEF Settles
  <2>10. Settles([asks |-> "terminal"]) => webContents' /\ TellsAll(every, page)
    BY <2>6 DEF Settles
  <2>11. PageAnswers(every)
    BY <1>1, <1>2, <1>6, <2>7, <2>8, <2>9, <2>10 DEF PageAnswers
  <2> QED
    BY <2>2, <2>11, ReplyTells
<1> QED
    BY <1>8, <1>9, <1>10

\* What is asked of a service, and its end, tell nothing that the pushes do not.
OnlyRequests ==
    /\ UNCHANGED <<states, terminal, chunks, opened, page, mounted, webContents>>
    /\ UNCHANGED <<displayed, sessions, wire>>
    /\ invoked' \in Seq(PageCalls)
    /\ \A n \in 1 .. Len(invoked') : invoked'[n].page <= page
    /\ ~opened => invoked' = <<>>
    /\ working' # None => working' \in [page : PageNumbers, of : Channels] /\ working'.page <= page
    /\ opened /\ ~webContents =>
         /\ \A n \in 1 .. Len(invoked') : invoked'[n].call.asks # "operation"
         /\ working' # None => working'.page < page
    /\ \A c \in StateChannels : ~Settles([asks |-> "state", of |-> c])
    /\ ~Settles([asks |-> "terminal"])

LEMMA NothingIsTold ==
    ASSUME WindowInv, OnlyRequests
    PROVE  WindowInv'
<1> USE DEF WindowInv, OnlyRequests, Settles
<1>1. WindowTypes'
    BY DEF WindowTypes
<1>2. PagesInOrder'
    BY DEF PagesInOrder
<1>3. AgentIsUnheard' /\ AgentIsCurrent'
    BY DEF AgentIsUnheard, AgentIsCurrent
<1>4. \A c \in StateChannels : ServiceIsCurrent(c)'
    BY DEF ServiceIsCurrent
<1>5. TerminalIsCurrent'
    BY DEF TerminalIsCurrent
<1> QED
    BY <1>1, <1>2, <1>3, <1>4, <1>5

LEMMA OperationBegins ==
    ASSUME WindowInv, HandleRequest \/ (\E c \in StateChannels : HandleOperation(c))
    PROVE  WindowInv'
<1>1. PICK c \in Channels :
        /\ invoked # <<>> /\ NextCall.call = [asks |-> "operation", of |-> c] /\ working = None
        /\ invoked' = Tail(invoked)
        /\ working' \in {None, [page |-> NextCall.page, of |-> c]}
        /\ UNCHANGED <<states, terminal, chunks, opened, page, mounted, webContents>>
        /\ UNCHANGED <<displayed, sessions, wire>>
    BY DEF HandleRequest, HandleOperation, Handled, main, window, Channels
<1>2. invoked \in Seq(PageCalls)
    BY DEF WindowInv, WindowTypes
<1>3. /\ NextCall \in PageCalls /\ invoked' \in Seq(PageCalls)
      /\ \E n \in 1 .. Len(invoked) : invoked[n] = NextCall
      /\ \A n \in 1 .. Len(invoked') : \E k \in 1 .. Len(invoked) : invoked'[n] = invoked[k]
      /\ \A call, to : Pending(invoked, call, to) /\ ~Pending(invoked', call, to) =>
           NextCall = [page |-> to, call |-> call]
    BY <1>1, <1>2, HeadIsHandled DEF NextCall
<1>4. NextCall.page \in PageNumbers /\ NextCall.page <= page
    BY <1>3 DEF WindowInv, PagesInOrder, PageCalls
<1>5. opened
    BY <1>1 DEF WindowInv, PagesInOrder
<1>6. webContents
    BY <1>1, <1>3, <1>5 DEF WindowInv, AgentIsUnheard
<1>7. \A n \in 1 .. Len(invoked') : invoked'[n].page <= page
    BY <1>3 DEF WindowInv, PagesInOrder
<1>8. working' # None => working' \in [page : PageNumbers, of : Channels] /\ working'.page <= page
    BY <1>1, <1>4
<1>9. /\ \A d \in StateChannels : ~Settles([asks |-> "state", of |-> d])
      /\ ~Settles([asks |-> "terminal"])
  <2>1. \A d : NextCall # [page |-> page, call |-> [asks |-> "state", of |-> d]]
    BY <1>1
  <2>2. NextCall # [page |-> page, call |-> [asks |-> "terminal"]]
    BY <1>1
  <2> QED
    BY <1>3, <2>1, <2>2 DEF Settles
<1>10. OnlyRequests
    BY <1>1, <1>3, <1>5, <1>6, <1>7, <1>8, <1>9 DEF OnlyRequests
<1> QED
    BY <1>10, NothingIsTold

LEMMA OperationEnds ==
    ASSUME WindowInv, RequestEnds
    PROVE  WindowInv'
<1> DEFINE p == working.page
           c == working.of
           m == [kind |-> "state", to |-> p, of |-> c, is |-> states[c]]
<1>1. /\ states \in [Channels -> Nat] /\ invoked \in Seq(PageCalls)
      /\ p \in PageNumbers /\ c \in Channels /\ p <= page /\ page \in PageNumbers
  <2>1. working # None
    BY DEF RequestEnds
  <2> QED
    BY <2>1 DEF WindowInv, WindowTypes, PagesInOrder
<1>2. /\ working' = None
      /\ UNCHANGED <<states, terminal, chunks, opened, page, mounted, webContents>>
      /\ UNCHANGED <<displayed, sessions, invoked>>
    BY DEF RequestEnds, main, window
<1>3. \A call : ~Settles(call)
    BY <1>2 DEF Settles
<1>4. \A n \in 1 .. Len(invoked) : invoked[n].page <= page
    BY DEF WindowInv, PagesInOrder
<1>5. CASE wire' = wire
  <2>1. opened /\ ~webContents => \A n \in 1 .. Len(invoked) : invoked[n].call.asks # "operation"
    BY DEF WindowInv, AgentIsUnheard
  <2>2. ~opened => invoked = <<>>
    BY DEF WindowInv, PagesInOrder
  <2>3. OnlyRequests
    BY <1>1, <1>2, <1>3, <1>4, <1>5, <2>1, <2>2 DEF OnlyRequests
  <2> QED
    BY <2>3, NothingIsTold
<1>6. CASE wire' = Append(wire, m) /\ opened
  <2>1. p \in Nat /\ p # 0
    BY <1>1 DEF PageNumbers
  <2>2. m \in Wire /\ m.kind = "state" /\ m.to = p
    BY <1>1, <2>1 DEF Wire
  <2>3. \A d \in Channels : \A to : Speaks(m, d, to) => WireSays(m, d) = states[d]
    BY DEF Speaks, WireSays
  <2>4. ~webContents' => ~Speaks(m, AgentChannel, {0, page})
    <3>1. ~webContents => p < page
      BY <1>6 DEF WindowInv, AgentIsUnheard, RequestEnds
    <3>2. ~webContents => p \notin {0, page}
      BY <1>1, <2>1, <3>1 DEF PageNumbers
    <3> QED
      BY <1>2, <3>2 DEF Speaks
  <2> HIDE DEF m, p, c
  <2>5. PageAnswers(m)
    BY <1>1, <1>2, <1>3, <1>6, <2>2, <2>3, <2>4 DEF PageAnswers, Replies
  <2> QED
    BY <2>2, <2>5, ReplyTells
<1> QED
    BY <1>5, <1>6 DEF RequestEnds, Reply

LEMMA PageInvokes ==
    ASSUME WindowInv, NEW c \in Channels, PageAsks(c)
    PROVE  WindowInv'
<1> DEFINE asks == [page |-> page, call |-> [asks |-> "operation", of |-> c]]
<1>1. /\ opened /\ mounted /\ invoked = <<>> /\ working = None /\ invoked' = <<asks>>
      /\ UNCHANGED <<states, terminal, chunks, opened, page, mounted, webContents>>
      /\ UNCHANGED <<displayed, sessions, wire, working>>
    BY DEF PageAsks, Invoke, main, window
<1>2. page \in PageNumbers
    BY DEF WindowInv, WindowTypes
<1>3. asks \in PageCalls
    BY <1>2 DEF PageCalls, WindowCalls
<1>4. asks.page = page
    OBVIOUS
<1> HIDE DEF asks
<1>5. invoked' \in Seq(PageCalls) /\ \A n \in 1 .. Len(invoked') : invoked'[n] = asks
    BY <1>1, <1>3
<1>6. \A call : ~Pending(invoked, call, page)
    BY <1>1 DEF Pending
<1>7. webContents
    BY <1>1, <1>6 DEF WindowInv, TerminalIsCurrent
<1>8. OnlyRequests
    BY <1>1, <1>2, <1>4, <1>5, <1>6, <1>7 DEF OnlyRequests, Settles, PageNumbers
<1> QED
    BY <1>8, NothingIsTold

LEMMA Joined ==
    ASSUME NEW S, NEW v \in Seq(S), NEW w \in Seq(S)
    PROVE  /\ v \o w \in Seq(S)
           /\ \A k \in 1 .. Len(v) : \E n \in 1 .. Len(v \o w) : (v \o w)[n] = v[k]
           /\ \A k \in 1 .. Len(w) : \E n \in 1 .. Len(v \o w) : (v \o w)[n] = w[k]
<1> DEFINE j == v \o w
<1>1. /\ j \in Seq(S) /\ Len(j) = Len(v) + Len(w) /\ Len(v) \in Nat /\ Len(w) \in Nat
      /\ \A n \in 1 .. Len(v) + Len(w) : j[n] = IF n <= Len(v) THEN v[n] ELSE w[n - Len(v)]
    BY ConcatProperties
<1> HIDE DEF j
<1>2. ASSUME NEW k \in 1 .. Len(v) PROVE k \in 1 .. Len(j) /\ j[k] = v[k]
    BY <1>1
<1>3. ASSUME NEW k \in 1 .. Len(w) PROVE \E n \in 1 .. Len(j) : j[n] = w[k]
  <2>1. k + Len(v) \in 1 .. Len(j) /\ (k + Len(v)) - Len(v) = k /\ ~(k + Len(v) <= Len(v))
    BY <1>1
  <2>2. j[k + Len(v)] = w[k]
    BY <1>1, <2>1
  <2> QED
    BY <2>1, <2>2
<1> QED
    BY <1>1, <1>2, <1>3 DEF j

\* The effects of App: what the page shows waits for all its requests.
LEMMA PageMounts ==
    ASSUME WindowInv, Mount
    PROVE  WindowInv'
<1> DEFINE S == {q \in PageCalls : /\ q.page <= page
                                   /\ opened /\ ~webContents => q.call.asks # "operation"}
           services == SetToSeq(StateChannels)
           state(c) == [page |-> page, call |-> [asks |-> "state", of |-> c]]
           boot == [page |-> page, call |-> [asks |-> "bootstrap"]]
           shells == [page |-> page, call |-> [asks |-> "terminal"]]
           calls == [i \in DOMAIN services |-> state(services[i])]
           v == invoked \o <<boot>>
           w == v \o calls
<1>1. /\ opened /\ mounted' /\ invoked' = w \o <<shells>>
      /\ UNCHANGED <<states, terminal, chunks, opened, page, webContents>>
      /\ UNCHANGED <<displayed, sessions, wire, working>>
    BY DEF Mount, Invoke, main
<1>2. invoked \in Seq(PageCalls) /\ page \in PageNumbers
    BY DEF WindowInv, WindowTypes
<1>3. /\ services \in Seq(StateChannels)
      /\ \A c \in StateChannels : \E n \in 1 .. Len(services) : services[n] = c
    BY EveryServiceIsListed
<1>4. invoked \in Seq(S)
  <2>1. \A n \in 1 .. Len(invoked) : invoked[n] \in S
    BY <1>2 DEF WindowInv, PagesInOrder, AgentIsUnheard
  <2> HIDE DEF S
  <2> QED
    BY <1>2, <2>1
<1>5. boot \in S /\ shells \in S /\ \A c \in StateChannels : state(c) \in S
    BY <1>2 DEF PageCalls, WindowCalls, Channels, PageNumbers
<1> HIDE DEF services, state, boot, shells
<1>6. /\ \A q \in S : q \in PageCalls /\ q.page <= page
      /\ opened /\ ~webContents => \A q \in S : q.call.asks # "operation"
    OBVIOUS
<1> HIDE DEF S
<1>7. /\ calls \in Seq(S) /\ Len(calls) = Len(services)
      /\ \A n \in 1 .. Len(calls) : calls[n] = state(services[n])
  <2>1. DOMAIN services = 1 .. Len(services) /\ Len(services) \in Nat
    BY <1>3
  <2>2. \A n \in 1 .. Len(services) : services[n] \in StateChannels
    BY <1>3
  <2>3. calls \in [1 .. Len(services) -> S]
    BY <1>5, <2>1, <2>2
  <2>4. calls \in Seq(S)
    BY <2>1, <2>3, SeqDef
  <2>5. Len(calls) = Len(services)
    BY <2>1, <2>3, <2>4, LenProperties
  <2> QED
    BY <2>1, <2>4, <2>5
<1> HIDE DEF calls
<1>8. v \in Seq(S)
    BY <1>4, <1>5, ConcatProperties
<1> HIDE DEF v
<1>9. w \in Seq(S) /\ \A k \in 1 .. Len(calls) : \E n \in 1 .. Len(w) : w[n] = calls[k]
  <2>1. calls \in Seq(S) /\ v \in Seq(S)
    BY <1>7, <1>8
  <2>2. w \in Seq(S)
    BY <2>1, ConcatProperties
  <2>3. \A k \in 1 .. Len(calls) : \E n \in 1 .. Len(w) : w[n] = calls[k]
    BY <2>1, Joined
  <2> QED
    BY <2>2, <2>3
<1> HIDE DEF w
<1> DEFINE s == <<shells>>
<1>10. s \in Seq(S) /\ 1 \in 1 .. Len(s) /\ s[1] = shells
    BY <1>5
<1>11. invoked' = w \o s
    BY <1>1
<1> HIDE DEF s
<1>12. /\ invoked' \in Seq(S)
       /\ \A k \in 1 .. Len(w) : \E n \in 1 .. Len(invoked') : invoked'[n] = w[k]
       /\ \A k \in 1 .. Len(s) : \E n \in 1 .. Len(invoked') : invoked'[n] = s[k]
  <2> DEFINE j == w \o s
  <2>1. /\ j \in Seq(S)
        /\ \A k \in 1 .. Len(w) : \E n \in 1 .. Len(j) : j[n] = w[k]
        /\ \A k \in 1 .. Len(s) : \E n \in 1 .. Len(j) : j[n] = s[k]
    <3>1. j \in Seq(S)
      BY <1>9, <1>10, ConcatProperties
    <3>2. \A k \in 1 .. Len(w) : \E n \in 1 .. Len(j) : j[n] = w[k]
      BY <1>9, <1>10, Joined
    <3>3. \A k \in 1 .. Len(s) : \E n \in 1 .. Len(j) : j[n] = s[k]
      BY <1>9, <1>10, Joined
    <3> HIDE DEF j
    <3> QED
      BY <3>1, <3>2, <3>3
  <2>2. invoked' = j
    BY <1>11
  <2> HIDE DEF j
  <2> QED
    BY <2>1, <2>2
<1>13. \A c \in StateChannels : Pending(invoked', [asks |-> "state", of |-> c], page)
  <2> SUFFICES ASSUME NEW c \in StateChannels
               PROVE  \E n \in 1 .. Len(invoked') : invoked'[n] = state(c)
    BY DEF Pending, state
  <2>1. PICK i \in 1 .. Len(services) : services[i] = c
    BY <1>3
  <2>2. i \in 1 .. Len(calls) /\ calls[i] = state(c)
    BY <1>7, <2>1
  <2>3. PICK k \in 1 .. Len(w) : w[k] = calls[i]
    BY <1>9, <2>2
  <2>4. PICK n \in 1 .. Len(invoked') : invoked'[n] = w[k]
    BY <1>12
  <2> QED
    BY <2>2, <2>3, <2>4
<1>14. Pending(invoked', [asks |-> "terminal"], page)
  <2>1. PICK n \in 1 .. Len(invoked') : invoked'[n] = s[1]
    BY <1>10, <1>12
  <2> QED
    BY <1>10, <2>1 DEF Pending, shells
<1>15. \A n \in 1 .. Len(invoked') : invoked'[n] \in S
    BY <1>12
<1>16. invoked' \in Seq(PageCalls)
    BY <1>6, <1>12, <1>15
<1>17. WindowTypes'
    BY <1>1, <1>16 DEF WindowInv, WindowTypes
<1>18. PagesInOrder'
  <2>1. \A n \in 1 .. Len(invoked') : invoked'[n].page <= page
    BY <1>6, <1>15
  <2> QED
    BY <1>1, <2>1 DEF WindowInv, PagesInOrder
<1>19. AgentIsUnheard'
  <2>1. opened /\ ~webContents => \A n \in 1 .. Len(invoked') : invoked'[n].call.asks # "operation"
    BY <1>6, <1>15
  <2> QED
    BY <1>1, <2>1 DEF WindowInv, AgentIsUnheard
<1>20. AgentIsCurrent'
    BY <1>1 DEF WindowInv, AgentIsCurrent
<1>21. \A c \in StateChannels : ServiceIsCurrent(c)'
    BY <1>1, <1>13 DEF ServiceIsCurrent
<1>22. TerminalIsCurrent'
    BY <1>1, <1>14 DEF TerminalIsCurrent
<1> QED
    BY <1>17, <1>18, <1>19, <1>20, <1>21, <1>22 DEF WindowInv

\* The page hears the first message on the wire.
LEMMA PageHears ==
    ASSUME WindowInv, Deliver
    PROVE  WindowInv'
<1> USE DEF WindowInv
<1> DEFINE m == Head(wire)
<1>1. /\ wire \in Seq(Wire) /\ wire # <<>> /\ wire' = Tail(wire) /\ page \in PageNumbers
      /\ displayed \in [Channels -> Nat \cup {None}]
      /\ UNCHANGED <<states, terminal, chunks, opened, page, mounted, webContents>>
      /\ UNCHANGED <<invoked, working>>
    BY DEF WindowTypes, Deliver, main, window
<1>2. /\ wire' \in Seq(Wire) /\ Len(wire') = Len(wire) - 1 /\ Len(wire) \in Nat \ {0}
      /\ \A n \in 1 .. Len(wire) - 1 : wire'[n] = wire[n + 1]
      /\ m = wire[1] /\ m \in Wire
    BY <1>1, WithoutHead
<1> HIDE DEF m
<1>3. AgentChannel \in Channels /\ \A c \in StateChannels : c \in Channels
    BY DEF Channels
<1>4. 0 \notin PageNumbers
    BY DEF PageNumbers
<1>5. \A c \in Channels :
         displayed'[c] = IF mounted /\ Speaks(m, c, {0, page}) THEN WireSays(m, c) ELSE displayed[c]
  <2>1. CASE Arrives(m)
    <3>1. displayed' = IF m.kind = "state" THEN [displayed EXCEPT ![m.of] = m.is]
                       ELSE IF m.kind = "bootstrap"
                       THEN [c \in Channels |-> IF c \in StateChannels THEN m.is[c]
                                                ELSE displayed[c]]
                       ELSE displayed
      BY <2>1 DEF Deliver, Shows, m
    <3>2. mounted /\ (m.kind \in {"state", "bootstrap"} => m.to \in {0, page})
      BY <2>1 DEF Arrives
    <3>3. CASE m.kind = "state"
      BY <1>1, <3>1, <3>2, <3>3 DEF Speaks, WireSays
    <3>4. CASE m.kind = "bootstrap"
      BY <1>1, <3>1, <3>2, <3>4 DEF Speaks, WireSays
    <3>5. CASE m.kind \notin {"state", "bootstrap"}
      BY <3>1, <3>5 DEF Speaks, WireSays
    <3> QED
      BY <3>3, <3>4, <3>5
  <2>2. CASE ~Arrives(m)
    <3>1. displayed' = displayed
      BY <2>2 DEF Deliver, m
    <3>2. \A c : ~(mounted /\ Speaks(m, c, {0, page}))
      BY <2>2 DEF Arrives, Speaks
    <3> QED
      BY <3>1, <3>2
  <2> QED
    BY <2>1, <2>2
<1>6. displayed' \in [Channels -> Nat \cup {None}]
  <2>1. CASE Arrives(m)
    <3>1. displayed' = IF m.kind = "state" THEN [displayed EXCEPT ![m.of] = m.is]
                       ELSE IF m.kind = "bootstrap"
                       THEN [c \in Channels |-> IF c \in StateChannels THEN m.is[c]
                                                ELSE displayed[c]]
                       ELSE displayed
      BY <2>1 DEF Deliver, Shows, m
    <3> QED
      BY <1>1, <1>2, <3>1, WireIs
  <2>2. CASE ~Arrives(m)
      BY <1>1, <2>2 DEF Deliver, m
  <2> QED
    BY <2>1, <2>2
<1>7. WindowTypes'
    BY <1>1, <1>2, <1>6 DEF WindowTypes
<1>8. PagesInOrder'
  <2>1. \A n \in 1 .. Len(wire') : wire'[n].kind \in Replies => wire'[n].to <= page
    <3>1. \A n \in 1 .. Len(wire') : n + 1 \in 1 .. Len(wire) /\ wire'[n] = wire[n + 1]
      BY <1>2
    <3> QED
      BY <3>1 DEF PagesInOrder
  <2>2. opened
    BY DEF Deliver
  <2>3. ~mounted => \A c \in Channels : displayed'[c] = None
    BY <1>5 DEF PagesInOrder
  <2> QED
    BY <1>1, <2>1, <2>2, <2>3 DEF PagesInOrder
<1>9. \A c \in Channels : \A to : LastSays(wire, c, to, states[c]) => LastSays(wire', c, to, states'[c])
    BY <1>1, FirstIsHeard
<1>10. ASSUME NEW c \in Channels, LastSays(wire, c, {0, page}, states[c]), Silent(wire', c, {0, page})
       PROVE  \/ Silent(wire, c, {0, page}) /\ displayed'[c] = displayed[c]
              \/ displayed'[c] = IF mounted THEN states[c] ELSE displayed[c]
  <2>1. CASE Speaks(m, c, {0, page})
    <3>1. WireSays(m, c) = states[c]
      BY <1>1, <1>10, <2>1, FirstIsHeard DEF m
    <3> QED
      BY <1>5, <2>1, <3>1
  <2>2. CASE ~Speaks(m, c, {0, page})
    <3>1. Silent(wire, c, {0, page})
      BY <1>1, <1>10, <2>2, FirstIsHeard DEF m
    <3> QED
      BY <1>5, <2>2, <3>1
  <2> QED
    BY <2>1, <2>2
<1>11. AgentIsUnheard'
  <2> SUFFICES ASSUME opened, ~webContents
               PROVE  /\ \A n \in 1 .. Len(invoked) : invoked[n].call.asks # "operation"
                      /\ working # None => working.page < page
                      /\ Silent(wire', AgentChannel, {0, page}) /\ displayed'[AgentChannel] = None
    BY <1>1 DEF AgentIsUnheard
  <2>1. /\ \A n \in 1 .. Len(invoked) : invoked[n].call.asks # "operation"
        /\ working # None => working.page < page
        /\ Silent(wire, AgentChannel, {0, page}) /\ displayed[AgentChannel] = None
    BY DEF AgentIsUnheard
  <2>2. Silent(wire', AgentChannel, {0, page}) /\ ~Speaks(m, AgentChannel, {0, page})
    BY <1>1, <2>1, FirstIsHeard DEF m
  <2> QED
    BY <1>3, <1>5, <2>1, <2>2
<1>12. AgentIsCurrent'
  <2>1. ~mounted => displayed[AgentChannel] = None
    BY <1>3 DEF PagesInOrder
  <2> QED
    BY <1>1, <1>3, <1>9, <1>10, <2>1 DEF AgentIsCurrent
<1>13. ASSUME NEW c \in StateChannels PROVE ServiceIsCurrent(c)'
    BY <1>1, <1>3, <1>9, <1>10 DEF ServiceIsCurrent
<1>14. TerminalIsCurrent'
  <2> SUFFICES ASSUME mounted, ~Pending(invoked, [asks |-> "terminal"], page)
               PROVE  webContents /\ Comes(wire', sessions', terminal, page)
    BY <1>1 DEF TerminalIsCurrent
  <2>1. webContents /\ Comes(wire, sessions, terminal, page)
    BY DEF TerminalIsCurrent
  <2>2. sessions' = Told(sessions, m, page)
    <3>1. m.kind = "sessions" => m.to # 0
      BY <1>2, <1>4, WireIs
    <3>2. CASE Arrives(m)
      <4>1. sessions' = IF m.kind \in {"state", "bootstrap"} THEN sessions
                        ELSE IF m.kind = "sessions" THEN m.is
                        ELSE ReduceTerminalEvent(sessions, m)
        BY <3>2 DEF Deliver, Shows, m
      <4> QED
        BY <3>1, <3>2, <4>1 DEF Arrives, Told
    <3>3. CASE ~Arrives(m)
      <4>1. sessions' = sessions
        BY <3>3 DEF Deliver, m
      <4>2. m.kind \in Replies /\ m.to # page
        BY <1>2, <3>3, WireIs DEF Arrives
      <4> QED
        BY <4>1, <4>2 DEF Told, Replies
    <3> QED
      BY <3>2, <3>3
  <2>3. Comes(wire', Told(sessions, m, page), terminal, page)
    BY <1>1, <2>1, TerminalIsHeard DEF m
  <2> QED
    BY <2>1, <2>2, <2>3
<1> QED
    BY <1>7, <1>8, <1>11, <1>12, <1>13, <1>14

\* A page that is loaded has nothing, and nothing is for it yet.
LEMMA PageIsNew ==
    ASSUME WindowInv, Reload \/ OpenWindow
    PROVE  WindowInv'
<1> USE DEF WindowInv
<1>1. /\ page' = page + 1 /\ ~mounted' /\ displayed' = Nothing /\ opened'
      /\ UNCHANGED <<states, terminal, chunks, webContents, invoked, working, wire>>
    BY DEF Reload, OpenWindow, NewPage, main
<1>2. page \in Nat /\ page \in PageNumbers /\ page' \in PageNumbers /\ page' \in Nat
    BY <1>1 DEF WindowTypes, PageNumbers
<1>3. /\ AgentChannel \in Channels
      /\ \A c \in Channels : displayed'[c] = None
    BY <1>1 DEF Channels, Nothing
<1>4. mounted' \in BOOLEAN /\ displayed' \in [Channels -> Nat \cup {None}]
    BY <1>1 DEF Reload, OpenWindow, NewPage, Nothing
<1>5. WindowTypes'
    BY <1>1, <1>2, <1>4 DEF WindowTypes
<1>6. wire \in Seq(Wire) /\ invoked \in Seq(PageCalls)
    BY DEF WindowTypes
<1>7. \A n \in 1 .. Len(wire) : wire[n].kind \in Replies =>
         wire[n].to \in Nat /\ wire[n].to <= page' /\ wire[n].to # page'
  <2> SUFFICES ASSUME NEW n \in 1 .. Len(wire), wire[n].kind \in Replies
               PROVE  wire[n].to \in Nat /\ wire[n].to <= page' /\ wire[n].to # page'
    OBVIOUS
  <2>1. wire[n] \in Wire
    BY <1>6
  <2>2. wire[n].to \in Nat
    <3>1. wire[n].kind \in {"state", "bootstrap", "sessions"}
      BY DEF Replies
    <3>2. PageNumbers \subseteq Nat
      BY DEF PageNumbers
    <3> QED
      BY <2>1, <3>1, <3>2, WireIs
  <2>3. wire[n].to <= page
    BY DEF PagesInOrder
  <2> QED
    BY <1>1, <1>2, <2>2, <2>3
<1>8. \A n \in 1 .. Len(invoked) : invoked[n].page <= page'
  <2> SUFFICES ASSUME NEW n \in 1 .. Len(invoked) PROVE invoked[n].page <= page'
    OBVIOUS
  <2>1. invoked[n].page \in Nat /\ invoked[n].page <= page
    <3>1. invoked[n] \in PageCalls
      BY <1>6
    <3>2. invoked[n].page \in Nat
      BY <3>1 DEF PageCalls, PageNumbers
    <3> QED
      BY <3>2 DEF PagesInOrder
  <2> QED
    BY <1>1, <1>2, <2>1
<1>9. working # None => working.page \in Nat /\ working.page < page' /\ working.page <= page'
  <2>1. working # None => working.page \in Nat /\ working.page <= page
    BY DEF WindowTypes, PagesInOrder, PageNumbers
  <2> QED
    BY <1>1, <1>2, <2>1
<1>10. PagesInOrder'
    BY <1>1, <1>3, <1>7, <1>8, <1>9 DEF PagesInOrder
<1>11. \A n \in 1 .. Len(wire) :
          Speaks(wire[n], AgentChannel, {0, page'}) <=> Speaks(wire[n], AgentChannel, {0})
    BY <1>7 DEF Speaks, Replies
<1>12. AgentIsUnheard'
  <2> SUFFICES ASSUME ~webContents
               PROVE  /\ \A n \in 1 .. Len(invoked) : invoked[n].call.asks # "operation"
                      /\ Silent(wire, AgentChannel, {0, page'})
    BY <1>1, <1>3, <1>9 DEF AgentIsUnheard
  <2>1. CASE opened
    <3>1. /\ \A n \in 1 .. Len(invoked) : invoked[n].call.asks # "operation"
          /\ Silent(wire, AgentChannel, {0, page})
      BY <2>1 DEF AgentIsUnheard
    <3>2. \A n \in 1 .. Len(wire) : ~Speaks(wire[n], AgentChannel, {0})
      BY <3>1 DEF Silent, Speaks
    <3> QED
      BY <1>11, <3>1, <3>2 DEF Silent
  <2>2. CASE ~opened
    <3>1. Len(wire) = 0 /\ Len(invoked) = 0
      BY <2>2 DEF PagesInOrder
    <3> QED
      BY <3>1 DEF Silent
  <2> QED
    BY <2>1, <2>2
<1>13. AgentIsCurrent'
  <2>1. LastSays(wire, AgentChannel, {0}, states[AgentChannel])
    BY DEF AgentIsCurrent
  <2>2. LastSays(wire, AgentChannel, {0, page'}, states[AgentChannel])
    BY <1>11, <2>1 DEF LastSays
  <2> QED
    BY <1>1, <1>3, <2>1, <2>2 DEF AgentIsCurrent
<1> QED
    BY <1>1, <1>5, <1>10, <1>12, <1>13 DEF ServiceIsCurrent, TerminalIsCurrent

LEMMA WindowIsClosed ==
    ASSUME WindowInv, CloseWindow
    PROVE  WindowInv'
<1> USE DEF WindowInv
<1>1. /\ ~opened' /\ ~mounted' /\ ~webContents' /\ wire' = <<>> /\ invoked' = <<>>
      /\ displayed' = Nothing /\ mounted' \in BOOLEAN
      /\ UNCHANGED <<states, terminal, chunks, page, working>>
    BY DEF CloseWindow, main
<1>2. AgentChannel \in Channels /\ \A c \in Channels : displayed'[c] = None
    BY <1>1 DEF Channels, Nothing
<1>3. displayed' \in [Channels -> Nat \cup {None}]
    BY <1>1 DEF Nothing
<1>4. WindowTypes'
    BY <1>1, <1>3 DEF WindowTypes
<1>5. Len(<<>>) = 0
    OBVIOUS
<1>6. PagesInOrder'
    BY <1>1, <1>2, <1>5 DEF PagesInOrder
<1>7. \A c, to : Silent(wire', c, to)
    BY <1>1, <1>5 DEF Silent
<1>8. \A c, to, v : LastSays(wire', c, to, v)
    BY <1>7, NothingSpeaks
<1>9. AgentIsCurrent'
    BY <1>2, <1>8 DEF AgentIsCurrent
<1> QED
    BY <1>1, <1>4, <1>6, <1>9 DEF AgentIsUnheard, ServiceIsCurrent, TerminalIsCurrent

LEMMA WindowKept == WindowInv /\ [WindowNext]_windowVars => WindowInv'
<1> SUFFICES ASSUME WindowInv, [WindowNext]_windowVars PROVE WindowInv'
    OBVIOUS
<1>1. CASE \E c \in Channels : ServiceChanges(c) \/ PageAsks(c)
    BY <1>1, ServiceIsPushed, PageInvokes
<1>2. CASE TerminalOpens \/ TerminalWrites \/ TerminalIsCleared \/ TerminalCloses
    BY <1>2, TerminalIsPushed
<1>3. CASE HandleState \/ HandleTerminalState \/ HandleBootstrap
    BY <1>3, StateIsAnswered
<1>4. CASE HandleRequest \/ \E c \in StateChannels : HandleOperation(c)
    BY <1>4, OperationBegins
<1>5. CASE RequestEnds
    BY <1>5, OperationEnds
<1>6. CASE Mount
    BY <1>6, PageMounts
<1>7. CASE Deliver
    BY <1>7, PageHears
<1>8. CASE Reload \/ OpenWindow
    BY <1>8, PageIsNew
<1>9. CASE CloseWindow
    BY <1>9, WindowIsClosed
<1>10. CASE UNCHANGED windowVars
    BY <1>10 DEF windowVars, WindowInv, WindowTypes, PagesInOrder, AgentIsUnheard,
                 AgentIsCurrent, ServiceIsCurrent, TerminalIsCurrent
<1> QED
    BY <1>1, <1>2, <1>3, <1>4, <1>5, <1>6, <1>7, <1>8, <1>9, <1>10 DEF WindowNext

\* A mounted page with nothing on its way shows what the services and the
\* terminal are at, and conversations as of the last it heard (App.tsx, ipc.ts).
THEOREM PageShowsTheServices == WindowSpec => []WindowIsCurrent
<1>1. WindowInv => WindowIsCurrent
  <2> SUFFICES ASSUME WindowInv, Settled PROVE WindowIsCurrent
    BY DEF WindowIsCurrent
  <2>1. mounted /\ invoked = <<>> /\ wire = <<>> /\ Len(<<>>) = 0
    BY DEF Settled
  <2>2. \A call : ~Pending(invoked, call, page)
    BY <2>1 DEF Pending
  <2>3. \A c, to : Silent(wire, c, to)
    BY <2>1 DEF Silent
  <2>4. \A c \in StateChannels : displayed[c] = states[c]
    BY <2>1, <2>2, <2>3 DEF WindowInv, ServiceIsCurrent
  <2>5. sessions = terminal
    BY <2>1, <2>2, NothingComes DEF WindowInv, TerminalIsCurrent
  <2>6. displayed[AgentChannel] \in {None, states[AgentChannel]}
    BY <2>3 DEF WindowInv, AgentIsCurrent
  <2> QED
    BY <2>4, <2>5, <2>6 DEF WindowIsCurrent
<1> QED
    BY <1>1, WindowStart, WindowKept, PTL DEF WindowSpec

-----------------------------------------------------------------------------
(* Scans: types.                                                           *)

Record == [status : Statuses, progress : 0 .. MaxProgress, triaged : BOOLEAN]

LEMMA NoRecordIsRecord == NoRecord \in Record
BY ScansAssumption DEF NoRecord, Record, Statuses

\* A record written by #replaceScan keeps both tables in their types.
LEMMA ReplaceType ==
    ASSUME ScanTypeOK, NEW s \in Scans, NEW r \in Record, NEW persist \in BOOLEAN,
           ReplaceScan(s, r, persist)
    PROVE  memory' \in [Scans -> Record] /\ row' \in [Scans -> Record]
BY DEF ScanTypeOK, ReplaceScan, Record

LEMMA StatusType ==
    ASSUME ScanTypeOK, NEW s \in Scans, NEW status \in Statuses
    PROVE  Status(s, status) \in Record
BY DEF ScanTypeOK, Status, Record

LEMMA EndsType ==
    ASSUME ScanTypeOK, NEW s \in Scans, NEW status \in Statuses, ScanEnds(s, status)
    PROVE  /\ memory' \in [Scans -> Record] /\ row' \in [Scans -> Record]
           /\ step' \in [Scans -> Waits] /\ activeScan' \in Scans \cup {None}
           /\ controllers' \subseteq Scans /\ aborted' \subseteq Scans
           /\ loaded' \subseteq Scans /\ spent' = spent
<1>1. memory' \in [Scans -> Record] /\ row' \in [Scans -> Record]
  BY StatusType, ReplaceType DEF ScanEnds
<1> QED
  BY <1>1 DEF ScanEnds, ReleaseScan, Goto, ScanTypeOK, Waits

LEMMA ThrowsType ==
    ASSUME ScanTypeOK, NEW s \in Scans, ScanThrows(s)
    PROVE  \E status \in Statuses \ {"none"} : ScanEnds(s, status)
BY DEF ScanThrows, Statuses

Cost == [scan : Scans, loaded : BOOLEAN, aborted : BOOLEAN]

LEMMA CostType ==
    ASSUME NEW s \in Scans, NEW l \in BOOLEAN, NEW a \in BOOLEAN
    PROVE  [scan |-> s, loaded |-> l, aborted |-> a] \in Cost
BY DEF Cost

LEMMA SdkType ==
    ASSUME ScanTypeOK, NEW s \in Scans, CallSdk(s)
    PROVE  spent' \subseteq Cost /\ step' \in [Scans -> Waits]
<1>1. (s \in loaded) \in BOOLEAN /\ (s \in aborted) \in BOOLEAN
  OBVIOUS
<1>2. [scan |-> s, loaded |-> s \in loaded, aborted |-> s \in aborted] \in Cost
  BY <1>1, CostType
<1>3. spent' \subseteq Cost
  BY <1>2 DEF CallSdk, ScanTypeOK, Cost
<1> QED
  BY <1>3 DEF CallSdk, Goto, ScanTypeOK, Waits

LEMMA TriagedType ==
    ASSUME NEW r \in Record, NEW b \in BOOLEAN
    PROVE  [r EXCEPT !.triaged = b] \in Record
BY DEF Record

LEMMA ScanInitTypeOK == ScanInit => ScanTypeOK
<1> SUFFICES ASSUME ScanInit PROVE ScanTypeOK
  OBVIOUS
<1>1. memory \in [Scans -> Record] /\ row \in [Scans -> Record]
  BY NoRecordIsRecord DEF ScanInit
<1>2. step \in [Scans -> Waits] /\ skill \in [Scans -> {"no", "silent", "spoke"}]
  BY DEF ScanInit, Waits
<1> QED
  BY <1>1, <1>2 DEF ScanInit, ScanTypeOK, Record

LEMMA ScanStepTypeOK == ScanTypeOK /\ [ScanNext]_scanVars => ScanTypeOK'
<1> SUFFICES ASSUME ScanTypeOK, [ScanNext]_scanVars PROVE ScanTypeOK'
  OBVIOUS
<1> USE DEF ScanTypeOK, records, execution, Goto
<1>1. ASSUME NEW s \in Scans, StartScan(s) PROVE ScanTypeOK'
  <2>1. [NoRecord EXCEPT !.status = "running"] \in Record
    BY NoRecordIsRecord DEF NoRecord, Record, Statuses
  <2>2. memory' \in [Scans -> Record] /\ row' \in [Scans -> Record]
    BY <1>1, <2>1, ReplaceType DEF StartScan
  <2>3. step' \in [Scans -> Waits] /\ spent' \subseteq Cost
    BY <1>1, SdkType DEF StartScan, FirstWait, Waits, Cost
  <2> QED
    BY <1>1, <2>2, <2>3 DEF StartScan, Record, Cost
<1>2. ASSUME NEW s \in Scans, ScanFailsToStart(s) PROVE ScanTypeOK'
  <2>1. [NoRecord EXCEPT !.status = "failed"] \in Record
    BY NoRecordIsRecord DEF NoRecord, Record, Statuses
  <2>2. memory' \in [Scans -> Record] /\ row' \in [Scans -> Record]
    BY <1>2, <2>1, ReplaceType DEF ScanFailsToStart
  <2> QED
    BY <1>2, <2>2 DEF ScanFailsToStart, Record
<1>3. ASSUME NEW s \in Scans, StartNotSaved(s) PROVE ScanTypeOK'
  BY <1>3, SMTT(30) DEF StartNotSaved, Statuses, Waits
<1>4. ASSUME NEW s \in Scans, CancelScan(s) PROVE ScanTypeOK'
  BY <1>4 DEF CancelScan, Waits
<1>5. ASSUME NEW s \in Scans, CoordinatorAnswers(s) PROVE ScanTypeOK'
  BY <1>5 DEF CoordinatorAnswers, Waits
<1>6. ASSUME NEW s \in Scans, ScanThrows(s), UNCHANGED <<request, closed, skill, quitting>>
      PROVE  ScanTypeOK'
  BY <1>6, ThrowsType, EndsType DEF Record
<1>7. ASSUME NEW s \in Scans, CallSdk(s),
             UNCHANGED <<records, activeScan, controllers, aborted, loaded>>,
             UNCHANGED <<request, closed, skill, quitting>>
      PROVE  ScanTypeOK'
  BY <1>7, SdkType DEF Cost
<1>8. ASSUME NEW s \in Scans, CoordinatorEnds(s) \/ RateArrives(s) PROVE ScanTypeOK'
  <2>1. CASE Goto(s, "rate") /\ UNCHANGED <<records, activeScan, controllers, aborted, loaded, spent>>
                /\ UNCHANGED <<request, closed, skill, quitting>>
    BY <2>1 DEF Waits
  <2> QED
    BY <1>6, <1>7, <1>8, <2>1 DEF CoordinatorEnds, RateArrives, Proceed
<1>9. ASSUME NEW s \in Scans, NEW persist \in BOOLEAN, Progress(s, persist) PROVE ScanTypeOK'
  <2>1. [memory[s] EXCEPT !.progress = @ + 1] \in Record
    BY <1>9, ScansAssumption DEF Progress, Record
  <2>2. memory' \in [Scans -> Record] /\ row' \in [Scans -> Record]
    BY <1>9, <2>1, ReplaceType DEF Progress
  <2> QED
    BY <1>9, <2>2 DEF Progress, Record
<1>10. ASSUME NEW s \in Scans, RunEnds(s) PROVE ScanTypeOK'
  <2>1. CASE ScanEnds(s, "completed")
    BY <1>10, <2>1, EndsType DEF RunEnds, Record, Statuses
  <2> QED
    BY <1>6, <1>10, <2>1 DEF RunEnds
<1>11. ASSUME NEW s \in Scans, SdkCloses(s) PROVE ScanTypeOK'
  BY <1>11 DEF SdkCloses, ReleaseScan, Waits
<1>12. ASSUME NEW s \in Scans, FalsePositive(s) PROVE ScanTypeOK'
  <2>1. [memory[s] EXCEPT !.triaged = TRUE] \in Record
    BY TriagedType DEF Record
  <2>2. memory' \in [Scans -> Record] /\ row' \in [Scans -> Record]
    BY <1>12, <2>1, ReplaceType DEF FalsePositive, Record
  <2> QED
    BY <1>12, <2>2 DEF FalsePositive, Record
<1>13. ASSUME NEW s \in Scans, SkillBegins(s) \/ SkillSpeaks(s) \/ SkillEnds(s) PROVE ScanTypeOK'
  BY <1>13 DEF SkillBegins, SkillSpeaks, SkillEnds
<1>14. CASE Quit \/ Restart
  BY <1>14 DEF Quit, Restart, Waits
<1>15. CASE UNCHANGED scanVars
  BY <1>15 DEF scanVars
<1> QED
  BY <1>1, <1>2, <1>3, <1>4, <1>5, <1>8, <1>9, <1>10, <1>11, <1>12, <1>13, <1>14, <1>15
  DEF ScanNext

-----------------------------------------------------------------------------
(* Scans: the slot, the cost and the triage.                               *)

\* A scan that nobody has heard of is nowhere.
Unknown ==
    \A s \in Scans : memory[s].status = "none" =>
        /\ step[s] = "no" /\ s \notin controllers \cup aborted
        /\ row[s].status = "none"

\* A scan past its coordinator knows that the coordinator has its tool.
LoadedFirst ==
    \A s \in Scans :
        step[s] = "loaded" \/ (step[s] = "rate" /\ request[s].coordinated) => s \in loaded

ScanInv ==
    /\ ScanTypeOK
    /\ Unknown
    /\ OneScanAtATime
    /\ LoadedFirst
    /\ NoUnwantedCost
    /\ TriageNeverAhead

LEMMA ScanInitInv == ScanInit => ScanInv
<1> SUFFICES ASSUME ScanInit PROVE ScanInv
  OBVIOUS
<1>1. ScanTypeOK
  BY ScanInitTypeOK
<1> QED
  BY <1>1 DEF ScanInit, ScanInv, Unknown, OneScanAtATime, LoadedFirst, NoUnwantedCost,
              TriageNeverAhead, NoRecord

\* What the end of a scan does to the tables.
LEMMA EndsRecords ==
    ASSUME ScanTypeOK, NEW s \in Scans, NEW status \in Statuses, ScanEnds(s, status)
    PROVE  /\ memory' = [memory EXCEPT ![s].status = status]
           /\ row' = [row EXCEPT ![s] = [memory[s] EXCEPT !.status = status]]
BY DEF ScanTypeOK, ScanEnds, ReplaceScan, Status

LEMMA EndsInv ==
    ASSUME ScanInv, ScanTypeOK', NEW s \in Scans, NEW status \in Statuses \ {"none"},
           step[s] # "no", ScanEnds(s, status), UNCHANGED <<request, closed, skill, quitting>>
    PROVE  ScanInv'
<1> USE DEF ScanInv
<1>1. /\ memory' = [memory EXCEPT ![s].status = status]
      /\ row' = [row EXCEPT ![s] = [memory[s] EXCEPT !.status = status]]
  BY EndsRecords
<1>2. /\ step' = [step EXCEPT ![s] = "close"] \/ step' = [step EXCEPT ![s] = "no"]
      /\ controllers' \subseteq controllers /\ aborted' = aborted /\ spent' = spent
      /\ loaded' = loaded \ {s}
      /\ activeScan' = activeScan \/ (activeScan' = None /\ step'[s] = "no")
  BY DEF ScanEnds, ReleaseScan, Goto, ScanTypeOK
<1>3. Unknown'
  BY <1>1, <1>2 DEF Unknown, ScanTypeOK
<1>4. OneScanAtATime'
  BY <1>2 DEF OneScanAtATime, ScanTypeOK
<1>5. LoadedFirst'
  BY <1>2 DEF LoadedFirst, ScanTypeOK
<1>6. NoUnwantedCost'
  BY <1>2 DEF NoUnwantedCost
<1>7. TriageNeverAhead'
  BY <1>1 DEF TriageNeverAhead, ScanTypeOK
<1> QED
  BY <1>3, <1>4, <1>5, <1>6, <1>7

LEMMA ThrowsInv ==
    ASSUME ScanInv, ScanTypeOK', NEW s \in Scans, step[s] # "no", ScanThrows(s),
           UNCHANGED <<request, closed, skill, quitting>>
    PROVE  ScanInv'
BY ThrowsType, EndsInv DEF ScanInv

\* What the call of the SDK notes down.
LEMMA CostOf ==
    ASSUME NEW s \in Scans, s \notin aborted, request[s].coordinated => s \in loaded,
           NEW c, c = [scan |-> s, loaded |-> s \in loaded, aborted |-> s \in aborted]
    PROVE  ~c.aborted /\ (request[c.scan].coordinated => c.loaded)
<1>1. c.scan = s /\ c.aborted = (s \in aborted) /\ c.loaded = (s \in loaded)
  OBVIOUS
<1> QED
  BY <1>1, Zenon

LEMMA SdkCost ==
    ASSUME NEW s \in Scans, NoUnwantedCost, CallSdk(s), s \notin aborted,
           request[s].coordinated => s \in loaded, request' = request
    PROVE  NoUnwantedCost'
<1> SUFFICES ASSUME NEW c \in spent'
             PROVE  ~c.aborted /\ (request[c.scan].coordinated => c.loaded)
  BY Zenon DEF NoUnwantedCost
<1>1. CASE c \in spent
  BY <1>1, Zenon DEF NoUnwantedCost
<1>2. CASE c \notin spent
  <2>1. c = [scan |-> s, loaded |-> s \in loaded, aborted |-> s \in aborted]
    BY <1>2, Zenon DEF CallSdk
  <2> QED
    BY <2>1, CostOf
<1> QED
  BY <1>1, <1>2

\* A scan calls the SDK: it is not aborted, and its coordinator has answered if it needs one.
LEMMA SdkInv ==
    ASSUME ScanInv, ScanTypeOK', NEW s \in Scans, step[s] # "no", CallSdk(s),
           s \notin aborted, request[s].coordinated => s \in loaded,
           UNCHANGED <<records, activeScan, controllers, aborted, loaded>>,
           UNCHANGED <<request, closed, skill, quitting>>
    PROVE  ScanInv'
<1> USE DEF ScanInv, records
<1>1. step' = [step EXCEPT ![s] = "run"]
  BY DEF CallSdk, Goto
<1>2. Unknown' /\ OneScanAtATime' /\ LoadedFirst' /\ TriageNeverAhead'
  BY <1>1 DEF Unknown, OneScanAtATime, LoadedFirst, TriageNeverAhead, ScanTypeOK
<1>3. NoUnwantedCost'
  BY SdkCost
<1> QED
  BY <1>2, <1>3

LEMMA ScanStepInv == ScanInv /\ [ScanNext]_scanVars => ScanInv'
<1> SUFFICES ASSUME ScanInv, [ScanNext]_scanVars PROVE ScanInv'
  OBVIOUS
<1>0. ScanTypeOK'
  BY ScanStepTypeOK DEF ScanInv
<1> USE <1>0 DEF ScanInv, records, execution
<1>1. ASSUME NEW s \in Scans, StartScan(s) PROVE ScanInv'
  <2>1. /\ \A r \in Scans : step[r] = "no"
        /\ s \notin controllers \cup aborted /\ memory[s] = NoRecord /\ row[s] = NoRecord
    BY <1>1, ScansAssumption DEF StartScan, MayStart, OneScanAtATime, Unknown, NoRecord, ScanTypeOK
  <2>2. /\ memory' = [memory EXCEPT ![s] = [NoRecord EXCEPT !.status = "running"]]
        /\ row' = [row EXCEPT ![s] = [NoRecord EXCEPT !.status = "running"]]
        /\ activeScan' = s /\ controllers' = controllers \cup {s}
        /\ UNCHANGED <<request, aborted, loaded, closed, skill, quitting>>
    BY <1>1 DEF StartScan, ReplaceScan
  <2>3. \/ step' = [step EXCEPT ![s] = "coordinator"] /\ spent' = spent
        \/ step' = [step EXCEPT ![s] = "rate"] /\ spent' = spent /\ ~request[s].coordinated
        \/ step' = [step EXCEPT ![s] = "run"] /\ CallSdk(s) /\ ~request[s].coordinated
    BY <1>1 DEF StartScan, FirstWait, CallSdk, Goto
  <2>4. Unknown' /\ OneScanAtATime' /\ TriageNeverAhead'
    BY <2>1, <2>2, <2>3 DEF Unknown, OneScanAtATime, TriageNeverAhead, NoRecord, ScanTypeOK
  <2>5. LoadedFirst'
    BY <2>1, <2>2, <2>3 DEF LoadedFirst, ScanTypeOK
  <2>6. NoUnwantedCost'
    <3>1. CASE spent' = spent
      BY <2>2, <3>1 DEF NoUnwantedCost
    <3>2. CASE CallSdk(s) /\ ~request[s].coordinated
      BY <2>1, <2>2, <3>2, SdkCost
    <3> QED
      BY <2>3, <3>1, <3>2
  <2> QED
    BY <2>4, <2>5, <2>6
<1>2. ASSUME NEW s \in Scans, ScanFailsToStart(s) PROVE ScanInv'
  BY <1>2 DEF ScanFailsToStart, MayStart, ReplaceScan, NoRecord, Unknown, OneScanAtATime,
              LoadedFirst, NoUnwantedCost, TriageNeverAhead, ScanTypeOK
<1>3. ASSUME NEW s \in Scans, StartNotSaved(s) PROVE ScanInv'
  <2>1. \A r \in Scans : step[r] = "no"
    BY <1>3, ScansAssumption DEF StartNotSaved, MayStart, OneScanAtATime, ScanTypeOK
  <2> QED
    BY <1>3, <2>1 DEF StartNotSaved, MayStart, Goto, NoRecord, Unknown, OneScanAtATime,
              LoadedFirst, NoUnwantedCost, TriageNeverAhead, ScanTypeOK
<1>4. ASSUME NEW s \in Scans, CancelScan(s) PROVE ScanInv'
  BY <1>4 DEF CancelScan, Goto, Unknown, OneScanAtATime,
              LoadedFirst, NoUnwantedCost, TriageNeverAhead, ScanTypeOK
<1>5. ASSUME NEW s \in Scans, CoordinatorAnswers(s) PROVE ScanInv'
  BY <1>5 DEF CoordinatorAnswers, Goto, Unknown, OneScanAtATime,
              LoadedFirst, NoUnwantedCost, TriageNeverAhead, ScanTypeOK
<1>6. ASSUME NEW s \in Scans, Proceed(s), step[s] # "no", request[s].coordinated => s \in loaded,
             UNCHANGED <<request, closed, skill, quitting>>
      PROVE  ScanInv'
  BY <1>6, ThrowsInv, SdkInv DEF Proceed
<1>7. ASSUME NEW s \in Scans, CoordinatorEnds(s) PROVE ScanInv'
  <2>1. CASE step[s] = "unavailable"
    BY <1>7, <2>1, ThrowsInv DEF CoordinatorEnds
  <2>2. CASE step[s] = "loaded" /\ request[s].deepseek
    BY <1>7, <2>2 DEF CoordinatorEnds, Goto, Unknown, OneScanAtATime,
              LoadedFirst, NoUnwantedCost, TriageNeverAhead, ScanTypeOK
  <2>3. CASE step[s] = "loaded" /\ ~request[s].deepseek
    BY <1>6, <1>7, <2>3 DEF CoordinatorEnds, LoadedFirst
  <2> QED
    BY <1>7, <2>1, <2>2, <2>3 DEF CoordinatorEnds
<1>8. ASSUME NEW s \in Scans, RateArrives(s) PROVE ScanInv'
  BY <1>6, <1>8 DEF RateArrives, LoadedFirst
<1>9. ASSUME NEW s \in Scans, NEW persist \in BOOLEAN, Progress(s, persist) PROVE ScanInv'
  <2>1. memory[s].status # "none"
    BY <1>9 DEF Progress, Unknown
  <2> QED
    BY <1>9, <2>1 DEF Progress, ReplaceScan, Unknown, OneScanAtATime,
              LoadedFirst, NoUnwantedCost, TriageNeverAhead, ScanTypeOK
<1>10. ASSUME NEW s \in Scans, RunEnds(s) PROVE ScanInv'
  <2>1. CASE ScanEnds(s, "completed")
    BY <1>10, <2>1, EndsInv DEF RunEnds, Statuses
  <2> QED
    BY <1>10, <2>1, ThrowsInv DEF RunEnds
<1>11. ASSUME NEW s \in Scans, SdkCloses(s) PROVE ScanInv'
  BY <1>11, SMTT(30) DEF SdkCloses, ReleaseScan, Goto, Unknown, OneScanAtATime,
              LoadedFirst, NoUnwantedCost, TriageNeverAhead, ScanTypeOK
<1>12. ASSUME NEW s \in Scans, FalsePositive(s) PROVE ScanInv'
  BY <1>12, SMTT(30) DEF FalsePositive, Complete, ReplaceScan, Unknown, OneScanAtATime,
              LoadedFirst, NoUnwantedCost, TriageNeverAhead, ScanTypeOK
<1>13. ASSUME NEW s \in Scans, SkillBegins(s) \/ SkillSpeaks(s) \/ SkillEnds(s) PROVE ScanInv'
  BY <1>13 DEF SkillBegins, SkillSpeaks, SkillEnds, Unknown, OneScanAtATime,
              LoadedFirst, NoUnwantedCost, TriageNeverAhead
<1>14. CASE Quit
  BY <1>14 DEF Quit, Unknown, OneScanAtATime, LoadedFirst, NoUnwantedCost,
               TriageNeverAhead, ScanTypeOK
<1>15. CASE Restart
  BY <1>15 DEF Restart, Unknown, OneScanAtATime, LoadedFirst, NoUnwantedCost,
               TriageNeverAhead, ScanTypeOK
<1>16. CASE UNCHANGED scanVars
  BY <1>16 DEF scanVars, Unknown, OneScanAtATime, LoadedFirst, NoUnwantedCost, TriageNeverAhead
<1> QED
  BY <1>1, <1>2, <1>3, <1>4, <1>5, <1>7, <1>8, <1>9, <1>10, <1>11, <1>12, <1>13, <1>14,
     <1>15, <1>16 DEF ScanNext

\* The inductive invariant of the workbench.
THEOREM ScanInvariant == ScanSpec => []ScanInv
BY ScanInitInv, ScanStepInv, PTL DEF ScanSpec

\* Whatever fails or is cancelled, the scan that executes holds the slot.
THEOREM ScansOneAtATime == ScanSpec => []OneScanAtATime
<1>1. ScanInv => OneScanAtATime
  BY DEF ScanInv
<1> QED
  BY <1>1, ScanInvariant, PTL

\* No model is called for a scan that was cancelled, nor before the coordinator of a deep
\* scan of the packaged app has answered.
THEOREM ScansCostAsAsked == ScanSpec => []NoUnwantedCost
<1>1. ScanInv => NoUnwantedCost
  BY DEF ScanInv
<1> QED
  BY <1>1, ScanInvariant, PTL

\* The app never shows a triage that the workbench does not have.
THEOREM TriageFollowsWorkbench == ScanSpec => []TriageNeverAhead
<1>1. ScanInv => TriageNeverAhead
  BY DEF ScanInv
<1> QED
  BY <1>1, ScanInvariant, PTL

-----------------------------------------------------------------------------
(* SecurityRuntime.                                                        *)

\* What the two halves of the module are made of.
PluginInv ==
    /\ app = "up" => runtimeRoot = Copy(installed, Steps)
    /\ staging # NoFile => staging.release = installed /\ app = "preparing"

WrapInv ==
    /\ wrapping # NoFile => deepScan = NoFile
    /\ wrapping # NoFile /\ "path" \notin wrapping.left => pathFile = wrapping.engine
    /\ wrapping # NoFile /\ "wrapper" \notin wrapping.left => wrapper /\ "path" \notin wrapping.left
    /\ deepScan # NoFile => wrapper /\ pathFile = deepScan
    /\ wrapper => pathFile # NoFile

RuntimeInv == RuntimeTypeOK /\ PluginInv /\ WrapInv

LEMMA RuntimeInitInv == RuntimeInit => RuntimeInv
<1> SUFFICES ASSUME RuntimeInit PROVE RuntimeInv
  OBVIOUS
<1> USE SecurityRuntimeAssumption DEF RuntimeInit
<1>1. installed \in 1 .. LastRelease /\ abandoned \in 0 .. MaxAbandoned
  OBVIOUS
<1>2. RuntimeTypeOK
  BY <1>1 DEF RuntimeTypeOK
<1>3. PluginInv
  BY DEF PluginInv
<1>4. WrapInv
  BY DEF WrapInv
<1> QED
  BY <1>2, <1>3, <1>4 DEF RuntimeInv

LEMMA RuntimeStepInv == RuntimeInv /\ [RuntimeNext]_runtimeVars => RuntimeInv'
<1> SUFFICES ASSUME RuntimeInv, [RuntimeNext]_runtimeVars PROVE RuntimeInv'
  OBVIOUS
<1> USE SecurityRuntimeAssumption
        DEF RuntimeInv, RuntimeTypeOK, PluginInv, WrapInv, wrapFiles, Wrappings
<1>1. CASE Launch
  BY <1>1 DEF Launch
<1>2. CASE CopyBegins
  <2>1. staging' \in Copies /\ staging'.release = installed
    BY <1>2 DEF CopyBegins, Copy, Copies
  <2> QED
    BY <1>2, <2>1 DEF CopyBegins
<1>3. ASSUME NEW f \in Steps, Prepare(f) PROVE RuntimeInv'
  <2>1. staging \in Copies
    BY <1>3 DEF Prepare
  <2>2. staging' \in Copies /\ staging'.release = installed
    BY <1>3, <2>1 DEF Prepare, Copies
  <2> QED
    BY <1>3, <2>2 DEF Prepare
<1>4. CASE RemoveOld
  <2>1. runtimeRoot' \in Copies \cup {NoFile}
    BY <1>4 DEF RemoveOld, Copy, Copies
  <2> QED
    BY <1>4, <2>1 DEF RemoveOld
<1>5. CASE PutInPlace
  <2>1. staging \in Copies /\ staging.release = installed /\ staging.done = Steps
    BY <1>5 DEF PutInPlace, AllDone
  <2>2. staging = Copy(installed, Steps)
    BY <2>1 DEF Copies, Copy
  <2> QED
    BY <1>5, <2>1, <2>2 DEF PutInPlace
<1>6. CASE PrepareFails
  BY <1>6 DEF PrepareFails
<1>7. ASSUME NEW b \in Binaries, WrapBegins(b) PROVE RuntimeInv'
  BY <1>7 DEF WrapBegins
<1>8. ASSUME NEW f \in {"path", "wrapper"}, PutFile(f) PROVE RuntimeInv'
  BY <1>8 DEF PutFile, PathFirst
<1>9. CASE DeepScanBegins
  BY <1>9 DEF DeepScanBegins
<1>10. CASE WrapFails
  BY <1>10 DEF WrapFails
<1>11. CASE DeepScanEnds
  BY <1>11 DEF DeepScanEnds
<1>12. CASE ProcessEnds
  BY <1>12 DEF ProcessEnds
<1>13. CASE ReleaseInstalled
  BY <1>13 DEF ReleaseInstalled
<1>14. CASE UNCHANGED runtimeVars
  BY <1>14 DEF runtimeVars
<1> QED
  BY <1>1, <1>2, <1>3, <1>4, <1>5, <1>6, <1>7, <1>8, <1>9, <1>10, <1>11, <1>12, <1>13, <1>14
  DEF RuntimeNext

\* Whatever fails and whenever the process is killed, scans run the plugin of this release
\* with every step done to it, and deep scans the engine they were given.
THEOREM ScansRunWholeRuntimeHolds == RuntimeSpec => []ScansRunWholeRuntime
<1>1. RuntimeInv => ScansRunWholeRuntime
  BY DEF RuntimeInv, PluginInv, WrapInv, ScansRunWholeRuntime
<1> QED
  BY <1>1, RuntimeInitInv, RuntimeStepInv, PTL DEF RuntimeSpec

-----------------------------------------------------------------------------
(* The estimate of what a scan costs.  A growth of the cache's counter past  *)
(* that of the input is billed as hits of the input alone, where what is     *)
(* owed takes back misses for it: the difference is a product of two         *)
(* differences that are not negative.                                        *)

LEMMA ProductIsNat ==
    ASSUME NEW m \in Nat, NEW n \in Nat
    PROVE  m * n \in Nat
OBVIOUS

LEMMA RatesAreOrdered ==
    ASSUME NEW m \in Models, NEW h \in Nat
    PROVE  RatesAt(m, h) \in Rates /\ RatesAt(m, h).hit <= RatesAt(m, h).miss
<1>1. PricingAt(h) \in Tiers
    BY DEF PricingAt, Tiers
<1> QED
    BY <1>1, UsageAssumption DEF RatesAt

\* Hits past the input would take back misses, which are dearer.
LEMMA MissesCostMore ==
    ASSUME NEW rates \in Rates, rates.hit <= rates.miss,
           NEW input \in Nat, NEW hit \in Nat, NEW output \in Nat, input <= hit
    PROVE  Price(rates, input, 0, output) >= Price(rates, hit, input - hit, output)
<1> DEFINE h == rates.hit
           m == rates.miss
           o == output * rates.output
           d == hit - input
<1>1. h \in Nat /\ m \in Nat /\ o \in Nat /\ d \in Nat
    BY DEF Rates
<1>2. m - h \in Nat /\ d * (m - h) \in Nat
    BY <1>1, ProductIsNat
<1>3. /\ hit * h = input * h + d * h
      /\ (input - hit) * m = - (d * m)
      /\ d * (m - h) = d * m - d * h
      /\ 0 * m = 0
      /\ d * h \in Int /\ d * m \in Int /\ input * h \in Int
    BY <1>1
<1>4. /\ Price(rates, input, 0, output) = input * h + 0 * m + o
      /\ Price(rates, hit, input - hit, output) = hit * h + (input - hit) * m + o
    BY DEF Price
<1> HIDE DEF h, m, o, d
<1> QED
    BY <1>1, <1>2, <1>3, <1>4

LEMMA PriceIsNat ==
    ASSUME NEW rates \in Rates, NEW hit \in Nat, NEW miss \in Nat, NEW output \in Nat
    PROVE  Price(rates, hit, miss, output) \in Nat
<1>1. rates.hit \in Nat /\ rates.miss \in Nat /\ rates.output \in Nat
    BY DEF Rates
<1> QED
    BY <1>1, ProductIsNat DEF Price

UsageInv ==
    /\ model \in Models /\ hour \in Nat
    /\ previous \in Usage
    /\ estimate \in Nat /\ due \in Int /\ unbilled \in Nat
    /\ EstimateCoversUse

LEMMA UsageStart == UsageInit => UsageInv
BY UsageAssumption DEF UsageInit, UsageInv, EstimateCoversUse, Usage, NoUse

LEMMA ReportIsCovered ==
    ASSUME UsageInv, NEW usage \in Usage
    PROVE  /\ Billed(usage) \in Nat
           /\ Grew(usage) => Owed(usage, previous) \in Int /\ Billed(usage) >= Owed(usage, previous)
           /\ Grew(usage) /\ usage.cached - previous.cached <= usage.input - previous.input
                => Billed(usage) = Owed(usage, previous)
<1> DEFINE rates == RatesAt(model, hour)
           input == Growth(usage.input, previous.input)
           cached == Growth(usage.cached, previous.cached)
           output == Growth(usage.output, previous.output)
           hit == Clamp(cached, input)
<1>1. rates \in Rates /\ rates.hit <= rates.miss
    BY RatesAreOrdered DEF UsageInv
<1>2. /\ usage.input \in Nat /\ usage.cached \in Nat /\ usage.output \in Nat
      /\ previous.input \in Nat /\ previous.cached \in Nat /\ previous.output \in Nat
    BY DEF UsageInv, Usage
<1>3. input \in Nat /\ cached \in Nat /\ output \in Nat
    BY <1>2 DEF Growth
<1>4. /\ hit \in Nat /\ hit <= input
      /\ cached <= input => hit = cached
      /\ cached > input => hit = input
    BY <1>3 DEF Clamp
<1>5. Billed(usage) = Price(rates, hit, input - hit, output)
    BY DEF Billed
<1>6. Grew(usage) => /\ input = usage.input - previous.input
                     /\ cached = usage.cached - previous.cached
                     /\ output = usage.output - previous.output
    BY <1>2 DEF Grew, Growth
<1>7. Grew(usage) => Owed(usage, previous) = Price(rates, cached, input - cached, output)
    BY <1>6 DEF Owed
<1> HIDE DEF rates, input, cached, output, hit
<1>8. Billed(usage) \in Nat
    BY <1>1, <1>3, <1>4, <1>5, PriceIsNat
<1>9. ASSUME Grew(usage), cached <= input
      PROVE  Billed(usage) = Owed(usage, previous)
    BY <1>4, <1>5, <1>7, <1>9
<1>10. ASSUME Grew(usage), cached > input
       PROVE  Owed(usage, previous) \in Int /\ Billed(usage) >= Owed(usage, previous)
  <2>1. input - hit = 0
    BY <1>3, <1>4, <1>10
  <2>2. Billed(usage) = Price(rates, input, 0, output)
    BY <1>4, <1>5, <1>10, <2>1
  <2>3. /\ rates.hit \in Nat /\ rates.miss \in Nat /\ rates.output \in Nat
        /\ input - cached \in Int
    BY <1>1, <1>3 DEF Rates
  <2>4. Price(rates, cached, input - cached, output) \in Int
    BY <1>3, <2>3 DEF Price
  <2> QED
    BY <1>1, <1>3, <1>7, <1>10, <2>2, <2>4, MissesCostMore
<1> QED
    BY <1>3, <1>6, <1>8, <1>9, <1>10

\* When the counters begin again, what is not billed is below what they stood at.
LEMMA RestIsBelow ==
    ASSUME UsageInv, NEW usage \in Usage, usage.cached <= usage.input
    PROVE  /\ Billed(usage) \in Nat /\ BelowPrevious(usage) \in Nat
           /\ Owed(usage, NoUse) \in Nat
           /\ Billed(usage) + BelowPrevious(usage) >= Owed(usage, NoUse)
<1> DEFINE rates == RatesAt(model, hour)
           h == rates.hit
           m == rates.miss
           o == rates.output
           input == Growth(usage.input, previous.input)
           output == Growth(usage.output, previous.output)
           hit == Clamp(Growth(usage.cached, previous.cached), input)
           below == Clamp(usage.input, previous.input)
           outBelow == Clamp(usage.output, previous.output)
<1>1. rates \in Rates /\ h \in Nat /\ m \in Nat /\ o \in Nat /\ m - h \in Nat
  <2>1. rates \in Rates /\ rates.hit <= rates.miss
    BY RatesAreOrdered DEF UsageInv
  <2> QED
    BY <2>1 DEF Rates
<1>2. /\ usage.input \in Nat /\ usage.cached \in Nat /\ usage.output \in Nat
      /\ previous.input \in Nat /\ previous.cached \in Nat /\ previous.output \in Nat
    BY DEF UsageInv, Usage
<1>3. /\ input \in Nat /\ output \in Nat /\ below \in Nat /\ outBelow \in Nat
      /\ input + below = usage.input /\ output + outBelow = usage.output
    BY <1>2 DEF Growth, Clamp
<1>4. hit \in Nat /\ hit <= input /\ hit <= usage.cached
    BY <1>2, <1>3 DEF Growth, Clamp
<1>5. Billed(usage) = Price(rates, hit, input - hit, output)
    BY DEF Billed
<1>6. BelowPrevious(usage) = Price(rates, 0, below, outBelow)
    BY DEF BelowPrevious
<1>7. Owed(usage, NoUse) = Price(rates, usage.cached, usage.input - usage.cached, usage.output)
  <2>1. /\ usage.cached - 0 = usage.cached /\ usage.input - 0 = usage.input
        /\ usage.output - 0 = usage.output
    BY <1>2
  <2> QED
    BY <2>1 DEF Owed, NoUse
<1> HIDE DEF rates, input, output, hit, below, outBelow
<1>8. input - hit \in Nat /\ usage.input - usage.cached \in Nat
    BY <1>2, <1>3, <1>4
<1>9. /\ Billed(usage) \in Nat /\ BelowPrevious(usage) \in Nat
      /\ Owed(usage, NoUse) \in Nat
  <2>1. Billed(usage) \in Nat
    BY <1>1, <1>3, <1>4, <1>5, <1>8, PriceIsNat
  <2>2. BelowPrevious(usage) \in Nat
    BY <1>1, <1>3, <1>6, PriceIsNat
  <2>3. Owed(usage, NoUse) \in Nat
    <3> DEFINE cached == usage.cached
               uncached == usage.input - usage.cached
               written == usage.output
    <3>1. cached \in Nat /\ uncached \in Nat /\ written \in Nat
      BY <1>2, <1>8
    <3> HIDE DEF cached, uncached, written
    <3>2. Price(rates, cached, uncached, written) \in Nat
      BY <1>1, <3>1, PriceIsNat
    <3> QED
      BY <1>7, <3>2 DEF cached, uncached, written
  <2> QED
    BY <2>1, <2>2, <2>3
<1>10. Billed(usage) + BelowPrevious(usage) >= Owed(usage, NoUse)
  <2> DEFINE i == usage.input
             c == usage.cached
             u == usage.output
  <2>1. i \in Nat /\ c \in Nat /\ u \in Nat
    BY <1>2
  <2>2. /\ Price(rates, hit, input - hit, output) = hit * h + (input - hit) * m + output * o
        /\ Price(rates, 0, below, outBelow) = 0 * h + below * m + outBelow * o
        /\ Price(rates, c, i - c, u) = c * h + (i - c) * m + u * o
    BY DEF Price
  <2>3. c - hit \in Nat /\ (c - hit) * (m - h) \in Nat
    BY <1>1, <1>4, <2>1, ProductIsNat
  <2> HIDE DEF i, c, u, h, m, o
  <2>4. i = input + below /\ u = output + outBelow
    BY <1>3 DEF i, u
  <2>5. /\ hit * h \in Int /\ hit * m \in Int /\ input * m \in Int /\ below * m \in Int
        /\ c * h \in Int /\ c * m \in Int /\ output * o \in Int /\ outBelow * o \in Int
    BY <1>1, <1>3, <1>4, <2>1
  <2>6. (input - hit) * m = input * m - hit * m /\ 0 * h = 0
    BY <1>1, <1>3, <1>4
  <2>7. (i - c) * m = (input * m + below * m) - c * m
    BY <1>1, <1>3, <2>1, <2>4
  <2>8. u * o = output * o + outBelow * o
    BY <1>1, <1>3, <2>4
  <2>9. (c - hit) * (m - h) = (c * m - c * h) - (hit * m - hit * h)
    BY <1>1, <1>4, <2>1
  <2>10. (c * m - c * h) - (hit * m - hit * h) >= 0
    BY <2>3, <2>9
  <2> QED
    BY <1>5, <1>6, <1>7, <2>2, <2>5, <2>6, <2>7, <2>8, <2>10 DEF i, c, u
<1> QED
    BY <1>9, <1>10

LEMMA UsageKept == UsageInv /\ [UsageNext]_usageVars => UsageInv'
<1> SUFFICES ASSUME UsageInv, [UsageNext]_usageVars PROVE UsageInv'
    OBVIOUS
<1>1. CASE HourPasses
    BY <1>1, UsageAssumption DEF HourPasses, UsageInv, EstimateCoversUse
<1>2. ASSUME NEW usage \in Reports, NEW again \in BOOLEAN, Report(usage, again)
      PROVE  UsageInv'
  <2>1. usage \in Usage /\ usage.cached <= usage.input
    BY <1>2, UsageAssumption DEF Reports, Usage, Report
  <2>2. /\ estimate' = estimate + Billed(usage) /\ previous' = usage
        /\ UNCHANGED <<model, hour>>
    BY <1>2 DEF Report
  <2>3. estimate \in Nat /\ due \in Int /\ unbilled \in Nat /\ estimate + unbilled >= due
    BY DEF UsageInv, EstimateCoversUse
  <2>4. CASE again
    <3>1. /\ due' = due + Owed(usage, NoUse)
          /\ unbilled' = unbilled + BelowPrevious(usage) /\ uneven'
      BY <1>2, <2>4 DEF Report
    <3>2. /\ Billed(usage) \in Nat /\ BelowPrevious(usage) \in Nat
          /\ Owed(usage, NoUse) \in Nat
          /\ Billed(usage) + BelowPrevious(usage) >= Owed(usage, NoUse)
      BY <2>1, RestIsBelow
    <3>3. /\ estimate' \in Nat /\ due' \in Int /\ unbilled' \in Nat
          /\ estimate' + unbilled' >= due'
      BY <2>2, <2>3, <3>1, <3>2
    <3> QED
      BY <2>1, <2>2, <3>1, <3>3 DEF UsageInv, EstimateCoversUse
  <2>5. CASE ~again
    <3>1. Grew(usage) /\ due' = due + Owed(usage, previous) /\ unbilled' = unbilled
      BY <1>2, <2>5 DEF Report
    <3>2. ~uneven' => /\ ~uneven
                      /\ ~(usage.cached - previous.cached > usage.input - previous.input)
      BY <1>2 DEF Report
    <3>3. /\ usage.input - previous.input \in Int /\ usage.cached - previous.cached \in Int
      BY <2>1 DEF UsageInv, Usage
    <3>4. /\ Billed(usage) \in Nat /\ Owed(usage, previous) \in Int
          /\ Billed(usage) >= Owed(usage, previous)
          /\ ~uneven' => Billed(usage) = Owed(usage, previous)
      BY <2>1, <3>1, <3>2, <3>3, ReportIsCovered
    <3>5. /\ estimate' \in Nat /\ due' \in Int /\ unbilled' \in Nat
          /\ estimate' + unbilled' >= due'
      BY <2>2, <2>3, <3>1, <3>4
    <3>6. ~uneven' => estimate' = due'
      BY <2>2, <3>1, <3>2, <3>4 DEF UsageInv, EstimateCoversUse
    <3> QED
      BY <2>1, <2>2, <3>5, <3>6 DEF UsageInv, EstimateCoversUse
  <2> QED
    BY <2>4, <2>5
<1>3. CASE UNCHANGED usageVars
    BY <1>3 DEF usageVars, UsageInv, EstimateCoversUse
<1> QED
    BY <1>1, <1>2, <1>3 DEF UsageNext

\* With the counters in any order the estimate and what the counters that began again may
\* have hidden are together no less than what the reported use costs, and the estimate is
\* that exactly unless they began again or the cache's came late (deepseekPricing.ts): for
\* any tariff in which a hit is not dearer than a miss, any hours and any number of reports.
THEOREM EstimatesCoverUse == UsageSpec => []EstimateCoversUse
<1>1. UsageInv => EstimateCoversUse
    BY DEF UsageInv
<1> QED
    BY <1>1, UsageStart, UsageKept, PTL DEF UsageSpec

=============================================================================
