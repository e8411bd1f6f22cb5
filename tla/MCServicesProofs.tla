-------------------------- MODULE MCServicesProofs --------------------------
(***************************************************************************)
(* The types of every service, and that the union of the services that TLC *)
(* runs keeps them, for every value of the constants.  Where the invariant *)
(* of a service says already what its variables hold, only the rest is     *)
(* proved here.                                                            *)
(***************************************************************************)
EXTENDS MCServices, EngineUseProofs, ServiceProofs, WallClockProofs

-----------------------------------------------------------------------------
(* Updates, pull requests and worktrees.                                     *)

LEMMA UpTypesStart == UpInit => UpTypeOK
<1>1. UpInit => availableVersion \in BOOLEAN
    BY Zenon DEF UpInit
<1> QED
    BY <1>1, UpdatesAssumption DEF UpInit, UpTypeOK, Phases

LEMMA UpTypesKept == UpTypeOK /\ [UpNext]_upVars => UpTypeOK'
<1> SUFFICES ASSUME UpTypeOK, [UpNext]_upVars PROVE UpTypeOK'
    OBVIOUS
<1> USE UpdatesAssumption DEF UpTypeOK, Phases
<1>1. CASE StartAutomaticChecks \/ InstallUpdate \/ DisposeUpdates
    BY <1>1 DEF StartAutomaticChecks, InstallUpdate, RecordError, DisposeUpdates
<1>2. CASE UserChecks \/ UpdateTimerFires \/ DownloadUpdate
    BY <1>2 DEF UserChecks, UpdateTimerFires, CheckForUpdates, DownloadUpdate, Called
<1>3. CASE Connected /\ Event
    BY <1>3 DEF Event, Available, NotAvailable, DownloadProgress, Downloaded, Cancelled,
                RecordError
<1>4. CASE UNCHANGED upVars
    BY <1>4 DEF upVars
<1> QED
    BY <1>1, <1>2, <1>3, <1>4 DEF UpNext

PullTypes == [no : 1 .. MaxOpen, owner : {"we", "other"}, branch : Branches,
              base : Bases, by : {"app", "person"}]

\* What PRInv leaves open.  A call that is past the preflight has a branch, and one that has
\* begun a base: only with both it opens a pull request.
PRRest ==
    /\ head \in Heads /\ opens \in 0 .. MaxOpen /\ ghCalls \in 0 .. MaxCalls
    /\ pulls \subseteq PullTypes
    /\ activeCreates \in Slots \cup {None}
    /\ \A c \in Slots : ghCall[c].at # "free" => ghCall[c].base \in Bases
    /\ \A c \in Slots : ghCall[c].at \notin {"free", "preflight"} => ghCall[c].branch \in Branches

LEMMA PRRestStart == PRInit => PRRest
BY PullRequestsAssumption, ServiceBoundsAssumption DEF PRInit, PRRest, NoGhCall, Heads

LEMMA PullIsOpened ==
    ASSUME PRRest, NEW owner \in {"we", "other"}, NEW branch \in Branches, NEW base \in Bases,
           NEW by \in {"app", "person"}, OpenPull(owner, branch, base, by)
    PROVE  opens' \in 0 .. MaxOpen /\ pulls' \subseteq PullTypes
<1>1. opens' = opens + 1 /\ opens' \in 1 .. MaxOpen
    BY PullRequestsAssumption DEF PRRest, OpenPull, Accepts
<1>2. [no |-> opens', owner |-> owner, branch |-> branch, base |-> base, by |-> by] \in PullTypes
    BY <1>1 DEF PullTypes
<1> QED
    BY <1>1, <1>2 DEF PRRest, OpenPull

LEMMA PRRestKept == PRInv /\ PRRest /\ [PRNext]_prVars => PRRest'
<1> SUFFICES ASSUME PRInv, PRRest, [PRNext]_prVars PROVE PRRest'
    OBVIOUS
<1> USE PullRequestsAssumption, ServiceBoundsAssumption
<1>0. ghCall \in [Slots -> [at : Stages, branch : Heads, base : Bases \cup {None}]]
    BY DEF PRInv
<1>1. ASSUME NEW c \in Slots, NEW base \in Bases, CreatePullRequest(c, base) PROVE PRRest'
    BY <1>0, <1>1 DEF CreatePullRequest, PRRest
<1>2. ASSUME NEW c \in Slots, Preflight(c) \/ Verify(c) PROVE PRRest'
    BY <1>0, <1>2 DEF Preflight, Verify, GhAt, PRRest, Heads
<1>3. ASSUME NEW c \in Slots, List(c) \/ PushHead(c) \/ Relist(c) \/ Fails(c) PROVE PRRest'
    BY <1>0, <1>3 DEF List, PushHead, Relist, Fails, Goes, SettleCreate, GhAt, PRRest, NoGhCall
<1>4. ASSUME NEW c \in Slots, GhCreate(c) PROVE PRRest'
  <2>1. ghCall[c].at = "create" /\ ghCall[c].branch \in Branches /\ ghCall[c].base \in Bases
      BY <1>4 DEF GhCreate, GhAt, PRRest
  <2>2. opens' \in 0 .. MaxOpen /\ pulls' \subseteq PullTypes
      BY <1>4, <2>1, PullIsOpened DEF GhCreate
  <2> QED
      BY <1>0, <1>4, <2>1, <2>2 DEF GhCreate, Goes, SettleCreate, PRRest, NoGhCall
<1>5. ASSUME NEW branch \in Heads, Checkout(branch) PROVE PRRest'
    BY <1>5 DEF Checkout, PRRest
<1>6. ASSUME NEW owner \in {"we", "other"}, NEW branch \in Branches, NEW base \in Bases,
             PersonOpens(owner, branch, base)
      PROVE  PRRest'
  <2>1. opens' \in 0 .. MaxOpen /\ pulls' \subseteq PullTypes
      BY <1>6, PullIsOpened DEF PersonOpens
  <2> QED
      BY <1>6, <2>1 DEF PersonOpens, PRRest
<1>7. ASSUME NEW p \in pulls, PersonCloses(p) PROVE PRRest'
    BY <1>7 DEF PersonCloses, PRRest
<1>8. CASE UNCHANGED prVars
    BY <1>8 DEF prVars, PRRest
<1> QED
    BY <1>1, <1>2, <1>3, <1>4, <1>5, <1>6, <1>7, <1>8 DEF PRNext

LEMMA PRTypes == PRInv /\ PRRest => PRTypeOK
BY DEF PRInv, PRRest, PRTypeOK, PullTypes

\* What TreeInv leaves open.
TreeRest ==
    /\ registered \in BOOLEAN /\ treeRecords \subseteq Trees /\ listed \subseteq Trees
    /\ \A t \in Trees : ~dirs[t].there => dirs[t] = NoDir
    /\ \A s \in Slots : treeCall[s].op \notin {"none", "relisting"} => CalledTree(s) \in Trees

LEMMA TreeRestStart == TreeInit => TreeRest
BY DEF TreeInit, TreeRest, NoTreeCall

\* A directory that git makes or removes, and a call that goes on or ends.
DirsOK == \A t \in Trees : ~dirs[t].there => dirs[t] = NoDir
CallsOK == \A s \in Slots : treeCall[s].op \notin {"none", "relisting"} => CalledTree(s) \in Trees

LEMMA CallsGoOn ==
    ASSUME TreeCallOK, CallsOK, NEW s \in Slots,
           \/ TreeEnds(s)
           \/ AtStep(s, "none") /\ UNCHANGED treeCall
           \/ ~AtStep(s, "none") /\ ~AtStep(s, "relisting") /\ \E t \in TreeSteps : TreeGoes(s, t)
           \/ \E r \in [op : TreeSteps, tree : Trees, force : BOOLEAN, chat : Chats \cup {None}] :
                treeCall' = [treeCall EXCEPT ![s] = r]
    PROVE  CallsOK'
BY DEF TreeCallOK, CallsOK, TreeEnds, TreeGoes, AtStep, CalledTree, NoTreeCall
LEMMA TreeRestKept == TreeInv /\ TreeRest /\ [TreeNext]_treeVars => TreeRest'
<1> SUFFICES ASSUME TreeInv, TreeRest, [TreeNext]_treeVars PROVE TreeRest'
    OBVIOUS
<1> DEFINE RecordsOK == registered \in BOOLEAN /\ treeRecords \subseteq Trees /\ listed \subseteq Trees
<1>0. /\ TreeCallOK /\ RecordsOK /\ DirsOK /\ CallsOK
      /\ dirs \in [Trees -> [there : BOOLEAN, locked : BOOLEAN, work : BOOLEAN]]
    BY DEF TreeInv, TreeRest, DirsOK, CallsOK
<1>1. ASSUME NEW s \in Slots, NEW t \in Trees, CreateTree(s, t) PROVE TreeRest'
    BY <1>0, <1>1, CallsGoOn DEF CreateTree, NoTreeCall, TreeSteps, TreeRest, DirsOK, CallsOK
<1>2. ASSUME NEW s \in Slots, NEW t \in Trees, NEW force \in BOOLEAN, RemoveWorktree(s, t, force)
      PROVE  TreeRest'
    BY <1>0, <1>2, CallsGoOn DEF RemoveWorktree, NoTreeCall, TreeSteps, TreeRest, DirsOK, CallsOK
<1>3. ASSUME NEW s \in Slots, NEW c \in Chats, NEW t \in Trees, BeginConversation(s, c, t)
      PROVE  TreeRest'
    BY <1>0, <1>3, CallsGoOn DEF BeginConversation, NoTreeCall, TreeSteps, TreeRest, DirsOK, CallsOK
<1>4. ASSUME NEW s \in Slots, TreeAdded(s) \/ TreeRemoved(s) \/ CreateUndone(s) PROVE TreeRest'
  <2>1. CallsOK' /\ UNCHANGED <<registered, treeRecords, listed>>
      BY <1>0, <1>4, CallsGoOn DEF TreeAdded, TreeRemoved, CreateUndone, AtStep, TreeSteps
  <2>2. DirsOK'
      BY <1>0, <1>4 DEF TreeAdded, TreeRemoved, CreateUndone, DirsOK, NoDir
  <2> QED
      BY <1>0, <2>1, <2>2 DEF TreeRest, DirsOK, CallsOK
<1>5. ASSUME NEW s \in Slots, IncludesCopied(s) \/ CreateFails(s) \/ RemoveFails(s) PROVE TreeRest'
  <2>1. CallsOK' /\ UNCHANGED <<registered, dirs, listed>>
      BY <1>0, <1>5, CallsGoOn DEF IncludesCopied, CreateFails, RemoveFails, AtStep, TreeSteps
  <2>2. treeRecords' \subseteq Trees
      BY <1>0, <1>5 DEF IncludesCopied, CreateFails, RemoveFails, CallsOK, AtStep
  <2> QED
      BY <1>0, <2>1, <2>2 DEF TreeRest, DirsOK, CallsOK
<1>6. ASSUME NEW s \in Slots, Listed(s) \/ RecordDeleted(s) \/ ConversationStarted(s) PROVE TreeRest'
  <2>1. CallsOK'
      BY <1>0, <1>6, CallsGoOn
      DEF Listed, RecordDeleted, ConversationStarted, TreeEnds, AtStep, TreeSteps, NoTreeCall,
          CallsOK, CalledTree, TreeCallOK
  <2>2. treeRecords' \subseteq Trees /\ listed' \subseteq Trees /\ UNCHANGED <<registered, dirs>>
      BY <1>0, <1>6 DEF Listed, RecordDeleted, ConversationStarted
  <2> QED
      BY <1>0, <2>1, <2>2 DEF TreeRest, DirsOK, CallsOK
<1>7. ASSUME NEW t \in Trees, NEW locked \in BOOLEAN, SetLocked(t, locked) \/ Work(t) PROVE TreeRest'
  <2>1. UNCHANGED <<registered, treeRecords, treeCall>> /\ listed' \subseteq Trees
      BY <1>0, <1>7 DEF SetLocked, Work
  <2>2. DirsOK'
      BY <1>0, <1>7 DEF SetLocked, Work, DirsOK
  <2> QED
      BY <1>0, <2>1, <2>2 DEF TreeRest, CalledTree, DirsOK, CallsOK
<1>8. CASE ProjectRemoved
    BY <1>0, <1>8 DEF ProjectRemoved, TreeRest, CalledTree, DirsOK, CallsOK
<1>9. CASE AppKilled \/ UNCHANGED treeVars
    BY <1>0, <1>9 DEF AppKilled, treeVars, NoTreeCall, TreeRest, CalledTree, DirsOK, CallsOK
<1> QED
    BY <1>1, <1>2, <1>3, <1>4, <1>5, <1>6, <1>7, <1>8, <1>9 DEF TreeNext

LEMMA TreeTypes == TreeInv /\ TreeRest => TreeTypeOK
BY DEF TreeInv, TreeRest, TreeCallOK, TreeTypeOK

-----------------------------------------------------------------------------
(* The browser preview and the stored data.                                  *)

\* What BrowserTypes leaves open.
BrowserRest ==
    /\ pane <= panes /\ panes \in 0 .. MaxViews
    /\ reached \in BOOLEAN /\ failed \in BOOLEAN /\ orphaned \in BOOLEAN

LEMMA BrowserRestStart == BrowserInit => BrowserRest
<1>1. BrowserInit => reached \in BOOLEAN /\ failed \in BOOLEAN /\ orphaned \in BOOLEAN
    BY Zenon DEF BrowserInit
<1> QED
    BY <1>1, BrowserAssumption DEF BrowserInit, BrowserRest

LEMMA BrowserRestKept == BrowserTypes /\ BrowserRest /\ [BrowserNext]_browserVars => BrowserRest'
<1> SUFFICES ASSUME BrowserTypes, BrowserRest, [BrowserNext]_browserVars PROVE BrowserRest'
    OBVIOUS
<1> USE BrowserAssumption DEF BrowserRest
<1>0. navigating \in BOOLEAN /\ pane \in Nat
    BY DEF BrowserTypes, BrowserInv
<1>a. EnsureView => pane' <= panes' /\ panes' \in 0 .. MaxViews
    BY <1>0 DEF EnsureView
<1>1. CASE OpenPreview \/ ClosePreview
  <2>1. reached' \in BOOLEAN /\ failed' \in BOOLEAN /\ orphaned' \in BOOLEAN
    <3>1. (orphaned \/ navigating) \in BOOLEAN
        OBVIOUS
    <3>2. CASE OpenPreview
        BY <3>2, Zenon DEF OpenPreview, contents
    <3>3. CASE ClosePreview
        BY <3>1, <3>3, Zenon DEF ClosePreview
    <3> QED
        BY <1>1, <3>2, <3>3
  <2>2. OpenPreview => EnsureView
      BY DEF OpenPreview
  <2>3. ClosePreview => pane' = 0 /\ UNCHANGED panes
      BY DEF ClosePreview
  <2> QED
      BY <1>1, <1>a, <2>1, <2>2, <2>3
<1>2. ASSUME NEW u \in Urls, Navigate(u) \/ Revisit(u) PROVE BrowserRest'
  <2>1. reached' \in BOOLEAN /\ failed' \in BOOLEAN /\ orphaned' \in BOOLEAN
      BY <1>2, Zenon DEF Navigate, Revisit, BeginsLoad
  <2>2. EnsureView \/ UNCHANGED <<pane, panes>>
      BY <1>2 DEF Navigate, Revisit
  <2> QED
      BY <1>a, <2>1, <2>2
<1>3. CASE LoadCommits \/ RenderProcessGone \/ ViewDestroyed \/ UNCHANGED browserVars
  <2>1. reached' \in BOOLEAN /\ failed' \in BOOLEAN /\ orphaned' \in BOOLEAN
      BY <1>3, Zenon DEF LoadCommits, RenderProcessGone, ViewDestroyed, contents, browserVars
  <2>2. UNCHANGED <<pane, panes>>
      BY <1>3 DEF LoadCommits, RenderProcessGone, ViewDestroyed, contents, browserVars
  <2> QED
      BY <2>1, <2>2
<1>4. CASE LoadEnds \/ PageLoadFails \/ LoadIsGivenUp
  <2>1. reached' \in BOOLEAN /\ failed' \in BOOLEAN /\ orphaned' \in BOOLEAN
      BY <1>4, Zenon DEF LoadEnds, PageLoadFails, LoadIsGivenUp, LoadIsOver
  <2>2. UNCHANGED <<pane, panes>>
      BY <1>4 DEF LoadEnds, PageLoadFails, LoadIsGivenUp, LoadIsOver
  <2> QED
      BY <2>1, <2>2
<1> QED
    BY <1>1, <1>2, <1>3, <1>4 DEF BrowserNext

LEMMA BrowserTyped == BrowserTypes /\ BrowserRest => BrowserTypeOK
<1> SUFFICES ASSUME BrowserTypes, BrowserRest PROVE BrowserTypeOK
    OBVIOUS
<1>1. pane \in 0 .. MaxViews /\ panes \in 0 .. MaxViews
    BY BrowserAssumption DEF BrowserTypes, BrowserInv, BrowserRest
<1>2. {reached, failed, navigating, orphaned} \subseteq BOOLEAN
  <2>1. reached \in BOOLEAN /\ failed \in BOOLEAN /\ navigating \in BOOLEAN /\ orphaned \in BOOLEAN
      BY DEF BrowserTypes, BrowserInv, BrowserRest
  <2> QED
      BY <2>1, Zenon
<1> QED
    BY <1>1, <1>2 DEF BrowserTypes, BrowserInv, BrowserTypeOK

\* What DataInv leaves open.
DataRest ==
    /\ freshRows \in BOOLEAN /\ freshHome \in BOOLEAN
    /\ version \in 0 .. LastVersion
    /\ vault \in ApiKeys \cup {NoKey} /\ launchKey \in ApiKeys \cup {NoKey}
    /\ stale \in BOOLEAN /\ turnRuns \in BOOLEAN /\ keyCalls \in 0 .. MaxKeyCalls

LEMMA DataRestStart == DataInit => DataRest
<1>1. DataInit => /\ freshRows \in BOOLEAN /\ freshHome \in BOOLEAN
                  /\ stale \in BOOLEAN /\ turnRuns \in BOOLEAN
    BY Zenon DEF DataInit
<1>2. DataInit => /\ version \in 0 .. LastVersion /\ vault \in ApiKeys \cup {NoKey}
                  /\ launchKey \in ApiKeys \cup {NoKey} /\ keyCalls \in 0 .. MaxKeyCalls
    BY LocalDataAssumption DEF DataInit
<1> QED
    BY <1>1, <1>2 DEF DataRest

LEMMA DataRestKept == DataRest /\ [DataNext]_dataVars => DataRest'
<1> SUFFICES ASSUME DataRest, [DataNext]_dataVars PROVE DataRest'
    OBVIOUS
<1> USE LocalDataAssumption DEF DataRest, dataFiles, keyVars
<1>1. ASSUME NEW i \in Instances, LaunchApp(i) \/ DirectoriesChecked(i) \/ NameChecked(i)
                                    \/ LockRequested(i) \/ HomeChecked(i)
      PROVE  DataRest'
    BY <1>1 DEF LaunchApp, DirectoriesChecked, NameChecked, LockRequested, HomeChecked
<1>2. ASSUME NEW i \in Instances, EmptyRemoved(i) \/ DirectoryMoved(i) \/ DatabaseRenamed(i)
                                    \/ HomeRenamed(i)
      PROVE  DataRest'
    BY <1>2 DEF EmptyRemoved, DirectoryMoved, DatabaseRenamed, HomeRenamed
<1>3. ASSUME NEW i \in Instances, HomeMade(i) \/ DatabaseOpened(i) \/ VersionMigrated(i)
      PROVE  DataRest'
  <2>1. freshRows' \in BOOLEAN /\ freshHome' \in BOOLEAN
      BY <1>3 DEF HomeMade, DatabaseOpened, VersionMigrated
  <2>2. version' \in 0 .. LastVersion
      BY <1>3 DEF HomeMade, DatabaseOpened, VersionMigrated
  <2>3. UNCHANGED keyVars
      BY <1>3 DEF HomeMade, DatabaseOpened, VersionMigrated
  <2> QED
      BY <2>1, <2>2, <2>3
<1>4. ASSUME NEW i \in Instances, NEW readable \in BOOLEAN, ApplicationOpens(i, readable)
      PROVE  DataRest'
  <2>1. stale' \in BOOLEAN /\ turnRuns' \in BOOLEAN
      BY <1>4, Zenon DEF ApplicationOpens
  <2>2. launchKey' \in ApiKeys \cup {NoKey}
      BY <1>4 DEF ApplicationOpens, KeyInForce
  <2>3. UNCHANGED <<dataFiles, version, vault, keyCalls>>
      BY <1>4 DEF ApplicationOpens
  <2> QED
      BY <2>1, <2>2, <2>3
<1>5. ASSUME NEW i \in Instances, ProcessDies(i) PROVE DataRest'
    BY <1>5 DEF ProcessDies
<1>6. CASE TurnBegins
    BY <1>6 DEF TurnBegins
<1>7. ASSUME NEW key \in ApiKeys \cup {NoKey}, ChangeKey(key) PROVE DataRest'
  <2>1. stale' \in BOOLEAN /\ turnRuns' \in BOOLEAN
      BY <1>7, Zenon DEF ChangeKey
  <2>2. launchKey' \in ApiKeys \cup {NoKey} /\ vault' \in ApiKeys \cup {NoKey}
      BY <1>7 DEF ChangeKey, KeyInForce
  <2>3. UNCHANGED <<dataFiles, version>> /\ keyCalls' \in 0 .. MaxKeyCalls
      BY <1>7 DEF ChangeKey
  <2> QED
      BY <2>1, <2>2, <2>3
<1>8. CASE UNCHANGED dataVars
    BY <1>8 DEF dataVars
<1> QED
    BY <1>1, <1>2, <1>3, <1>4, <1>5, <1>6, <1>7, <1>8 DEF DataNext

LEMMA DataTyped == DataInv /\ DataRest => DataTypeOK
<1> SUFFICES ASSUME DataInv, DataRest PROVE DataTypeOK
    OBVIOUS
<1>1. {freshRows, freshHome} \subseteq BOOLEAN /\ {stale, turnRuns} \subseteq BOOLEAN
  <2>1. freshRows \in BOOLEAN /\ freshHome \in BOOLEAN /\ stale \in BOOLEAN /\ turnRuns \in BOOLEAN
      BY DEF DataRest
  <2> QED
      BY <2>1, Zenon
<1>2. changes \subseteq 1 .. LastVersion
    BY LocalDataAssumption DEF DataInv, SchemaMatchesVersion, DataRest
<1> QED
    BY <1>1, <1>2 DEF DataInv, DataTypes, DataRest, DataTypeOK

-----------------------------------------------------------------------------
(* Terminals, turns and approvals: the services that move the engine.        *)

LEMMA TermMovesEngine == [TermNext]_termVars => [EngineNext]_engine
<1> SUFFICES ASSUME [TermNext]_termVars PROVE [EngineNext]_engine
    OBVIOUS
<1>1. CASE EngineStep
    BY <1>1 DEF EngineStep, EngineNext
<1>2. CASE UNCHANGED termVars
    BY <1>2 DEF termVars
<1>3. ASSUME NEW t \in Terms, Create(t) \/ Output(t) \/ ExecEnds(t) \/ ExecRejected(t)
                                \/ Terminate(t) \/ Close(t) \/ CloseEnds(t)
      PROVE  UNCHANGED engine
    BY <1>3 DEF Create, Output, ExecEnds, ExecRejected, Terminate, Close, CloseEnds
<1> QED
    BY <1>1, <1>2, <1>3 DEF TermNext

LEMMA TermTypes == TermInv /\ EngineInv => TermTypeOK
<1> SUFFICES ASSUME TermInv, EngineInv PROVE TermTypeOK
    OBVIOUS
<1>1. Cardinality(exec) \in Nat /\ Cardinality(Terms) \in Nat /\ Cardinality(exec) <= Cardinality(Terms)
    BY TermsAssumption, FS_Subset, FS_CardinalityType DEF TermInv, TermDataOK
<1>2. processCount \in 0 .. Cardinality(Terms)
    BY <1>1 DEF TermInv, TermDataOK, CountsProcesses
<1> QED
    BY <1>2 DEF TermInv, TermDataOK, TermTypeOK, EngineInv

\* What CountInv and ApprovalInv leave open.
TurnRest ==
    /\ thread \in [TurnIds -> Threads \cup {None}]
    /\ activeTurns \subseteq TurnIds /\ handingOff \subseteq Threads

LEMMA TurnRestStart == TurnInit => TurnRest
BY DEF TurnInit, TurnRest

LEMMA TurnRestKept == TurnRest /\ [TurnNext]_turnVars => TurnRest'
<1> SUFFICES ASSUME TurnRest, [TurnNext]_turnVars PROVE TurnRest'
    OBVIOUS
<1> USE DEF TurnRest
<1>1. ASSUME NEW u \in TurnIds, NEW t \in Threads, NEW s \in BOOLEAN,
             Compact(u, t) \/ StartTurn(u, t, s)
      PROVE  TurnRest'
    BY <1>1 DEF Compact, StartTurn
<1>2. ASSUME NEW u \in TurnIds, TurnStarted(u) \/ TurnCompleted(u) PROVE TurnRest'
    BY <1>2 DEF TurnStarted, TurnCompleted
<1>3. ASSUME NEW t \in Threads, HandoffBegins(t) \/ HandoffEnds(t) PROVE TurnRest'
    BY <1>3 DEF HandoffBegins, HandoffEnds, turnState
<1>4. CASE UNCHANGED <<thread, activeTurns, handingOff>>
    BY <1>4
<1> QED
    BY <1>1, <1>2, <1>3, <1>4
    DEF TurnNext, TurnAsked, EngineRuns, TurnAnswered, TurnRefused, TurnTimedOut, Resumed,
        EngineEndsTurn, RequestApproval, ResolveApproval, TurnsEngineReady, TurnsEngineNotReady,
        turnVars, turnState

LEMMA TurnTypes == CountInv /\ ApprovalInv /\ TurnRest => TurnTypeOK
<1> SUFFICES ASSUME CountInv, ApprovalInv, TurnRest PROVE TurnTypeOK
    OBVIOUS
<1>1. Counted \in SUBSET TurnIds
    BY DEF Counted
<1>2. Cardinality(TurnIds) \in Nat /\ Cardinality(Counted) <= Cardinality(TurnIds)
    BY <1>1, TurnsAssumption, FS_Subset, FS_CardinalityType
<1>3. turnCount \in 0 .. Cardinality(TurnIds)
    BY <1>2, CountedFinite DEF CountInv, TurnDataOK
<1> QED
    BY <1>3 DEF CountInv, TurnDataOK, ApprovalInv, ApprovalDataOK, EngineInv, TurnRest, TurnTypeOK

-----------------------------------------------------------------------------
(* Integrations.                                                             *)

SnapshotType == [project : Inventories \cup {None}, loading : BOOLEAN, trusted : BOOLEAN,
                 roots : SUBSET Roots, read : Inventories \cup {None}]
IntCallType == [op : {"none", "load", "write", "roots"}, waits : {"none", "start", "answer"},
                project : Inventories \cup {None}, roots : SUBSET Roots]

\* A call, a question and the panel keep their types apart from one another.
CallsTyped ==
    /\ snapshot \in SnapshotType /\ trustedIn \subseteq Inventories
    /\ begun \in 0 .. MaxCalls /\ timer \in BOOLEAN
    /\ inFlight \in [Slots -> IntCallType] /\ refresher \in Slots \cup {None}

DialogueTyped ==
    /\ waitingFor \subseteq Questions /\ askedSoFar \in 0 .. MaxAsks
    /\ questions \subseteq [key : Keys, of : Questions]
    /\ DOMAIN resolver \subseteq Keys /\ \A k \in DOMAIN resolver : resolver[k] \in Questions

IntTypes == EngineInv /\ CallsTyped /\ DialogueTyped

LEMMA IntTypesGive == IntTypes => IntTypeOK
BY DEF IntTypes, CallsTyped, DialogueTyped, IntTypeOK, EngineInv, SnapshotType, IntCallType

LEMMA IntTypesStart == IntInit => IntTypes
<1> SUFFICES ASSUME IntInit PROVE IntTypes
    OBVIOUS
<1>1. EngineInv
    BY EngineInitInv DEF IntInit
<1>2. CallsTyped
  <2>1. timer \in BOOLEAN /\ FALSE \in BOOLEAN
      BY Zenon DEF IntInit
  <2>2. snapshot \in SnapshotType
      BY <2>1 DEF IntInit, SnapshotType
  <2>3. /\ trustedIn \subseteq Inventories /\ begun \in 0 .. MaxCalls
        /\ inFlight \in [Slots -> IntCallType] /\ refresher \in Slots \cup {None}
      BY ServiceBoundsAssumption DEF IntInit, IntCallType, NoIntegrationCall
  <2> QED
      BY <2>1, <2>2, <2>3 DEF CallsTyped
<1>3. DialogueTyped
    BY ServiceBoundsAssumption DEF IntInit, DialogueTyped
<1> QED
    BY <1>1, <1>2, <1>3 DEF IntTypes

\* The building blocks.
LEMMA BeginLoadTyped ==
    ASSUME CallsTyped, NEW c \in Slots, NEW p \in Inventories, NEW s \in SnapshotType,
           BeginLoad(c, p, s)
    PROVE  /\ snapshot' \in SnapshotType /\ inFlight' \in [Slots -> IntCallType]
           /\ [EngineNext]_engine
<1>1. [NoIntegrationCall EXCEPT !.op = "load", !.waits = "start", !.project = p] \in IntCallType
    BY DEF NoIntegrationCall, IntCallType
<1>2. inFlight' \in [Slots -> IntCallType]
    BY <1>1 DEF BeginLoad, CallIs, CallsTyped
<1>3. snapshot' \in SnapshotType
  <2>1. (p \in trustedIn) \in BOOLEAN
      OBVIOUS
  <2>2. snapshot' = [s EXCEPT !.project = p, !.trusted = p \in trustedIn, !.loading = TRUE]
      BY DEF BeginLoad
  <2> QED
      BY <2>1, <2>2 DEF SnapshotType
<1>4. [EngineNext]_engine
    BY DEF BeginLoad, EngineNext
<1> QED
    BY <1>2, <1>3, <1>4

LEMMA EndCallTyped ==
    ASSUME CallsTyped, NEW c \in Slots, EndCall(c)
    PROVE  inFlight' \in [Slots -> IntCallType] /\ refresher' \in Slots \cup {None}
BY DEF CallsTyped, EndCall, CallIs, NoIntegrationCall, IntCallType

LEMMA RefreshTyped ==
    ASSUME CallsTyped, NEW c \in Slots, NEW s \in SnapshotType, RefreshInventory(c, s)
    PROVE  /\ snapshot' \in SnapshotType /\ inFlight' \in [Slots -> IntCallType]
           /\ refresher' \in Slots \cup {None} /\ [EngineNext]_engine
<1>1. CASE refresher # None \/ s.project = None
  <2>1. CallIs(c, NoIntegrationCall) /\ snapshot' = s /\ UNCHANGED <<engine, refresher>>
      BY <1>1 DEF RefreshInventory
  <2> QED
      BY <2>1 DEF CallIs, CallsTyped, NoIntegrationCall, IntCallType
<1>2. CASE ~(refresher # None \/ s.project = None)
  <2>1. BeginLoad(c, s.project, s) /\ refresher' = c /\ s.project \in Inventories
      BY <1>2 DEF RefreshInventory, SnapshotType
  <2> QED
      BY <2>1, BeginLoadTyped
<1> QED
    BY <1>1, <1>2

LEMMA IntEngineMoves == CallsTyped /\ [IntNext]_intVars => [EngineNext]_engine
<1> SUFFICES ASSUME CallsTyped, [IntNext]_intVars PROVE [EngineNext]_engine
    OBVIOUS
<1>1. ASSUME NEW c \in Slots, NEW p \in Inventories, Load(c, p) PROVE [EngineNext]_engine
    BY <1>1, BeginLoadTyped DEF Load, CallsTyped
<1>2. ASSUME NEW c \in Slots, InventoryRefreshWanted(c) \/ TimerFires(c)
      PROVE  [EngineNext]_engine
    BY <1>2, RefreshTyped DEF InventoryRefreshWanted, TimerFires, CallsTyped
<1>3. ASSUME NEW c \in Slots, ChangeAnswered(c) PROVE [EngineNext]_engine
  <2>1. ASSUME NEW s, RefreshInventory(c, s) PROVE [EngineNext]_engine
      BY <2>1 DEF RefreshInventory, BeginLoad, EngineNext
  <2> QED
      BY <1>3, <2>1 DEF ChangeAnswered
<1>4. CASE IntegrationsEngineReady \/ IntegrationsEngineNotReady
    BY <1>4 DEF IntegrationsEngineReady, IntegrationsEngineNotReady, EngineNext
<1>5. CASE UNCHANGED intVars
    BY <1>5 DEF intVars
<1> QED
    BY <1>1, <1>2, <1>3, <1>4, <1>5
    DEF IntNext, LoadAsks, LoadAnswered, LoadFails, Write, ChangeFails, ChangeRoots,
        ChangeAnnounced, SetProjectTrust, Ask, Resolve, ResolveTooLong

LEMMA CallsKept == CallsTyped /\ [IntNext]_intVars => CallsTyped'
<1> SUFFICES ASSUME CallsTyped, [IntNext]_intVars PROVE CallsTyped'
    OBVIOUS
<1> USE ServiceBoundsAssumption
<1>1. ASSUME NEW c \in Slots, NEW p \in Inventories, Load(c, p) PROVE CallsTyped'
    BY <1>1, BeginLoadTyped DEF Load, Free, CallsTyped
<1>2. ASSUME NEW c \in Slots, InventoryRefreshWanted(c) \/ TimerFires(c) PROVE CallsTyped'
  <2>1. timer' \in BOOLEAN
      BY <1>2, Zenon DEF InventoryRefreshWanted, TimerFires, CallsTyped
  <2>2. RefreshInventory(c, snapshot) /\ trustedIn' = trustedIn
      BY <1>2 DEF InventoryRefreshWanted, TimerFires
  <2>3. begun' \in 0 .. MaxCalls
      BY <1>2 DEF InventoryRefreshWanted, TimerFires, Free, CallsTyped
  <2>4. snapshot \in SnapshotType
      BY DEF CallsTyped
  <2> QED
      BY <2>1, <2>2, <2>3, <2>4, RefreshTyped DEF CallsTyped
<1>3. ASSUME NEW c \in Slots, ChangeAnswered(c) PROVE CallsTyped'
  <2> DEFINE s == IF inFlight[c].op = "roots" THEN [snapshot EXCEPT !.roots = inFlight[c].roots]
                  ELSE snapshot
  <2>1. s \in SnapshotType
      BY DEF CallsTyped, SnapshotType, IntCallType
  <2>2. RefreshInventory(c, s) /\ UNCHANGED <<trustedIn, begun, timer>>
      BY <1>3 DEF ChangeAnswered
  <2> HIDE DEF s
  <2> QED
      BY <2>1, <2>2, RefreshTyped DEF CallsTyped
<1>4. ASSUME NEW c \in Slots, LoadAsks(c) PROVE CallsTyped'
    BY <1>4 DEF LoadAsks, CallIs, CallsTyped, IntCallType
<1>5. ASSUME NEW c \in Slots, LoadAnswered(c) \/ LoadFails(c) PROVE CallsTyped'
  <2>1. snapshot' \in SnapshotType
      BY <1>5 DEF LoadAnswered, LoadFails, CallsTyped, SnapshotType, IntCallType
  <2>2. EndCall(c) /\ UNCHANGED <<trustedIn, begun, timer>>
      BY <1>5 DEF LoadAnswered, LoadFails
  <2> QED
      BY <2>1, <2>2, EndCallTyped DEF CallsTyped
<1>6. ASSUME NEW c \in Slots, ChangeFails(c) PROVE CallsTyped'
    BY <1>6, EndCallTyped DEF ChangeFails, CallsTyped
<1>7. ASSUME NEW c \in Slots, Write(c) PROVE CallsTyped'
  <2>1. [NoIntegrationCall EXCEPT !.op = "write", !.waits = "answer"] \in IntCallType
      BY DEF NoIntegrationCall, IntCallType
  <2>2. inFlight' \in [Slots -> IntCallType] /\ begun' \in 0 .. MaxCalls
      BY <1>7, <2>1 DEF Write, Free, CallIs, CallsTyped
  <2>3. UNCHANGED <<snapshot, trustedIn, refresher, timer>>
      BY <1>7 DEF Write
  <2> QED
      BY <2>2, <2>3 DEF CallsTyped
<1>8. ASSUME NEW c \in Slots, NEW roots \in SUBSET Roots, ChangeRoots(c, roots) PROVE CallsTyped'
  <2>1. [NoIntegrationCall EXCEPT !.op = "roots", !.waits = "answer", !.roots = roots] \in IntCallType
      BY DEF NoIntegrationCall, IntCallType
  <2>2. inFlight' \in [Slots -> IntCallType] /\ begun' \in 0 .. MaxCalls
      BY <1>8, <2>1 DEF ChangeRoots, Free, CallIs, CallsTyped
  <2>3. UNCHANGED <<snapshot, trustedIn, refresher, timer>>
      BY <1>8 DEF ChangeRoots
  <2> QED
      BY <2>2, <2>3 DEF CallsTyped
<1>9. CASE ChangeAnnounced
  <2>1. timer' \in BOOLEAN
      BY <1>9, Zenon DEF ChangeAnnounced
  <2>2. UNCHANGED <<snapshot, trustedIn, calls>>
      BY <1>9 DEF ChangeAnnounced
  <2> QED
      BY <2>1, <2>2 DEF CallsTyped, calls
<1>10. ASSUME NEW p \in Inventories, NEW trusted \in BOOLEAN, SetProjectTrust(p, trusted)
       PROVE  CallsTyped'
  <2>1. trustedIn' \subseteq Inventories
      BY <1>10 DEF SetProjectTrust, CallsTyped
  <2>2. snapshot' \in SnapshotType
      BY <1>10 DEF SetProjectTrust, CallsTyped, SnapshotType
  <2> QED
      BY <1>10, <2>1, <2>2 DEF SetProjectTrust, CallsTyped, calls
<1>11. CASE UNCHANGED <<snapshot, trustedIn, calls, timer>>
  <2>1. timer' \in BOOLEAN
      BY <1>11, Zenon DEF CallsTyped
  <2>2. UNCHANGED <<snapshot, trustedIn, calls>>
      BY <1>11
  <2> QED
      BY <2>1, <2>2 DEF CallsTyped, calls
<1> QED
    BY <1>1, <1>2, <1>3, <1>4, <1>5, <1>6, <1>7, <1>8, <1>9, <1>10, <1>11
    DEF IntNext, Ask, Resolve, ResolveTooLong, IntegrationsEngineReady,
        IntegrationsEngineNotReady, intVars

LEMMA DialogueKept == EngineInv /\ DialogueTyped /\ [IntNext]_intVars => DialogueTyped'
<1> SUFFICES ASSUME EngineInv, DialogueTyped, [IntNext]_intVars PROVE DialogueTyped'
    OBVIOUS
<1> USE ServiceBoundsAssumption DEF DialogueTyped, Keys
<1>1. CASE Ask
  <2> DEFINE q == [id |-> askedSoFar, born |-> generation]
  <2>1. generation \in 1 .. MaxGeneration /\ askedSoFar \in 0 .. MaxAsks - 1
      BY <1>1, LifecycleAssumption DEF Ask, EngineInv, EngineTypeOK
  <2>2. q \in Questions
      BY <2>1 DEF Questions
  <2>3. /\ waitingFor' = waitingFor \cup {q} /\ askedSoFar' = askedSoFar + 1
        /\ resolver' = [j \in DOMAIN resolver \cup {q} |-> IF j = q THEN q ELSE resolver[j]]
        /\ questions' = questions \cup {[key |-> q, of |-> q]}
      BY <1>1 DEF Ask, RequestKey
  <2> HIDE DEF q
  <2>4. /\ DOMAIN resolver' \subseteq Keys
        /\ \A k \in DOMAIN resolver' : resolver'[k] \in Questions
      BY <2>2, <2>3
  <2> QED
      BY <2>1, <2>2, <2>3, <2>4
<1>2. ASSUME NEW e \in questions, Resolve(e) \/ ResolveTooLong(e) PROVE DialogueTyped'
  <2>1. resolver' = Forgotten(e.key) /\ waitingFor' \subseteq waitingFor
        /\ questions' \subseteq questions /\ askedSoFar' = askedSoFar
      BY <1>2 DEF Resolve, ResolveTooLong
  <2>2. DOMAIN resolver' \subseteq DOMAIN resolver
        /\ \A k \in DOMAIN resolver' : resolver'[k] = resolver[k]
      BY <2>1 DEF Forgotten
  <2> QED
      BY <2>1, <2>2
<1>3. CASE IntegrationsEngineReady \/ IntegrationsEngineNotReady
    BY <1>3 DEF IntegrationsEngineReady, IntegrationsEngineNotReady
<1>4. CASE UNCHANGED dialogue
    BY <1>4 DEF dialogue
<1> QED
    BY <1>1, <1>2, <1>3, <1>4
    DEF IntNext, Load, InventoryRefreshWanted, LoadAsks, LoadAnswered, LoadFails, TimerFires,
        Write, ChangeAnswered, ChangeFails, ChangeRoots, ChangeAnnounced, SetProjectTrust, intVars

LEMMA IntTypesKept == IntTypes /\ [IntNext]_intVars => IntTypes'
BY IntEngineMoves, EngineStepInv, CallsKept, DialogueKept DEF IntTypes

-----------------------------------------------------------------------------
(* The canvas of a terminal.  No text is longer than the service keeps.      *)

CanvasRest ==
    /\ selectedId \in Shells \cup {NoShell} /\ drawn \in Shells \cup {NoShell}
    /\ attached \in Shells \cup {NoShell}
    /\ effectsDue \in BOOLEAN /\ loading \in BOOLEAN /\ xterm \in BOOLEAN
    /\ \A s \in Shells : Len(printed[s]) <= MaxTail
    /\ Len(latest) <= MaxTail /\ Len(rendered) <= MaxTail
    /\ ~xterm => screen = <<>>

LEMMA CanvasRestStart == CanvasInit => CanvasRest
<1>1. CanvasInit => effectsDue \in BOOLEAN /\ loading \in BOOLEAN /\ xterm \in BOOLEAN
    BY Zenon DEF CanvasInit
<1> QED
    BY <1>1, CanvasAssumption DEF CanvasInit, CanvasRest

LEMMA CanvasRestKept == CanvasInv /\ CanvasRest /\ [CanvasNext]_canvasVars => CanvasRest'
<1> SUFFICES ASSUME CanvasInv, CanvasRest, [CanvasNext]_canvasVars PROVE CanvasRest'
    OBVIOUS
<1> USE CanvasAssumption
<1>0. ShownShell \in Shells \cup {NoShell} /\ Len(OutputOf(ShownShell)) <= MaxTail
  <2>1. ShownShell \in Shells \cup {NoShell}
      BY DEF CanvasInv, CanvasTypes, ShownShell, ToSet
  <2> QED
      BY <2>1 DEF CanvasRest, OutputOf
<1>1. ASSUME UNCHANGED canvas, selectedId' \in Shells \cup {NoShell},
             \A s \in Shells : Len(printed'[s]) <= MaxTail
      PROVE  CanvasRest'
    BY <1>1 DEF canvas, CanvasRest
<1>2. ASSUME NEW s \in Shells, Created(s) \/ Cleared(s) PROVE CanvasRest'
  <2>1. \A r \in Shells : Len(printed'[r]) <= MaxTail
      BY <1>2 DEF Created, Cleared, CanvasInv, CanvasTypes, CanvasRest
  <2>2. selectedId' \in Shells \cup {NoShell} /\ UNCHANGED canvas
      BY <1>2 DEF Created, Cleared, CanvasRest
  <2> QED
      BY <1>1, <2>1, <2>2
<1>3. ASSUME NEW s \in Shells, NEW chunk \in Chunks, Prints(s, chunk) PROVE CanvasRest'
  <2> DEFINE all == Append(printed[s], chunk)
             text == SubSeq(all, IF Len(all) > MaxTail THEN 2 ELSE 1, Len(all))
  <2>1. all \in Seq(Chunks) /\ Len(all) \in Nat /\ Len(all) <= MaxTail + 1
      BY DEF CanvasInv, CanvasTypes, ShellText, CanvasRest
  <2>2. Len(text) <= MaxTail
    <3>1. CASE Len(all) > MaxTail
        BY <2>1, <3>1
    <3>2. CASE ~(Len(all) > MaxTail)
        BY <2>1, <3>2
    <3> QED
        BY <3>1, <3>2
  <2>3. printed' = [printed EXCEPT ![s] = text] /\ UNCHANGED <<tabs, selectedId, canvas>>
      BY <1>3 DEF Prints
  <2> HIDE DEF text
  <2>4. \A r \in Shells : Len(printed'[r]) <= MaxTail
      BY <2>2, <2>3 DEF CanvasInv, CanvasTypes, CanvasRest
  <2> QED
      BY <1>1, <2>3, <2>4 DEF CanvasRest
<1>4. ASSUME NEW s \in Shells, Select(s) PROVE CanvasRest'
    BY <1>1, <1>4 DEF Select, CanvasRest
<1>5. ASSUME NEW s \in Shells, NEW next \in Shells \cup {NoShell}, Closed(s, next)
      PROVE  CanvasRest'
    BY <1>1, <1>5 DEF Closed, CanvasRest
<1>6. CASE Render
  <2>1. effectsDue' \in BOOLEAN /\ loading' \in BOOLEAN /\ xterm' \in BOOLEAN
      BY <1>6, Zenon DEF Render, CanvasRest
  <2> QED
      BY <1>0, <1>6, <2>1 DEF Render, CanvasRest
<1>7. CASE SessionEffect
  <2>1. effectsDue' \in BOOLEAN /\ xterm' \in BOOLEAN
      BY <1>7, Zenon DEF SessionEffect
  <2>2. loading' \in BOOLEAN
    <3>1. (drawn # NoShell) \in BOOLEAN
        OBVIOUS
    <3> QED
        BY <1>7, <3>1, Zenon DEF SessionEffect
  <2>3. Len(rendered') <= MaxTail
      BY <1>7 DEF SessionEffect, CanvasRest
  <2> QED
      BY <1>7, <2>1, <2>2, <2>3 DEF SessionEffect, CanvasRest
<1>8. CASE OutputEffect
  <2>1. effectsDue' \in BOOLEAN /\ loading' \in BOOLEAN /\ xterm' \in BOOLEAN
      BY <1>8, Zenon DEF OutputEffect, CanvasRest
  <2>2. Len(rendered') <= MaxTail /\ (~xterm => UNCHANGED screen)
      BY <1>8 DEF OutputEffect, CanvasRest
  <2> QED
      BY <1>8, <2>1, <2>2 DEF OutputEffect, CanvasRest
<1>9. CASE XtermLoaded \/ XtermFails
  <2>1. effectsDue' \in BOOLEAN /\ loading' \in BOOLEAN /\ xterm' \in BOOLEAN
      BY <1>9, Zenon DEF XtermLoaded, XtermFails, CanvasRest
  <2>2. Len(rendered') <= MaxTail /\ (~xterm' => screen' = <<>>)
      BY <1>9 DEF XtermLoaded, XtermFails, CanvasRest
  <2> QED
      BY <1>9, <2>1, <2>2 DEF XtermLoaded, XtermFails, CanvasRest
<1>10. CASE UNCHANGED canvasVars
    BY <1>1, <1>10 DEF canvasVars, canvas, CanvasRest
<1> QED
    BY <1>2, <1>3, <1>4, <1>5, <1>6, <1>7, <1>8, <1>9, <1>10 DEF CanvasNext

LEMMA BoundedText ==
    ASSUME NEW text \in Seq(Chunks), Len(text) <= MaxTail
    PROVE  text \in ShownText
<1>1. Len(text) \in 0 .. MaxTail /\ text \in [1 .. Len(text) -> Chunks]
    BY CanvasAssumption
<1> QED
    BY <1>1 DEF ShownText

LEMMA CanvasTyped == CanvasInv /\ CanvasRest => CanvasTypeOK
<1> SUFFICES ASSUME CanvasInv, CanvasRest PROVE CanvasTypeOK
    OBVIOUS
<1>1. printed \in [Shells -> ShownText]
  <2>1. \A s \in Shells : printed[s] \in ShownText
      BY BoundedText DEF CanvasInv, CanvasTypes, ShellText, CanvasRest
  <2> QED
      BY <2>1 DEF CanvasInv, CanvasTypes
<1>2. latest \in ShownText /\ rendered \in ShownText
    BY BoundedText DEF CanvasInv, CanvasTypes, ShellText, CanvasRest
<1>3. screen \in ShownText
  <2>1. <<>> \in ShownText
    <3>1. <<>> \in [1 .. 0 -> Chunks] /\ 0 \in 0 .. MaxTail
        BY CanvasAssumption
    <3> QED
        BY <3>1, Zenon DEF ShownText
  <2> QED
      BY <1>2, <2>1 DEF CanvasInv, CanvasRest
<1>4. {effectsDue, loading, xterm} \subseteq BOOLEAN
  <2>1. effectsDue \in BOOLEAN /\ loading \in BOOLEAN /\ xterm \in BOOLEAN
      BY DEF CanvasRest
  <2> QED
      BY <2>1, Zenon
<1>5. \A n \in DOMAIN tabs : tabs[n] \in Shells
    BY DEF CanvasInv, CanvasTypes
<1> QED
    BY <1>1, <1>2, <1>3, <1>4, <1>5 DEF CanvasRest, CanvasTypeOK

-----------------------------------------------------------------------------
(* Goals.                                                                    *)

GoalRest ==
    /\ goalShown \in GoalNumbers \cup {None}
    /\ goalCall \in [GoalCalls -> GoalAsks \cup {"new", "handled"}]
    /\ goalPending \subseteq GoalCalls /\ goalHeld \in GoalNumbers
    /\ \A n \in DOMAIN goalWire : goalWire[n].goal \in GoalNumbers \cup {None}
    /\ goalOvertaken \in BOOLEAN /\ goalMissed \in BOOLEAN

LEMMA GoalRestStart == GoalInit => GoalRest
<1>1. GoalInit => goalOvertaken \in BOOLEAN /\ goalMissed \in BOOLEAN
    BY Zenon DEF GoalInit
<1> QED
    BY <1>1, GoalsAssumption DEF GoalInit, GoalRest, GoalNumbers

\* What the engine appends.
LEMMA LinesKeepTypes ==
    ASSUME GoalInv, GoalRest, NEW lines \in Seq(GoalLines), goalWire' = goalWire \o lines,
           \A k \in DOMAIN lines : lines[k].goal \in GoalNumbers \cup {None}
    PROVE  \A n \in DOMAIN goalWire' : goalWire'[n].goal \in GoalNumbers \cup {None}
<1> DEFINE a == Len(goalWire)
           b == Len(lines)
<1>1. /\ a \in Nat /\ b \in Nat /\ goalWire \in Seq(GoalLines)
      /\ DOMAIN goalWire = 1 .. a /\ DOMAIN lines = 1 .. b
    BY DEF GoalInv
<1>2. /\ goalWire' \in Seq(GoalLines) /\ Len(goalWire') = a + b
      /\ \A n \in 1 .. a + b : goalWire'[n] = IF n <= a THEN goalWire[n] ELSE lines[n - a]
    BY <1>1, ConcatProperties
<1>3. DOMAIN goalWire' = 1 .. a + b
    BY <1>1, <1>2, LenProperties
<1> HIDE DEF a, b
<1>4. ASSUME NEW n \in 1 .. a + b PROVE goalWire'[n].goal \in GoalNumbers \cup {None}
  <2>1. CASE n <= a
      BY <1>1, <1>2, <2>1 DEF GoalRest
  <2>2. CASE ~(n <= a)
    <3>1. n - a \in 1 .. b
        BY <1>1, <2>2
    <3> QED
        BY <1>1, <1>2, <2>2, <3>1
  <2> QED
      BY <2>1, <2>2
<1> QED
    BY <1>3, <1>4

LEMMA ReadKeepsTypes ==
    ASSUME GoalInv, GoalRest, NEW n \in DOMAIN goalWire, ReadGoals(n)
    PROVE  GoalRest'
<1> DEFINE chunk == SubSeq(goalWire, 1, n)
           L == Len(goalWire)
<1>1. /\ L \in Nat /\ DOMAIN goalWire = 1 .. L /\ n \in 1 .. L
      /\ goalWire \in Seq(GoalLines)
    BY DEF GoalInv
<1>2. /\ DOMAIN chunk = 1 .. n
      /\ \A m \in 1 .. n : chunk[m] = goalWire[m] /\ m \in DOMAIN goalWire
    BY <1>1
<1>3. /\ DOMAIN goalWire' = 1 .. L - n
      /\ \A m \in 1 .. L - n : goalWire'[m] = goalWire[n + m] /\ n + m \in DOMAIN goalWire
    BY <1>1 DEF ReadGoals
<1>4. /\ goalShown' = ShownAfter(chunk) /\ UNCHANGED <<goalCall, goalHeld>>
      /\ goalPending' \subseteq goalPending
    BY DEF ReadGoals
<1>5. goalOvertaken' \in BOOLEAN /\ goalMissed' \in BOOLEAN
  <2> HIDE DEF chunk
  <2>1. CASE Answers(chunk) \cup Notices(chunk) = {}
      BY <2>1, Zenon DEF ReadGoals, chunk, GoalRest
  <2>2. CASE Answers(chunk) \cup Notices(chunk) # {}
    <3>1. (Answers(chunk) # {} /\ \E m \in Notices(chunk) : m > Latest(Answers(chunk))) \in BOOLEAN
        OBVIOUS
    <3> QED
        BY <2>2, <3>1, Zenon DEF ReadGoals, chunk
  <2> QED
      BY <2>1, <2>2
<1> HIDE DEF chunk, L
<1>6. ShownAfter(chunk) \in GoalNumbers \cup {None}
  <2>1. Answers(chunk) \subseteq 1 .. n /\ Notices(chunk) \subseteq 1 .. n /\ n \in Nat
      BY <1>1, <1>2 DEF Answers, Notices
  <2>2. \A m \in 1 .. n : chunk[m].goal \in GoalNumbers \cup {None}
      BY <1>2 DEF GoalRest
  <2>3. Answers(chunk) # {} => Latest(Answers(chunk)) \in 1 .. n
      BY <2>1, LatestIsLast
  <2>4. Notices(chunk) # {} => Latest(Notices(chunk)) \in 1 .. n
      BY <2>1, LatestIsLast
  <2> QED
      BY <2>2, <2>3, <2>4 DEF ShownAfter, GoalRest
<1>7. \A m \in DOMAIN goalWire' : goalWire'[m].goal \in GoalNumbers \cup {None}
    BY <1>3 DEF GoalRest
<1> QED
    BY <1>4, <1>5, <1>6, <1>7 DEF GoalRest

LEMMA GoalRestKept == GoalInv /\ GoalRest /\ [GoalNext]_goalVars => GoalRest'
<1> SUFFICES ASSUME GoalInv, GoalRest, [GoalNext]_goalVars PROVE GoalRest'
    OBVIOUS
<1> USE GoalsAssumption
<1>0. UNCHANGED <<goalOvertaken, goalMissed>> => goalOvertaken' \in BOOLEAN /\ goalMissed' \in BOOLEAN
    BY DEF GoalRest
<1>a. goalHeld \in Nat /\ GoalNumbers \subseteq Nat
    BY DEF GoalInv, GoalNumbers
<1>1. ASSUME NEW c \in GoalCalls,
             SetThreadGoal(c) \/ ClearThreadGoal(c) \/ LoadThreadGoal(c) \/ GoalCallTimesOut(c)
      PROVE  GoalRest'
  <2>1. UNCHANGED <<goalShown, goalHeld, goalWire, goalOvertaken, goalMissed>>
      BY <1>1 DEF SetThreadGoal, ClearThreadGoal, LoadThreadGoal, AskGoal, GoalCallTimesOut
  <2>2. goalCall' \in [GoalCalls -> GoalAsks \cup {"new", "handled"}] /\ goalPending' \subseteq GoalCalls
      BY <1>1
      DEF SetThreadGoal, ClearThreadGoal, LoadThreadGoal, AskGoal, GoalCallTimesOut, GoalAsks, GoalRest
  <2> QED
      BY <1>0, <2>1, <2>2 DEF GoalRest
<1>2. ASSUME NEW lines \in Seq(GoalLines), Says(lines), goalHeld' \in GoalNumbers,
             \A k \in DOMAIN lines : lines[k].goal \in {None, goalHeld'},
             UNCHANGED <<goalShown, goalPending, goalOvertaken, goalMissed>>,
             goalCall' \in [GoalCalls -> GoalAsks \cup {"new", "handled"}]
      PROVE  GoalRest'
  <2>1. \A k \in DOMAIN lines : lines[k].goal \in GoalNumbers \cup {None}
      BY <1>2
  <2>2. \A n \in DOMAIN goalWire' : goalWire'[n].goal \in GoalNumbers \cup {None}
      BY <1>2, <2>1, LinesKeepTypes DEF Says
  <2> QED
      BY <1>0, <1>2, <2>2 DEF GoalRest
<1>3. ASSUME NEW c \in GoalCalls, EngineHandlesGoal(c) PROVE GoalRest'
  <2>1. /\ UNCHANGED <<goalShown, goalPending, goalOvertaken, goalMissed>>
        /\ goalCall' \in [GoalCalls -> GoalAsks \cup {"new", "handled"}]
      BY <1>3 DEF EngineHandlesGoal, GoalRest
  <2>2. goalHeld' \in GoalNumbers
      BY <1>3, <1>a DEF EngineHandlesGoal, GoalRest, GoalNumbers
  <2>3. /\ GoalAnswer(c, None) \in GoalLines /\ GoalAnswer(c, None).goal = None
        /\ GoalAnswer(c, goalHeld) \in GoalLines /\ GoalAnswer(c, goalHeld).goal = goalHeld
        /\ GoalAnswer(c, goalHeld') \in GoalLines /\ GoalAnswer(c, goalHeld').goal = goalHeld'
        /\ GoalNotice(goalHeld') \in GoalLines /\ GoalNotice(goalHeld').goal = goalHeld'
      BY <1>a, <2>2 DEF GoalAnswer, GoalNotice, GoalLines
  <2>4. CASE Says(<<GoalAnswer(c, None)>>)
      BY <1>2, <2>1, <2>2, <2>3, <2>4
  <2>5. CASE Says(<<GoalAnswer(c, goalHeld)>>) /\ UNCHANGED goalHeld
    <3> DEFINE lines == <<GoalAnswer(c, goalHeld)>>
    <3>1. lines \in Seq(GoalLines) /\ DOMAIN lines = {1} /\ lines[1].goal = goalHeld
        BY <2>3
    <3> HIDE DEF lines
    <3> QED
        BY <1>2, <2>1, <2>2, <2>5, <3>1 DEF lines
  <2>6. CASE Says(<<GoalAnswer(c, goalHeld'), GoalNotice(goalHeld')>>)
    <3> DEFINE lines == <<GoalAnswer(c, goalHeld'), GoalNotice(goalHeld')>>
    <3>1. /\ lines \in Seq(GoalLines) /\ DOMAIN lines = {1, 2}
          /\ lines[1].goal = goalHeld' /\ lines[2].goal = goalHeld'
        BY <2>3
    <3> HIDE DEF lines
    <3> QED
        BY <1>2, <2>1, <2>2, <2>6, <3>1 DEF lines
  <2>7. CASE Says(<<GoalNotice(goalHeld'), GoalAnswer(c, goalHeld')>>)
    <3> DEFINE lines == <<GoalNotice(goalHeld'), GoalAnswer(c, goalHeld')>>
    <3>1. /\ lines \in Seq(GoalLines) /\ DOMAIN lines = {1, 2}
          /\ lines[1].goal = goalHeld' /\ lines[2].goal = goalHeld'
        BY <2>3
    <3> HIDE DEF lines
    <3> QED
        BY <1>2, <2>1, <2>2, <2>7, <3>1 DEF lines
  <2> QED
      BY <1>3, <2>4, <2>5, <2>6, <2>7 DEF EngineHandlesGoal
<1>4. ASSUME NEW n \in DOMAIN goalWire, ReadGoals(n) PROVE GoalRest'
    BY <1>4, ReadKeepsTypes
<1>5. CASE EngineChangesGoal
  <2>1. goalHeld' \in GoalNumbers
      BY <1>5, <1>a DEF EngineChangesGoal, GoalNumbers
  <2>2. GoalNotice(goalHeld') \in GoalLines /\ GoalNotice(goalHeld').goal = goalHeld'
      BY <1>a, <2>1 DEF GoalNotice, GoalLines
  <2>3. Says(<<GoalNotice(goalHeld')>>)
        /\ UNCHANGED <<goalShown, goalCall, goalPending, goalOvertaken, goalMissed>>
      BY <1>5 DEF EngineChangesGoal
  <2> QED
    <3> DEFINE lines == <<GoalNotice(goalHeld')>>
    <3>1. lines \in Seq(GoalLines) /\ DOMAIN lines = {1} /\ lines[1].goal = goalHeld'
        BY <2>2
    <3>2. Says(lines) /\ UNCHANGED <<goalShown, goalCall, goalPending, goalOvertaken, goalMissed>>
        BY <2>3
    <3> HIDE DEF lines
    <3> QED
        BY <1>2, <2>1, <3>1, <3>2 DEF GoalRest
<1>6. CASE EngineLosesGoals
  <2>1. goalMissed' \in BOOLEAN /\ goalOvertaken' \in BOOLEAN
    <3>1. (goalMissed \/ Notices(goalWire) # {}) \in BOOLEAN
        OBVIOUS
    <3>2. goalMissed' = (goalMissed \/ Notices(goalWire) # {}) /\ UNCHANGED goalOvertaken
        BY <1>6 DEF EngineLosesGoals
    <3> QED
        BY <3>1, <3>2, Zenon DEF GoalRest
  <2>2. goalWire' = <<>> /\ goalPending' = {} /\ UNCHANGED <<goalShown, goalHeld>>
      BY <1>6 DEF EngineLosesGoals
  <2>3. goalCall' \in [GoalCalls -> GoalAsks \cup {"new", "handled"}]
      BY <1>6 DEF EngineLosesGoals
  <2> QED
      BY <2>1, <2>2, <2>3 DEF GoalRest
<1>7. CASE UNCHANGED goalVars
    BY <1>0, <1>7 DEF goalVars, GoalRest
<1> QED
    BY <1>1, <1>3, <1>4, <1>5, <1>6, <1>7 DEF GoalNext

LEMMA GoalTyped == GoalInv /\ GoalRest => GoalTypeOK
<1> SUFFICES ASSUME GoalInv, GoalRest PROVE GoalTypeOK
    OBVIOUS
<1>1. {goalOvertaken, goalMissed} \subseteq BOOLEAN
  <2>1. goalOvertaken \in BOOLEAN /\ goalMissed \in BOOLEAN
      BY DEF GoalRest
  <2> QED
      BY <2>1, Zenon
<1>2. \A n \in DOMAIN goalWire : goalWire[n].to \in GoalCalls \cup {"everyone"}
  <2>1. \A n \in DOMAIN goalWire : goalWire[n] \in GoalLines
      BY DEF GoalInv
  <2> QED
      BY <2>1 DEF GoalLines
<1> QED
    BY <1>1, <1>2 DEF GoalRest, GoalTypeOK

-----------------------------------------------------------------------------
(* Permissions.                                                              *)

\* Counted from the start, the elements of a set of numbers have the places 1, 2, ...
LEMMA PlaceIsTaken ==
    ASSUME NEW n \in Nat, NEW K, K \subseteq 1 .. n, NEW m \in 1 .. Cardinality(K)
    PROVE  \E i \in K : Cardinality({j \in K : j <= i}) = m
<1> DEFINE Upto(i) == {j \in K : j <= i}
           Reached == {i \in 0 .. n : m <= Cardinality(Upto(i))}
<1>0. \A j \in K : j \in Nat /\ 1 <= j /\ j <= n
    OBVIOUS
<1>a. IsFiniteSet(1 .. n)
    BY FS_Interval
<1>1. ASSUME NEW i \in 0 .. n
      PROVE  IsFiniteSet(Upto(i)) /\ Cardinality(Upto(i)) \in Nat
  <2>1. Upto(i) \subseteq 1 .. n
      OBVIOUS
  <2> HIDE DEF Upto
  <2> QED
      BY <1>a, <2>1, FS_Subset, FS_CardinalityType
<1>2. Upto(n) = K
    BY <1>0, Zenon
<1>3. m \in Nat /\ m <= Cardinality(K)
  <2>1. Cardinality(K) \in Nat
      BY <1>a, FS_Subset, FS_CardinalityType
  <2> QED
      BY <2>1
<1>4. PICK x \in Reached : \A y \in Reached : x <= y
  <2>1. n \in Reached
    <3>1. n \in 0 .. n
        OBVIOUS
    <3> HIDE DEF Upto
    <3> QED
        BY <1>2, <1>3, <3>1
  <2>2. Reached \subseteq Nat
      OBVIOUS
  <2> HIDE DEF Reached
  <2> QED
      BY <2>1, <2>2, LeastExists
<1>5. x # 0
  <2>1. Upto(0) = {}
    <3>1. \A j \in K : ~(j <= 0)
        BY <1>0
    <3> QED
        BY <3>1, Zenon
  <2>2. Cardinality(Upto(0)) = 0
      BY <2>1, FS_EmptySet
  <2>3. m <= Cardinality(Upto(x))
      OBVIOUS
  <2>4. m # 0
      BY <1>1, <1>2
  <2> QED
      BY <1>3, <2>2, <2>3, <2>4
<1>6. x - 1 \in 0 .. n /\ x \in 1 .. n /\ ~(x <= x - 1)
    BY <1>5
<1>7. ~(m <= Cardinality(Upto(x - 1)))
  <2>1. x - 1 \notin Reached
      BY <1>4, <1>6
  <2> QED
      BY <1>6, <2>1
<1>8. m <= Cardinality(Upto(x))
    OBVIOUS
<1> DEFINE before == Upto(x - 1)
           upto == Upto(x)
<1>9. upto \ {x} = before /\ x \notin before /\ (x \in upto <=> x \in K)
  <2>1. \A j \in K : j <= x /\ j # x <=> j <= x - 1
      BY <1>0, <1>6
  <2>2. x <= x
      BY <1>6
  <2> QED
      BY <1>6, <2>1, <2>2
<1>10. IsFiniteSet(before) /\ Cardinality(before) \in Nat /\ Cardinality(upto) \in Nat
    BY <1>1, <1>6
<1>11. ~(m <= Cardinality(before)) /\ m <= Cardinality(upto)
    BY <1>7, <1>8
<1> HIDE DEF before, upto
<1>12. x \in K /\ upto = before \cup {x}
    BY <1>9, <1>11
<1>13. Cardinality(upto) = Cardinality(before) + 1
    BY <1>9, <1>10, <1>12, FS_AddElement
<1>14. Cardinality(upto) = m
    BY <1>3, <1>10, <1>11, <1>13
<1> QED
    BY <1>12, <1>14 DEF upto

LEMMA KnownAreItems ==
    ASSUME NEW entries \in UpTo(PermissionEntries, MaxEntries)
    PROVE  Known(entries) \in Seq(PermissionItems)
<1> DEFINE K == {i \in DOMAIN entries : entries[i].access # "none" /\ entries[i].target # NoTarget}
           at(m) == CHOOSE i \in K : Cardinality({j \in K : j <= i}) = m
<1>1. PICK n \in Nat : entries \in [1 .. n -> PermissionEntries]
    BY PermissionsAssumption DEF UpTo
<1>2. K \subseteq 1 .. n
    BY <1>1
<1>3. Cardinality(K) \in Nat
  <2>1. IsFiniteSet(1 .. n)
      BY FS_Interval
  <2> HIDE DEF K
  <2> QED
      BY <1>2, <2>1, FS_Subset, FS_CardinalityType
<1>4. Known(entries) = [m \in 1 .. Cardinality(K) |->
          LET e == entries[at(m)] IN Item("entry", e.access, e.target)]
    BY DEF Known
<1>5. \A i \in K : Item("entry", entries[i].access, entries[i].target) \in PermissionItems
  <2>1. \A i \in K : entries[i] \in PermissionEntries
      BY <1>1
  <2> QED
      BY <2>1 DEF PermissionEntries, PermissionItems, Item
<1> HIDE DEF K
<1>6. ASSUME NEW m \in 1 .. Cardinality(K) PROVE at(m) \in K
    BY <1>2, PlaceIsTaken
<1> QED
  <2> DEFINE f == [m \in 1 .. Cardinality(K) |->
                   LET e == entries[at(m)] IN Item("entry", e.access, e.target)]
  <2>1. \A m \in 1 .. Cardinality(K) : f[m] \in PermissionItems
      BY <1>5, <1>6
  <2>2. f \in [1 .. Cardinality(K) -> PermissionItems]
      BY <2>1
  <2>3. Known(entries) = f
      BY <1>4
  <2> HIDE DEF f
  <2> QED
      BY <1>3, <2>2, <2>3

LEMMA LegacyAreItems ==
    ASSUME NEW section \in {"legacyRead", "legacyWrite"}, NEW access \in Accesses,
           NEW targets \in UpTo(Targets, MaxListed)
    PROVE  LegacyList(section, access, targets) \in Seq(PermissionItems)
<1>1. PICK n \in Nat : targets \in [1 .. n -> Targets]
    BY PermissionsAssumption DEF UpTo
<1>2. \A i \in 1 .. n : Item(section, access, targets[i]) \in PermissionItems
    BY <1>1 DEF Item, PermissionItems
<1> QED
  <2> DEFINE f == LegacyList(section, access, targets)
  <2>1. f = [i \in 1 .. n |-> Item(section, access, targets[i])]
      BY <1>1 DEF LegacyList
  <2> HIDE DEF f
  <2>2. f \in [1 .. n -> PermissionItems]
      BY <1>2, <2>1
  <2> QED
      BY <2>2 DEF f

LEMMA AskedAreItems ==
    ASSUME NEW p \in Profiles
    PROVE  Asked(p) \in Seq(PermissionItems)
<1> DEFINE a == IF p.network THEN <<Item("network", "network", NoTarget)>> ELSE <<>>
           b == LegacyList("legacyRead", "read", p.read)
           c == LegacyList("legacyWrite", "write", p.write)
           d == Known(p.entries)
<1>1. a \in Seq(PermissionItems)
  <2>1. Item("network", "network", NoTarget) \in PermissionItems
      BY DEF Item, PermissionItems
  <2> QED
      BY <2>1
<1>2. b \in Seq(PermissionItems) /\ c \in Seq(PermissionItems) /\ d \in Seq(PermissionItems)
  <2>1. /\ p.read \in UpTo(Targets, MaxListed) /\ p.write \in UpTo(Targets, MaxListed)
        /\ p.entries \in UpTo(PermissionEntries, MaxEntries)
      BY DEF Profiles
  <2> QED
      BY <2>1, LegacyAreItems, KnownAreItems DEF Accesses
<1>3. Asked(p) = ((a \o b) \o c) \o d
    BY DEF Asked
<1> HIDE DEF a, b, c, d
<1>4. a \o b \in Seq(PermissionItems)
    BY <1>1, <1>2, ConcatProperties
<1>5. (a \o b) \o c \in Seq(PermissionItems)
    BY <1>2, <1>4, ConcatProperties
<1> QED
    BY <1>2, <1>3, <1>5, ConcatProperties

Options == [id : PermissionIds, item : PermissionItems]

LEMMA OptionsTyped ==
    ASSUME NEW p \in Profiles
    PROVE  ParsePermissionRequest(p) \in Seq(Options)
<1> DEFINE items == Asked(p)
           n == IF Len(items) < MaxPermissionOptions THEN Len(items) ELSE MaxPermissionOptions
<1>1. items \in Seq(PermissionItems) /\ Len(items) \in Nat
    BY AskedAreItems
<1>2. n \in Nat /\ n <= Len(items) /\ n <= MaxPermissionOptions
    BY <1>1, PermissionsAssumption
<1>3. ParsePermissionRequest(p) = [i \in 1 .. n |-> [id |-> OptionId(items, i), item |-> items[i]]]
    BY DEF ParsePermissionRequest
<1> HIDE DEF n, items
<1>4. ASSUME NEW i \in 1 .. n PROVE [id |-> OptionId(items, i), item |-> items[i]] \in Options
  <2>1. items[i] \in PermissionItems
      BY <1>1, <1>2
  <2>2. OptionId(items, i) \in PermissionIds
    <3>1. i - 1 \in 0 .. MaxPermissionOptions
        BY <1>2, PermissionsAssumption
    <3> QED
        BY <3>1 DEF OptionId, PermissionIds
  <2> QED
      BY <2>1, <2>2 DEF Options
<1> QED
    BY <1>2, <1>3, <1>4

\* What PermissionInv leaves open.
PermissionRest ==
    /\ decision \in {"none", "accept", "acceptForSession", "decline", "cancel", "disposed"}
    /\ reply.depth \in BOOLEAN /\ reply.scope \in {"none", "turn", "session"}

LEMMA PermissionRestStart == PermissionInit => PermissionRest
<1>1. FALSE \in BOOLEAN
    OBVIOUS
<1> QED
    BY <1>1 DEF PermissionInit, PermissionRest, NoReply

LEMMA PermissionRestKept ==
    PermissionInv /\ PermissionRest /\ [PermissionNext]_permissionVars => PermissionRest'
<1> SUFFICES ASSUME PermissionInv, PermissionRest, [PermissionNext]_permissionVars
             PROVE  PermissionRest'
    OBVIOUS
<1>1. CASE RequestPermissionsApproval
  <2>1. reply' = [NoReply EXCEPT !.scope = "turn"] \/ reply' = reply
      BY <1>1 DEF RequestPermissionsApproval
  <2>2. FALSE \in BOOLEAN /\ decision' = decision
      BY <1>1 DEF RequestPermissionsApproval
  <2> QED
      BY <2>1, <2>2 DEF PermissionRest, NoReply
<1>2. ASSUME NEW id \in PermissionIds, Toggle(id) PROVE PermissionRest'
    BY <1>2 DEF Toggle, PermissionRest
<1>3. ASSUME NEW answer \in {"accept", "acceptForSession", "decline", "cancel", "disposed"},
             Decide(answer)
      PROVE  PermissionRest'
  <2>1. decision' = answer /\ reply' = PermissionApprovalResult(answer, parsed, ticked)
      BY <1>3 DEF Decide
  <2>2. CASE answer \in {"decline", "cancel", "disposed"}
    <3>1. FALSE \in BOOLEAN
        OBVIOUS
    <3> QED
        BY <2>1, <2>2, <3>1 DEF PermissionApprovalResult, PermissionRest
  <2>3. CASE answer \in {"accept", "acceptForSession"}
    <3> DEFINE granted == {OptionFor(parsed, id) : id \in ticked}
               depth == profile.depth /\ \E g \in granted : g.section = "entry"
    <3>1. depth \in BOOLEAN
        OBVIOUS
    <3>2. reply' = [granted |-> granted, depth |-> depth,
                    scope |-> IF answer = "acceptForSession" THEN "session" ELSE "turn"]
        BY <2>1, <2>3 DEF PermissionApprovalResult
    <3> HIDE DEF granted, depth
    <3> QED
        BY <2>1, <3>1, <3>2 DEF PermissionRest
  <2> QED
      BY <2>2, <2>3
<1>4. CASE UNCHANGED permissionVars
    BY <1>4 DEF permissionVars, PermissionRest
<1> QED
    BY <1>1, <1>2, <1>3, <1>4 DEF PermissionNext

LEMMA PermissionTyped == PermissionInv /\ PermissionRest => PermissionTypeOK
<1> SUFFICES ASSUME PermissionInv, PermissionRest PROVE PermissionTypeOK
    OBVIOUS
<1>1. card \in Seq(Options)
  <2>1. <<>> \in Seq(Options)
      OBVIOUS
  <2> QED
      BY <2>1, OptionsTyped, Zenon DEF PermissionInv
<1>2. \A o \in ToSet(card) : o.id \in PermissionIds /\ o.item \in PermissionItems
  <2>1. \A i \in DOMAIN card : card[i] \in Options
      BY <1>1
  <2>2. ToSet(card) \subseteq Options
      BY <2>1, Zenon DEF ToSet
  <2> QED
      BY <2>2 DEF Options
<1>3. ticked \subseteq PermissionIds
    BY <1>2 DEF PermissionInv, OptionIds
<1>4. reply.granted \subseteq PermissionItems
    BY <1>2 DEF PermissionInv, GrantIsWhatWasShown
<1>5. profile \in Profiles /\ parsed \in {<<>>, card}
    BY DEF PermissionInv
<1> QED
    BY <1>1, <1>3, <1>4, <1>5 DEF PermissionRest, PermissionTypeOK, Options

-----------------------------------------------------------------------------
(* The logs, whose invariant holds their types, and the estimate of use.     *)

LEMMA LogTyped == LogInv => LogTypeOK
<1> SUFFICES ASSUME LogInv PROVE LogTypeOK
    OBVIOUS
<1>1. crashes \in Seq(1 .. MaxCrashes)
  <2>1. 1 .. recorded \subseteq 1 .. MaxCrashes
      BY LogsAssumption DEF LogInv, CrashesInv
  <2> QED
      BY <2>1, SeqMonotonic DEF LogInv, CrashesInv
<1> QED
    BY <1>1 DEF LogInv, LinesInv, CrashesInv, CrashFiles, LogStages, LogTypeOK

UsageRest == hour \in ObservedAt /\ reports \in 0 .. MaxReports /\ uneven \in BOOLEAN

LEMMA UsageRestStart == UsageInit => UsageRest
<1>1. UsageInit => uneven \in BOOLEAN
    BY Zenon DEF UsageInit
<1> QED
    BY <1>1, UsageAssumption DEF UsageInit, UsageRest

LEMMA UsageRestKept == UsageRest /\ [UsageNext]_usageVars => UsageRest'
<1> SUFFICES ASSUME UsageRest, [UsageNext]_usageVars PROVE UsageRest'
    OBVIOUS
<1>1. CASE HourPasses
    BY <1>1 DEF HourPasses, UsageRest
<1>2. ASSUME NEW usage \in Reports, NEW again \in BOOLEAN, Report(usage, again)
      PROVE  UsageRest'
  <2>1. uneven' \in BOOLEAN
    <3> DEFINE fell == \/ uneven
                       \/ again
                       \/ usage.cached - previous.cached > usage.input - previous.input
    <3>1. fell \in BOOLEAN
        OBVIOUS
    <3>2. uneven' = fell
        BY <1>2, Zenon DEF Report
    <3> HIDE DEF fell
    <3> QED
        BY <3>1, <3>2
  <2>2. hour' = hour /\ reports' = reports + 1 /\ reports < MaxReports
      BY <1>2 DEF Report
  <2> QED
      BY <2>1, <2>2, UsageAssumption DEF UsageRest
<1>3. CASE UNCHANGED usageVars
    BY <1>3 DEF usageVars, UsageRest
<1> QED
    BY <1>1, <1>2, <1>3 DEF UsageNext

LEMMA UsageTyped == UsageInv /\ UsageRest => UsageTypeOK
BY DEF UsageInv, UsageRest, UsageTypeOK

-----------------------------------------------------------------------------
(* Conversations.                                                            *)

\* What ConvInv leaves open.
ConvRest == archived \subseteq Convs /\ wiped \subseteq Convs /\ made \in 0 .. MaxCalls

LEMMA ConvRestStart == ConvInit => ConvRest
BY ServiceBoundsAssumption DEF ConvInit, ConvRest

LEMMA BeginKeepsRest ==
    ASSUME ConvInv, ConvRest, NEW c \in Slots, NEW o, NEW asks, NEW t \in Convs \cup {None}, NEW p,
           o = "delete" => t \in Convs, Begin(c, o, asks, t, p)
    PROVE  ConvRest'
<1>1. archived' = archived /\ made < MaxCalls /\ made' = made + 1
      /\ wiped' = IF o = "delete" THEN wiped \cup {root[t]} ELSE wiped
    BY DEF Begin, database
<1>2. o = "delete" => root[t] \in Convs
    BY DEF ConvInv, ConvDataOK
<1> QED
    BY <1>1, <1>2, ServiceBoundsAssumption DEF ConvRest

LEMMA RowKeepsRest ==
    ASSUME ConvRest, UNCHANGED <<wiped, made>>,
           \/ UNCHANGED archived
           \/ \E p, flag : \E ts \in SUBSET Convs : Associate(p, ts, flag)
           \/ \E flag : \E t \in Convs : SetArchived(t, flag)
           \/ \E t : RemoveAssociation(t)
    PROVE  ConvRest'
BY DEF ConvRest, Associate, SetArchived, RemoveAssociation

LEMMA ConvRestKept == ConvInv /\ ConvRest /\ [ConvNext]_convVars => ConvRest'
<1> SUFFICES ASSUME ConvInv, ConvRest, [ConvNext]_convVars PROVE ConvRest'
    OBVIOUS
<1>1. CASE UNCHANGED convVars
    BY <1>1 DEF ConvRest, convVars, database
<1>2. ASSUME NEW c \in Slots, NEW p \in Projects, NEW a \in BOOLEAN, LoadProject(c, p, a)
      PROVE  ConvRest'
    BY <1>2, ServiceBoundsAssumption DEF LoadProject, ConvRest, database
<1>3. ASSUME NEW c \in Slots, NEW t \in Convs,
             \/ SelectThread(c, t) \/ ArchiveThread(c, t) \/ UnarchiveThread(c, t)
             \/ DeleteThread(c, t) \/ ForkThread(c, t) \/ SwitchProvider(c, t)
             \/ ContinueArchived(c, t) \/ \E p \in Projects : OpenLinkedThread(c, p, t)
      PROVE  ConvRest'
    BY <1>3, BeginKeepsRest DEF SelectThread, ArchiveThread, UnarchiveThread, DeleteThread,
       ForkThread, SwitchProvider, ContinueArchived, OpenLinkedThread
<1>4. ASSUME NEW c \in Slots, NEW o \in Ops, NEW p \in Projects, StartConversation(c, o, p)
      PROVE  ConvRest'
    BY <1>4, BeginKeepsRest DEF StartConversation
<1>5. ASSUME NEW c \in Slots PROVE
        /\ op[c] \in CallTypes /\ CallOK(op[c]) /\ ExistingConvs \subseteq Convs
        /\ op[c].op \notin {"none", "load", "start", "scheduled"} => op[c].conv \in Convs
        /\ op[c].page \in SUBSET Convs
        /\ \/ Given(c, "fork")
           \/ op[c].op \in {"start", "scheduled"} /\ op[c].answer = "given"
           \/ Given(c, "migrate") /\ op[c].asks = "make"
           => op[c].new \in Convs
    BY Call DEF CallOK, CallTypes, ExistingConvs, AsksFor, Given, AnswerOK
<1>6. ASSUME NEW c \in Slots, Serve(c) PROVE ConvRest'
  <2>1. UNCHANGED <<wiped, made>>
    BY <1>6 DEF Serve
  <2>2. CASE \E a : EngineReads(c, a)
    BY <2>1, <2>2, RowKeepsRest DEF EngineReads, database
  <2>3. CASE \E a, h : EngineArchives(c, a, h) \/ EngineUnarchives(c, a, h)
    <3>1. op[c].asks \in {"archive", "unarchive"}
        BY <2>3 DEF EngineArchives, EngineUnarchives
    <3>2. op[c].conv \in Convs
        BY <1>5, <3>1 DEF CallOK, AsksFor
    <3> QED
        BY <2>1, <2>3, <3>2, RowKeepsRest DEF EngineArchives, EngineUnarchives
  <2>4. CASE \E a, h : EngineDeletes(c, a, h)
    BY <2>1, <2>4, RowKeepsRest DEF EngineDeletes, database
  <2>5. CASE \E a, h, t : EngineMakes(c, a, h, t)
    BY <2>1, <2>5, RowKeepsRest DEF EngineMakes, database
  <2> QED
    BY <1>6, <2>2, <2>3, <2>4, <2>5 DEF Serve
<1>7. ASSUME NEW c \in Slots, PageArrives(c) \/ ListShown(c) \/ LinkOpened(c) PROVE ConvRest'
  <2>1. CASE ListShown(c) \/ LinkOpened(c)
    BY <2>1, RowKeepsRest DEF ListShown, LinkOpened, database
  <2>2. CASE PageArrives(c)
    <3>1. UNCHANGED <<wiped, made>> /\ \E p, flag : Associate(p, op[c].page, flag)
        BY <2>2 DEF PageArrives
    <3> QED
        BY <1>5, <3>1, RowKeepsRest
  <2> QED
    BY <1>7, <2>1, <2>2
<1>8. ASSUME NEW c \in Slots, Forked(c) \/ Started(c) PROVE ConvRest'
  <2>1. op[c].new \in Convs /\ UNCHANGED <<wiped, made>>
    BY <1>5, <1>8 DEF Forked, Started
  <2>2. UNCHANGED archived \/ \E p, flag : Associate(p, {op[c].new}, flag)
    BY <1>8 DEF Forked, Started
  <2> QED
    BY <2>1, <2>2, RowKeepsRest
<1>9. ASSUME NEW c \in Slots, Selected(c) \/ Changed(c) \/ Restored(c) PROVE ConvRest'
  <2>1. op[c].conv \in Convs /\ UNCHANGED <<wiped, made>>
    BY <1>5, <1>9 DEF Selected, Changed, Restored, Given
  <2>2. \/ UNCHANGED archived \/ \E p, flag : Associate(p, {op[c].conv}, flag)
        \/ \E flag : SetArchived(op[c].conv, flag) \/ RemoveAssociation(op[c].conv)
    BY <1>9 DEF Selected, Changed, Restored
  <2> QED
    BY <2>1, <2>2, RowKeepsRest
<1>10. ASSUME NEW c \in Slots, MigrationMade(c) PROVE ConvRest'
  <2>1. op[c].new \in Convs /\ UNCHANGED <<wiped, made>>
    BY <1>5, <1>10 DEF MigrationMade
  <2>2. UNCHANGED archived \/ \E p, flag : Associate(p, {op[c].new}, flag)
    BY <1>10 DEF MigrationMade, database
  <2> QED
    BY <2>1, <2>2, RowKeepsRest
<1>11. ASSUME NEW c \in Slots, MigrationCommits(c) PROVE ConvRest'
  <2>1. op[c].conv \in Convs /\ UNCHANGED <<wiped, made>> /\ SetArchived(op[c].conv, TRUE)
    BY <1>5, <1>11 DEF MigrationCommits, Given
  <2> QED
    BY <2>1, RowKeepsRest
<1>12. ASSUME NEW c \in Slots,
              MigrationFails(c) \/ RollbackEnds(c) \/ CallFails(c) \/ FoundArchived(c)
       PROVE  ConvRest'
    BY <1>12 DEF MigrationFails, RollbackEnds, CallFails, FoundArchived, ConvRest, database
<1>13. CASE AppRestarts \/ \E t \in Convs : SetThreadPinned(t)
    BY <1>13 DEF AppRestarts, SetThreadPinned, ConvRest, database
<1> QED
    BY <1>1, <1>2, <1>3, <1>4, <1>6, <1>7, <1>8, <1>9, <1>10, <1>11, <1>12, <1>13
    DEF ConvNext, ConvStep

LEMMA ConvTyped == ConvInv /\ ConvRest => ConvTypeOK
<1> SUFFICES ASSUME ConvInv, ConvRest PROVE ConvTypeOK
    OBVIOUS
<1>1. ExistingConvs \subseteq Convs
    BY DEF ExistingConvs
<1>2. owned \subseteq Convs
    BY <1>1 DEF ConvInv, RowsOK
<1>3. view \in [project : Projects \cup {None}, archived : BOOLEAN,
                listed : SUBSET Convs, selected : Convs \cup {None}]
    BY <1>1 DEF ConvInv, ConvDataOK, ViewTypes
<1> QED
    BY <1>2, <1>3 DEF ConvInv, ConvDataOK, ConvRest, ConvTypeOK, CallTypes

-----------------------------------------------------------------------------
(* Activity.  Text and output share the limit when an item is shown; later   *)
(* each of them stays within it.                                             *)

TextLengths == 0 .. Longer(MaxText, MaxOutput)

\* What ActivityInv leaves open.
ActivityRest ==
    /\ turn \in {"before", "running", "over"}
    /\ turnStatus \in {"idle", "inProgress", "completed", "failed", "interrupted"}
    /\ missed \subseteq Items
    /\ \A i \in Items : full[i].text \in TextLengths /\ full[i].output \in 0 .. MaxOutput
    /\ \A i \in DOMAIN activities : activities[i].text <= Limit /\ activities[i].output <= Limit

Within(a) == a.text <= Limit /\ a.output <= Limit

LEMMA LengthsAreTexts == 0 .. MaxText \subseteq TextLengths /\ 0 .. MaxOutput \subseteq TextLengths
BY ActivityAssumption DEF TextLengths, Longer

LEMMA ActivityRestStart == ActivityInit => ActivityRest
<1> SUFFICES ASSUME ActivityInit PROVE ActivityRest
    OBVIOUS
<1>1. DOMAIN activities = {}
    BY DEF ActivityInit
<1>2. \A i \in Items : full[i].text = 0 /\ full[i].output = 0
    BY DEF ActivityInit
<1> QED
    BY <1>1, <1>2, LengthsAreTexts, ActivityAssumption DEF ActivityInit, ActivityRest

LEMMA ItemIsWithin ==
    ASSUME NEW text \in Nat, NEW output \in Nat, NEW status
    PROVE  Within(ItemToActivity(text, output, status))
<1> DEFINE safe == AtMost(text, Limit)
           rest == AtMost(output, Limit - safe)
<1>1. safe \in Nat /\ safe <= Limit
    BY ActivityAssumption DEF AtMost
<1>2. ItemToActivity(text, output, status).text = safe
      /\ ItemToActivity(text, output, status).output = rest
    BY DEF ItemToActivity
<1> HIDE DEF safe
<1>3. rest <= Limit
    BY <1>1, ActivityAssumption DEF AtMost
<1> QED
    BY <1>1, <1>2, <1>3 DEF Within

LEMMA MergeIsWithin ==
    ASSUME NEW k \in Kinds, NEW old \in ShownItems, NEW new \in ShownItems, Within(old), Within(new)
    PROVE  Within(MergeSameType(k, old, new))
<1>1. /\ old.text \in Nat /\ old.output \in Nat /\ new.text \in Nat /\ new.output \in Nat
      /\ old.text <= Limit /\ old.output <= Limit /\ new.text <= Limit /\ new.output <= Limit
    BY DEF ShownItems, Within
<1>2. MergedText(k, old, new) <= Limit
    BY <1>1 DEF MergedText, Longer, Kinds
<1>3. MergedOutput(k, old, new) <= Limit
    BY <1>1 DEF MergedOutput, Longer
<1> QED
    BY <1>2, <1>3, MergeShows DEF Within

LEMMA PutIsWithin ==
    ASSUME ActivityInv, ActivityRest, NEW i, NEW a, Within(a), activities' = Put(i, a)
    PROVE  \A j \in DOMAIN activities' : Within(activities'[j])
BY DEF Put, Within, ActivityRest

LEMMA UpsertIsWithin ==
    ASSUME ActivityInv, ActivityRest, NEW i \in Items, NEW text \in Nat, NEW output \in Nat,
           NEW status \in ActivityStatus,
           activities' = Upsert(i, ItemToActivity(text, output, status))
    PROVE  \A j \in DOMAIN activities' : Within(activities'[j])
<1> DEFINE new == ItemToActivity(text, output, status)
<1>1. new \in ShownItems /\ Within(new) /\ kind[i] \in Kinds
    BY ItemShows, ItemIsWithin DEF ActivityInv, SentIsTyped
<1>2. activities' = Upsert(i, new)
    OBVIOUS
<1> HIDE DEF new
<1>3. CASE i \in DOMAIN activities
  <2>1. activities[i] \in ShownItems /\ Within(activities[i])
    BY <1>3 DEF ActivityInv, SentIsTyped, ActivityRest, Within
  <2>2. Within(MergeSameType(kind[i], activities[i], new))
    BY <1>1, <2>1, MergeIsWithin
  <2> QED
    BY <1>2, <1>3, <2>2, PutIsWithin DEF Upsert
<1>4. CASE i \notin DOMAIN activities
    BY <1>1, <1>2, <1>4, PutIsWithin DEF Upsert
<1> QED
    BY <1>3, <1>4

LEMMA ItemKeepsRest ==
    ASSUME ActivityInv, ActivityRest, NEW i \in Items,
           \/ \E n \in 0 .. MaxText, raw \in RawStatus : ItemStarted(i, n, raw)
           \/ \E n \in 0 .. MaxOutput, raw \in RawStatus : ItemCompleted(i, n, raw)
    PROVE  ActivityRest'
<1>0. /\ full \in [Items -> [text : Nat, output : Nat]] /\ full[i].text \in Nat
      /\ {MaxText, MaxOutput} \subseteq Nat
    BY ActivityAssumption DEF ActivityInv, SentIsTyped
<1>1. CASE \E n \in 0 .. MaxText, raw \in RawStatus : ItemStarted(i, n, raw)
  <2>1. PICK n \in 0 .. MaxText, raw \in RawStatus : ItemStarted(i, n, raw)
    BY <1>1
  <2> DEFINE text == IF kind[i] = "message" THEN 0 ELSE n
             status == ItemStatus(raw, "started")
  <2>2. text \in Nat /\ text \in TextLengths
    BY <1>0, LengthsAreTexts
  <2>3. status \in ActivityStatus
    BY DEF ItemStatus, ActivityStatus, RawStatus
  <2> HIDE DEF text, status
  <2>4. full' = [full EXCEPT ![i].text = text] /\ UNCHANGED <<turn, turnStatus, missed>>
    BY <2>1 DEF ItemStarted, text
  <2>5. \A j \in Items : full'[j].text \in TextLengths /\ full'[j].output \in 0 .. MaxOutput
    BY <1>0, <2>2, <2>4 DEF ActivityRest
  <2>6. activities' = Upsert(i, ItemToActivity(text, 0, status))
    BY <1>0, <2>1, <2>4 DEF ItemStarted, status
  <2>7. \A j \in DOMAIN activities' : Within(activities'[j])
    BY <2>2, <2>3, <2>6, UpsertIsWithin
  <2> QED
    BY <2>4, <2>5, <2>7 DEF ActivityRest, Within
<1>2. CASE \E n \in 0 .. MaxOutput, raw \in RawStatus : ItemCompleted(i, n, raw)
  <2>1. PICK n \in 0 .. MaxOutput, raw \in RawStatus : ItemCompleted(i, n, raw)
    BY <1>2
  <2> DEFINE status == ItemStatus(raw, "completed")
  <2>2. status \in ActivityStatus
    BY DEF ItemStatus, ActivityStatus, RawStatus
  <2>3. activities' = Upsert(i, ItemToActivity(full[i].text, n, status))
    BY <2>1 DEF ItemCompleted
  <2> HIDE DEF status
  <2>4. UNCHANGED <<full, turn, turnStatus>> /\ missed' \subseteq missed
    BY <2>1 DEF ItemCompleted
  <2>5. \A j \in DOMAIN activities' : Within(activities'[j])
    BY <1>0, <2>2, <2>3, UpsertIsWithin
  <2> QED
    BY <2>4, <2>5 DEF ActivityRest, Within
<1> QED
    BY <1>1, <1>2

LEMMA WholeKeepsRest ==
    ASSUME ActivityInv, ActivityRest, NEW i \in Items,
           \/ \E n \in 0 .. MaxOutput : TurnDiffUpdated(i, n)
           \/ \E n \in 0 .. MaxOutput, done \in BOOLEAN : TurnPlanUpdated(i, n, done)
           \/ \E n \in 0 .. MaxOutput, raw \in RawThreadStatus : ThreadStarted(i, n, raw)
    PROVE  ActivityRest'
<1>0. full \in [Items -> [text : Nat, output : Nat]] /\ MaxOutput \in Nat
    BY ActivityAssumption DEF ActivityInv, SentIsTyped
<1>1. \A raw \in RawThreadStatus : ThreadStatus(raw) \in ActivityStatus
    BY DEF ThreadStatus, ActivityStatus, RawThreadStatus
<1>2. PICK n \in 0 .. MaxOutput, status \in ActivityStatus :
        /\ activities' = Upsert(i, ItemToActivity(n, 0, status))
        /\ full' = [full EXCEPT ![i].text = n]
        /\ missed' \subseteq missed /\ UNCHANGED <<turn, turnStatus>>
  <2>1. CASE \E n \in 0 .. MaxOutput : TurnDiffUpdated(i, n)
    <3>1. "inProgress" \in ActivityStatus
        BY DEF ActivityStatus
    <3> QED
        BY <2>1, <3>1 DEF TurnDiffUpdated
  <2>2. CASE \E n \in 0 .. MaxOutput, done \in BOOLEAN : TurnPlanUpdated(i, n, done)
    <3>1. PICK n \in 0 .. MaxOutput, done \in BOOLEAN : TurnPlanUpdated(i, n, done)
        BY <2>2
    <3>2. (IF done THEN "completed" ELSE "inProgress") \in ActivityStatus
        BY DEF ActivityStatus
    <3> QED
        BY <3>1, <3>2 DEF TurnPlanUpdated
  <2>3. CASE \E n \in 0 .. MaxOutput, raw \in RawThreadStatus : ThreadStarted(i, n, raw)
    BY <1>1, <2>3 DEF ThreadStarted
  <2> QED
    BY <2>1, <2>2, <2>3
<1>3. n \in Nat /\ n \in TextLengths
    BY <1>0, LengthsAreTexts
<1>4. \A j \in Items : full'[j].text \in TextLengths /\ full'[j].output \in 0 .. MaxOutput
    BY <1>0, <1>2, <1>3 DEF ActivityRest
<1>5. \A j \in DOMAIN activities' : Within(activities'[j])
    BY <1>2, <1>3, UpsertIsWithin
<1> QED
    BY <1>2, <1>4, <1>5 DEF ActivityRest, Within

LEMMA ExistingIsWithin ==
    ASSUME ActivityInv, ActivityRest, NEW i \in Items
    PROVE  Within(Existing(i))
<1>1. CASE i \in DOMAIN activities
    BY <1>1 DEF ActivityRest, Existing, Within
<1>2. CASE i \notin DOMAIN activities
    BY <1>2, ItemIsWithin DEF Existing, Placeholder
<1> QED
    BY <1>1, <1>2

LEMMA DeltaKeepsRest ==
    ASSUME ActivityInv, ActivityRest, NEW i \in Items, NEW n \in 1 .. MaxOutput, Delta(i, n)
    PROVE  ActivityRest'
<1> DEFINE m == Separated(i, n)
           accepted == AtMost(m, Room(i))
           old == Existing(i)
           output == old.output + accepted
           over == m - accepted
           cut == old.truncated \/ over > 0
           chars == old.truncatedChars + over
           a(b) == [old EXCEPT !.output = output, !.truncated = b, !.truncatedChars = chars]
<1>0. /\ full \in [Items -> [text : Nat, output : Nat]]
      /\ full[i].text \in Nat /\ full[i].output \in Nat
    BY DEF ActivityInv, SentIsTyped
<1>1. old \in ShownItems /\ old.text \in Nat /\ old.output \in Nat /\ Within(old)
    BY ExistingIs, ExistingIsWithin DEF ShownItems
<1>2. m \in Nat
    BY ActivityAssumption DEF Separated
<1>3. Room(i) \in Nat /\ old.output + Room(i) <= Limit
    BY <1>1, ActivityAssumption DEF Room, Within
<1>4. accepted \in Nat /\ accepted <= Room(i)
    BY <1>2, <1>3 DEF AtMost
<1>5. /\ full[i].output + m <= MaxOutput
      /\ full' = [full EXCEPT ![i].output = @ + m]
      /\ UNCHANGED <<turn, turnStatus, missed>>
    BY DEF Delta
<1>6. activities' = Put(i, a(cut))
    BY DEF Delta, AppendLimited
<1> HIDE DEF m, accepted, old
<1>7. output <= Limit
    BY <1>1, <1>3, <1>4, ActivityAssumption
<1> HIDE DEF output, over, chars
<1>8. \A b : Within(a(b))
    BY <1>1, <1>7 DEF Within, ShownItems
<1> HIDE DEF cut, a
<1>9. \A j \in DOMAIN activities' : Within(activities'[j])
    BY <1>6, <1>8, PutIsWithin
<1>10. \A j \in Items : full'[j].text \in TextLengths /\ full'[j].output \in 0 .. MaxOutput
    BY <1>0, <1>2, <1>5, ActivityAssumption DEF ActivityRest
<1> QED
    BY <1>5, <1>9, <1>10 DEF ActivityRest, Within

LEMMA ThreadKeepsRest ==
    ASSUME ActivityInv, ActivityRest, NEW i \in Items, NEW raw \in RawThreadStatus,
           ThreadStatusChanged(i, raw)
    PROVE  ActivityRest'
<1>1. UNCHANGED <<full, turn, turnStatus, missed>>
    BY DEF ThreadStatusChanged
<1>2. CASE i \in DOMAIN activities
  <2> DEFINE a == [activities[i] EXCEPT !.status = ThreadStatus(raw)]
  <2>1. activities[i] \in ShownItems /\ Within(activities[i])
    BY <1>2 DEF ActivityInv, SentIsTyped, ActivityRest, Within
  <2>2. Within(a) /\ activities' = Put(i, a)
    BY <1>2, <2>1 DEF ShownItems, Within, ThreadStatusChanged
  <2> HIDE DEF a
  <2> QED
    BY <1>1, <2>2, PutIsWithin DEF ActivityRest, Within
<1>3. CASE i \notin DOMAIN activities
  <2> DEFINE a == ItemToActivity(0, 0, ThreadStatus(raw))
  <2>1. Within(a) /\ activities' = Put(i, a)
    BY <1>3, ItemIsWithin DEF ThreadStatusChanged
  <2> HIDE DEF a
  <2> QED
    BY <1>1, <2>1, PutIsWithin DEF ActivityRest, Within
<1> QED
    BY <1>2, <1>3

LEMMA TurnKeepsRest ==
    ASSUME ActivityInv, ActivityRest,
           \/ TurnIsStarted \/ ErrorReported
           \/ \E s \in {"completed", "failed", "interrupted"} : TurnIsCompleted(s)
           \/ UNCHANGED activityVars
    PROVE  ActivityRest'
<1>1. CASE TurnIsStarted \/ ErrorReported \/ UNCHANGED activityVars
    BY <1>1 DEF TurnIsStarted, ErrorReported, activityVars, ActivityRest
<1>2. ASSUME NEW s \in {"completed", "failed", "interrupted"}, TurnIsCompleted(s)
      PROVE  ActivityRest'
  <2>1. UNCHANGED <<full, missed>> /\ turn' = "over" /\ turnStatus' = s
        /\ activities' = EndItems(activities, s)
    BY <1>2 DEF TurnIsCompleted
  <2>2. ASSUME NEW a \in ShownItems, Within(a) PROVE Within([a EXCEPT !.status = s])
    BY <2>2 DEF ShownItems, Within
  <2>3. DOMAIN activities' = DOMAIN activities
    BY <2>1 DEF EndItems
  <2>4. ASSUME NEW i \in DOMAIN activities PROVE Within(activities'[i])
    <3>1. activities[i] \in ShownItems /\ Within(activities[i])
        BY DEF ActivityInv, SentIsTyped, ActivityRest, Within
    <3>2. activities'[i] \in {activities[i], [activities[i] EXCEPT !.status = s]}
        BY <2>1 DEF EndItems
    <3> QED
        BY <2>2, <3>1, <3>2
  <2> QED
    BY <2>1, <2>3, <2>4 DEF ActivityRest, Within
<1> QED
    BY <1>1, <1>2

LEMMA LoadedKeepsRest ==
    ASSUME ActivityInv, ActivityRest, NEW items \in SUBSET Items,
           NEW carried \in [items -> 0 .. MaxOutput], HydrateThread(items, carried)
    PROVE  ActivityRest'
<1>1. /\ UNCHANGED <<full, turn>> /\ turnStatus' \in {turnStatus, "inProgress"}
      /\ activities' = [i \in items |-> Hydrated(i, carried[i])]
      /\ missed' \subseteq Items
    BY DEF HydrateThread
<1>2. ASSUME NEW i \in items PROVE Within(Hydrated(i, carried[i]))
  <2> DEFINE a == ItemToActivity(full[i].text, carried[i], "completed")
             again(b) == MergeSameType(kind[i], b, a)
             Good(b) == b \in ShownItems /\ Within(b)
  <2>1. full[i].text \in Nat /\ carried[i] \in Nat /\ kind[i] \in Kinds
        /\ "completed" \in ActivityStatus
    BY ActivityAssumption DEF ActivityInv, SentIsTyped, ActivityStatus
  <2>2. CASE kind[i] = "thread"
    BY <2>1, <2>2, ItemIsWithin DEF Hydrated
  <2>3. CASE kind[i] # "thread"
    <3>1. Hydrated(i, carried[i]) = again(again(again(again(a))))
        BY <2>3 DEF Hydrated
    <3>2. Good(a)
        BY <2>1, ItemShows, ItemIsWithin
    <3> HIDE DEF a
    <3>3. ASSUME NEW b, Good(b) PROVE Good(again(b))
        BY <2>1, <3>2, <3>3, MergeShows, MergeIsWithin
    <3> HIDE DEF again, Good
    <3>4. Good(Hydrated(i, carried[i]))
        BY <3>1, <3>2, <3>3
    <3> QED
        BY <3>4 DEF Good
  <2> QED
    BY <2>2, <2>3
<1>3. \A i \in DOMAIN activities' : Within(activities'[i])
    BY <1>1, <1>2
<1> QED
    BY <1>1, <1>3 DEF ActivityRest, Within

LEMMA ActivityRestKept == ActivityInv /\ ActivityRest /\ [ActivityNext]_activityVars => ActivityRest'
BY ItemKeepsRest, WholeKeepsRest, DeltaKeepsRest, ThreadKeepsRest, TurnKeepsRest, LoadedKeepsRest
DEF ActivityNext

LEMMA ActivityTyped == ActivityInv /\ ActivityRest => ActivityTypeOK
<1> SUFFICES ASSUME ActivityInv, ActivityRest PROVE ActivityTypeOK
    OBVIOUS
<1>1. ASSUME NEW i \in DOMAIN activities PROVE activities[i] \in Activities
  <2>1. activities[i] \in ShownItems /\ activities[i].text <= Limit /\ activities[i].output <= Limit
    BY DEF ActivityInv, SentIsTyped, ActivityRest
  <2> QED
    BY <2>1, ActivityAssumption DEF ShownItems, Activities
<1>2. full \in [Items -> [text : 0 .. Longer(MaxText, MaxOutput), output : 0 .. MaxOutput]]
    BY DEF ActivityInv, SentIsTyped, ActivityRest, TextLengths
<1> QED
    BY <1>1, <1>2 DEF ActivityInv, SentIsTyped, ActivityRest, ActivityTypeOK

-----------------------------------------------------------------------------
(* Discards.  Their invariant is about users with habits that keep them safe; *)
(* the types do not depend on what the user does.                             *)

DiscardOperations ==
    [step : {"idle", "apply", "forget"} \cup DiscardSteps, id : 0 .. MaxDiscarded, path : Paths,
     selector : Nat, sources : BOOLEAN]

TreeTyped ==
    /\ committed \subseteq Edits /\ staged \subseteq Edits /\ changed \subseteq Edits
    /\ rename \in {"no", "yes", "half"} /\ unmerged \in BOOLEAN

RecordsTyped ==
    /\ stashes \in Seq(Entries)
    /\ DOMAIN refs \subseteq Discarded /\ \A i \in DOMAIN refs : refs[i] \in Entries
    /\ taken \subseteq Edits

OperationTyped ==
    /\ discarding \in DiscardOperations /\ discarded \in 0 .. MaxDiscarded
    /\ discarding.step \in DiscardSteps => discarding.id \in Discarded
    /\ discarding.step \in {"secure", "verify", "drop"} => discarding.selector # 0

DiscardTyped == TreeTyped /\ RecordsTyped /\ OperationTyped

LEMMA NoOperationTyped ==
    /\ NoOperation \in DiscardOperations /\ NoOperation.step = "idle"
    /\ \A id \in 0 .. MaxDiscarded :
         /\ [NoOperation EXCEPT !.step = "apply", !.id = id] \in DiscardOperations
         /\ [NoOperation EXCEPT !.step = "apply", !.id = id].step = "apply"
<1>1. 0 \in 0 .. MaxDiscarded /\ 0 \in Nat
    BY DiscardsAssumption
<1>2. NoOperation \in DiscardOperations /\ NoOperation.step = "idle"
    BY <1>1 DEF NoOperation, DiscardOperations, Paths
<1>3. ASSUME NEW r \in DiscardOperations, NEW id \in 0 .. MaxDiscarded
      PROVE  /\ [r EXCEPT !.step = "apply", !.id = id] \in DiscardOperations
             /\ [r EXCEPT !.step = "apply", !.id = id].step = "apply"
    BY DEF DiscardOperations
<1> QED
    BY <1>2, <1>3

LEMMA DiscardTypedStart == DiscardInit => DiscardTyped
<1> SUFFICES ASSUME DiscardInit PROVE DiscardTyped
    OBVIOUS
<1>1. stashes = <<>> /\ DOMAIN refs = {}
    BY DEF DiscardInit
<1>2. stashes \in Seq(Entries)
    BY <1>1
<1>3. TreeTyped /\ RecordsTyped
    BY <1>1, <1>2 DEF DiscardInit, TreeTyped, RecordsTyped
<1>4. 0 \in 0 .. MaxDiscarded
    BY DiscardsAssumption
<1>5. discarding = NoOperation /\ discarded = 0
    BY DEF DiscardInit
<1>6. OperationTyped
    BY <1>4, <1>5, NoOperationTyped DEF OperationTyped, DiscardSteps
<1> QED
    BY <1>3, <1>6 DEF DiscardTyped

LEMMA EntryTyped ==
    ASSUME TreeTyped, NEW id \in 0 .. MaxDiscarded, NEW path \in Paths, NEW of \in BOOLEAN
    PROVE  Entry(id, path, of) \in Entries
<1> DEFINE renamed == rename = "yes" /\ path = Target
           e(r) == [id |-> id, staged |-> At(staged, path), changed |-> At(changed, path),
                    rename |-> r, tracked |-> of, path |-> path]
<1>1. At(staged, path) \in SUBSET Edits /\ At(changed, path) \in SUBSET Edits
    BY DEF TreeTyped, At
<1>2. renamed \in BOOLEAN
    OBVIOUS
<1>3. \A r \in BOOLEAN : e(r) \in Entries
    BY <1>1 DEF Entries
<1>4. Entry(id, path, of) = e(renamed)
    BY DEF Entry
<1> QED
    BY <1>2, <1>3, <1>4

LEMMA PushTyped ==
    ASSUME TreeTyped, RecordsTyped, NEW entry \in Entries, Push(entry)
    PROVE  TreeTyped' /\ stashes' \in Seq(Entries)
BY PushedOn DEF TreeTyped, RecordsTyped, Push, At

LEMMA ApplyTyped ==
    ASSUME TreeTyped, NEW entry \in Entries, Apply(entry)
    PROVE  TreeTyped'
<1>1. entry.staged \subseteq Edits /\ entry.changed \subseteq Edits
    BY DEF Entries
<1> QED
    BY <1>1 DEF TreeTyped, Apply

LEMMA GoesOnTyped ==
    ASSUME OperationTyped, discarded' = discarded,
           NEW s \in {"find", "verify", "drop", "sources", "forget"},
           s # "forget" => discarding.step \in DiscardSteps,
           s \in {"verify", "drop"} => discarding.step \in {"secure", "verify"},
           Step(s) \/ Release
    PROVE  OperationTyped'
<1>1. CASE Release
    BY <1>1, NoOperationTyped DEF Release, OperationTyped, DiscardSteps
<1>2. CASE Step(s)
  <2>1. /\ discarding' \in DiscardOperations /\ discarding'.step = s
        /\ discarding'.id = discarding.id /\ discarding'.selector = discarding.selector
    BY <1>2 DEF Step, OperationTyped, DiscardOperations, DiscardSteps
  <2>2. "forget" \notin DiscardSteps
    BY DEF DiscardSteps
  <2> QED
    BY <2>1, <2>2 DEF OperationTyped
<1> QED
    BY <1>1, <1>2

LEMMA BeginsTyped ==
    ASSUME DiscardTyped, NEW path \in Paths, DiscardBegins(path)
    PROVE  DiscardTyped'
<1> DEFINE renames == rename = "yes" /\ path = Target
           r(b) == [step |-> "push", id |-> discarded', path |-> path, selector |-> 0,
                    sources |-> b]
<1>1. discarded' = discarded + 1 /\ discarded < MaxDiscarded /\ discarding' = r(renames)
      /\ UNCHANGED <<tree, stashes, refs, taken>>
    BY DEF DiscardBegins
<1>2. discarded' \in 0 .. MaxDiscarded /\ discarded' \in Discarded
    BY <1>1, DiscardsAssumption DEF DiscardTyped, OperationTyped, Discarded
<1>3. renames \in BOOLEAN
    OBVIOUS
<1>4. \A b \in BOOLEAN : r(b) \in DiscardOperations /\ r(b).id = discarded' /\ r(b).step = "push"
    BY <1>2 DEF DiscardOperations, DiscardSteps
<1> HIDE DEF r, renames
<1>5. OperationTyped'
    BY <1>1, <1>2, <1>3, <1>4 DEF OperationTyped
<1> QED
    BY <1>1, <1>5 DEF DiscardTyped, TreeTyped, RecordsTyped, tree

LEMMA PushesTyped ==
    ASSUME DiscardTyped, StashPush
    PROVE  DiscardTyped'
<1> DEFINE entry == Entry(discarding.id, discarding.path, TrackedAtHead(discarding.path))
<1>1. discarding.id \in 0 .. MaxDiscarded /\ discarding.path \in Paths
    BY DEF DiscardTyped, OperationTyped, DiscardOperations
<1>2. TrackedAtHead(discarding.path) \in BOOLEAN
    BY DEF TrackedAtHead
<1>3. entry \in Entries
    BY <1>1, <1>2, EntryTyped DEF DiscardTyped
<1>4. UNCHANGED <<tree, stashes, taken>> \/ (Push(entry) /\ taken' = taken \cup EditsOf(entry))
    BY DEF StashPush
<1>5. OperationTyped'
  <2>1. discarding.step \in DiscardSteps /\ "find" \in DiscardSteps
        /\ discarded' = discarded /\ (Step("find") \/ Release)
    BY DEF StashPush, DiscardSteps
  <2> QED
    BY <2>1, GoesOnTyped DEF DiscardTyped
<1> HIDE DEF entry
<1>6. refs' = refs
    BY DEF StashPush
<1>7. CASE UNCHANGED <<tree, stashes, taken>>
    BY <1>5, <1>6, <1>7 DEF DiscardTyped, TreeTyped, RecordsTyped, tree
<1>8. CASE Push(entry) /\ taken' = taken \cup EditsOf(entry)
  <2>1. EditsOf(entry) \subseteq Edits
    BY <1>3 DEF EditsOf, Entries
  <2>2. TreeTyped' /\ stashes' \in Seq(Entries)
    BY <1>3, <1>8, PushTyped DEF DiscardTyped
  <2> QED
    BY <1>5, <1>6, <1>8, <2>1, <2>2 DEF DiscardTyped, RecordsTyped
<1> QED
    BY <1>4, <1>7, <1>8

LEMMA SecuresTyped ==
    ASSUME DiscardTyped, FindStash \/ SecureRef \/ VerifyStash \/ CommandFails
    PROVE  DiscardTyped'
<1>1. UNCHANGED <<tree, stashes, discarded, taken>>
    BY DEF FindStash, SecureRef, VerifyStash, CommandFails
<1>2. TreeTyped'
    BY <1>1 DEF DiscardTyped, TreeTyped, tree
<1>3. Len(stashes) \in Nat
    BY LenProperties DEF DiscardTyped, RecordsTyped
<1>4. OperationTyped'
  <2>1. CASE Release
    BY <1>1, <2>1, NoOperationTyped DEF Release, DiscardTyped, OperationTyped, DiscardSteps
  <2>2. ASSUME NEW n \in 1 .. Len(stashes), discarding.step = "find",
               discarding' = [discarding EXCEPT !.step = "secure", !.selector = n]
        PROVE  OperationTyped'
    <3>1. n \in Nat /\ "find" \in DiscardSteps /\ "secure" \in DiscardSteps
        BY <1>3 DEF DiscardSteps
    <3>2. /\ discarding' \in DiscardOperations /\ discarding'.id = discarding.id
          /\ discarding'.step = "secure" /\ discarding'.selector = n
        BY <2>2, <3>1 DEF DiscardTyped, OperationTyped, DiscardOperations
    <3> QED
        BY <1>1, <2>2, <3>1, <3>2 DEF DiscardTyped, OperationTyped
  <2>3. ASSUME NEW s \in {"verify", "drop"}, discarding.step \in {"secure", "verify"}, Step(s)
        PROVE  OperationTyped'
    <3>1. s \in DiscardSteps /\ discarding.step \in DiscardSteps
        BY <2>3 DEF DiscardSteps
    <3> QED
        BY <1>1, <2>3, <3>1, GoesOnTyped DEF DiscardTyped
  <2> QED
    BY <2>1, <2>2, <2>3 DEF FindStash, SecureRef, VerifyStash, CommandFails
<1>5. CASE UNCHANGED refs
    BY <1>1, <1>2, <1>4, <1>5 DEF DiscardTyped, RecordsTyped
<1>6. CASE SecureRef
  <2>1. discarding.id \in Discarded
    BY <1>6 DEF SecureRef, DiscardTyped, OperationTyped, DiscardSteps
  <2>2. Own \in 1 .. Len(stashes)
    BY <1>6 DEF SecureRef, Own
  <2>3. stashes[Own] \in Entries
    BY <2>2, ElementOfSeq DEF DiscardTyped, RecordsTyped
  <2>4. refs' = [i \in DOMAIN refs \cup {discarding.id} |->
                  IF i = discarding.id THEN stashes[Own] ELSE refs[i]]
    BY <1>6 DEF SecureRef
  <2>5. DOMAIN refs' \subseteq Discarded /\ \A i \in DOMAIN refs' : refs'[i] \in Entries
    BY <2>1, <2>3, <2>4 DEF DiscardTyped, RecordsTyped
  <2> QED
    BY <1>1, <1>2, <1>4, <2>5 DEF DiscardTyped, RecordsTyped
<1> QED
    BY <1>5, <1>6 DEF FindStash, VerifyStash, CommandFails

LEMMA DropTyped ==
    ASSUME DiscardTyped, DropStash
    PROVE  DiscardTyped'
<1>1. UNCHANGED <<tree, refs, discarded, taken>> /\ discarding.step = "drop"
      /\ (Step("sources") \/ Release)
    BY DEF DropStash
<1>2. stashes' \in Seq(Entries)
  <2>1. stashes \in Seq(Entries) /\ Len(stashes) \in Nat
        /\ discarding.selector \in Nat /\ discarding.selector # 0
    BY <1>1, LenProperties
    DEF DiscardTyped, RecordsTyped, OperationTyped, DiscardOperations
  <2>2. CASE discarding.selector <= Len(stashes)
    <3>1. discarding.selector \in 1 .. Len(stashes)
        BY <2>1, <2>2
    <3> QED
        BY <2>1, <2>2, <3>1, RemovedAt DEF DropStash
  <2>3. CASE ~(discarding.selector <= Len(stashes))
    BY <2>1, <2>3 DEF DropStash
  <2> QED
    BY <2>2, <2>3
<1>3. OperationTyped'
    BY <1>1, GoesOnTyped DEF DiscardTyped, DiscardSteps
<1> QED
    BY <1>1, <1>2, <1>3 DEF DiscardTyped, TreeTyped, RecordsTyped, tree

LEMMA RestoresTyped ==
    ASSUME DiscardTyped, RestoreSources \/ ForgetRef \/ \E id \in Discarded : RestoreBegins(id)
    PROVE  DiscardTyped'
<1>1. CASE RestoreSources
  <2>1. OperationTyped'
    BY <1>1, NoOperationTyped DEF RestoreSources, Release, DiscardTyped, OperationTyped, DiscardSteps
  <2> QED
    BY <1>1, <2>1 DEF RestoreSources, DiscardTyped, TreeTyped, RecordsTyped, At
<1>2. CASE ForgetRef
  <2>1. OperationTyped'
    BY <1>2, NoOperationTyped DEF ForgetRef, Release, DiscardTyped, OperationTyped, DiscardSteps
  <2> QED
    BY <1>2, <2>1 DEF ForgetRef, DiscardTyped, TreeTyped, RecordsTyped, tree
<1>3. ASSUME NEW id \in Discarded, RestoreBegins(id) PROVE DiscardTyped'
  <2>1. id \in 0 .. MaxDiscarded
    BY DiscardsAssumption DEF Discarded
  <2>2. /\ discarding' = [NoOperation EXCEPT !.step = "apply", !.id = id]
        /\ UNCHANGED <<tree, stashes, refs, discarded, taken>>
    BY <1>3 DEF RestoreBegins
  <2>3. OperationTyped'
    BY <2>1, <2>2, NoOperationTyped DEF DiscardTyped, OperationTyped, DiscardSteps
  <2> QED
    BY <2>2, <2>3 DEF DiscardTyped, TreeTyped, RecordsTyped, tree
<1> QED
    BY <1>1, <1>2, <1>3

LEMMA AppliesTyped ==
    ASSUME DiscardTyped, ApplyStash
    PROVE  DiscardTyped'
<1> DEFINE entry == refs[discarding.id]
<1>1. entry \in Entries /\ UNCHANGED <<stashes, refs, discarded>>
    BY DEF ApplyStash, DiscardTyped, RecordsTyped
<1>2. OperationTyped'
    BY <1>1, GoesOnTyped DEF ApplyStash, DiscardTyped
<1>3. TreeTyped' /\ taken' \subseteq taken
  <2>1. CASE Apply(entry) /\ taken' = taken \ EditsOf(entry)
    BY <1>1, <2>1, ApplyTyped DEF DiscardTyped
  <2>2. CASE unmerged' = TRUE /\ UNCHANGED <<committed, staged, changed, rename, taken>>
    BY <2>2 DEF DiscardTyped, TreeTyped
  <2> QED
    BY <2>1, <2>2 DEF ApplyStash
<1> QED
    BY <1>1, <1>2, <1>3 DEF DiscardTyped, RecordsTyped

LEMMA FilesTypedInTree ==
    ASSUME DiscardTyped,
           \/ \E path \in Paths : Stage(path) \/ Unstage(path)
           \/ \E e \in Edits : Edit(e) \/ \E a \in {"stage", "unstage", "revert"} : ApplyHunk(e, a)
           \/ Commit \/ Rename \/ ResolveConflicts
    PROVE  DiscardTyped'
<1>1. ASSUME UNCHANGED <<stashes, refs, discarding, discarded, taken>>, TreeTyped'
      PROVE  DiscardTyped'
    BY <1>1 DEF DiscardTyped, RecordsTyped, OperationTyped
<1>2. ASSUME NEW path \in Paths, Stage(path) \/ Unstage(path) PROVE DiscardTyped'
    BY <1>1, <1>2 DEF Stage, Unstage, DiscardTyped, TreeTyped, At
<1>3. ASSUME NEW e \in Edits, Edit(e) PROVE DiscardTyped'
    BY <1>1, <1>3 DEF Edit, DiscardTyped, TreeTyped
<1>4. ASSUME NEW e \in Edits, NEW a \in {"stage", "unstage", "revert"}, ApplyHunk(e, a)
      PROVE  DiscardTyped'
    BY <1>1, <1>4 DEF ApplyHunk, DiscardTyped, TreeTyped
<1>5. CASE Commit \/ Rename \/ ResolveConflicts
    BY <1>1, <1>5 DEF Commit, Rename, ResolveConflicts, DiscardTyped, TreeTyped
<1> QED
    BY <1>2, <1>3, <1>4, <1>5

LEMMA StashTyped ==
    ASSUME DiscardTyped, UserPops \/ \E path \in Paths : UserStashes(path)
    PROVE  DiscardTyped'
<1>1. CASE UserPops
  <2>1. stashes \in Seq(Entries) /\ stashes # <<>> /\ Len(stashes) \in Nat
    BY <1>1, LenProperties DEF DiscardTyped, RecordsTyped, UserPops
  <2>2. 1 \in 1 .. Len(stashes)
    BY <2>1, EmptySeq
  <2>3. stashes[1] \in Entries /\ WithoutEntry(stashes, 1) \in Seq(Entries)
    BY <2>1, <2>2, RemovedAt, ElementOfSeq
  <2>4. /\ Apply(stashes[1]) /\ stashes' = WithoutEntry(stashes, 1)
        /\ taken' = taken \ EditsOf(stashes[1]) /\ UNCHANGED <<refs, discarding, discarded>>
    BY <1>1 DEF UserPops
  <2>5. TreeTyped'
    BY <2>3, <2>4, ApplyTyped DEF DiscardTyped
  <2> QED
    BY <2>3, <2>4, <2>5 DEF DiscardTyped, RecordsTyped, OperationTyped
<1>2. ASSUME NEW path \in Paths, UserStashes(path) PROVE DiscardTyped'
  <2>0. 0 \in 0 .. MaxDiscarded /\ TRUE \in BOOLEAN
    BY DiscardsAssumption
  <2>1. Entry(0, path, TRUE) \in Entries
    BY <2>0, EntryTyped DEF DiscardTyped
  <2>2. Push(Entry(0, path, TRUE)) /\ UNCHANGED <<refs, discarding, discarded, taken>>
    BY <1>2 DEF UserStashes
  <2>3. TreeTyped' /\ stashes' \in Seq(Entries)
    BY <2>1, <2>2, PushTyped DEF DiscardTyped
  <2> QED
    BY <2>2, <2>3 DEF DiscardTyped, RecordsTyped, OperationTyped
<1> QED
    BY <1>1, <1>2

LEMMA DiscardTypedKept == DiscardTyped /\ [DiscardNext]_discardVars => DiscardTyped'
<1> SUFFICES ASSUME DiscardTyped, [DiscardNext]_discardVars PROVE DiscardTyped'
    OBVIOUS
<1>1. CASE UNCHANGED discardVars
    BY <1>1 DEF discardVars, tree, DiscardTyped, TreeTyped, RecordsTyped, OperationTyped
<1> QED
    BY <1>1, BeginsTyped, PushesTyped, SecuresTyped, DropTyped, RestoresTyped, AppliesTyped,
       FilesTypedInTree, StashTyped DEF DiscardNext

LEMMA DiscardsTyped == DiscardTyped => DiscardTypeOK
<1> SUFFICES ASSUME DiscardTyped PROVE DiscardTypeOK
    OBVIOUS
<1>1. \A i \in 1 .. Len(stashes) : stashes[i] \in Entries
    BY ElementOfSeq DEF DiscardTyped, RecordsTyped
<1> QED
    BY <1>1 DEF DiscardTyped, TreeTyped, RecordsTyped, OperationTyped, DiscardOperations,
                DiscardSteps, DiscardTypeOK

-----------------------------------------------------------------------------
(* Previews of files.                                                        *)

Openings == [for : {"preview", "serve"}, file : Files, seen : Sizes]

Responses == [file : Files, of : Files, size : Sizes, range : Ranges, sent : SUBSET (0 .. MaxSize)]

TokensTyped == tokens \in Seq(Tokens) /\ Len(tokens) <= MaxTokens

\* What FilesInv leaves open.
FilesRest ==
    /\ files \in Files /\ clock \in 0 .. MaxClock /\ TokensTyped
    /\ opening \in Openings \cup {None} /\ answers \subseteq Responses

LEMMA FilesRestStart == FilesInit => FilesRest
<1> SUFFICES ASSUME FilesInit PROVE FilesRest
    OBVIOUS
<1>1. Len(tokens) = 0 /\ tokens \in Seq(Tokens)
    BY DEF FilesInit
<1> QED
    BY <1>1, FilePreviewsAssumption DEF FilesInit, FilesRest, TokensTyped, Files

\* The tokens that have not expired are some of the tokens.
LEMMA UnexpiredTyped ==
    ASSUME TokensTyped
    PROVE  /\ Unexpired \in Seq(Tokens) /\ Len(Unexpired) \in Nat /\ Len(Unexpired) <= MaxTokens
           /\ DOMAIN Unexpired = 1 .. Len(Unexpired)
<1> DEFINE left == {i \in DOMAIN tokens : tokens[i].until > clock}
           place(i) == Cardinality({j \in left : j <= i})
           c == Cardinality(left)
           token(n) == CHOOSE i \in left : place(i) = n
<1>1. Len(tokens) \in Nat /\ DOMAIN tokens = 1 .. Len(tokens)
    BY LenProperties DEF TokensTyped
<1>2. left \subseteq 1 .. Len(tokens)
    BY <1>1
<1>3. Unexpired = [n \in 1 .. c |-> tokens[token(n)]]
    BY DEF Unexpired
<1> HIDE DEF left
<1>4. c \in Nat /\ c <= Len(tokens)
  <2> DEFINE l == Len(tokens)
  <2>1. l \in Nat
    BY <1>1
  <2> HIDE DEF l
  <2>2. IsFiniteSet(1 .. l) /\ Cardinality(1 .. l) = IF 1 <= l THEN l - 1 + 1 ELSE 0
    BY <2>1, FS_Interval
  <2>3. Cardinality(1 .. l) = l
    BY <2>1, <2>2
  <2> QED
    BY <1>2, <2>2, <2>3, FS_Subset, FS_CardinalityType DEF l
<1>5. ASSUME NEW n \in 1 .. c PROVE token(n) \in left
  <2>1. \E i \in left : place(i) = n
    BY <1>1, <1>2, PlaceIsTaken
  <2> QED
    BY <2>1
<1> HIDE DEF token
<1>6. \A n \in 1 .. c : tokens[token(n)] \in Tokens
    BY <1>2, <1>5, ElementOfSeq DEF TokensTyped
<1> HIDE DEF c
<1>7. Unexpired \in [1 .. c -> Tokens]
    BY <1>3, <1>6
<1>8. Unexpired \in Seq(Tokens)
    BY <1>4, <1>7, SeqDef
<1>9. Len(Unexpired) = c
    BY <1>4, <1>7, <1>8, LenProperties
<1>10. DOMAIN Unexpired = 1 .. c
    BY <1>7
<1>11. c <= MaxTokens
    BY <1>1, <1>4, FilePreviewsAssumption DEF TokensTyped
<1> QED
    BY <1>4, <1>8, <1>9, <1>10, <1>11

LEMMA TokenIsIssued ==
    ASSUME TokensTyped, clock \in 0 .. MaxClock, NEW f \in Files, IssueToken(f)
    PROVE  TokensTyped'
<1> DEFINE left == Unexpired
           room == IF Len(left) >= MaxTokens
                   THEN SubSeq(left, Len(left) - MaxTokens + 2, Len(left)) ELSE left
           t == [file |-> f, until |-> clock + TokenTTL]
<1>1. tokens' = Append(room, t)
    BY DEF IssueToken
<1>2. left \in Seq(Tokens) /\ Len(left) \in Nat /\ Len(left) <= MaxTokens
    BY UnexpiredTyped
<1>3. t \in Tokens /\ MaxTokens \in Nat \ {0}
    BY FilePreviewsAssumption DEF Tokens
<1> HIDE DEF t, left
<1>4. room \in Seq(Tokens) /\ Len(room) < MaxTokens
  <2>1. CASE Len(left) >= MaxTokens
    <3> DEFINE first == Len(left) - MaxTokens + 2
    <3>1. first = 2 /\ Len(left) = MaxTokens
        BY <1>2, <1>3, <2>1
    <3>2. room = SubSeq(left, 2, Len(left))
        BY <2>1, <3>1
    <3>3. /\ SubSeq(left, 2, Len(left)) \in Seq(Tokens)
          /\ Len(SubSeq(left, 2, Len(left))) = MaxTokens - 1
        BY <1>2, <1>3, <3>1, SubSeqProperties
    <3> QED
        BY <1>3, <3>2, <3>3
  <2>2. CASE ~(Len(left) >= MaxTokens)
    BY <1>2, <1>3, <2>2
  <2> QED
    BY <2>1, <2>2
<1> HIDE DEF room
<1>5. /\ Append(room, t) \in Seq(Tokens) /\ Len(Append(room, t)) = Len(room) + 1
      /\ Len(room) \in Nat
    BY <1>3, <1>4, WireAppended
<1> QED
    BY <1>1, <1>3, <1>4, <1>5 DEF TokensTyped

\* The bytes that are sent are bytes of a file.
LEMMA BytesAreSent ==
    ASSUME NEW r \in Ranges, NEW n \in Sizes
    PROVE  ParseByteRange(r, n) \subseteq 0 .. MaxSize
<1>1. n \in Nat /\ MaxSize \in Nat /\ n <= MaxSize
    BY FilePreviewsAssumption DEF Sizes
<1>2. Named(r, n) \subseteq 0 .. n - 1
    BY DEF Named
<1> QED
    BY <1>1, <1>2, ParsedIsNamed

LEMMA FilesRestKept == FilesInv /\ FilesRest /\ [FilesNext]_filesVars => FilesRest'
<1> SUFFICES ASSUME FilesInv, FilesRest, [FilesNext]_filesVars PROVE FilesRest'
    OBVIOUS
<1>1. CASE UNCHANGED filesVars \/ UnlinkFile
    BY <1>1 DEF filesVars, UnlinkFile, FilesRest, TokensTyped
<1>2. ASSUME NEW n \in Sizes, WriteFile(n) PROVE FilesRest'
    BY <1>2 DEF WriteFile, FilesRest, TokensTyped
<1>3. ASSUME NEW n \in Sizes, ReplaceFile(n) PROVE FilesRest'
    BY <1>3, FilePreviewsAssumption DEF ReplaceFile, FilesRest, TokensTyped, Files
<1>4. CASE TimePasses
    BY <1>4, FilePreviewsAssumption DEF TimePasses, FilesRest, TokensTyped
<1>5. CASE LookAt
  <2>1. opening' \in Openings /\ UNCHANGED <<files, clock, tokens, answers>>
    BY <1>5 DEF LookAt, CallsService, world, FilesInv, Openings
  <2> QED
    BY <2>1 DEF FilesRest, TokensTyped
<1>6. CASE ReadPreview
  <2>1. opening \in Openings /\ opening' = None /\ UNCHANGED <<files, clock, answers>>
        /\ (IssueToken(opening.file) \/ UNCHANGED tokens)
    BY <1>6 DEF ReadPreview, world, FilesRest
  <2>2. opening.file \in Files
    BY <2>1 DEF Openings
  <2>3. TokensTyped'
    BY <2>1, <2>2, TokenIsIssued DEF FilesRest, TokensTyped
  <2> QED
    BY <2>1, <2>3 DEF FilesRest
<1>7. CASE ReadAgentImage
  <2>1. disk \in Files /\ IssueToken(disk) /\ UNCHANGED <<files, clock, opening, answers>>
    BY <1>7 DEF ReadAgentImage, world
  <2> QED
    BY <2>1, TokenIsIssued DEF FilesRest
<1>8. ASSUME NEW i \in 1 .. MaxTokens, ResolvePreviewToken(i) PROVE FilesRest'
  <2>1. tokens' = Unexpired /\ UNCHANGED <<files, clock, answers>>
    BY <1>8 DEF ResolvePreviewToken, world
  <2>2. TokensTyped'
    BY <2>1, UnexpiredTyped DEF FilesRest, TokensTyped
  <2>3. opening' \in Openings \cup {None}
    BY <1>8 DEF ResolvePreviewToken, FilesInv, Openings
  <2> QED
    BY <2>1, <2>2, <2>3 DEF FilesRest
<1>9. ASSUME NEW r \in Ranges, ServePreview(r) PROVE FilesRest'
  <2>1. /\ UNCHANGED <<files, clock, tokens>> /\ opening' = None /\ opening \in Openings
    BY <1>9 DEF ServePreview, world, FilesRest
  <2>2. opening.file \in Files
    BY <2>1 DEF Openings
  <2>3. answers' \subseteq Responses
    <3>1. CASE disk # opening.file
        BY <1>9, <3>1 DEF ServePreview, FilesRest
    <3>2. CASE disk = opening.file
      <4> DEFINE bytes == ParseByteRange(r, size[disk])
                 a == [file |-> disk, of |-> opening.file, size |-> size[disk],
                       range |-> r, sent |-> bytes]
      <4>1. answers' = answers \cup {a}
          BY <1>9, <3>2 DEF ServePreview
      <4>2. size[disk] \in Sizes
          BY <2>2, <3>2 DEF FilesInv
      <4>3. bytes \subseteq 0 .. MaxSize
          BY <4>2, BytesAreSent
      <4> HIDE DEF bytes
      <4>4. a \in Responses
          BY <2>2, <3>2, <4>2, <4>3 DEF Responses
      <4> QED
          BY <4>1, <4>4 DEF FilesRest
    <3> QED
        BY <3>1, <3>2
  <2> QED
    BY <2>1, <2>3 DEF FilesRest, TokensTyped
<1>10. ASSUME NEW a \in answers, AnswerRead(a) PROVE FilesRest'
    BY <1>10 DEF AnswerRead, world, FilesRest, TokensTyped
<1> QED
    BY <1>1, <1>2, <1>3, <1>4, <1>5, <1>6, <1>7, <1>8, <1>9, <1>10 DEF FilesNext

LEMMA FilesTyped == FilesInv /\ FilesRest => FilesTypeOK
BY DEF FilesInv, FilesRest, TokensTyped, FilesTypeOK, Openings, Responses

-----------------------------------------------------------------------------
(* Window.  A text of the terminal holds pieces of output in the order they  *)
(* were written, each once, so it is never longer than what was written: a   *)
(* piece on the wire is newer than everything before it.                     *)

WrittenText(s, c) ==
    /\ s \in Seq(Nat)
    /\ \A i \in 1 .. Len(s) : s[i] \in 1 .. c
    /\ \A i, j \in 1 .. Len(s) : i < j => s[i] < s[j]

WrittenOrNone(s, c) == s # None => WrittenText(s, c)

\* Everything in text s, or in message m, is older than piece v.
OlderText(s, v) == s # None => \A i \in 1 .. Len(s) : s[i] < v

TellsOlder(m, v) ==
    /\ m.kind \in {"session", "sessions"} => OlderText(m.is, v)
    /\ m.kind = "output" => m.is < v

\* What a message says, when c pieces have been written.
Bounded(m, c) ==
    /\ m.kind = "state" => m.is <= MaxChanges
    /\ m.kind = "bootstrap" => \A d \in StateChannels : m.is[d] <= MaxChanges
    /\ m.kind = "session" => WrittenText(m.is, c)
    /\ m.kind = "sessions" => WrittenOrNone(m.is, c)
    /\ m.kind = "output" => m.is \in 1 .. c

PagesTyped == opened \in BOOLEAN /\ webContents \in BOOLEAN /\ page <= MaxPages

VersionsTyped ==
    \A c \in Channels :
        states[c] <= MaxChanges /\ (displayed[c] # None => displayed[c] <= MaxChanges)

\* Wire w towards a page that knows s of the terminal, when c pieces have been written.
WireHolds(w, s, c) ==
    /\ WrittenOrNone(s, c)
    /\ \A n \in 1 .. Len(w) : Bounded(w[n], c)
    /\ \A n \in 1 .. Len(w) : w[n].kind = "output" =>
         /\ OlderText(s, w[n].is)
         /\ \A k \in 1 .. Len(w) : k < n => TellsOlder(w[k], w[n].is)

WireTyped == chunks <= MaxChunks /\ WireHolds(wire, sessions, chunks)

\* What WindowInv leaves open.
WindowRest == PagesTyped /\ VersionsTyped /\ WireTyped /\ WrittenOrNone(terminal, chunks)

LEMMA NothingIsWritten == \A c : WrittenText(<<>>, c)
<1>1. <<>> \in Seq(Nat) /\ Len(<<>>) = 0
    OBVIOUS
<1> QED
    BY <1>1 DEF WrittenText

LEMMA WindowRestStart == WindowInit => WindowRest
<1> SUFFICES ASSUME WindowInit PROVE WindowRest
    OBVIOUS
<1>1. Len(wire) = 0 /\ sessions = None /\ terminal = None
    BY DEF WindowInit
<1>2. VersionsTyped
    BY WindowAssumption DEF WindowInit, VersionsTyped, Nothing
<1>3. PagesTyped
  <2>1. opened \in BOOLEAN /\ webContents \in BOOLEAN
    BY Zenon DEF WindowInit
  <2>2. page <= MaxPages
    BY WindowAssumption DEF WindowInit
  <2> QED
    BY <2>1, <2>2 DEF PagesTyped
<1>4. WireTyped
    BY <1>1, WindowAssumption DEF WindowInit, WireTyped, WireHolds, WrittenOrNone
<1> QED
    BY <1>1, <1>2, <1>3, <1>4 DEF WindowRest, WrittenOrNone

\* More is written: what was written before stays.
LEMMA StaysWritten ==
    ASSUME NEW c \in Nat, NEW d \in Nat, c <= d
    PROVE  /\ \A s : WrittenText(s, c) => WrittenText(s, d)
           /\ \A m \in Wire : Bounded(m, c) => Bounded(m, d)
<1>1. \A s : WrittenText(s, c) => WrittenText(s, d)
    BY DEF WrittenText
<1>2. 1 .. c \subseteq 1 .. d
    OBVIOUS
<1> QED
    BY <1>1, <1>2 DEF Bounded, WrittenOrNone

\* A new piece is added to a text of older ones.
LEMMA PieceIsAdded ==
    ASSUME NEW c \in Nat, NEW s, WrittenText(s, c), NEW v \in 1 .. c,
           \A i \in 1 .. Len(s) : s[i] < v
    PROVE  WrittenText(Append(s, v), c)
<1>1. /\ Append(s, v) \in Seq(Nat) /\ Len(Append(s, v)) = Len(s) + 1 /\ Len(s) \in Nat
      /\ \A n \in 1 .. Len(s) : Append(s, v)[n] = s[n]
      /\ Append(s, v)[Len(s) + 1] = v
    BY WireAppended DEF WrittenText
<1> DEFINE a == Append(s, v)
<1> HIDE DEF a
<1>2. /\ a \in Seq(Nat) /\ Len(a) = Len(s) + 1 /\ Len(s) \in Nat
      /\ \A n \in 1 .. Len(s) : a[n] = s[n]
      /\ a[Len(s) + 1] = v
    BY <1>1 DEF a
<1>3. \A i \in 1 .. Len(a) : i \in 1 .. Len(s) \/ i = Len(s) + 1
    BY <1>2
<1>4. \A i \in 1 .. Len(a) : a[i] \in 1 .. c
    BY <1>2, <1>3 DEF WrittenText
<1>5. ASSUME NEW i \in 1 .. Len(a), NEW j \in 1 .. Len(a), i < j PROVE a[i] < a[j]
  <2>1. i \in 1 .. Len(s)
    BY <1>2, <1>5
  <2>2. CASE j \in 1 .. Len(s)
    BY <1>2, <1>5, <2>1, <2>2 DEF WrittenText
  <2>3. CASE j = Len(s) + 1
    BY <1>2, <2>1, <2>3
  <2> QED
    BY <1>3, <2>2, <2>3
<1>6. WrittenText(a, c)
    BY <1>2, <1>4, <1>5 DEF WrittenText
<1> QED
    BY <1>6 DEF a

\* A text is one of those of the bounds.
LEMMA WrittenIsText ==
    ASSUME NEW s, NEW c \in Nat, WrittenText(s, c), c <= MaxChunks
    PROVE  s \in Text
<1> DEFINE l == Len(s)
<1>0. MaxChunks \in Nat
    BY WindowAssumption
<1>1. l \in Nat /\ s \in [1 .. l -> Nat]
    BY LenProperties DEF WrittenText
<1>2. /\ \A i \in 1 .. l : s[i] \in 1 .. c
      /\ \A i, j \in 1 .. l : i < j => s[i] < s[j]
    BY DEF WrittenText
<1> HIDE DEF l
<1>3. 1 .. c \subseteq 1 .. MaxChunks
    BY <1>0
<1>4. s \in [1 .. l -> 1 .. MaxChunks]
    BY <1>1, <1>2, <1>3
<1>5. s \in Injection(1 .. l, 1 .. MaxChunks)
  <2>1. ASSUME NEW i \in 1 .. l, NEW j \in 1 .. l, s[i] = s[j] PROVE i = j
    <3>1. s[i] \in Nat /\ s[j] \in Nat /\ i \in Int /\ j \in Int
        BY <1>1
    <3>2. ~(i < j) /\ ~(j < i)
        BY <1>2, <2>1, <3>1
    <3> QED
        BY <3>1, <3>2
  <2>2. IsInjective(s)
    BY <1>4, <2>1 DEF IsInjective
  <2> QED
    BY <1>4, <2>2 DEF Injection
<1>6. l <= MaxChunks
  <2>1. /\ IsFiniteSet(1 .. l) /\ Cardinality(1 .. l) = IF 1 <= l THEN l - 1 + 1 ELSE 0
        /\ IsFiniteSet(1 .. MaxChunks)
        /\ Cardinality(1 .. MaxChunks) = IF 1 <= MaxChunks THEN MaxChunks - 1 + 1 ELSE 0
    BY <1>0, <1>1, FS_Interval
  <2>2. Cardinality(1 .. l) <= Cardinality(1 .. MaxChunks)
    BY <1>5, <2>1, FS_Injection
  <2> QED
    BY <1>0, <1>1, <2>1, <2>2
<1>7. l \in 0 .. MaxChunks
    BY <1>0, <1>1, <1>6
<1> QED
    BY <1>4, <1>7 DEF Text


\* What has been said is older than a piece that comes.
LEMMA BoundedIsOlder ==
    ASSUME NEW c \in Nat, NEW v \in Nat, v > c
    PROVE  /\ \A s : WrittenOrNone(s, c) => OlderText(s, v)
           /\ \A m \in Wire : Bounded(m, c) => TellsOlder(m, v)
<1>1. ASSUME NEW s, WrittenText(s, c), NEW i \in 1 .. Len(s) PROVE s[i] < v
  <2>1. s[i] \in 1 .. c
    BY <1>1 DEF WrittenText
  <2> QED
    BY <2>1
<1>2. \A s : WrittenOrNone(s, c) => OlderText(s, v)
    BY <1>1 DEF WrittenOrNone, OlderText
<1>3. ASSUME NEW m \in Wire, Bounded(m, c) PROVE TellsOlder(m, v)
  <2>1. m.kind = "output" => m.is < v
    BY <1>3 DEF Bounded
  <2>2. m.kind \in {"session", "sessions"} => WrittenOrNone(m.is, c)
    BY <1>3 DEF Bounded, WrittenOrNone
  <2> QED
    BY <1>2, <2>1, <2>2 DEF TellsOlder
<1> QED
    BY <1>2, <1>3

\* The wire goes on with a message, and with the piece that it may tell.
LEMMA WireGoesOn ==
    ASSUME NEW w \in Seq(Wire), NEW m \in Wire, NEW s, NEW c \in Nat, NEW d \in Nat, c <= d,
           WireHolds(w, s, c), Bounded(m, d), m.kind = "output" => m.is = c + 1
    PROVE  WireHolds(Append(w, m), s, d) /\ WireHolds(w, s, d)
<1> DEFINE a == Append(w, m)
           l == Len(w) + 1
<1>1. /\ a \in Seq(Wire) /\ Len(a) = l /\ Len(w) \in Nat
      /\ \A n \in 1 .. Len(w) : a[n] = w[n] /\ w[n] \in Wire
      /\ a[l] = m
    BY WireAppended
<1> HIDE DEF a
<1>2. /\ \A n \in 1 .. Len(a) : n \in 1 .. Len(w) \/ n = l
      /\ \A n \in 1 .. Len(w) : ~(l < n) /\ ~(l < l)
    BY <1>1
<1>3. WrittenOrNone(s, d)
    BY StaysWritten DEF WireHolds, WrittenOrNone
<1>4. \A n \in 1 .. Len(w) : Bounded(w[n], c) /\ Bounded(w[n], d)
    BY <1>1, StaysWritten DEF WireHolds
<1>5. WireHolds(w, s, d)
    BY <1>3, <1>4 DEF WireHolds
<1>6. ASSUME NEW n \in 1 .. Len(a), a[n].kind = "output"
      PROVE  OlderText(s, a[n].is) /\ \A k \in 1 .. Len(a) : k < n => TellsOlder(a[k], a[n].is)
  <2>1. CASE n \in 1 .. Len(w)
    BY <1>1, <1>2, <1>6, <2>1 DEF WireHolds
  <2>2. CASE n = l
    <3>1. m.kind = "output" /\ m.is = c + 1 /\ a[n] = m
      BY <1>1, <1>6, <2>2
    <3>2. m.is \in Nat /\ m.is > c
      BY <3>1
    <3>3. OlderText(s, m.is)
      BY <3>2, BoundedIsOlder DEF WireHolds
    <3>4. \A k \in 1 .. Len(w) : TellsOlder(w[k], m.is)
      BY <1>1, <1>4, <3>2, BoundedIsOlder
    <3> QED
      BY <1>1, <1>2, <2>2, <3>1, <3>3, <3>4
  <2> QED
    BY <1>2, <2>1, <2>2
<1>7. \A n \in 1 .. Len(a) : Bounded(a[n], d)
    BY <1>1, <1>2, <1>4
<1>8. WireHolds(a, s, d)
    BY <1>3, <1>6, <1>7 DEF WireHolds
<1> QED
    BY <1>5, <1>8 DEF a

\* A page that knows nothing, and a wire with nothing on it.
LEMMA WireBegins ==
    ASSUME NEW w, NEW s, NEW c, WireHolds(w, s, c)
    PROVE  WireHolds(w, None, c) /\ WireHolds(<<>>, None, c)
<1>1. Len(<<>>) = 0
    OBVIOUS
<1> QED
    BY <1>1 DEF WireHolds, WrittenOrNone, OlderText

\* What the page makes of the first message is older than the pieces that follow it.
LEMMA WireIsHeard ==
    ASSUME NEW w \in Seq(Wire), w # <<>>, NEW s \in Outputs, NEW c \in Nat, WireHolds(w, s, c),
           NEW t,
           \/ t = s
           \/ t = None
           \/ Head(w).kind \in {"session", "sessions"} /\ t = Head(w).is
           \/ Head(w).kind = "output" /\ s # None /\ t = Append(s, Head(w).is)
    PROVE  WireHolds(Tail(w), t, c)
<1> DEFINE r == Tail(w)
           m == Head(w)
<1>1. /\ r \in Seq(Wire) /\ Len(r) = Len(w) - 1 /\ Len(w) \in Nat \ {0}
      /\ \A n \in 1 .. Len(w) - 1 : r[n] = w[n + 1]
      /\ m = w[1] /\ m \in Wire
    BY WithoutHead
<1> HIDE DEF r, m
<1>2. /\ \A n \in 1 .. Len(r) : n + 1 \in 1 .. Len(w) /\ r[n] = w[n + 1] /\ 1 < n + 1
      /\ 1 \in 1 .. Len(w)
      /\ \A k, n \in 1 .. Len(r) : k < n => k + 1 < n + 1
    BY <1>1
<1>3. \A n \in 1 .. Len(r) : Bounded(r[n], c)
    BY <1>2 DEF WireHolds
<1>4. ASSUME NEW n \in 1 .. Len(r), r[n].kind = "output"
      PROVE  /\ OlderText(s, r[n].is) /\ TellsOlder(m, r[n].is)
             /\ \A k \in 1 .. Len(r) : k < n => TellsOlder(r[k], r[n].is)
    BY <1>1, <1>2, <1>4 DEF WireHolds
<1>5. WrittenOrNone(s, c) /\ Bounded(m, c)
    BY <1>1, <1>2 DEF WireHolds
<1>6. WrittenOrNone(t, c) /\ \A n \in 1 .. Len(r) : r[n].kind = "output" => OlderText(t, r[n].is)
  <2>1. CASE t = s
    BY <1>4, <1>5, <2>1
  <2>2. CASE t = None
    BY <2>2 DEF WrittenOrNone, OlderText
  <2>3. CASE m.kind \in {"session", "sessions"} /\ t = m.is
    BY <1>4, <1>5, <2>3 DEF Bounded, WrittenOrNone, TellsOlder
  <2>4. CASE m.kind = "output" /\ s # None /\ t = Append(s, m.is)
    <3>1. m.is \in 1 .. c /\ WrittenText(s, c) /\ m.is \in Nat /\ s \in Seq(Nat)
      BY <1>5, <2>4 DEF Bounded, WrittenOrNone, WrittenText
    <3>2. \A i \in 1 .. Len(s) : s[i] < m.is
      BY <1>1, <1>2, <2>4 DEF WireHolds, OlderText
    <3>3. WrittenText(t, c)
      BY <2>4, <3>1, <3>2, PieceIsAdded
    <3>4. /\ Len(Append(s, m.is)) = Len(s) + 1 /\ Len(s) \in Nat
          /\ \A n \in 1 .. Len(s) : Append(s, m.is)[n] = s[n]
          /\ Append(s, m.is)[Len(s) + 1] = m.is
      BY <3>1, WireAppended
    <3>5. \A i \in 1 .. Len(t) : (i \in 1 .. Len(s) /\ t[i] = s[i]) \/ t[i] = m.is
      BY <2>4, <3>4
    <3>6. \A n \in 1 .. Len(r) : r[n].kind = "output" => OlderText(t, r[n].is)
      BY <1>4, <2>4, <3>5 DEF OlderText, TellsOlder
    <3> QED
      BY <3>3, <3>6 DEF WrittenOrNone
  <2> QED
    BY <2>1, <2>2, <2>3, <2>4 DEF m
<1>7. WireHolds(r, t, c)
    BY <1>3, <1>4, <1>6 DEF WireHolds
<1> QED
    BY <1>7 DEF r


\* What each step does to pages and snapshots.
LEMMA PagesTypedKept ==
    ASSUME WindowInv, PagesTyped, [WindowNext]_windowVars
    PROVE  PagesTyped'
<1> USE DEF PagesTyped
<1>1. page \in Nat /\ page <= MaxPages /\ MaxPages \in Nat
    BY WindowAssumption DEF WindowInv, WindowTypes, PageNumbers
<1>2. CASE Reload \/ OpenWindow
  <2>1. page < MaxPages /\ page' = page + 1 /\ UNCHANGED webContents
    BY <1>2 DEF Reload, OpenWindow, NewPage
  <2>2. opened' \in BOOLEAN
    BY <1>2 DEF Reload, OpenWindow
  <2> QED
    BY <1>1, <2>1, <2>2
<1>3. CASE CloseWindow
  <2>1. opened' \in BOOLEAN /\ webContents' \in BOOLEAN /\ UNCHANGED page
    BY <1>3, Zenon DEF CloseWindow
  <2> QED
    BY <1>1, <2>1
<1>4. CASE HandleState \/ HandleTerminalState
  <2>1. webContents' \in BOOLEAN
    BY <1>4, Zenon DEF HandleState, HandleTerminalState
  <2>2. UNCHANGED <<page, opened>>
    BY <1>4 DEF HandleState, HandleTerminalState, window
  <2> QED
    BY <2>1, <2>2
<1>5. ASSUME UNCHANGED <<page, opened, webContents>> PROVE PagesTyped'
    BY <1>5
<1>6. \A c \in Channels : ServiceChanges(c) \/ PageAsks(c) => UNCHANGED <<page, opened, webContents>>
    BY DEF ServiceChanges, PageAsks, window
<1>7. TerminalOpens \/ TerminalWrites \/ TerminalIsCleared \/ TerminalCloses
        => UNCHANGED <<page, opened, webContents>>
    BY DEF TerminalOpens, TerminalWrites, TerminalIsCleared, TerminalCloses, TerminalChanges, window
<1>8. HandleBootstrap \/ HandleRequest \/ RequestEnds \/ (\E c \in StateChannels : HandleOperation(c))
        => UNCHANGED <<page, opened, webContents>>
    BY DEF HandleBootstrap, HandleRequest, RequestEnds, HandleOperation, window
<1>9. Mount \/ Deliver \/ UNCHANGED windowVars => UNCHANGED <<page, opened, webContents>>
    BY DEF Mount, Deliver, windowVars, window
<1> QED
    BY <1>2, <1>3, <1>4, <1>5, <1>6, <1>7, <1>8, <1>9 DEF WindowNext

LEMMA VersionsTypedKept ==
    ASSUME WindowInv, WindowRest, [WindowNext]_windowVars
    PROVE  VersionsTyped'
<1>1. /\ states \in [Channels -> Nat] /\ displayed \in [Channels -> Nat \cup {None}]
      /\ wire \in Seq(Wire) /\ MaxChanges \in Nat
      /\ \A c \in Channels : states[c] <= MaxChanges /\ (displayed[c] # None => displayed[c] <= MaxChanges)
    BY WindowAssumption DEF WindowInv, WindowTypes, WindowRest, VersionsTyped
<1>2. ASSUME NEW c \in Channels, ServiceChanges(c) PROVE VersionsTyped'
  <2>1. states' = [states EXCEPT ![c] = states[c] + 1] /\ states[c] < MaxChanges
        /\ displayed' = displayed
    BY <1>2 DEF ServiceChanges
  <2>2. \A d \in Channels : states'[d] <= MaxChanges
    BY <1>1, <2>1
  <2> QED
    BY <1>1, <2>1, <2>2 DEF VersionsTyped
<1>3. CASE Deliver
  <2> DEFINE m == Head(wire)
  <2>1. wire # <<>> /\ states' = states
        /\ \/ displayed' = displayed
           \/ displayed' = IF m.kind = "state" THEN [displayed EXCEPT ![m.of] = m.is]
                           ELSE IF m.kind = "bootstrap"
                           THEN [c \in Channels |-> IF c \in StateChannels THEN m.is[c]
                                                    ELSE displayed[c]]
                           ELSE displayed
    BY <1>3 DEF Deliver, Shows, main
  <2>2. m \in Wire /\ m = wire[1] /\ 1 \in 1 .. Len(wire)
    BY <1>1, <2>1, WithoutHead
  <2>3. Bounded(m, chunks)
    BY <2>2 DEF WindowRest, WireTyped, WireHolds
  <2> HIDE DEF m
  <2>4. \A d \in Channels : displayed'[d] # None => displayed'[d] <= MaxChanges
    <3>1. CASE displayed' = displayed
        BY <1>1, <3>1
    <3>2. CASE m.kind = "state" /\ displayed' = [displayed EXCEPT ![m.of] = m.is]
        BY <1>1, <2>3, <3>2 DEF Bounded
    <3>3. CASE m.kind = "bootstrap" /\ displayed' = [c \in Channels |-> IF c \in StateChannels
                                                          THEN m.is[c] ELSE displayed[c]]
        BY <1>1, <2>3, <3>3 DEF Bounded
    <3> QED
        BY <2>1, <3>1, <3>2, <3>3
  <2> QED
    BY <1>1, <2>1, <2>4 DEF VersionsTyped
<1>4. CASE Reload \/ OpenWindow \/ CloseWindow
  <2>1. states' = states /\ \A c \in Channels : displayed'[c] = None
    BY <1>4 DEF Reload, OpenWindow, CloseWindow, NewPage, Nothing, main
  <2> QED
    BY <1>1, <2>1 DEF VersionsTyped
<1>5. ASSUME UNCHANGED <<states, displayed>> PROVE VersionsTyped'
    BY <1>1, <1>5 DEF VersionsTyped
<1>6. \A c \in Channels : PageAsks(c) => UNCHANGED <<states, displayed>>
    BY DEF PageAsks, main
<1>7. TerminalOpens \/ TerminalWrites \/ TerminalIsCleared \/ TerminalCloses
        => UNCHANGED <<states, displayed>>
    BY DEF TerminalOpens, TerminalWrites, TerminalIsCleared, TerminalCloses, TerminalChanges
<1>8. HandleState \/ HandleTerminalState \/ HandleBootstrap \/ HandleRequest \/ RequestEnds
        \/ (\E c \in StateChannels : HandleOperation(c)) => UNCHANGED <<states, displayed>>
    BY DEF HandleState, HandleTerminalState, HandleBootstrap, HandleRequest, RequestEnds,
       HandleOperation, main
<1>9. Mount \/ UNCHANGED windowVars => UNCHANGED <<states, displayed>>
    BY DEF Mount, windowVars, main
<1> QED
    BY <1>2, <1>3, <1>4, <1>5, <1>6, <1>7, <1>8, <1>9 DEF WindowNext

\* The terminal and the wire, when something is said of the terminal.
LEMMA WireIsPushed ==
    ASSUME WindowInv, WindowRest, NEW m \in Wire,
           wire' = (IF webContents THEN Append(wire, m) ELSE wire) \/ wire' = Append(wire, m),
           sessions' = sessions, chunks' \in Nat, chunks <= chunks', chunks' <= MaxChunks,
           Bounded(m, chunks'), m.kind = "output" => m.is = chunks + 1
    PROVE  WireTyped'
<1>1. wire \in Seq(Wire) /\ chunks \in Nat /\ WireHolds(wire, sessions, chunks)
    BY DEF WindowInv, WindowTypes, WindowRest, WireTyped
<1>2. WireHolds(Append(wire, m), sessions, chunks') /\ WireHolds(wire, sessions, chunks')
    BY <1>1, WireGoesOn
<1> QED
    BY <1>2 DEF WireTyped

LEMMA TerminalTypedKept ==
    ASSUME WindowInv, WindowRest,
           TerminalOpens \/ TerminalWrites \/ TerminalIsCleared \/ TerminalCloses
    PROVE  WireTyped' /\ WrittenOrNone(terminal, chunks)'
<1>1. /\ chunks \in Nat /\ chunks <= MaxChunks /\ terminal \in Outputs /\ MaxChunks \in Nat
      /\ WrittenOrNone(terminal, chunks)
    BY WindowAssumption DEF WindowInv, WindowTypes, WindowRest, WireTyped
<1>2. <<>> \in Seq(Nat)
    OBVIOUS
<1> DEFINE begins == [kind |-> "session", is |-> <<>>]
           closes == [kind |-> "removed"]
           v == chunks + 1
           writes == [kind |-> "output", is |-> v]
<1>3. CASE TerminalOpens \/ TerminalIsCleared
  <2>1. /\ terminal' = <<>> /\ chunks' = chunks /\ sessions' = sessions
        /\ wire' = IF webContents THEN Append(wire, begins) ELSE wire
    BY <1>3 DEF TerminalOpens, TerminalIsCleared, TerminalChanges, Send
  <2>2. begins \in Wire /\ begins.kind = "session" /\ begins.is = <<>>
    BY <1>2 DEF Wire
  <2>3. Bounded(begins, chunks)
    BY <2>2, NothingIsWritten DEF Bounded
  <2> HIDE DEF begins
  <2>4. WireTyped'
    BY <1>1, <2>1, <2>2, <2>3, WireIsPushed
  <2> QED
    BY <2>1, <2>4, NothingIsWritten DEF WrittenOrNone
<1>4. CASE TerminalCloses
  <2>1. /\ terminal' = None /\ chunks' = chunks /\ sessions' = sessions
        /\ wire' = IF webContents THEN Append(wire, closes) ELSE wire
    BY <1>4 DEF TerminalCloses, TerminalChanges, Send
  <2>2. closes \in Wire /\ closes.kind = "removed"
    BY DEF Wire
  <2>3. Bounded(closes, chunks)
    BY <2>2 DEF Bounded
  <2> HIDE DEF closes
  <2>4. WireTyped'
    BY <1>1, <2>1, <2>2, <2>3, WireIsPushed
  <2> QED
    BY <2>1, <2>4 DEF WrittenOrNone
<1>5. CASE TerminalWrites
  <2>1. /\ terminal # None /\ chunks < MaxChunks
        /\ terminal' = Append(terminal, v) /\ chunks' = v /\ sessions' = sessions
        /\ wire' = IF webContents THEN Append(wire, writes) ELSE wire
    BY <1>5 DEF TerminalWrites, TerminalChanges, Send
  <2>2. v \in Nat /\ chunks <= v /\ v <= MaxChunks /\ v \in 1 .. v
    BY <1>1, <2>1
  <2>3. writes \in Wire /\ writes.kind = "output" /\ writes.is = v
    BY <2>2 DEF Wire
  <2>4. Bounded(writes, v)
    BY <2>2, <2>3 DEF Bounded
  <2> HIDE DEF writes
  <2>5. WireTyped'
    BY <1>1, <2>1, <2>2, <2>3, <2>4, WireIsPushed
  <2>6. WrittenText(terminal, chunks)
    BY <1>1, <2>1 DEF WrittenOrNone
  <2>7. WrittenText(terminal, v) /\ \A i \in 1 .. Len(terminal) : terminal[i] < v
    <3>1. v > chunks
        BY <1>1
    <3> QED
        BY <1>1, <2>1, <2>2, <2>6, <3>1, StaysWritten, BoundedIsOlder DEF OlderText
  <2>8. WrittenText(terminal', v)
    <3> HIDE DEF v
    <3> QED
        BY <2>1, <2>2, <2>7, PieceIsAdded
  <2> QED
    BY <2>1, <2>5, <2>8 DEF WrittenOrNone
<1> QED
    BY <1>3, <1>4, <1>5

\* Every reply says what the services and the terminal are at.
LEMMA RepliesAreTyped ==
    ASSUME WindowInv, WindowRest,
           \/ HandleState \/ HandleTerminalState \/ HandleBootstrap \/ RequestEnds
           \/ \E c \in Channels : ServiceChanges(c)
    PROVE  WireTyped'
<1>1. /\ chunks \in Nat /\ chunks <= MaxChunks /\ terminal \in Outputs
      /\ states \in [Channels -> Nat] /\ invoked \in Seq(PageCalls)
      /\ WrittenOrNone(terminal, chunks) /\ wire \in Seq(Wire) /\ MaxChanges \in Nat
      /\ \A c \in Channels : states[c] <= MaxChanges
      /\ WireTyped
    BY WindowAssumption DEF WindowInv, WindowTypes, WindowRest, WireTyped, VersionsTyped
<1>2. ASSUME NEW m \in Wire, m.kind \in Replies, Bounded(m, chunks),
             \/ wire' = IF webContents THEN Append(wire, m) ELSE wire
             \/ wire' = Append(wire, m),
             UNCHANGED <<sessions, chunks>>
      PROVE  WireTyped'
  <2>1. m.kind # "output" /\ chunks' \in Nat /\ chunks <= chunks'
    BY <1>1, <1>2 DEF Replies
  <2> QED
    BY <1>1, <1>2, <2>1, WireIsPushed
<1>3. PageNumbers \subseteq Nat
    BY DEF PageNumbers
<1>4. invoked # <<>> => NextCall \in PageCalls
    BY <1>1, HeadIsHandled DEF NextCall
<1>5. ASSUME NEW p \in Nat, NEW c \in Channels, NEW v \in Nat, v <= MaxChanges
      PROVE  /\ [kind |-> "state", to |-> p, of |-> c, is |-> v] \in Wire
             /\ [kind |-> "state", to |-> p, of |-> c, is |-> v].kind \in Replies
             /\ Bounded([kind |-> "state", to |-> p, of |-> c, is |-> v], chunks)
    BY <1>5 DEF Wire, Replies, Bounded
<1>6. CASE HandleState
  <2> DEFINE p == NextCall.page
             c == NextCall.call.of
             m == [kind |-> "state", to |-> p, of |-> c, is |-> states[c]]
  <2>1. /\ wire' = Append(wire, m) /\ UNCHANGED <<sessions, chunks>>
        /\ NextCall.call.asks = "state" /\ invoked # <<>>
    BY <1>6 DEF HandleState, Reply, main
  <2>2. p \in Nat /\ c \in Channels
    BY <1>3, <1>4, <2>1 DEF PageCalls, WindowCalls
  <2> HIDE DEF p, c
  <2>3. m \in Wire /\ m.kind \in Replies /\ Bounded(m, chunks)
    BY <1>1, <1>5, <2>2
  <2> QED
    BY <1>2, <2>1, <2>3
<1>7. CASE HandleTerminalState
  <2> DEFINE p == NextCall.page
             m == [kind |-> "sessions", to |-> p, is |-> terminal]
  <2>1. wire' = Append(wire, m) /\ UNCHANGED <<sessions, chunks>> /\ invoked # <<>>
    BY <1>7 DEF HandleTerminalState, Reply, main
  <2>2. p \in PageNumbers
    BY <1>4, <2>1 DEF PageCalls
  <2> HIDE DEF p
  <2>3. m \in Wire /\ m.kind = "sessions" /\ m.is = terminal
    BY <1>1, <2>2 DEF Wire
  <2>4. m.kind \in Replies /\ Bounded(m, chunks)
    BY <1>1, <2>3 DEF Replies, Bounded
  <2> QED
    BY <1>2, <2>1, <2>3, <2>4
<1>8. CASE HandleBootstrap
  <2> DEFINE p == NextCall.page
             snapshots == [c \in StateChannels |-> states[c]]
             m == [kind |-> "bootstrap", to |-> p, is |-> snapshots]
  <2>1. wire' = Append(wire, m) /\ UNCHANGED <<sessions, chunks>> /\ invoked # <<>>
    BY <1>8 DEF HandleBootstrap, Reply, main
  <2>2. p \in PageNumbers
    BY <1>4, <2>1 DEF PageCalls
  <2>3. /\ snapshots \in [StateChannels -> Nat]
        /\ \A c \in StateChannels : snapshots[c] <= MaxChanges
    BY <1>1 DEF Channels
  <2> HIDE DEF p, snapshots
  <2>4. m \in Wire /\ m.kind = "bootstrap" /\ m.is = snapshots
    BY <2>2, <2>3 DEF Wire
  <2>5. m.kind \in Replies /\ Bounded(m, chunks)
    BY <2>3, <2>4 DEF Replies, Bounded
  <2> QED
    BY <1>2, <2>1, <2>4, <2>5
<1>9. CASE RequestEnds
  <2> DEFINE p == working.page
             c == working.of
             m == [kind |-> "state", to |-> p, of |-> c, is |-> states[c]]
  <2>1. /\ wire' = Append(wire, m) \/ wire' = wire
        /\ UNCHANGED <<sessions, chunks>> /\ working # None
    BY <1>9 DEF RequestEnds, Reply, main
  <2>2. p \in Nat /\ c \in Channels
    BY <1>3, <2>1 DEF WindowInv, WindowTypes
  <2> HIDE DEF p, c
  <2>3. m \in Wire /\ m.kind \in Replies /\ Bounded(m, chunks)
    BY <1>1, <1>5, <2>2
  <2>4. wire' = wire => WireTyped'
    BY <1>1, <2>1 DEF WireTyped
  <2> QED
    BY <1>2, <2>1, <2>3, <2>4
<1>10. ASSUME NEW c \in Channels, ServiceChanges(c) PROVE WireTyped'
  <2> DEFINE v == states[c] + 1
             m == [kind |-> "state", to |-> 0, of |-> c, is |-> v]
  <2>1. states[c] < MaxChanges /\ states' = [states EXCEPT ![c] = v]
        /\ UNCHANGED <<sessions, chunks>>
    BY <1>10 DEF ServiceChanges
  <2>2. v \in Nat /\ v <= MaxChanges /\ states'[c] = v
    BY <1>1, <2>1
  <2>3. wire' = IF webContents THEN Append(wire, m) ELSE wire
    BY <1>10, <2>2 DEF ServiceChanges, Send
  <2> HIDE DEF v
  <2>4. m \in Wire /\ m.kind \in Replies /\ Bounded(m, chunks)
    BY <1>5, <2>2
  <2> QED
    BY <1>2, <2>1, <2>3, <2>4
<1> QED
    BY <1>6, <1>7, <1>8, <1>9, <1>10


\* What the page hears of the terminal.
LEMMA PageHearsTyped ==
    ASSUME WindowInv, WindowRest, Deliver
    PROVE  WireTyped' /\ UNCHANGED <<terminal, chunks>>
<1> DEFINE m == Head(wire)
<1>1. /\ wire # <<>> /\ wire' = Tail(wire) /\ UNCHANGED <<terminal, chunks>>
      /\ \/ sessions' = sessions
         \/ sessions' = IF m.kind \in {"state", "bootstrap"} THEN sessions
                        ELSE IF m.kind = "sessions" THEN m.is
                        ELSE ReduceTerminalEvent(sessions, m)
    BY DEF Deliver, Shows, main
<1>2. /\ wire \in Seq(Wire) /\ chunks \in Nat /\ chunks <= MaxChunks
      /\ WireHolds(wire, sessions, chunks)
    BY DEF WindowInv, WindowTypes, WindowRest, WireTyped
<1>3. m \in Wire
    BY <1>1, <1>2, WithoutHead
<1>4. sessions \in Outputs
    BY <1>2 DEF WireHolds, WrittenOrNone, WrittenText, Outputs
<1>5. m.kind \in {"state", "bootstrap", "sessions", "session", "removed", "output"}
    BY <1>3, WireIs DEF Replies
<1>6. \/ sessions' = sessions
      \/ sessions' = None
      \/ m.kind \in {"session", "sessions"} /\ sessions' = m.is
      \/ m.kind = "output" /\ sessions # None /\ sessions' = Append(sessions, m.is)
    BY <1>1, <1>5 DEF ReduceTerminalEvent
<1>7. WireHolds(Tail(wire), sessions', chunks)
    BY <1>1, <1>2, <1>4, <1>6, WireIsHeard
<1> QED
    BY <1>1, <1>2, <1>7 DEF WireTyped

LEMMA WindowRestKept == WindowInv /\ WindowRest /\ [WindowNext]_windowVars => WindowRest'
<1> SUFFICES ASSUME WindowInv, WindowRest, [WindowNext]_windowVars PROVE WindowRest'
    OBVIOUS
<1>1. WireTyped /\ WrittenOrNone(terminal, chunks)
    BY DEF WindowRest
<1>2. PagesTyped' /\ VersionsTyped'
    BY PagesTypedKept, VersionsTypedKept DEF WindowRest
<1> DEFINE Goal == WireTyped' /\ WrittenOrNone(terminal, chunks)'
<1>3. ASSUME WireTyped', UNCHANGED <<terminal, chunks>> PROVE Goal
    BY <1>1, <1>3
<1>4. ASSUME UNCHANGED <<terminal, chunks, sessions, wire>> PROVE Goal
    BY <1>1, <1>4 DEF WireTyped
<1>5. TerminalOpens \/ TerminalWrites \/ TerminalIsCleared \/ TerminalCloses => Goal
    BY TerminalTypedKept
<1>6. ASSUME \/ HandleState \/ HandleTerminalState \/ HandleBootstrap \/ RequestEnds
             \/ \E c \in Channels : ServiceChanges(c)
      PROVE  Goal
  <2>1. UNCHANGED <<terminal, chunks>>
    BY <1>6 DEF HandleState, HandleTerminalState, HandleBootstrap, RequestEnds, ServiceChanges, main
  <2> QED
    BY <1>3, <1>6, <2>1, RepliesAreTyped
<1>7. Deliver => Goal
    BY <1>3, PageHearsTyped
<1>8. ASSUME Reload \/ OpenWindow \/ CloseWindow PROVE Goal
  <2>1. /\ UNCHANGED <<terminal, chunks>> /\ sessions' = None
        /\ wire' \in {wire, <<>>}
    BY <1>8 DEF Reload, OpenWindow, CloseWindow, NewPage, main
  <2>2. WireTyped'
    BY <1>1, <2>1, WireBegins DEF WireTyped
  <2> QED
    BY <1>3, <2>1, <2>2
<1>9. /\ \A c \in Channels : PageAsks(c) => UNCHANGED <<terminal, chunks, sessions, wire>>
      /\ \A c \in StateChannels : HandleOperation(c) => UNCHANGED <<terminal, chunks, sessions, wire>>
      /\ HandleRequest \/ Mount \/ UNCHANGED windowVars
           => UNCHANGED <<terminal, chunks, sessions, wire>>
    BY DEF PageAsks, HandleRequest, HandleOperation, Mount, windowVars, main
<1>10. Goal
    BY <1>4, <1>5, <1>6, <1>7, <1>8, <1>9 DEF WindowNext
<1> QED
    BY <1>2, <1>10 DEF WindowRest

\* What is bounded on the wire is one of the messages the bounds leave.
LEMMA BoundedIsMessage ==
    ASSUME NEW m \in Wire, NEW c \in Nat, c <= MaxChunks, Bounded(m, c),
           m.kind \in Replies => m.to <= page, page \in PageNumbers, page <= MaxPages
    PROVE  m \in States \cup Bootstrap \cup Sessions \cup Events
<1>1. /\ MaxPages \in Nat /\ MaxChanges \in Nat /\ MaxChunks \in Nat
      /\ page \in Nat
    BY WindowAssumption DEF PageNumbers
<1>2. /\ \A n \in Nat : n <= MaxChanges => n \in Versions
      /\ \A n \in PageNumbers : n <= page => n \in Pages
      /\ \A n \in Nat : n <= page => n \in Pages \cup {0}
    BY <1>1 DEF Versions, Pages, PageNumbers
<1>3. 1 .. c \subseteq 1 .. MaxChunks
    BY <1>1
<1>4. CASE m \in [kind : {"state"}, to : Nat, of : Channels, is : Nat]
  <2>1. m.to \in Pages \cup {0} /\ m.is \in Versions
    BY <1>2, <1>4 DEF Bounded, Replies
  <2>2. m \in States
    BY <1>4, <2>1 DEF States
  <2> QED
    BY <2>2
<1>5. CASE m \in [kind : {"bootstrap"}, to : PageNumbers, is : [StateChannels -> Nat]]
  <2>1. m.to \in Pages /\ m.is \in [StateChannels -> Versions]
    BY <1>2, <1>5 DEF Bounded, Replies
  <2>2. m \in Bootstrap
    BY <1>5, <2>1 DEF Bootstrap
  <2> QED
    BY <2>2
<1>6. CASE m \in [kind : {"sessions"}, to : PageNumbers, is : Outputs]
  <2>1. m.to \in Pages /\ m.is \in Text \cup {None}
    BY <1>2, <1>6, WrittenIsText DEF Bounded, Replies, WrittenOrNone
  <2>2. m \in Sessions
    BY <1>6, <2>1 DEF Sessions
  <2> QED
    BY <2>2
<1>7. CASE m \in [kind : {"session"}, is : Seq(Nat)]
  <2>1. m.is \in Text
    BY <1>7, WrittenIsText DEF Bounded
  <2>2. m \in Events
    BY <1>7, <2>1 DEF Events
  <2> QED
    BY <2>2
<1>8. CASE m \in [kind : {"removed"}]
    BY <1>8 DEF Events
<1>9. CASE m \in [kind : {"output"}, is : Nat]
  <2>1. m.is \in 1 .. MaxChunks
    BY <1>3, <1>9 DEF Bounded
  <2>2. m \in Events
    BY <1>9, <2>1 DEF Events
  <2> QED
    BY <2>2
<1> QED
    BY <1>4, <1>5, <1>6, <1>7, <1>8, <1>9 DEF Wire

LEMMA SequenceHolds ==
    ASSUME NEW S, NEW T, NEW w \in Seq(S), \A n \in 1 .. Len(w) : w[n] \in T
    PROVE  w \in Seq(T)
<1>1. Len(w) \in Nat /\ w \in [1 .. Len(w) -> S]
    BY LenProperties
<1>2. w \in [1 .. Len(w) -> T]
    BY <1>1
<1> QED
    BY <1>1, <1>2, SeqDef

LEMMA WindowTyped == WindowInv /\ WindowRest => WindowTypeOK
<1> SUFFICES ASSUME WindowInv, WindowRest PROVE WindowTypeOK
    OBVIOUS
<1> DEFINE M == States \cup Bootstrap \cup Sessions \cup Events
           C == [page : Pages, call : PageRequests]
<1>1. WindowTypes /\ PagesInOrder /\ PagesTyped /\ VersionsTyped /\ WireTyped
      /\ WrittenOrNone(terminal, chunks) /\ WrittenOrNone(sessions, chunks)
    BY DEF WindowInv, WindowRest, WireTyped, WireHolds
<1>2. /\ MaxPages \in Nat /\ MaxChanges \in Nat /\ MaxChunks \in Nat
      /\ page \in PageNumbers /\ page \in Nat /\ page <= MaxPages
      /\ chunks \in Nat /\ chunks <= MaxChunks
    BY <1>1, WindowAssumption DEF WindowTypes, PageNumbers, PagesTyped, WireTyped
<1>3. page \in Pages /\ \A n \in PageNumbers : n <= page => n \in Pages
    BY <1>2 DEF Pages, PageNumbers
<1>4. states \in [Channels -> Versions] /\ displayed \in [Channels -> Versions \cup {None}]
  <2>1. \A n \in Nat : n <= MaxChanges => n \in Versions
    BY <1>2 DEF Versions
  <2> QED
    BY <1>1, <2>1 DEF WindowTypes, VersionsTyped
<1>5. terminal \in Text \cup {None} /\ sessions \in Text \cup {None}
    BY <1>1, <1>2, WrittenIsText DEF WrittenOrNone
<1>6. wire \in Seq(M)
  <2>1. \A n \in 1 .. Len(wire) : wire[n] \in Wire /\ Bounded(wire[n], chunks)
                                  /\ (wire[n].kind \in Replies => wire[n].to <= page)
    BY <1>1 DEF WindowTypes, PagesInOrder, WireTyped, WireHolds
  <2>2. \A n \in 1 .. Len(wire) : wire[n] \in M
    BY <1>2, <2>1, BoundedIsMessage
  <2> HIDE DEF M
  <2> QED
    BY <1>1, <2>2, SequenceHolds DEF WindowTypes
<1>7. invoked \in Seq(C)
  <2>1. \A n \in 1 .. Len(invoked) : invoked[n] \in PageCalls /\ invoked[n].page <= page
    BY <1>1 DEF WindowTypes, PagesInOrder
  <2>2. \A n \in 1 .. Len(invoked) : invoked[n] \in C
    BY <1>3, <2>1 DEF PageCalls, WindowCalls, PageRequests
  <2> HIDE DEF C
  <2> QED
    BY <1>1, <2>2, SequenceHolds DEF WindowTypes
<1>8. working \in Operations \cup {None}
    BY <1>1, <1>3 DEF WindowTypes, PagesInOrder, Operations
<1>9. opened \in BOOLEAN /\ webContents \in BOOLEAN /\ mounted \in BOOLEAN
    BY <1>1 DEF WindowTypes, PagesTyped
<1>10. chunks \in 0 .. MaxChunks
    BY <1>2
<1> QED
    BY <1>3, <1>4, <1>5, <1>6, <1>7, <1>8, <1>9, <1>10 DEF WindowTypeOK


-----------------------------------------------------------------------------
(* All services.  A behaviour runs the service it picked, and each has an    *)
(* invariant of its own.                                                     *)

\* The invariant of the service that runs, with the types that it keeps.
PickedHolds ==
    /\ picked \in Services /\ EngineTypeOK
    /\ picked = "account"         => AccInv
    /\ picked = "terminals"       => EngineInv /\ TermInv
    /\ picked = "turns"           => CountInv /\ ApprovalInv /\ TurnRest
    /\ picked = "integrations"    => IntTypes
    /\ picked = "conversations"   => ConvInv /\ ConvRest
    /\ picked = "scans"           => ScanInv
    /\ picked = "activity"        => ActivityInv /\ ActivityRest
    /\ picked = "discards"        => DiscardTyped
    /\ picked = "window"          => WindowInv /\ WindowRest
    /\ picked = "pullRequests"    => PRInv /\ PRRest
    /\ picked = "updates"         => UpTypeOK
    /\ picked = "filePreviews"    => FilesInv /\ FilesRest
    /\ picked = "browserPreview"  => BrowserTypes /\ BrowserRest
    /\ picked = "permissions"     => PermissionInv /\ PermissionRest
    /\ picked = "worktrees"       => TreeInv /\ TreeRest
    /\ picked = "logs"            => LogInv
    /\ picked = "localData"       => DataInv /\ DataRest
    /\ picked = "securityRuntime" => RuntimeInv
    /\ picked = "usageEstimate"   => UsageInv /\ UsageRest
    /\ picked = "terminalCanvas"  => CanvasInv /\ CanvasRest
    /\ picked = "goals"           => GoalInv /\ GoalRest
    /\ picked = "wallClock"       => IInv

\* Only the service that was picked takes a step.
PickedRuns ==
    /\ UNCHANGED picked
    /\ picked \notin {"account", "terminals", "turns", "integrations"} => UNCHANGED engine
    /\ picked = "account"         => [AccNext]_accVars
    /\ picked = "terminals"       => [TermNext]_termVars
    /\ picked = "turns"           => [TurnNext]_turnVars
    /\ picked = "integrations"    => [IntNext]_intVars
    /\ picked = "conversations"   => [ConvNext]_convVars
    /\ picked = "scans"           => [ScanNext]_scanVars
    /\ picked = "activity"        => [ActivityNext]_activityVars
    /\ picked = "discards"        => [DiscardNext]_discardVars
    /\ picked = "window"          => [WindowNext]_windowVars
    /\ picked = "pullRequests"    => [PRNext]_prVars
    /\ picked = "updates"         => [UpNext]_upVars
    /\ picked = "filePreviews"    => [FilesNext]_filesVars
    /\ picked = "browserPreview"  => [BrowserNext]_browserVars
    /\ picked = "permissions"     => [PermissionNext]_permissionVars
    /\ picked = "worktrees"       => [TreeNext]_treeVars
    /\ picked = "logs"            => [LogNext]_logVars
    /\ picked = "localData"       => [DataNext]_dataVars
    /\ picked = "securityRuntime" => [RuntimeNext]_runtimeVars
    /\ picked = "usageEstimate"   => [UsageNext]_usageVars
    /\ picked = "terminalCanvas"  => [CanvasNext]_canvasVars
    /\ picked = "goals"           => [GoalNext]_goalVars
    /\ picked = "wallClock"       => [Next]_vars

LEMMA ServicesRun == [ServicesNext]_servicesVars => PickedRuns
<1>1. CASE ServicesNext
  <2>1. UNCHANGED picked
        /\ (picked \notin {"account", "terminals", "turns", "integrations"} => UNCHANGED engine)
    BY <1>1 DEF ServicesNext, OnlyPicked
  <2> QED
    BY <1>1, <2>1 DEF ServicesNext, PickedRuns
<1>2. CASE UNCHANGED servicesVars
  <2>1. /\ UNCHANGED <<picked, engine, accVars, termVars, turnVars, intVars, convVars, scanVars>>
        /\ UNCHANGED <<activityVars, discardVars, windowVars, prVars, upVars, filesVars>>
        /\ UNCHANGED <<browserVars, permissionVars, treeVars, logVars, dataVars, runtimeVars>>
        /\ UNCHANGED <<usageVars, canvasVars, goalVars, vars>>
    BY <1>2 DEF servicesVars, accOwn, accVars, termOwn, termVars, turnOwn, turnVars, intOwn, intVars
  <2> QED
    BY <2>1 DEF PickedRuns
<1> QED
    BY <1>1, <1>2

LEMMA PickedStart == ServicesInit => PickedHolds
<1> SUFFICES ASSUME ServicesInit PROVE PickedHolds
    OBVIOUS
<1>1. /\ picked \in Services /\ AccInit /\ TermInit /\ TurnInit /\ IntInit /\ ConvInit /\ ScanInit
      /\ ActivityInit /\ DiscardInit /\ WindowInit /\ PRInit /\ UpInit /\ FilesInit /\ BrowserInit
      /\ PermissionInit /\ TreeInit /\ LogInit /\ DataInit /\ RuntimeInit /\ UsageInit /\ CanvasInit
      /\ GoalInit /\ Init
    BY DEF ServicesInit
<1>2. AccInv /\ EngineTypeOK
    BY <1>1, AccInitInv DEF AccInv, AccTypeOK
<1>3. EngineInv /\ TermInv /\ IntTypes
    BY <1>1, IntTypesStart, TermInitInv DEF IntTypes
<1>4. CountInv /\ ApprovalInv /\ TurnRest
    BY <1>1, CountInitInv, ApprovalInitInv, TurnRestStart
<1>5. ConvInv /\ ConvRest /\ ScanInv /\ ActivityInv /\ ActivityRest /\ DiscardTyped
    BY <1>1, ConvStart, ConvRestStart, ScanInitInv, ActivityStart, ActivityRestStart, DiscardTypedStart
<1>6. WindowInv /\ WindowRest /\ PRInv /\ PRRest /\ UpTypeOK /\ FilesInv /\ FilesRest
    BY <1>1, WindowStart, WindowRestStart, PRStart, PRRestStart, UpTypesStart, FilesStart, FilesRestStart
<1>7. BrowserTypes /\ BrowserRest /\ PermissionInv /\ PermissionRest /\ TreeInv /\ TreeRest /\ LogInv
    BY <1>1, BrowserStart, BrowserRestStart, PermissionStart, PermissionRestStart, TreeStart,
       TreeRestStart, LogInvInit
<1>8. DataInv /\ DataRest /\ RuntimeInv /\ UsageInv /\ UsageRest
    BY <1>1, DataStart, DataRestStart, RuntimeInitInv, UsageStart, UsageRestStart
<1>9. CanvasInv /\ CanvasRest /\ GoalInv /\ GoalRest /\ IInv
    BY <1>1, CanvasStart, CanvasRestStart, GoalStart, GoalRestStart, InitIInv
<1> QED
    BY <1>1, <1>2, <1>3, <1>4, <1>5, <1>6, <1>7, <1>8, <1>9 DEF PickedHolds

LEMMA PickedKept == PickedHolds /\ [ServicesNext]_servicesVars => PickedHolds'
<1> SUFFICES ASSUME PickedHolds, PickedRuns PROVE PickedHolds'
    BY ServicesRun
<1>1. picked = "account" => (AccInv)'
    BY AccStepInv DEF PickedHolds, PickedRuns
<1>2. picked = "terminals" => (EngineInv /\ TermInv)'
    BY TermMovesEngine, EngineStepInv, TermStepInv DEF PickedHolds, PickedRuns
<1>3. picked = "turns" => (CountInv /\ ApprovalInv /\ TurnRest)'
    BY CountStepInv, ApprovalStepInv, TurnRestKept DEF PickedHolds, PickedRuns
<1>4. picked = "integrations" => (IntTypes)'
    BY IntTypesKept DEF PickedHolds, PickedRuns
<1>5. picked = "conversations" => (ConvInv /\ ConvRest)'
    BY ConvKept, ConvRestKept DEF PickedHolds, PickedRuns
<1>6. picked = "scans" => (ScanInv)'
    BY ScanStepInv DEF PickedHolds, PickedRuns
<1>7. picked = "activity" => (ActivityInv /\ ActivityRest)'
    BY ActivityKept, ActivityRestKept DEF PickedHolds, PickedRuns
<1>8. picked = "discards" => (DiscardTyped)'
    BY DiscardTypedKept DEF PickedHolds, PickedRuns
<1>9. picked = "window" => (WindowInv /\ WindowRest)'
    BY WindowKept, WindowRestKept DEF PickedHolds, PickedRuns
<1>10. picked = "pullRequests" => (PRInv /\ PRRest)'
    BY PRKept, PRRestKept DEF PickedHolds, PickedRuns
<1>11. picked = "updates" => (UpTypeOK)'
    BY UpTypesKept DEF PickedHolds, PickedRuns
<1>12. picked = "filePreviews" => (FilesInv /\ FilesRest)'
    BY FilesKept, FilesRestKept DEF PickedHolds, PickedRuns
<1>13. picked = "browserPreview" => (BrowserTypes /\ BrowserRest)'
    BY BrowserKept, BrowserRestKept DEF PickedHolds, PickedRuns
<1>14. picked = "permissions" => (PermissionInv /\ PermissionRest)'
    BY PermissionKept, PermissionRestKept DEF PickedHolds, PickedRuns
<1>15. picked = "worktrees" => (TreeInv /\ TreeRest)'
    BY TreeStep, TreeRestKept DEF PickedHolds, PickedRuns
<1>16. picked = "logs" => (LogInv)'
    BY LogStepInv DEF PickedHolds, PickedRuns
<1>17. picked = "localData" => (DataInv /\ DataRest)'
    BY DataKept, DataRestKept DEF PickedHolds, PickedRuns
<1>18. picked = "securityRuntime" => (RuntimeInv)'
    BY RuntimeStepInv DEF PickedHolds, PickedRuns
<1>19. picked = "usageEstimate" => (UsageInv /\ UsageRest)'
    BY UsageKept, UsageRestKept DEF PickedHolds, PickedRuns
<1>20. picked = "terminalCanvas" => (CanvasInv /\ CanvasRest)'
    BY CanvasKept, CanvasRestKept DEF PickedHolds, PickedRuns
<1>21. picked = "goals" => (GoalInv /\ GoalRest)'
    BY GoalKept, GoalRestKept DEF PickedHolds, PickedRuns
<1>22. picked = "wallClock" => (IInv)'
    BY NextIInv DEF PickedHolds, PickedRuns
<1>23. EngineTypeOK'
  <2>1. picked \notin {"account", "terminals", "turns", "integrations"} => EngineTypeOK'
    BY DEF PickedHolds, PickedRuns, engine, EngineTypeOK
  <2> QED
    BY <1>1, <1>2, <1>3, <1>4, <2>1 DEF AccInv, AccTypeOK, EngineInv, ApprovalInv, IntTypes
<1>24. picked' = picked /\ picked \in Services
    BY DEF PickedHolds, PickedRuns
<1> QED
    BY <1>1, <1>2, <1>3, <1>4, <1>5, <1>6, <1>7, <1>8, <1>9, <1>10, <1>11, <1>12, <1>13, <1>14, <1>15, <1>16,
       <1>17, <1>18, <1>19, <1>20, <1>21, <1>22, <1>23, <1>24
    DEF PickedHolds

\* The service that runs stays in its types.
LEMMA PickedIsTyped == PickedHolds => ServicesTypeOK
<1> SUFFICES ASSUME PickedHolds PROVE ServicesTypeOK
    OBVIOUS
<1>1. EngineTypeOK
    BY DEF PickedHolds
<1>2. picked = "account" => AccTypeOK
    BY DEF PickedHolds, AccInv
<1>3. picked = "terminals" => TermTypeOK
    BY TermTypes DEF PickedHolds
<1>4. picked = "turns" => TurnTypeOK
    BY TurnTypes DEF PickedHolds
<1>5. picked = "integrations" => IntTypeOK
    BY IntTypesGive DEF PickedHolds
<1>6. picked = "conversations" => ConvTypeOK
    BY ConvTyped DEF PickedHolds
<1>7. picked = "scans" => ScanTypeOK
    BY DEF PickedHolds, ScanInv
<1>8. picked = "activity" => ActivityTypeOK
    BY ActivityTyped DEF PickedHolds
<1>9. picked = "discards" => DiscardTypeOK
    BY DiscardsTyped DEF PickedHolds
<1>10. picked = "window" => WindowTypeOK
    BY WindowTyped DEF PickedHolds
<1>11. picked = "pullRequests" => PRTypeOK
    BY PRTypes DEF PickedHolds
<1>12. picked = "updates" => UpTypeOK
    BY DEF PickedHolds
<1>13. picked = "filePreviews" => FilesTypeOK
    BY FilesTyped DEF PickedHolds
<1>14. picked = "browserPreview" => BrowserTypeOK
    BY BrowserTyped DEF PickedHolds
<1>15. picked = "permissions" => PermissionTypeOK
    BY PermissionTyped DEF PickedHolds
<1>16. picked = "worktrees" => TreeTypeOK
    BY TreeTypes DEF PickedHolds
<1>17. picked = "logs" => LogTypeOK
    BY LogTyped DEF PickedHolds
<1>18. picked = "localData" => DataTypeOK
    BY DataTyped DEF PickedHolds
<1>19. picked = "securityRuntime" => RuntimeTypeOK
    BY DEF PickedHolds, RuntimeInv
<1>20. picked = "usageEstimate" => UsageTypeOK
    BY UsageTyped DEF PickedHolds
<1>21. picked = "terminalCanvas" => CanvasTypeOK
    BY CanvasTyped DEF PickedHolds
<1>22. picked = "goals" => GoalTypeOK
    BY GoalTyped DEF PickedHolds
<1>23. picked = "wallClock" => TypeOK
    BY DEF PickedHolds, IInv
<1>24. picked \in Services
    BY DEF PickedHolds
<1>25. CASE picked = "account"
    BY <1>1, <1>2, <1>25 DEF ServicesTypeOK
<1>26. CASE picked = "terminals"
    BY <1>1, <1>3, <1>26 DEF ServicesTypeOK
<1>27. CASE picked = "turns"
    BY <1>1, <1>4, <1>27 DEF ServicesTypeOK
<1>28. CASE picked = "integrations"
    BY <1>1, <1>5, <1>28 DEF ServicesTypeOK
<1>29. CASE picked = "conversations"
    BY <1>1, <1>6, <1>29 DEF ServicesTypeOK
<1>30. CASE picked = "scans"
    BY <1>1, <1>7, <1>30 DEF ServicesTypeOK
<1>31. CASE picked = "activity"
    BY <1>1, <1>8, <1>31 DEF ServicesTypeOK
<1>32. CASE picked = "discards"
    BY <1>1, <1>9, <1>32 DEF ServicesTypeOK
<1>33. CASE picked = "window"
    BY <1>1, <1>10, <1>33 DEF ServicesTypeOK
<1>34. CASE picked = "pullRequests"
    BY <1>1, <1>11, <1>34 DEF ServicesTypeOK
<1>35. CASE picked = "updates"
    BY <1>1, <1>12, <1>35 DEF ServicesTypeOK
<1>36. CASE picked = "filePreviews"
    BY <1>1, <1>13, <1>36 DEF ServicesTypeOK
<1>37. CASE picked = "browserPreview"
    BY <1>1, <1>14, <1>37 DEF ServicesTypeOK
<1>38. CASE picked = "permissions"
    BY <1>1, <1>15, <1>38 DEF ServicesTypeOK
<1>39. CASE picked = "worktrees"
    BY <1>1, <1>16, <1>39 DEF ServicesTypeOK
<1>40. CASE picked = "logs"
    BY <1>1, <1>17, <1>40 DEF ServicesTypeOK
<1>41. CASE picked = "localData"
    BY <1>1, <1>18, <1>41 DEF ServicesTypeOK
<1>42. CASE picked = "securityRuntime"
    BY <1>1, <1>19, <1>42 DEF ServicesTypeOK
<1>43. CASE picked = "usageEstimate"
    BY <1>1, <1>20, <1>43 DEF ServicesTypeOK
<1>44. CASE picked = "terminalCanvas"
    BY <1>1, <1>21, <1>44 DEF ServicesTypeOK
<1>45. CASE picked = "goals"
    BY <1>1, <1>22, <1>45 DEF ServicesTypeOK
<1>46. CASE picked = "wallClock"
    BY <1>1, <1>23, <1>46 DEF ServicesTypeOK
<1> QED
    BY <1>24, <1>25, <1>26, <1>27, <1>28, <1>29, <1>30, <1>31, <1>32, <1>33, <1>34, <1>35, <1>36,
       <1>37, <1>38, <1>39, <1>40, <1>41, <1>42, <1>43, <1>44, <1>45, <1>46
    DEF Services

\* Whichever service runs, its variables and the phase of the agent engine stay in their
\* types, for every value of the constants (agentService.ts, terminalService.ts, ipc.ts,
\* securityService.ts and the others, src/main): every version and counter keeps to its
\* bound, and what a call, a message or a row names is one of the things there are.
THEOREM ServicesAreTyped == ServicesSpec => []ServicesTypeOK
BY PickedStart, PickedKept, PickedIsTyped, PTL DEF ServicesSpec
=============================================================================
