# Norevinq desktop: a TLA+ verification project

Norevinq desktop is an Electron application around `codex app-server`, the agent
engine it starts as a child process and talks to with JSON-RPC over JSON lines. The
main process (`src/main`) owns every long-lived resource: the engine, the
conversations, scheduled tasks, Git worktrees, terminals, scans, updates and a SQLite
database. The renderer shows snapshots and sends calls over IPC.

The main process is one thread, so its races are not between instructions but between
the *tasks of the event loop*: what happens while a function awaits a child process, a
Git command, a file, a timer or an answer. They are the interleavings the models
explore, together with the kill of the process between any two durable writes. Three
modules (Window, TerminalCanvas, Permissions) reach into the page, whose races are
those of messages, renders and effects.

## 1. Inventory

`M` marks what is modelled in this directory, `m` what is modelled in part; section 3
says by which module.

| Component | State | Operations | Talks to | What is hard | What makes it correct |
|---|---|---|---|---|---|
| `M` Engine supervisor `runtime/codexRuntime.ts` | phase, generation, child, peer, restart timer, stop flag, counts of turns and terminals, configuration | start, stop, restart, updateLaunchConfiguration, mark*, exit handler, restart timer | peer, every service through `start()` and `subscribe` | a stop during discovery or the handshake, exits of old children, timers that outlive their reason | no stray engine, configuration in force, starts that settle |
| `M` JSON-RPC peer `runtime/jsonlRpc.ts` | pending requests, write queue, buffer, handlers | request, notify, respond, close, stream events | supervisor, all services | late and duplicate answers, a full write queue, close in the middle of everything | each request settles once, with its own answer |
| `m` Scheduled tasks `scheduler/schedulerService.ts` | tables `scheduled_tasks`, `scheduled_runs`; timer, drain promise, controllers | saveTask, setPaused, deleteTask, runNow, cancelRun, tick, drain, executeRun, start, stop, crash recovery | executor in `index.ts`, conversations, database | ticks, run-now and retries reaching the queue at once; edits during a run of hours; crash between two rows | serial execution, justified retries, no silent scheduler |
| `M` Recurrence `schedulerService.ts` 330-405 | none | nextOccurrence, wallTimeToInstant, localDateTime | rrule, Intl | wall times that do not exist or exist twice | an existing wall time is hit; an occurrence is queued once |
| `M` Worktree handoff `worktree/worktreeService.ts`, `agentService.handoffThread` | worktrees, stash, recovery refs; table `worktree_handoffs`, worktree of the conversation | moveChanges, completeHandoff, rollbackHandoff, retryRecovery, recovery at startup | git, database, conversations | twenty commands that can fail or be cut short, with a user who edits meanwhile | no edit lost, hidden or doubled; work and conversation end together |
| `M` Worktree management `worktreeService.ts` | table `managed_worktrees` | list, create, lock, unlock, remove | git, database, conversations | remove beside a conversation that starts there, the undo of a failed create | work goes only by force, no conversation in a worktree without a record |
| `m` Conversations and turns `agent/agentService.ts`, `activityReducer.ts` | list, turns, approvals and their resolvers, goals, activities | load, select, archive, delete, fork, startTurn, approvals, provider switch, goals, notifications | peer, supervisor, worktrees, providers | answers that time out while the turn runs, restarts with approvals open, switches of many requests, streams cut at a limit | the count never exceeds the turns, an approval of the present engine can be answered, no conversation and no text is lost silently |
| `m` Model providers `providers/*` | key, price tables | setApiKey, remove, usage estimate | vault, supervisor | the key and the engine must agree; counters that begin again across a change of tariff | the engine has the key in force; the estimate is what is charged, or falls short by no more than counters that begin again hide |
| `M` Account `account/accountService.ts` | snapshot, pending login, refresh in flight | refresh, logins, cancel, logout, handlers | peer, supervisor | the completion of a login before the answer that names it; a restart in the middle | a pending login belongs to the engine that runs |
| `M` Updates `update/updateService.ts` | phase, timers | check, download, install, driver events | electron-updater | events and errors at any time, also while a file is held | the phase follows the updater |
| `m` Integrations `integrations/integrationService.ts` | inventory, questions and their resolvers, loads in flight | load, refresh, write, trust, answer | peer, supervisor | coalesced refreshes, questions of an older engine | each answer reaches its question |
| `M` Terminals `terminal/terminalService.ts`, `TerminalPanel.tsx` | sessions, tails of output | create, terminate, close, output, drawing | peer, supervisor | exit beside terminate; a screen that is loaded while sessions change | the supervisor counts the processes that run; the screen shows the session |
| `m` Security scans `security/securityService.ts` | scan records, controllers, plugin copy, wrapper | start, cancel, execute, triage, skills, staging | SDK, database, engine | cancel at every wait, failures of the close, kills between renames | one scan at a time, no unwanted cost, a whole runtime |
| `m` Git, diff, discard `git/gitService.ts`, `diffService.ts` | stash entries, discard refs | stage, commit, hunks, discard, restore | git | discard and restore through a stash | a discarded change can be restored |
| `M` Pull requests `git/githubService.ts` | creations in flight | createPullRequest | git, gh, GitHub | timeouts after the work was done | one pull request for a branch |
| `m` Files and previews `files/*` | tokens | preview, resolve, serve | file system | the file changes between check and use | a response is of the file previewed |
| `M` Browser preview `browser/browserService.ts` | view, panel | open, navigate, close, events | Electron | superseded loads that fail late | the panel shows the page |
| `m` Credentials, `M` local data at startup `security/credentialStore.ts`, `app/userDataMigration.ts`, `runtime/codexHome.ts` | directories, database, vault | adoption, migrations, key changes | file system | two processes, kills between any two steps | what was stored is in force |
| `m` Logs and diagnostics `logging/*`, `diagnostics/*` | files, queue of lines | log, rotate, record a crash | file system | a rotation cut short | the latest lines are kept |
| `m` State database `state/database.ts` | SQLite tables | one synchronous method per row operation | all services | what is durable between two writes | the tables are the durable state of the modules |
| `m` Startup, IPC, preload `index.ts`, `ipc.ts`, `preload` | windows | state requests, operations, pushes | services, renderer | pushes around an answer, a reload or a new window | the page shows the present state |
| `m` Renderer `src/renderer` | view state | calls | IPC | what it keeps of the snapshots | (in Window, TerminalCanvas, Permissions) |
| Generated protocol types | none | none | | | |

How they interact. The supervisor is started lazily by the first service that needs
the engine; a change of phase is broadcast to subscribers synchronously. The
conversation service and the terminals tell the supervisor what is running
(`markTurnStarted`, `markProcessStarted`), and the supervisor uses the counts to decide
between "restart at once" and "fail and wait for the user". The scheduler executes a
run through an executor in `index.ts` that starts a conversation turn and waits for its
end; a handoff moves uncommitted changes with Git and the conversation with one
database write; providers and accounts change the configuration of the engine, which
restarts it. Every service pushes its snapshot through IPC to the windows.

## 2. Plan and where it stands

1. **CodexRuntime**, **Scheduler**, **WallClock**, **Handoff** with **WorkTransfer**,
   **JsonlRpc** with **RequestPromise**: the core, model-checked, each with its proofs.
2. **EngineLifecycle**: what a service may assume of the supervisor, implemented by
   CodexRuntime (run and theorem) and composed with the services that follow the
   engine: **Account**, **Turns**, **Terminals**, **Integrations**.
3. The other services, each on its own: **Conversations**, **Goals**, **Activity**,
   **Permissions**, **Scans**, **SecurityRuntime**, **UsageEstimate**, **Discards**,
   **Worktrees**, **PullRequests**, **Updates**, **FilePreviews**, **BrowserPreview**,
   **LocalData**, **Logs**, **Window**, **TerminalCanvas**. **MCServices** puts them in
   one run.
4. Proofs for the services, each for every bound: those of EngineUseProofs and
   ServiceProofs, and in MCServicesProofs the types of them all.
5. Left for later: the renderer's panels; liveness of the services, which needs
   assumptions on the engine that the code does not state.

## 3. What is modelled

One action is one task of the event loop: the code between two awaits that wait for
the outside world. Names of definitions are those of the code where the code has one.
Definitions called `Fault_...` are seeded defects, each the plausible wrong version of
the definition below it. `Next` uses none of them: they exist to show that a property
is able to fail.

### CodexRuntime (with CodexRuntimeProofs)

`phase`, `error`, `generation`, `restartAttempt` are the snapshot; `child`, `peer`,
`restartTimer`, `stopRequested` and the counts are the private fields; child and peer
are named by the generation that created them. `startPc` says where the one
`#startOnce` in flight is suspended: in discovery, in the handshake or in a log write.
`proc`, `sigtermed` and `closed` are the operating system's side. `timers` are the
timeouts pending in the event loop, of which the supervisor remembers only the latest
handle.

Actions: the calls `Start`, `Stop`, `Restart`, `UpdateLaunchConfiguration`, `Mark...`;
the continuations `AbandonDiscovery`, `Spawn`, `DiscoveryFails`, `FinishUnavailable`,
`HandshakeSucceeds/Fails`, `FinishReady`, `FinishFailed`; the events `ProcessDies`,
`PeerFails`, the five branches of `#handleExit` and `RestartTimerFires`. Handlers and
the environment of the child carry no control and are left out; the log line is an
await of its own because the phase changes after it.

### JsonlRpc (with RequestPromise, MCJsonlRpc, JsonlRpcProofs)

`nextRequestId`, `pending` and `buffered` are the private fields of the peer, `timers`
the timeouts of the pending entries, `call` the promise each caller holds. `frames` is
`#currentWrite` followed by `#writeQueue`. The stream is `handed` (it has taken the frame
being written), `broken` (a write has failed) and `late` (the frame it held when the peer
closed); the engine is `taken`, `replied` and `answers`. A frame is the call it belongs
to, its kind, its identifier and its length.

Actions: the calls `Request`, `RequestRefused` (the queue is full or the line too long),
`Notify`, `CallAfterClose`; `TimerFires`; the write callbacks `WriteDone` and
`WriteFails`, after which every write fails; `Response` (a result, an error, or a
malformed answer that leaves the request waiting), `ResponseToNobody`; the engine's own
requests, `ReverseRequest`, `ReverseRequestRefused`, `HandlerReturns`, `HandlerThrows`;
`Fail` for every end of the connection; `LateWrite` and `EngineReplies` for the pipes and
the engine, which answers in any order and at any time.

`RequestPromise` is what a service may rely on: a call waits, is served by the engine or
not, and settles once, resolved only after it was served. In the refinement a request is
served when the engine answers it and a notification when the pipe takes it.

Left out: decoding chunks into lines, the registration of handlers, identifiers near
2^53. The error response to a line that is no message is `ReverseRequestRefused`.

### Scheduler (with MCScheduler, SchedulerProofs)

`tasks` and `runs` are the two tables and survive `Kill`; `timer`, `drain` and `active`
are memory. `runs[t][p]` holds the records of a task for a project in order of
insertion. Time is counted in ticks of 15 s. `Tick` is the handler up to its first await
on the drain, `DrainStep` one round of the loop in `#drainQueue` (skip, or start an
execution), `ExecuteSucceeds/Fails/AfterStop` what follows the executor's promise, with
the retry it queues. `KilledInTick` and `KilledInRetry` are kills between two rows of a
loop of inserts. `Boot` constructs the service and marks interrupted runs;
`StartService` is `start()` with its immediate tick. `NextOccurrence` is a constant,
the one WallClock is about.

Left out: the unread flag, `lastRunAt` and thread identifiers, removed projects, the
`LIMIT`s of the queries (100 for the queue, 1000 for recovery), a clock that jumps while
the machine sleeps.

### WallClock (with MCWallClock, WallClockProofs)

`LocalDateTime`, `WallTimeToInstant` and `NextOccurrence` are functions of a zone (an
offset, an instant of change, another offset); `Save`, `Tick` and `Advance` are the
moments at which the code computes the next run. The loop of at most four rounds is
written as four applications of a round, since the round that finds no difference, on
which the code breaks, changes nothing. `NextWall` stands for rrule: only that it
answers with a later wall time is assumed.

### Handoff (with HandoffProofs)

Git is modelled by what commands do to sets of edits: a worktree holds committed and
uncommitted edits, a tree identity is their union (the code compares index and tree
identities; the index is folded into the tree), a stash entry or recovery ref holds the
edits it was made from. `operation` is the row of `worktree_handoffs`, `context` the
worktree of the conversation. Up to two processes run at once: `"move"`, which is
`handoffThread` with `moveChanges` and the `completeHandoff` or `rollbackHandoff` that
follow, and a recovery, which is that of the startup or of `retryRecovery`. `pc` names
the command a process issues next. Every command may fail, those that change files also
half way; its failure followed by `Kill` is a kill in the middle of it.

The user edits and commits in any worktree. `quiet` are the edits made while no
handoff and no recovery runs, `exposed` those made while one does: Git commands leave
windows of milliseconds in which an edit of the latter kind is lost, so `NothingLost`
speaks of the former. `Habits` selects what the user does beside a running process.

`WorkTransfer` is the abstract specification of a handoff: work departs from the source as
a whole, is in no worktree on its way, and arrives where the conversation is by then; beside
that only the user changes anything. `MovesAsOne` is the refinement. `Carried`, the work on
its way, is what the source had when the handoff was recorded, less what has been committed
in the source since; wherever stash, ref and half applied files have put copies of it, it is
taken as on its way until the record is deleted, and the rest of the worktrees (`WorkLeft`)
must not change meanwhile. So stash, secure, apply, reset, restore and every kill between
them are stutters, the move of the conversation is `Switch`, the deletion of the record is
`Arrive` (forward or back), and a commit in either worktree may take what is on its way:
work committed at the target may still come back to the source, work committed at the
source does not travel further. As in `NothingLost`, only the edits in `quiet` are meant.

A recovery takes any failure of `git rev-parse` for a recovery ref that does not exist
(`resolveOptionalRef`), and then deletes the record if the worktrees look as if the handoff
had taken nothing. `Resolved` is this choice, and the model has the trace it allows: the
process is killed between the drop of the stash entry and the mark of the row
(`worktreeService.ts` 342-343), the user edits the clean source, the look at the ref fails at
the next start, and the record goes while the work is in the ref alone. `overlooked` names the
handoffs this has happened to. Nothing is lost (`NothingLost` holds as it stands), but
nothing in the application leads to that ref any more, so `NothingHidden` and
`WorkFollowsConversation` except exactly these refs, and `WorkTransfer` has a step for them:
`Strand` gives a handoff up where it departed, its work stranded, and stranded work stays
stranded.

Left out: a second stash made by the user in the middle, removal of a worktree, a
handoff without changes requested while a recovery is pending (the interface always
asks to move changes), and the `phase` and `error` of the row, which are only shown.

### EngineLifecycle and ServiceBounds

`EngineLifecycle` is the abstract specification of the supervisor: a phase, a generation
and whether a start has settled, with the steps a subscriber may see. `KeepsLifecycle`
of CodexRuntime is the refinement, checked by the run `CodexRuntime` and proved for every
bound (`ImplementsLifecycle`). Account, Turns, Terminals and Integrations take its steps
for their environment, composed with what the service does in the same task when the
phase changes. `ServiceBounds` holds the constants several services share.

### Conversations, Goals, Turns, Activity, Permissions (`agent/agentService.ts`, `agent/activityReducer.ts`)

* **Turns.** `call` and `run` are the two ends of `turn/start`, `heard` the last
  notification handled; `activeTurns` and `turnCount` are the set of the service and the
  count of the supervisor. Approvals carry the number their engine gave them;
  `resolvers` maps a number to one request, as the code does, and the cards in `shown`
  stay when their engine ends. That each engine numbers its requests from the beginning is
  taken from how it is used: it is external. So the card of an older engine can resolve the
  request of the present one that has its number; the run `TurnsStaleApproval` shows it,
  and `EngineCanBeAnswered` says that nothing else can come between a request and its card.
  Compaction, hand-off guards, the retry of an idle conversation (`Resumed`), time-outs and
  restarts of the engine are actions. `NoPhantomTurn` bounds the count from above only, and
  a turn that died with its engine stays counted, in the model as in the code.
* **Conversations.** `kept`, `cwd`, `root` are the engine's threads, `assoc`, `archived`,
  `pinned` the table, `view` the snapshot. A call is a record in `op` that says what it
  asks for now; `Serve` is the engine with the notification that goes with the answer,
  the actions below it what each continuation does. A request may fail before or after
  it was served. `#migrateThreadProvider` is `SwitchProvider`, `MigrationMade`,
  `MigrationCommits`, `MigrationFails` and `RollbackEnds`. `owned` and `wiped` are history:
  roots that ever belonged to a project, and those the user had deleted.
  `ConversationIsKept`.
* **Goals.** The wire between the engine and the peer holds answers and notifications;
  `ReadGoals` reads a chunk of them as the peer does, notifications at once and answers in
  the microtasks after it. `GoalShownIsHeld`; the two cases in which the code shows an
  older goal (an answer and a later notification in one chunk; a notification lost with
  its engine) are named in the property.
* **Activity.** The reducer's branches on items of each kind, and `HydrateThread`, which
  starts from an answer in the middle of a turn. Texts are lengths, cut at `MaxText` and
  `MaxOutput`. `NoSilentLoss`.
* **Permissions.** One request from its profile to the reply, through the options the
  panel shows and the numbers it answers with. `GrantIsWhatWasShown`.

### Account, Terminals, Integrations, TerminalCanvas

* **Account** (`account/accountService.ts`). `pending` is `#pending`, `refreshing` and
  `accCall` say where each call waits, `born` which engine opened a login (history). A
  login waits for the engine, for its answer and for the browser; a restart or a cancel
  comes at each. `LoginIsOfThisEngine`.
* **Terminals** (`terminal/terminalService.ts`). `exec` are the `command/exec` requests in
  flight, each a process; `processCount` is the count of the supervisor. A terminate
  request that the peer's full queue refuses, after which `close` deletes the session all
  the same (`terminalService.ts` 161-167), is not followed. `ProcessesAreAccountedFor`.
* **Integrations** (`integrations/integrationService.ts`). Loads and refreshes with
  `#refreshPromise` and `#refreshTimer`, writes, roots of skills, trust, and questions with
  their resolvers, numbered by the engine. `AnswersReachTheirRequest` speaks of questions
  that can be answered: the code removes the resolver before it looks at the size of the
  answer, so that after one that is too long the question is shown and cannot be.
* **TerminalCanvas** (`TerminalPanel.tsx`). Renders, the two effects and the load of xterm
  are separate actions, as React runs them. `ScreenShowsSession`.

### Scans, SecurityRuntime, UsageEstimate (`security/securityService.ts`, `providers/deepseekPricing.ts`)

* **Scans.** `step` says what `executeScan` of each scan waits for: the coordinator, the
  exchange rate, the SDK, its close. Of a request the model keeps its provider and whether
  it needs the coordinator, which a deep scan does in the packaged app alone: only there
  `index.ts` gives the service a plugin path. `memory` and `row` are the snapshot and the table,
  `spent` the calls of the model with how the scan stood then (history). Triage writes the
  workbench first. `OneScanAtATime`, `NoUnwantedCost`, `TriageNeverAhead`.
* **SecurityRuntime.** The private copy of the plugin and the two files of the wrapper,
  each rename and write an action that may fail or be the last. `ScansRunWholeRuntime`.
* **UsageEstimate.** The accumulator on the official price lists, with the tariff of the
  hour. `due` (history) is what the use costs that the reports speak of, also of counters
  that began again at zero; of these the code bills only what exceeds their earlier values,
  and `unbilled` is the price of the rest. `EstimateCoversUse`: the estimate is exact while
  counters go on, and falls short by at most `unbilled` otherwise.

### Discards, PullRequests, Worktrees (`git/*`, `worktree/worktreeService.ts`)

* **Discards.** A change is an edit of a path; a Git command moves edits between HEAD,
  index, tree, stash and refs. The steps of a discard are those of `#discardGroup`, each
  able to fail having done its work; staging, hunks, commits, restores and the user with
  git run beside it. `Habits` names two things the user may do that break the property:
  `"recreate"` (a file at the old path of a staged rename), the subject of the run
  `DiscardRenameSource`, and `"stash"` (using the stash between the verification of the
  entry and its drop, which goes by place: the drop can then take another entry). Both
  are off in the run `Services`. `DiscardsAreRecoverable`.
* **PullRequests.** A call goes through preflight, list, push, create, verify and a second
  list; calls made meanwhile share its promise (`activeCreates`). GitHub is the set of open requests,
  to which other people add. There is one project: creations in flight are keyed by
  project and those of different projects share nothing. `OnePullRequestPerBranch`.
* **Worktrees.** `create` with its undo, `list`, `setLocked` and `remove`, beside
  conversations that begin in a worktree, the removal of the project and the kill of the
  application. `WorktreeWorkIsKept`, an action property.

### Updates, BrowserPreview, FilePreviews

* **Updates.** The calls of the user and the timers against the events of the updater,
  in any order. `updateFile` is the file the updater holds. After an error it may still hold
  it (`"doubted"`), which the service does not learn: `installUpdate` refuses it until it has
  been downloaded again, and `PhaseFollowsUpdater` promises an installable file only until
  an error is reported, and after it a phase in which it can be asked for again.
* **BrowserPreview.** One load of the view at a time; a load that is given up reports so
  after the next has begun. `PanelShowsThePage`.
* **FilePreviews.** Between two system calls of a preview other processes write, replace,
  link and remove the file. `Named` is the reference definition of a range (RFC 9110),
  `ResponseIsThePreview` compares the response with it.

### LocalData, Logs

* **LocalData.** Two processes adopt the directories, the database and the home of earlier
  names, take the lock, migrate the schema, open the vault and set the engine's key; each
  may be killed between any two steps. `StoredDataIsInForce` has four named parts.
* **Logs.** The queue of `#pending`, the renames of a rotation one by one, and the records
  of crashes; a kill tears the line being appended. `LatestLinesAreKept`.

### Window

The page, the preload and `ipc.ts`: requests, answers and pushes on one ordered wire,
a page that mounts, reloads and is replaced by a new window. Snapshots are versions,
terminals send what changes, so that a push lost or applied twice would stay visible.
`WindowIsCurrent`.

### MCServices

The services share the process and the event loop but no state with one another beside
the phases of the engine, so one run checks them: a behaviour picks one service, and the
others keep the state they begin with. `PickedState` is what can differ between two states
with the same pick; TLC compares states by it (`VIEW`).

## 4. What is checked

Every property is a claim about several steps; each has a seeded defect of the code
that violates it in the same run.

| Run | Question | Bounds | Result |
|---|---|---|---|
| `CodexRuntime` | No stray process, the saved configuration in force, starts that settle, and the life cycle the services rely on, whatever call, crash or timer comes in between? | 3 generations, 2 restarts, 1 turn, 1 terminal, 1 change of configuration | holds, 45 493 states |
| `CodexRuntimeFailedTurn` | Does the engine wait for the user after it died during a turn (PROTOCOL.md)? | 3 generations | violated: an older restart timer is still armed |
| `JsonlRpc` | Does the peer keep what the services rely on, with refusals, failed writes, timeouts, late answers and the end in any order? | 2 requests, one without a timeout, 1 notification, 1 reverse request, lines of 1 and 2 units, a queue of 4 | holds, 22 193 states |
| `Scheduler` | Serial and justified runs, edits kept, and a due run that leaves the queue? | a recurring and an on-demand task, 1 project, 2 attempts, 3 ticks, 1 manual run | holds, 312 141 states |
| `SchedulerRetry` | Is only what failed attempted again (SCHEDULED_TASKS.md)? | 1 task, 2 projects | violated: the failure of one project repeats all |
| `TurnsStaleApproval` | Does the answer on a card reach the request of this card or none (PROTOCOL.md)? | 2 engines, 1 request each | violated: a card left by the old engine answers the new one's request |
| `WallClockGap` | Is an occurrence queued once in every zone? | days of 6 units, offsets -2..2 before and after | violated west of Greenwich, in the gap of a change |
| `Handoff` | Is work never lost, hidden or doubled, does it end beside the conversation, and do all the commands amount to one transfer (`WorkTransfer`)? | 2 worktrees, 2 edits and a stash of the user's, 2 handoffs, edits and commits at any time, failures and kills without bound | holds, 328 480 states |
| `HandoffRetry` | The same when a retry is pressed beside a running handoff? | 1 edit, 1 handoff | violated |
| `HandoffUserStash` | Is the user's stash stack left alone (AUTONOMOUS_STATE.md)? | 1 edit, 1 stash, 1 handoff | violated |
| `DiscardRenameSource` | Can a discard be brought back when the user makes a new file at the old path of a staged rename (ARCHITECTURE.md)? | 1 edit of a path, 2 discards | violated: the new file is overwritten |
| `Services` | The promise of each of the other services, one picked in each behaviour | below | holds, 652 449 states |

Properties that hold for the reasons the proofs give but that no seeded defect needs a
run for are theorems only: `ConnectionIsCurrent`, `StoppedHoldsNoConnection`,
`PendingIsWaiting`, `PausedNeverScheduled`, `TickStaysArmed`, `RunsMoveForward`,
`EastQueuesOnce` and the type invariants of the core; so is `WorkFollowsConversation`,
whose defects `MovesAsOne` finds as well.

Why the bounds of the core are enough. Three generations are an old, a current and a next
child: the handlers compare a generation with the current one only. Two restarts reach the
limit. Two tasks are one that executes and one that waits; in three ticks an occurrence is
on time or late, and a retry becomes due; crashes are unbounded. Two handoffs are one that
was interrupted and the next, and with two edits a command can succeed for one and fail for
the other. In a queue of 4 units the frames of three calls fit and those of all do not.
Other instances pass as well: Handoff with three edits in one handoff and no stash of
the user's (897 744 states), Handoff as in its run without commits, where also
`UserStashUntouched` holds (73 384), JsonlRpc with three requests (647 000), Scheduler with
four ticks (663 737).

The bounds of `Services`, by service, with the states each reaches:

| Service | Bounds | States | Why they are enough |
|---|---|---|---|
| Conversations | 3 conversations, 2 projects, 2 calls | 193 000 | an original, its continuation and another one beside them; two calls in flight |
| Scans | 2 scans, 1 report of progress, 1 skill | 170 000 | one that executes and one that wants the slot |
| Discards | 1 edit for each of 2 paths, 2 discards (both the limit and the total), 1 stash of the user's | 104 000 | an entry below and one above that of the discard; the limit is reached |
| Integrations | 1 project, 1 root, 2 calls, 2 engines, 1 question each | 54 000 | a refresh that joins another, questions of two engines with one number |
| Account | 2 logins, 2 engines, a refresh, cancel and logout | 46 000 | the login of an old engine beside that of the new one |
| Worktrees | 2 worktrees, 1 conversation, 2 calls | 42 000 | a create beside a remove of the same worktree |
| Window | 2 channels, 2 pages, 1 change each, 2 chunks, a wire of 2 | 34 000 | an answer and a push under way together, an old page and a new one |
| Permissions | 3 options, 2 entries of one list | 33 000 | the cut falls inside a section |
| Terminals | 3 terminals, 2 sessions | 25 000 | the limit is reached while one closes |
| FilePreviews | 2 files, sizes to 2, 1 token | 23 000 | the previewed file and its replacement |
| WallClock | days of 5 units, offsets -2..2 around a change in the middle, all rules of one or two times | 22 000 | forward and backward changes on both sides of Greenwich, whole days around them |
| Turns | 2 turns in 1 conversation, 1 approval by each of 2 engines | 21 000 | a turn asked for while another ends, one number used twice |
| Logs | 4 lines of 1 unit, 2 files, 3 crashes | 21 000 | every index of the rotation is renamed, twice |
| PullRequests | 2 branches, 2 bases, 2 calls, 2 requests | 19 000 | the same branch asked for twice, for two bases |
| LocalData | 2 processes, 2 versions, 1 key, 2 changes of key | 15 000 | two adoptions at once, a migration after another |
| TerminalCanvas | 2 sessions, 2 different chunks, a tail of 1 | 9 500 | each selection, close and cut |
| Goals | 2 calls, 3 changes | 8 000 | answers in the wrong order with a notification between |
| the rest | see `Services.cfg` | below 5 000 each | SecurityRuntime: 2 releases and 2 engines; Activity: 1 item longer than its limit; Updates: 4 calls; BrowserPreview: 2 views, 3 loads; UsageEstimate: the hours around the change and the peak |

Symmetry. `SameNames` exchanges both members of all pairs (slots, scans, logins, turns,
worktrees, processes, shells, addresses) at once. It is sound: no definition chooses one
of them, initial states and actions quantify over the whole set, and so do the properties.
Without it the run has 942 387 states, with the same result.

Fairness. `CodexRuntime`: discovery ends and the handshake fails at the latest under its
timeouts (that the engine answers is not assumed), log writes end, Node delivers the exit
of a dead child, a timeout fires; calls, deaths and protocol errors owe nothing.
`JsonlRpc`: Node fires the timeouts; nothing else is assumed, so `RequestsSettle` speaks
of requests that have one. `Scheduler`: timers fire, the loop runs on, the clock moves, and
an execution ends because the executor has a limit of six hours; users, kills and restarts
owe nothing, so the liveness property speaks of the time the service runs. `Handoff`,
`WallClock` and the services claim no liveness: what they wait for (an engine, git, a
browser, a user) promises nothing.

Deadlock is checked where the system cannot stop. In `JsonlRpc` the calls are used up and
the connection ends; in `Services` and `DiscardRenameSource` the bounded calls of a service
are used up.

### Disagreements found

The seven violated runs are recorded with the quoted sentences in `PROJECT.json`. In
short: `start()` does not clear the restart timer of an earlier exit; a retry repeats the
whole task; the card of an approval left by a dead engine answers the new engine's request
with its number; the fixed point of `wallTimeToInstant` lies
before the gap west of Greenwich, so a task due in the gap is queued by each tick until the
gap is over; `retryRecovery` does not look at `#handoffInProgress`; when the source becomes
clean between its check and `git stash push`, the latest stash entry is the user's own; and
`#discardGroup` overwrites a file that exists again at the old path of a staged rename.

## 5. What is proved

TLAPS proves, for every value of the constants that satisfies the assumptions named in
the modules (bounds are naturals, tables are functions of the right sets):

* **CodexRuntimeProofs.** `TypeCorrect`; `ConnectionInvariant`, the inductive invariant
  `IInv`; from it `NoOrphans`, `CurrentConnection`, `ConfigIsCurrent`, `StopHolds`. The
  safety properties are not inductive: that a ready engine runs the saved configuration
  depends on *when* a connection can exist. `IInv` adds that a suspended start has a
  generation and is not ready, that a connection is either ready or belongs to a start
  past discovery, and that it was launched with the configuration in force.
  `ImplementsLifecycle` is the refinement of EngineLifecycle: every action is one of its
  steps or none.
* **JsonlRpcProofs.** `TypeCorrect`, which holds the limit of the write queue;
  `InvariantHolds`, the inductive invariant; from it `PendingAgrees` and
  `ImplementsPromise`, the refinement of RequestPromise. What has to be added to the
  properties is what a frame knows: wherever a frame of a request is on its way, in the
  queue, in the pipe or in an answer, its identifier is out of use or still belongs to
  that request (`OwnedFrames`), since identifiers only grow (`Monotone`, `FreshIds`).
  `QueuedNotices` says the same of notifications, which are found by their place in the
  queue. `NextPromise` maps each action to a step of RequestPromise or to none.
  `EngineReadsOneAnswer` is about the other direction: what the engine has not read is the
  queue without a frame the pipe has taken, and an answer is there or has been read, once,
  only when its handler has returned (`AnswerInv`).
* **SchedulerProofs.** `SchedulerInvariant` with `TypeCorrect`, `SerialExecution`,
  `PausedStaysIdle`, `TickArmed`, and the action property `RunsOnlyMoveForward`. The
  first part is about the run table: every action either adds records, marks one, or
  (at boot) marks the interrupted ones, as lemmas `RecordGrows`, `SetRunFacts`,
  `RecoveredFacts`. The invariant says that nothing executes before the service is
  started, that the booted service has no running records, and that every execution
  holds the drain and its own running record. `RetriesHaveReasons` says of each of these
  changes that it takes no reason away (`KeepsReasons`) and adds a second attempt only
  beside its reason; `EditsAreKept` is the action property `FinishKeepsEdits`.
* **HandoffProofs.** `NothingIsLost`, `NothingIsHidden`, `WorkFollows` and the refinement
  `HandoffMovesAsOne`, with `TypeCorrect` and the invariant `HandoffInvariant`, for any
  number of worktrees, edits, handoffs, failures and kills, under one hypothesis: `"retry" \notin Habits`, no retry
  beside a handoff that runs. The run `HandoffRetry` shows that it is needed. The
  invariant is `Control /\ Files /\ NothingLost`. `Control` says that one process runs
  at a time (`Alone`), that each handoff has one entry on the stash (`OneEntryEach`), that
  record, ref, entry and the process hold the same snapshot (`RecordIsSound`), and for each
  step of the code which of them it has (`Knows`). `Files` says where the edits are: the
  snapshot holds all the source had uncommitted and, of the work made while nothing ran,
  nothing else (`SnapshotHoldsSource`), the target at most that and
  its own commits, and nothing the source has committed (`TargetHoldsWork`), the user's
  entry is apart from both (`UserEntryApart`), and no two worktrees hold the same
  uncommitted edit (`NoCopies`). `NothingLost` alone is far from inductive: that
  a reset throws nothing away depends on what was compared three commands before.
  - `HandoffMovesAsOne`: by `NothingLost` the work on its way is all that is outstanding
    (`CarriedIs`), and while a handoff is recorded that work is at its two ends or in its
    snapshot (`OnItsWay`). Each action is then a step of `WorkTransfer` or a stutter: those
    that change a worktree change, of the work made while nothing ran, only what is on its
    way. A record is deleted where a comparison, or the absence of a snapshot, has shown
    that the work has arrived, or where a look at the ref failed, and then the work is
    `Strand`ed: all of it is in the ref (`RefOverlooked`).
  - `UserStashStays`, under the further hypothesis `"commit" \notin Habits`, of which
    `HandoffUserStash` shows that it is needed: a process between its look at the source and
    `git stash push` still has changes to push, so that the latest entry is its own and what
    is recorded, dropped and searched for is never the user's (`UserStashApart`).
* **WallClockProofs.** `WallTimeHit`: four rounds hit every wall time that exists, for
  all zones with one change. `EastOnce`: on or east of Greenwich the computed next run
  is later than the moment it is computed at, whence, by induction over ticks, every
  queued occurrence is later than those before. The lemma fails for western offsets,
  as the run `WallClockGap` shows.
* **EngineUseProofs.** The services that live with the engine, and others.
  - `ProcessesAreCounted`, `NoTurnIsPhantom`, `EngineIsAnswered`: the count of processes is
    the cardinality of those in flight except in the task that loses the connection
    (`CountsProcesses`); the count of turns is bounded by the cardinality of those asked
    for or accepted, with the order in which a turn's notifications are heard
    (`HeardInOrder`); an approval of the present engine is the last that took its number, and
    the cards of earlier engines are older.
  - `LoginsEndWithTheirEngine`: a request of a login that the engine has served was served
    by the engine that is ready, since the connection's end refuses all others in its own
    task (`ServedByThisEngine`).
  - `QuestionsGetTheirAnswer`: a question and its resolver are filed under the engine and
    the number (`FiledUnderItsKey`), and what the engine waits for is shown.
  - `ScreenFollowsSession`: xterm holds what was last rendered, and what is written on top
    of it makes it the new output, cut or continued (`WrittenIsNew`).
  - `GrantsAreWhatWasShown`: network access is asked first and once, the items of a list
    in order, so that options of one card differ in their identifiers.
  - `GoalsShownAreHeld`: a line on the wire that no announcement follows gives the goal
    held, and when no announcement is on its way the shown one is it (`GoalInv`).
  - `LatestLinesStay`: lines are in order through the renames of a rotation
    (`LinesInOrder`, `RotationGoesUp`) and whatever can be read of the crash files is in the
    list (`CrashesInv`). The list of crashes is a sorted union; that every finite set of
    numbers can be listed in order (`EverySetIsListed`) is proved by a least counterexample.
* **ServiceProofs.** Thirteen services that share no state.
  - `PhasesFollowTheUpdater`: the phase and the updater agree in both directions (`UpInv`),
    and a file is verified exactly in phase `downloaded`.
  - `BranchesHaveOnePullRequest`: between the list and the creation, the one call under way
    knows that its branch has no request of the app (`PRInv`).
  - `WorkIsKept`: a directory that a create may undo by force is one nobody has worked in
    yet, because the window shows it when the create has returned (`TreeInv`).
  - `ConversationsAreKept`: the property names *some* conversation that continues a root,
    but the invariant `ConvInv` shows that it is the root itself. It says what each call may
    work on (`CallOK`: what a switch of provider gives up is never a root), that what the
    user deletes is known from the begin of the call (`DeleteOK`), and that an answer being
    handled speaks of conversations that are there (`AnswerOK`), so that a row is only made
    for one that is.
  - `NothingIsCutSilently`: what is shown never exceeds what was sent (`ShownWasSent`), so
    text that reaches the limit and is not marked is all of it.
  - `DiscardedCanBeRestored`, under the hypotheses `"stash"` and `"recreate"` not in
    `Habits`, of which `DiscardRenameSource` shows that the second is needed: an entry that
    is about to be dropped is in its ref (`DropIsSecured`), a ref that is about to be deleted
    holds nothing that is still taken (`ForgottenIsBack`), and between operations each
    discard has an entry and a ref of its own (`EntriesAreTheirDiscards`).
  - `ResponsesAreThePreview`: `ParseByteRange` gives the bytes of RFC 9110 for every size.
  - `PanelFollowsThePage`: a load that has replaced the page has cleared the error, and
    only a load that is awaited or under way keeps the panel loading (`BrowserInv`).
  - `StoredDataComesIntoForce`: one process holds the lock (`OneHolds`), and whoever is past
    a step of the adoption has seen its outcome (`DirectoryIsAdopted`, `DatabaseIsAdopted`,
    `HomeIsAdopted`), which no other process undoes.
  - `PageShowsTheServices`: the last message on the wire about a service says what it is at,
    and when there is none the page shows it or has still to ask (`ServiceIsCurrent`); for
    the terminal, which sends what changes, the messages on the wire lead from what the page
    knows to what is there (`TerminalIsCurrent`).
  - `ScanInvariant` and from it `ScansOneAtATime`, `ScansCostAsAsked`,
    `TriageFollowsWorkbench`: a scan nobody has heard of is nowhere (`Unknown`), and a
    scan past its coordinator is one that has loaded its tool (`LoadedFirst`).
    `ScansRunWholeRuntimeHolds` is about the plugin and the wrapper.
  - `EstimatesCoverUse`: what the clamp of the cached tokens adds to the bill is a product of
    two natural differences, for every tariff in which a hit costs no more than a miss; for
    counters that begin again, growth and what is hidden below the old values make up all
    the use (`RestIsBelow`).
* **MCServicesProofs.** `ServicesAreTyped`: whichever of the 22 services runs, its variables
  stay in their types. The invariants of the proofs above carry the types they need, often
  without a bound; here each gets the rest (`WindowRest`, `ConvRest`, `GoalRest`, ...), and
  `PickedHolds` puts all of them together. Most of it is bookkeeping, but some types say more
  than a form, and need an invariant of their own:
  - the text of a terminal that the page shows is never longer than what was written, which
    needs that it holds each piece once: a piece on the wire is newer than all the page
    knows and all that is on the wire before it (`WireHolds`);
  - processes and turns are never more than there are terminals and turns, which is what
    `CountsProcesses` and `CountInv` say;
  - a discard that is under way has a number within the bound and, from the search on, a
    place in the stash (`OperationTyped`); the bytes of a response lie within the largest
    file (`BytesAreSent`); and a call on a worktree, a conversation or a branch keeps naming
    one (`CallsOK`, `CallOK`, `PRRest`).

Only model-checked: the liveness properties `StartSettles`, `RequestsSettle` and
`DueRunLeavesQueue` (fairness and ENABLED are out of the prover's reach), and what the
violation runs refute. The library's induction theorems take an
operator as a parameter and cannot be used: facts about all sets of numbers are proved by
the least counterexample, and what a recursive function computes for every input is not
stated. No module has a recursive operator.

## 6. Not modelled

Parts without control, which pass data on or keep no state: `listDirectory` and
`openExternal`; the OAuth, resource and tool calls of integrations; artifacts and the
exports of reports and diagnostics; prompts, steering, attachments and search; parsing of
Git output, formatting, redaction, encryption and the policy of addresses; menus; the
generated protocol types. The panels of the renderer beside those of section 3 are views of
a snapshot.

Behaviour that a model could reach and that no property covers, as a reader of the code
should know:

* Deep links are kept in one variable and are lost around a reload or overwritten by the
  next (`index.ts` 152, 394-406, `App.tsx` 192-215).
* Two loads of inventories, or of lists of conversations, can end in the wrong order
  (`integrationService.ts` 113, `agentService.ts` 140 and 166); so can the answers of
  `FileWorkbench` and the effect of `App.tsx` 325-333 that reads Git's status.
* A refresh of the account that joins one in flight may miss a logout
  (`accountService.ts` 84, 162).
* When the engine dies in a scheduled turn no event ends it; the run holds the queue until
  the limit of six hours (`index.ts` 446). A rule with `COUNT` starts again at every
  computation (`schedulerService.ts` 340).
* A start that is stopped during the log write after its handshake becomes ready without
  a child (`codexRuntime.ts` 277); EngineLifecycle allows it, as the code does. While a tick
  waits for a long run no other tick looks at the tasks, and what was due meanwhile is
  recorded as missed while the application did not run (`schedulerService.ts` 185, 193).
* An edit made in the target between its check and `git reset --hard` is discarded by the
  rollback of a handoff (`worktreeService.ts` 390); after a commit in either worktree an
  interrupted handoff is not recovered any more, its work stays in the stash or the ref
  (`worktreeService.ts` 335); a handoff without changes may move the
  conversation while a recovery is pending (`agentService.ts` 384).
* The drop of a stash entry by place, beside a user who works with the stash in the middle
  of a discard (`gitService.ts` 119).
* Removing a project removes the records of its worktrees, not the directories
  (`database.ts` 135); pins past the limit are cut (`database.ts` 175, 251); the recovery
  of interrupted runs reads 1000 rows at most; the crash record appended after a torn
  one shares its line and is not read at the next start (`diagnosticsService.ts` 93).

The status of each component, with the reason, is in `PROJECT.json`.
