---------------------------- MODULE CodexRuntime ----------------------------
(***************************************************************************)
(* The supervisor of the agent engine: src/main/runtime/codexRuntime.ts.   *)
(*                                                                         *)
(* One CodexRuntimeSupervisor owns at most one app-server child process    *)
(* and the JSONL peer on its pipes.  Every start is numbered by a          *)
(* generation; generation g identifies the child, the peer and the exit    *)
(* listener that start created, so the three are written g below and the   *)
(* JavaScript null is 0.                                                   *)
(*                                                                         *)
(* An action is one macrotask of the Node event loop: the code between two *)
(* awaits that wait for the outside world (binary discovery, the protocol  *)
(* handshake, the log file).  startPc is where the single #startOnce in    *)
(* flight is suspended.                                                    *)
(***************************************************************************)
EXTENDS Naturals

CONSTANTS
    MaxAutomaticRestarts,  \* the option of that name, 3 by default
    MaxGeneration,         \* bound: starts in one behaviour
    MaxTurns,              \* bound: turns active at once
    MaxProcesses,          \* bound: terminal processes active at once
    MaxConfig              \* bound: launch configurations applied

ASSUME MaxAutomaticRestartsAssumption == MaxAutomaticRestarts \in Nat
ASSUME MaxGenerationAssumption == MaxGeneration \in Nat
ASSUME MaxTurnsAssumption == MaxTurns \in Nat
ASSUME MaxProcessesAssumption == MaxProcesses \in Nat
ASSUME MaxConfigAssumption == MaxConfig \in Nat

VARIABLES
    phase,              \* snapshot.phase
    error,              \* snapshot.error, by what it reports
    generation,         \* snapshot.generation
    restartAttempt,     \* snapshot.restartAttempt
    startPc,            \* where #startOnce waits; "idle" iff #startPromise is null
    child,              \* #child
    peer,               \* #peer
    restartTimer,       \* #restartTimer, the one handle the supervisor keeps
    timers,             \* the restart timeouts that are pending in the event loop
    stopRequested,      \* #stopRequested
    activeTurnCount,    \* #activeTurnCount
    activeProcessCount, \* #activeProcessCount
    config,             \* the launch configuration in force
    launchConfig,       \* the configuration each generation was spawned with
    proc,               \* the operating system's view of each child
    sigtermed,          \* children that were sent SIGTERM
    closed              \* peers that are closed

snapshot == <<phase, error, generation, restartAttempt>>
connection == <<child, peer>>
restarts == <<restartTimer, timers>>
counts == <<activeTurnCount, activeProcessCount>>
launch == <<config, launchConfig>>
world == <<proc, sigtermed, closed>>
vars == <<snapshot, startPc, connection, restarts, stopRequested, counts, launch, world>>

Generations == 1 .. MaxGeneration

Phases == {"stopped", "discovering", "unavailable", "initializing", "ready",
           "failed", "restarting"}

Errors == {"none", "discovery", "initialization", "duringTurn", "limit", "retry"}

StartPcs == {"idle", "discover", "logUnavailable", "handshake", "logReady", "logFailed"}

\* "alive" runs; "dead" has ended and its exit event is still queued; "reaped"
\* has an exit code Node knows of (a spawn that failed is reaped from the start).
ProcStates == {"none", "alive", "dead", "reaped"}

TypeOK ==
    /\ phase \in Phases
    /\ error \in Errors
    /\ generation \in 0 .. MaxGeneration
    /\ restartAttempt \in 0 .. MaxAutomaticRestarts
    /\ startPc \in StartPcs
    /\ child \in 0 .. MaxGeneration
    /\ peer \in 0 .. MaxGeneration
    /\ restartTimer \in 0 .. MaxGeneration
    /\ timers \subseteq Generations
    /\ stopRequested \in BOOLEAN
    /\ activeTurnCount \in 0 .. MaxTurns
    /\ activeProcessCount \in 0 .. MaxProcesses
    /\ config \in 0 .. MaxConfig
    /\ launchConfig \in [Generations -> 0 .. MaxConfig]
    /\ proc \in [Generations -> ProcStates]
    /\ sigtermed \subseteq Generations
    /\ closed \subseteq Generations

Init ==
    /\ phase = "stopped" /\ error = "none" /\ generation = 0 /\ restartAttempt = 0
    /\ startPc = "idle"
    /\ child = 0 /\ peer = 0
    /\ restartTimer = 0 /\ timers = {}
    /\ stopRequested = FALSE
    /\ activeTurnCount = 0 /\ activeProcessCount = 0
    /\ config = 0 /\ launchConfig = [g \in Generations |-> 0]
    /\ proc = [g \in Generations |-> "none"]
    /\ sigtermed = {} /\ closed = {}

-----------------------------------------------------------------------------
(* Building blocks: each gives the next value of the variables it names.   *)

SetPhase(p, e) == phase' = p /\ error' = e

\* child.kill('SIGTERM'), skipped when Node already knows how the child ended.
Terminate(g) ==
    sigtermed' = IF g # 0 /\ proc[g] # "reaped" THEN sigtermed \cup {g} ELSE sigtermed

ClosePeer(g) == closed' = closed \cup ({g} \ {0})

\* stop(): the handle's timer, the peer, the child.
StopConnection ==
    /\ stopRequested' = TRUE
    /\ timers' = timers \ {restartTimer}
    /\ restartTimer' = 0
    /\ ClosePeer(peer)
    /\ Terminate(child)
    /\ child' = 0 /\ peer' = 0

\* Fault: a start in flight is not joined; a second one begins beside it.
Fault_BeginTwice(p) == p # "ready"

\* start() returns at once when the phase is ready and joins a start in flight;
\* only otherwise does #startOnce begin.
CanBegin(p) == p # "ready" /\ startPc = "idle"

BeginStart ==
    /\ stopRequested' = FALSE
    /\ generation' = generation + 1
    /\ SetPhase("discovering", "none")
    /\ startPc' = "discover"

-----------------------------------------------------------------------------
(* Calls: the UI and the services call these at any time.                  *)

Start ==
    /\ CanBegin(phase) /\ generation < MaxGeneration
    /\ BeginStart
    /\ UNCHANGED <<restartAttempt, connection, restarts, counts, launch, world>>

Stop ==
    /\ StopConnection
    /\ SetPhase("stopped", "none")
    /\ UNCHANGED <<generation, restartAttempt, startPc, counts, launch, proc>>

\* restart(): phase 'restarting', stop(false), start().  When a start is still
\* in flight start() returns its promise, and stopRequested stays set.
RestartConnection ==
    /\ timers' = timers \ {restartTimer}
    /\ restartTimer' = 0
    /\ ClosePeer(peer)
    /\ Terminate(child)
    /\ child' = 0 /\ peer' = 0
    /\ \/ /\ startPc = "idle" /\ generation < MaxGeneration
          /\ BeginStart
       \/ /\ startPc # "idle"
          /\ stopRequested' = TRUE
          /\ SetPhase("restarting", "none")
          /\ UNCHANGED <<generation, startPc>>

Restart ==
    /\ RestartConnection
    /\ UNCHANGED <<restartAttempt, counts, launch, proc>>

\* Fault: the configuration is stored for the next start, without a restart.
Fault_UpdateWithoutRestart ==
    /\ activeTurnCount = 0 /\ activeProcessCount = 0
    /\ config < MaxConfig
    /\ config' = config + 1
    /\ UNCHANGED <<snapshot, startPc, connection, restarts, stopRequested, counts,
                   launchConfig, world>>

UpdateLaunchConfiguration ==
    /\ activeTurnCount = 0 /\ activeProcessCount = 0
    /\ config < MaxConfig
    /\ config' = config + 1
    /\ RestartConnection
    /\ UNCHANGED <<restartAttempt, counts, launchConfig, proc>>

\* A turn or a terminal marks itself and then sends its request, which needs a
\* ready peer; a request that fails at once is marked completed in the same task.
MarkTurnStarted ==
    /\ phase = "ready" /\ peer # 0 /\ activeTurnCount < MaxTurns
    /\ activeTurnCount' = activeTurnCount + 1
    /\ UNCHANGED <<snapshot, startPc, connection, restarts, stopRequested,
                   activeProcessCount, launch, world>>

MarkTurnCompleted ==
    /\ activeTurnCount > 0
    /\ activeTurnCount' = activeTurnCount - 1
    /\ UNCHANGED <<snapshot, startPc, connection, restarts, stopRequested,
                   activeProcessCount, launch, world>>

MarkProcessStarted ==
    /\ phase = "ready" /\ peer # 0 /\ activeProcessCount < MaxProcesses
    /\ activeProcessCount' = activeProcessCount + 1
    /\ UNCHANGED <<snapshot, startPc, connection, restarts, stopRequested,
                   activeTurnCount, launch, world>>

MarkProcessCompleted ==
    /\ activeProcessCount > 0
    /\ activeProcessCount' = activeProcessCount - 1
    /\ UNCHANGED <<snapshot, startPc, connection, restarts, stopRequested,
                   activeTurnCount, launch, world>>

-----------------------------------------------------------------------------
(* #startOnce: the continuations of the start in flight.                   *)

\* Fault: discovery is abandoned without reporting a phase.
Fault_AbandonSilently ==
    /\ startPc = "discover" /\ stopRequested
    /\ startPc' = "idle"
    /\ UNCHANGED <<snapshot, connection, restarts, stopRequested, counts, launch, world>>

\* The binary was found, but stop() or restart() came first.
AbandonDiscovery ==
    /\ startPc = "discover" /\ stopRequested
    /\ phase' = "stopped" /\ startPc' = "idle"
    /\ UNCHANGED <<error, generation, restartAttempt, connection, restarts,
                   stopRequested, counts, launch, world>>

\* spawnProcess and the new peer; a spawn that fails leaves no process.
Spawn ==
    /\ startPc = "discover" /\ ~stopRequested
    /\ SetPhase("initializing", "none")
    /\ child' = generation /\ peer' = generation
    /\ launchConfig' = [launchConfig EXCEPT ![generation] = config]
    /\ \E p \in {"alive", "reaped"} : proc' = [proc EXCEPT ![generation] = p]
    /\ startPc' = "handshake"
    /\ UNCHANGED <<generation, restartAttempt, restarts, stopRequested, counts,
                   config, sigtermed, closed>>

DiscoveryFails ==
    /\ startPc = "discover"
    /\ startPc' = "logUnavailable"
    /\ UNCHANGED <<snapshot, connection, restarts, stopRequested, counts, launch, world>>

FinishUnavailable ==
    /\ startPc = "logUnavailable"
    /\ SetPhase("unavailable", "discovery") /\ startPc' = "idle"
    /\ UNCHANGED <<generation, restartAttempt, connection, restarts, stopRequested,
                   counts, launch, world>>

\* initialize, initialized and model/list have all been answered.
HandshakeSucceeds ==
    /\ startPc = "handshake" /\ generation \notin closed
    /\ startPc' = "logReady"
    /\ UNCHANGED <<snapshot, connection, restarts, stopRequested, counts, launch, world>>

\* Fault: the handshake requests have no timeout.
Fault_HandshakeWithoutTimeout ==
    /\ startPc = "handshake" /\ generation \in closed
    /\ startPc' = "logFailed"
    /\ UNCHANGED <<snapshot, connection, restarts, stopRequested, counts, launch, world>>

\* An error or malformed answer, a timeout, or the peer was closed.
HandshakeFails ==
    /\ startPc = "handshake"
    /\ startPc' = "logFailed"
    /\ UNCHANGED <<snapshot, connection, restarts, stopRequested, counts, launch, world>>

\* After the log line the phase becomes ready, whatever happened meanwhile.
FinishReady ==
    /\ startPc = "logReady"
    /\ SetPhase("ready", "none")
    /\ restartAttempt' = 0
    /\ startPc' = "idle"
    /\ UNCHANGED <<generation, connection, restarts, stopRequested, counts, launch, world>>

\* Fault: a failed handshake forgets the child without ending it.
Fault_FailWithoutKill ==
    /\ startPc = "logFailed"
    /\ ClosePeer(generation)
    /\ child' = IF child = generation THEN 0 ELSE child
    /\ peer' = IF peer = generation THEN 0 ELSE peer
    /\ SetPhase("failed", "initialization")
    /\ startPc' = "idle"
    /\ UNCHANGED <<generation, restartAttempt, restarts, stopRequested, counts,
                   launch, proc, sigtermed>>

FinishFailed ==
    /\ startPc = "logFailed"
    /\ ClosePeer(generation)
    /\ Terminate(generation)
    /\ child' = IF child = generation THEN 0 ELSE child
    /\ peer' = IF peer = generation THEN 0 ELSE peer
    /\ SetPhase("failed", "initialization")
    /\ startPc' = "idle"
    /\ UNCHANGED <<generation, restartAttempt, restarts, stopRequested, counts, launch, proc>>

-----------------------------------------------------------------------------
(* The child process and its pipes.                                        *)

ProcessDies(g) ==
    /\ proc[g] = "alive"
    /\ proc' = [proc EXCEPT ![g] = "dead"]
    /\ UNCHANGED <<snapshot, startPc, connection, restarts, stopRequested, counts,
                   launch, sigtermed, closed>>

\* The peer fails on its own: its stream ended with the process, or a protocol
\* error (a line over the limit, a stream error) closed it.
PeerFails(g) ==
    /\ proc[g] # "none" /\ g \notin closed
    /\ closed' = closed \cup {g}
    /\ UNCHANGED <<snapshot, startPc, connection, restarts, stopRequested, counts,
                   launch, proc, sigtermed>>

\* What the exit event of every generation does first; exitCode is now set.
ExitEvent(g) ==
    /\ proc[g] = "dead"
    /\ proc' = [proc EXCEPT ![g] = "reaped"]
    /\ UNCHANGED <<generation, startPc, stopRequested, activeTurnCount, launch, sigtermed>>

DropConnection ==
    /\ ClosePeer(peer)
    /\ child' = 0 /\ peer' = 0

ExitOfOldGeneration(g) ==
    /\ ExitEvent(g) /\ g # generation
    /\ UNCHANGED <<phase, error, restartAttempt, connection, restarts,
                   activeProcessCount, closed>>

ExitAfterStop(g) ==
    /\ ExitEvent(g) /\ g = generation /\ stopRequested
    /\ DropConnection
    /\ phase' = "stopped"
    /\ UNCHANGED <<error, restartAttempt, restarts, activeProcessCount>>

ExitDuringTurn(g) ==
    /\ ExitEvent(g) /\ g = generation /\ ~stopRequested /\ activeTurnCount > 0
    /\ DropConnection
    /\ SetPhase("failed", "duringTurn")
    /\ UNCHANGED <<restartAttempt, restarts, activeProcessCount>>

ExitOverLimit(g) ==
    /\ ExitEvent(g) /\ g = generation /\ ~stopRequested /\ activeTurnCount = 0
    /\ restartAttempt + 1 > MaxAutomaticRestarts
    /\ DropConnection
    /\ activeProcessCount' = 0
    /\ SetPhase("failed", "limit")
    /\ UNCHANGED <<restartAttempt, restarts>>

\* An idle exit: a timeout is armed.  The handle of one already pending, if any,
\* is overwritten and that timeout stays in the event loop.
ExitWhenIdle(g) ==
    /\ ExitEvent(g) /\ g = generation /\ ~stopRequested /\ activeTurnCount = 0
    /\ restartAttempt + 1 <= MaxAutomaticRestarts
    /\ DropConnection
    /\ activeProcessCount' = 0
    /\ restartAttempt' = restartAttempt + 1
    /\ SetPhase("restarting", "retry")
    /\ restartTimer' = g /\ timers' = timers \cup {g}

\* The timeout's callback clears the handle, whichever timeout it names, and
\* calls start().
RestartTimerFires(t) ==
    /\ t \in timers /\ generation < MaxGeneration
    /\ timers' = timers \ {t}
    /\ restartTimer' = 0
    /\ IF CanBegin(phase)
         THEN BeginStart
         ELSE UNCHANGED <<phase, error, generation, startPc, stopRequested>>
    /\ UNCHANGED <<restartAttempt, connection, counts, launch, world>>

Exit(g) ==
    \/ ExitOfOldGeneration(g) \/ ExitAfterStop(g) \/ ExitDuringTurn(g)
    \/ ExitOverLimit(g) \/ ExitWhenIdle(g)

StartOnce ==
    \/ AbandonDiscovery \/ Spawn \/ DiscoveryFails \/ FinishUnavailable
    \/ HandshakeSucceeds \/ HandshakeFails \/ FinishReady \/ FinishFailed

Next ==
    \/ Start \/ Stop \/ Restart \/ UpdateLaunchConfiguration
    \/ MarkTurnStarted \/ MarkTurnCompleted
    \/ MarkProcessStarted \/ MarkProcessCompleted
    \/ StartOnce
    \/ \E g \in Generations : ProcessDies(g) \/ PeerFails(g) \/ Exit(g)
    \/ \E t \in timers : RestartTimerFires(t)

Spec == Init /\ [][Next]_vars

\* Discovery and both handshake requests run under timeouts, so they fail if they do
\* not succeed; a log write ends, a pending timeout fires and Node delivers the exit
\* of a dead child.  Calls, process deaths and the engine's answers owe nothing.
Fairness ==
    /\ WF_vars(AbandonDiscovery \/ Spawn \/ DiscoveryFails)
    /\ WF_vars(HandshakeFails)
    /\ WF_vars(FinishUnavailable \/ FinishReady \/ FinishFailed)
    /\ \A g \in Generations : WF_vars(Exit(g)) /\ WF_vars(RestartTimerFires(g))

FairSpec == Spec /\ Fairness

-----------------------------------------------------------------------------
(* What the services see of the supervisor: the abstract specification.    *)

Announced ==
    IF phase = "ready" THEN "ready"
    ELSE IF phase \in {"discovering", "initializing", "restarting"} THEN "starting"
    ELSE "down"

Lifecycle == INSTANCE EngineLifecycle WITH phase <- Announced, settled <- startPc = "idle"

-----------------------------------------------------------------------------
(* Properties.                                                             *)

\* An app-server process nobody supervises any more has been told to end: no
\* sequence of starts, stops, restarts and crashes leaves a stray engine that
\* could still edit files.
NoOrphanProcess ==
    \A g \in Generations : proc[g] = "alive" /\ g # child => g \in sigtermed

\* The peer the services talk through belongs to the supervised child and to
\* the latest start, so a late exit of an older child cannot be taken for it.
ConnectionIsCurrent ==
    /\ peer = child
    /\ child # 0 => child = generation

\* A runtime reported ready with a live connection runs with the credential and
\* configuration last saved, also when they were saved during a start.
ReadyRunsCurrentConfig ==
    phase = "ready" /\ peer # 0 => launchConfig[peer] = config

\* Once a stop is requested no connection exists until a new start begins, even
\* when the stop arrives while discovery is running.
StoppedHoldsNoConnection == stopRequested => child = 0 /\ peer = 0

\* The shared start promise settles: every caller awaiting start() gets an answer,
\* whatever the child does during the handshake.  And the automatic restart that was
\* announced happens or is superseded: the runtime does not stay in 'restarting'.  (At
\* the generation bound no start can begin.)
StartSettles ==
    /\ (startPc # "idle") ~> (startPc = "idle")
    /\ (phase = "restarting" /\ generation < MaxGeneration)
          ~> (phase # "restarting" \/ generation = MaxGeneration)

\* The supervisor is the engine the models of the services assume: every change of
\* phase is a step of EngineLifecycle, so each generation is announced ready at most
\* once and only by its own start, through every stop, restart, crash and timer.
KeepsLifecycle == Lifecycle!EngineSpec

\* docs/PROTOCOL.md: an exit during a turn shows a failure and waits for an
\* explicit recovery.  No restart timeout is left that would start the engine.
FailedTurnAwaitsUser ==
    phase = "failed" /\ error = "duringTurn" => timers = {}
=============================================================================
