------------------------- MODULE CodexRuntimeProofs -------------------------
(***************************************************************************)
(* Theorems about CodexRuntime, for every number of starts, turns,         *)
(* terminals, configurations and automatic restarts.                       *)
(*                                                                         *)
(* The supervisor's safety rests on when a connection can exist.  IInv     *)
(* says it: a connection belongs to the latest generation, exists only     *)
(* while its start is past discovery or the phase is ready, and was        *)
(* launched with the configuration in force.                               *)
(***************************************************************************)
EXTENDS CodexRuntime, TLAPS

\* A suspended start has a generation, and the runtime is not ready before it ends.
StartInFlight == startPc # "idle" => generation \in Generations /\ phase # "ready"

\* Without a start past discovery, only a ready runtime holds a connection.
ConnectionNeedsStart ==
    child # 0 => phase = "ready" \/ startPc \in {"handshake", "logReady", "logFailed"}

ConnectionRunsConfig == child # 0 => launchConfig[child] = config

IInv ==
    /\ TypeOK
    /\ ConnectionIsCurrent
    /\ StartInFlight
    /\ ConnectionNeedsStart
    /\ ConnectionRunsConfig
    /\ StoppedHoldsNoConnection
    /\ NoOrphanProcess

(***************************************************************************)
(* Type correctness.  Counters are bounded by the guards of the steps that *)
(* raise them, and generations by the bound on starts.                     *)
(***************************************************************************)
LEMMA CountUp == ASSUME NEW n \in Nat, NEW x \in 0 .. n, x < n PROVE x + 1 \in 0 .. n
OBVIOUS

LEMMA CountDown == ASSUME NEW n \in Nat, NEW x \in 0 .. n, x > 0 PROVE x - 1 \in 0 .. n
OBVIOUS

LEMMA InitTypeOK == Init => TypeOK
<1> SUFFICES ASSUME Init PROVE TypeOK
  OBVIOUS
<1> USE DEF Init
<1>1. phase \in Phases /\ error \in Errors /\ startPc \in StartPcs
  BY DEF Phases, Errors, StartPcs
<1>2. /\ generation \in 0 .. MaxGeneration /\ child \in 0 .. MaxGeneration
      /\ peer \in 0 .. MaxGeneration /\ restartTimer \in 0 .. MaxGeneration
      /\ restartAttempt \in 0 .. MaxAutomaticRestarts
  BY MaxGenerationAssumption, MaxAutomaticRestartsAssumption
<1>3. /\ activeTurnCount \in 0 .. MaxTurns /\ activeProcessCount \in 0 .. MaxProcesses
      /\ config \in 0 .. MaxConfig
  BY MaxTurnsAssumption, MaxProcessesAssumption, MaxConfigAssumption
<1>4. launchConfig \in [Generations -> 0 .. MaxConfig]
  BY MaxConfigAssumption
<1>5. proc \in [Generations -> ProcStates]
  BY DEF ProcStates
<1>6. stopRequested \in BOOLEAN /\ timers \subseteq Generations
      /\ sigtermed \subseteq Generations /\ closed \subseteq Generations
  OBVIOUS
<1> QED
  BY <1>1, <1>2, <1>3, <1>4, <1>5, <1>6 DEF TypeOK

LEMMA NextTypeOK == TypeOK /\ [Next]_vars => TypeOK'
<1> SUFFICES ASSUME TypeOK, [Next]_vars PROVE TypeOK'
  OBVIOUS
<1> USE MaxAutomaticRestartsAssumption, MaxGenerationAssumption, MaxTurnsAssumption,
        MaxProcessesAssumption, MaxConfigAssumption
<1> USE DEF TypeOK, Generations, Phases, Errors, StartPcs, ProcStates, snapshot,
            connection, restarts, counts, launch, world
<1>1. CASE Start
  <2>1. generation' \in 0 .. MaxGeneration
    BY <1>1, CountUp DEF Start, BeginStart
  <2> QED
    BY <1>1, <2>1 DEF Start, BeginStart, SetPhase
<1>2. CASE Stop
  BY <1>2 DEF Stop, StopConnection, SetPhase, ClosePeer, Terminate
<1>3. ASSUME RestartConnection, activeTurnCount' = activeTurnCount,
             activeProcessCount' = activeProcessCount, proc' = proc,
             restartAttempt' = restartAttempt, launchConfig' = launchConfig,
             config' \in 0 .. MaxConfig
      PROVE  TypeOK'
  <2>1. generation' \in 0 .. MaxGeneration
    BY <1>3, CountUp DEF RestartConnection, BeginStart
  <2>2. /\ sigtermed' \subseteq Generations /\ closed' \subseteq Generations
        /\ timers' \subseteq Generations
    BY <1>3 DEF RestartConnection, ClosePeer, Terminate
  <2>3. /\ phase' \in Phases /\ error' \in Errors /\ startPc' \in StartPcs
        /\ stopRequested' \in BOOLEAN
    BY <1>3 DEF RestartConnection, BeginStart, SetPhase
  <2>4. restartTimer' = 0 /\ child' = 0 /\ peer' = 0
    BY <1>3 DEF RestartConnection
  <2> QED
    BY <1>3, <2>1, <2>2, <2>3, <2>4
<1>4. CASE Restart
  BY <1>3, <1>4 DEF Restart
<1>5. CASE UpdateLaunchConfiguration
  BY <1>3, <1>5 DEF UpdateLaunchConfiguration
<1>6. CASE MarkTurnStarted \/ MarkTurnCompleted
  <2>1. activeTurnCount' \in 0 .. MaxTurns
    BY <1>6, CountUp, CountDown DEF MarkTurnStarted, MarkTurnCompleted
  <2> QED
    BY <1>6, <2>1 DEF MarkTurnStarted, MarkTurnCompleted
<1>7. CASE MarkProcessStarted \/ MarkProcessCompleted
  <2>1. activeProcessCount' \in 0 .. MaxProcesses
    BY <1>7, CountUp, CountDown DEF MarkProcessStarted, MarkProcessCompleted
  <2> QED
    BY <1>7, <2>1 DEF MarkProcessStarted, MarkProcessCompleted
<1>8. CASE StartOnce
  <2>1. CASE AbandonDiscovery
    BY <2>1 DEF AbandonDiscovery
  <2>2. CASE Spawn
    BY <2>2 DEF Spawn, SetPhase
  <2>3. CASE DiscoveryFails \/ FinishUnavailable
    BY <2>3 DEF DiscoveryFails, FinishUnavailable, SetPhase
  <2>4. CASE HandshakeSucceeds \/ HandshakeFails
    BY <2>4 DEF HandshakeSucceeds, HandshakeFails
  <2>5. CASE FinishReady
    BY <2>5 DEF FinishReady, SetPhase
  <2>6. CASE FinishFailed
    BY <2>6 DEF FinishFailed, SetPhase, ClosePeer, Terminate
  <2> QED
    BY <1>8, <2>1, <2>2, <2>3, <2>4, <2>5, <2>6 DEF StartOnce
<1>9. ASSUME NEW g \in Generations, ProcessDies(g) \/ PeerFails(g) PROVE TypeOK'
  BY <1>9 DEF ProcessDies, PeerFails
<1>10. ASSUME NEW g \in Generations, Exit(g) PROVE TypeOK'
  <2> USE DEF ExitEvent, DropConnection, ClosePeer, SetPhase
  <2>1. CASE ExitOfOldGeneration(g)
    BY <1>10, <2>1 DEF ExitOfOldGeneration
  <2>2. CASE ExitAfterStop(g)
    BY <1>10, <2>2 DEF ExitAfterStop
  <2>3. CASE ExitDuringTurn(g)
    BY <1>10, <2>3 DEF ExitDuringTurn
  <2>4. CASE ExitOverLimit(g)
    BY <1>10, <2>4 DEF ExitOverLimit
  <2>5. CASE ExitWhenIdle(g)
    BY <1>10, <2>5 DEF ExitWhenIdle
  <2> QED
    BY <1>10, <2>1, <2>2, <2>3, <2>4, <2>5 DEF Exit
<1>11. ASSUME NEW t \in timers, RestartTimerFires(t) PROVE TypeOK'
  <2>1. generation' \in 0 .. MaxGeneration
    BY <1>11, CountUp DEF RestartTimerFires, BeginStart
  <2>2. timers' \subseteq Generations /\ restartTimer' = 0
    BY <1>11 DEF RestartTimerFires
  <2>3. /\ phase' \in Phases /\ error' \in Errors /\ startPc' \in StartPcs
        /\ stopRequested' \in BOOLEAN
    BY <1>11 DEF RestartTimerFires, BeginStart, SetPhase
  <2>4. UNCHANGED <<restartAttempt, child, peer, activeTurnCount, activeProcessCount,
                    config, launchConfig, proc, sigtermed, closed>>
    BY <1>11 DEF RestartTimerFires
  <2> QED
    BY <2>1, <2>2, <2>3, <2>4
<1>12. CASE UNCHANGED vars
  BY <1>12 DEF vars
<1> QED
  BY <1>1, <1>2, <1>4, <1>5, <1>6, <1>7, <1>8, <1>9, <1>10, <1>11, <1>12 DEF Next

\* In every reachable state the supervisor's fields have their types, and the
\* restart attempts counted never pass the limit on automatic restarts.
THEOREM TypeCorrect == Spec => []TypeOK
<1>1. Init => TypeOK
  BY InitTypeOK
<1>2. TypeOK /\ [Next]_vars => TypeOK'
  BY NextTypeOK
<1> QED
  BY <1>1, <1>2, PTL DEF Spec

(***************************************************************************)
(* The connection invariant.                                               *)
(***************************************************************************)
LEMMA InitIInv == Init => IInv
<1> SUFFICES ASSUME Init PROVE IInv
  OBVIOUS
<1>1. TypeOK
  BY InitTypeOK
<1>2. /\ ConnectionIsCurrent /\ StartInFlight /\ ConnectionNeedsStart
      /\ ConnectionRunsConfig /\ StoppedHoldsNoConnection
  BY DEF Init, ConnectionIsCurrent, StartInFlight, ConnectionNeedsStart,
         ConnectionRunsConfig, StoppedHoldsNoConnection
<1>3. NoOrphanProcess
  BY DEF Init, NoOrphanProcess
<1> QED
  BY <1>1, <1>2, <1>3 DEF IInv

\* A step that keeps the phase, the start in flight, the connection, its
\* configuration and the processes keeps the invariant.
LEMMA FrameIInv ==
    ASSUME IInv, TypeOK',
           UNCHANGED <<phase, generation, startPc, child, peer, stopRequested,
                       config, launchConfig, proc, sigtermed>>
    PROVE  IInv'
BY DEF IInv, ConnectionIsCurrent, StartInFlight, ConnectionNeedsStart,
       ConnectionRunsConfig, StoppedHoldsNoConnection, NoOrphanProcess

\* Dropping the connection is safe as soon as the child, unless Node has seen
\* it end, was sent SIGTERM; what remains to show is the start in flight.
LEMMA DropIInv ==
    ASSUME IInv, TypeOK', StartInFlight', child' = 0, peer' = 0,
           \A g \in Generations : proc'[g] = "alive" => proc[g] = "alive",
           sigtermed \subseteq sigtermed',
           child # 0 /\ proc'[child] = "alive" => child \in sigtermed'
    PROVE  IInv'
BY DEF IInv, ConnectionIsCurrent, ConnectionNeedsStart, ConnectionRunsConfig,
       StoppedHoldsNoConnection, NoOrphanProcess

LEMMA NextIInv == IInv /\ [Next]_vars => IInv'
<1> SUFFICES ASSUME IInv, [Next]_vars PROVE IInv'
  OBVIOUS
<1>0. TypeOK /\ TypeOK'
  BY NextTypeOK DEF IInv
<1> USE DEF snapshot, connection, restarts, counts, launch, world, Generations
<1>a. ASSUME child = 0, peer = 0, startPc' = "discover", phase' = "discovering",
             generation' \in Generations, child' = 0, peer' = 0,
             UNCHANGED <<proc, sigtermed>>
      PROVE  IInv'
  <2>1. StartInFlight'
    BY <1>a DEF StartInFlight
  <2> QED
    BY <1>0, <1>a, <2>1, DropIInv
<1>b. ASSUME CanBegin(phase) PROVE child = 0 /\ peer = 0
  BY <1>b DEF CanBegin, IInv, ConnectionIsCurrent, ConnectionNeedsStart
<1>1. CASE Start
  <2>1. generation' \in Generations
    BY <1>0, <1>1 DEF Start, BeginStart, TypeOK
  <2> QED
    BY <1>1, <1>a, <1>b, <2>1 DEF Start, BeginStart, SetPhase
<1>2. CASE Stop
  <2>1. StartInFlight'
    BY <1>2 DEF IInv, StartInFlight, Stop, SetPhase
  <2>2. child # 0 /\ proc'[child] = "alive" => child \in sigtermed'
    BY <1>2 DEF Stop, StopConnection, Terminate
  <2>3. sigtermed \subseteq sigtermed'
    BY <1>2 DEF Stop, StopConnection, Terminate
  <2> QED
    BY <1>0, <1>2, <2>1, <2>2, <2>3, DropIInv DEF Stop, StopConnection
<1>3. ASSUME RestartConnection, proc' = proc PROVE IInv'
  <2>1. StartInFlight'
    <3>1. CASE startPc = "idle" /\ generation < MaxGeneration /\ BeginStart
      <4>1. generation' \in Generations /\ phase' = "discovering"
        BY <1>0, <3>1 DEF BeginStart, SetPhase, TypeOK
      <4> QED
        BY <4>1 DEF StartInFlight
    <3>2. CASE startPc # "idle" /\ phase' = "restarting" /\ UNCHANGED <<generation, startPc>>
      BY <1>0, <3>2 DEF IInv, StartInFlight
    <3> QED
      BY <1>3, <3>1, <3>2 DEF RestartConnection, SetPhase
  <2>2. child # 0 /\ proc'[child] = "alive" => child \in sigtermed'
    BY <1>3 DEF RestartConnection, Terminate
  <2>3. sigtermed \subseteq sigtermed'
    BY <1>3 DEF RestartConnection, Terminate
  <2> QED
    BY <1>0, <1>3, <2>1, <2>2, <2>3, DropIInv DEF RestartConnection
<1>4. CASE Restart \/ UpdateLaunchConfiguration
  BY <1>3, <1>4 DEF Restart, UpdateLaunchConfiguration
<1>5. CASE \/ MarkTurnStarted \/ MarkTurnCompleted
           \/ MarkProcessStarted \/ MarkProcessCompleted
  BY <1>0, <1>5, FrameIInv DEF MarkTurnStarted, MarkTurnCompleted,
     MarkProcessStarted, MarkProcessCompleted
<1>6. CASE StartOnce
  <2> USE DEF IInv, StartInFlight, ConnectionNeedsStart
  <2>1. CASE AbandonDiscovery \/ FinishUnavailable
    <3>1. child = 0 /\ peer = 0
      BY <2>1 DEF AbandonDiscovery, FinishUnavailable, ConnectionIsCurrent
    <3>2. StartInFlight'
      BY <2>1 DEF AbandonDiscovery, FinishUnavailable
    <3>3. UNCHANGED <<child, peer, proc, sigtermed>>
      BY <2>1 DEF AbandonDiscovery, FinishUnavailable
    <3> QED
      BY <1>0, <3>1, <3>2, <3>3, DropIInv
  <2>2. CASE Spawn
    <3>1. child = 0 /\ generation \in Generations
      BY <2>2 DEF Spawn
    <3>2. child' = generation /\ peer' = generation /\ generation' = generation
      BY <2>2 DEF Spawn
    <3>3. ConnectionIsCurrent' /\ StartInFlight' /\ ConnectionNeedsStart'
      BY <2>2, <3>1, <3>2 DEF Spawn, SetPhase, ConnectionIsCurrent
    <3>4. ConnectionRunsConfig'
      BY <1>0, <2>2, <3>1, <3>2 DEF Spawn, ConnectionRunsConfig, TypeOK
    <3>5. StoppedHoldsNoConnection'
      BY <2>2 DEF Spawn, StoppedHoldsNoConnection
    <3>6. NoOrphanProcess'
      BY <1>0, <2>2, <3>1, <3>2 DEF Spawn, NoOrphanProcess, TypeOK
    <3> QED
      BY <1>0, <3>3, <3>4, <3>5, <3>6
  <2>3. CASE DiscoveryFails \/ HandshakeSucceeds \/ HandshakeFails \/ FinishReady
    <3>1. UNCHANGED <<generation, child, peer, stopRequested, config, launchConfig,
                      proc, sigtermed>>
      BY <2>3 DEF DiscoveryFails, HandshakeSucceeds, HandshakeFails, FinishReady
    <3>2. StartInFlight' /\ ConnectionNeedsStart'
      BY <2>3, <3>1 DEF DiscoveryFails, HandshakeSucceeds, HandshakeFails, FinishReady,
         SetPhase
    <3> QED
      BY <1>0, <3>1, <3>2 DEF ConnectionIsCurrent, ConnectionRunsConfig,
         StoppedHoldsNoConnection, NoOrphanProcess
  <2>4. CASE FinishFailed
    <3>1. child' = 0 /\ peer' = 0
      BY <2>4 DEF FinishFailed, ConnectionIsCurrent
    <3>2. child # 0 /\ proc'[child] = "alive" => child \in sigtermed'
      BY <2>4 DEF FinishFailed, Terminate, ConnectionIsCurrent
    <3>3. sigtermed \subseteq sigtermed' /\ proc' = proc
      BY <2>4 DEF FinishFailed, Terminate
    <3>4. StartInFlight'
      BY <2>4 DEF FinishFailed
    <3> QED
      BY <1>0, <3>1, <3>2, <3>3, <3>4, DropIInv
  <2> QED
    BY <1>6, <2>1, <2>2, <2>3, <2>4 DEF StartOnce
<1>7. ASSUME NEW g \in Generations, ProcessDies(g) \/ PeerFails(g) PROVE IInv'
  <2>1. /\ UNCHANGED <<phase, generation, startPc, child, peer, stopRequested, config,
                       launchConfig, sigtermed>>
        /\ \A h \in Generations : proc'[h] = "alive" => proc[h] = "alive"
    BY <1>0, <1>7 DEF ProcessDies, PeerFails, TypeOK
  <2> QED
    BY <1>0, <2>1 DEF IInv, ConnectionIsCurrent, StartInFlight, ConnectionNeedsStart,
       ConnectionRunsConfig, StoppedHoldsNoConnection, NoOrphanProcess
<1>8. ASSUME NEW g \in Generations, Exit(g) PROVE IInv'
  <2>1. /\ \A h \in Generations : proc'[h] = "alive" => proc[h] = "alive" /\ h # g
        /\ UNCHANGED <<generation, startPc, stopRequested, config, launchConfig, sigtermed>>
    BY <1>0, <1>8 DEF Exit, ExitOfOldGeneration, ExitAfterStop, ExitDuringTurn,
       ExitOverLimit, ExitWhenIdle, ExitEvent, TypeOK
  <2>2. CASE ExitOfOldGeneration(g)
    BY <1>0, <2>1, <2>2 DEF ExitOfOldGeneration, IInv, ConnectionIsCurrent, StartInFlight,
       ConnectionNeedsStart, ConnectionRunsConfig, StoppedHoldsNoConnection, NoOrphanProcess
  <2>3. CASE \/ ExitAfterStop(g) \/ ExitDuringTurn(g)
             \/ ExitOverLimit(g) \/ ExitWhenIdle(g)
    <3>1. child' = 0 /\ peer' = 0 /\ g = generation /\ phase' # "ready"
      BY <2>3 DEF ExitAfterStop, ExitDuringTurn, ExitOverLimit, ExitWhenIdle,
         DropConnection, SetPhase
    <3>2. child # 0 => proc'[child] # "alive"
      BY <1>0, <2>1, <3>1 DEF IInv, ConnectionIsCurrent, TypeOK
    <3>3. StartInFlight'
      BY <2>1, <3>1 DEF IInv, StartInFlight
    <3> QED
      BY <1>0, <2>1, <3>1, <3>2, <3>3, DropIInv
  <2> QED
    BY <1>8, <2>2, <2>3 DEF Exit
<1>9. ASSUME NEW t \in timers, RestartTimerFires(t) PROVE IInv'
  <2>1. CASE CanBegin(phase)
    <3>1. generation' \in Generations
      BY <1>0, <1>9, <2>1 DEF RestartTimerFires, BeginStart, TypeOK
    <3> QED
      BY <1>9, <1>a, <1>b, <2>1, <3>1 DEF RestartTimerFires, BeginStart, SetPhase
  <2>2. CASE ~CanBegin(phase)
    BY <1>0, <1>9, <2>2, FrameIInv DEF RestartTimerFires
  <2> QED
    BY <2>1, <2>2
<1>10. CASE UNCHANGED vars
  BY <1>0, <1>10, FrameIInv DEF vars
<1> QED
  BY <1>1, <1>2, <1>4, <1>5, <1>6, <1>7, <1>8, <1>9, <1>10 DEF Next

\* The connection invariant holds in every reachable state.
THEOREM ConnectionInvariant == Spec => []IInv
<1>1. Init => IInv
  BY InitIInv
<1>2. IInv /\ [Next]_vars => IInv'
  BY NextIInv
<1> QED
  BY <1>1, <1>2, PTL DEF Spec

\* No start, stop, restart or crash leaves a running app-server that is neither
\* supervised nor told to end.
THEOREM NoOrphans == Spec => []NoOrphanProcess
<1>1. IInv => NoOrphanProcess
  BY DEF IInv
<1> QED
  BY <1>1, ConnectionInvariant, PTL

\* The live connection always belongs to the latest start.
THEOREM CurrentConnection == Spec => []ConnectionIsCurrent
<1>1. IInv => ConnectionIsCurrent
  BY DEF IInv
<1> QED
  BY <1>1, ConnectionInvariant, PTL

\* A ready runtime serves the configuration saved last, never an older key.
THEOREM ConfigIsCurrent == Spec => []ReadyRunsCurrentConfig
<1>1. IInv => ReadyRunsCurrentConfig
  BY DEF IInv, ReadyRunsCurrentConfig, ConnectionIsCurrent, ConnectionRunsConfig
<1> QED
  BY <1>1, ConnectionInvariant, PTL

\* A requested stop leaves no connection until the next start.
THEOREM StopHolds == Spec => []StoppedHoldsNoConnection
<1>1. IInv => StoppedHoldsNoConnection
  BY DEF IInv
<1> QED
  BY <1>1, ConnectionInvariant, PTL

(***************************************************************************)
(* The supervisor implements EngineLifecycle.  Every step of Next is a     *)
(* step of the abstract engine or leaves its state alone.                  *)
(***************************************************************************)
LEMMA BeginMaps ==
    ASSUME CanBegin(phase), generation < MaxGeneration, BeginStart
    PROVE  Lifecycle!BeginStart
BY DEF CanBegin, BeginStart, SetPhase, Announced, Lifecycle!BeginStart

LEMMA LeaveMaps ==
    ASSUME Announced' # "ready", UNCHANGED <<generation, startPc>>
    PROVE  Lifecycle!Leave
BY DEF Announced, Lifecycle!Leave

LEMMA StepMaps == [Next]_vars => [Lifecycle!EngineNext]_(Lifecycle!engine)
<1> SUFFICES ASSUME [Next]_vars
             PROVE  Lifecycle!EngineNext \/ UNCHANGED Lifecycle!engine
  OBVIOUS
<1> USE DEF Lifecycle!EngineNext, Lifecycle!engine
<1>1. CASE UNCHANGED <<phase, generation, startPc>>
  BY <1>1 DEF Announced
<1>2. CASE Start
  BY <1>2, BeginMaps DEF Start
<1>3. CASE Stop
  <2>1. Announced' # "ready" /\ UNCHANGED <<generation, startPc>>
    BY <1>3 DEF Stop, SetPhase, Announced
  <2> QED
    BY <2>1, LeaveMaps
<1>4. CASE RestartConnection
  <2>1. CASE startPc = "idle" /\ generation < MaxGeneration /\ BeginStart
    BY <2>1 DEF BeginStart, SetPhase, Announced, Lifecycle!BeginStart
  <2>2. CASE SetPhase("restarting", "none") /\ UNCHANGED <<generation, startPc>>
    <3>1. Announced' # "ready"
      BY <2>2 DEF SetPhase, Announced
    <3> QED
      BY <2>2, <3>1, LeaveMaps
  <2> QED
    BY <1>4, <2>1, <2>2 DEF RestartConnection
<1>5. CASE StartOnce
  <2>1. CASE AbandonDiscovery \/ FinishUnavailable \/ FinishFailed
    BY <2>1 DEF AbandonDiscovery, FinishUnavailable, FinishFailed, SetPhase, Announced,
       Lifecycle!StartFails
  <2>2. CASE FinishReady
    BY <2>2 DEF FinishReady, SetPhase, Announced, Lifecycle!StartSucceeds
  <2>3. CASE Spawn
    BY <2>3 DEF Spawn, SetPhase, Announced, Lifecycle!Leave
  <2>4. CASE DiscoveryFails \/ HandshakeSucceeds \/ HandshakeFails
    BY <2>4 DEF DiscoveryFails, HandshakeSucceeds, HandshakeFails, snapshot, Announced
  <2> QED
    BY <1>5, <2>1, <2>2, <2>3, <2>4 DEF StartOnce
<1>6. ASSUME NEW g \in Generations, Exit(g)
      PROVE  Lifecycle!EngineNext \/ UNCHANGED Lifecycle!engine
  <2>1. CASE ExitOfOldGeneration(g)
    BY <1>1, <2>1 DEF ExitOfOldGeneration, ExitEvent
  <2>2. CASE ExitAfterStop(g) \/ ExitDuringTurn(g) \/ ExitOverLimit(g) \/ ExitWhenIdle(g)
    <3>1. Announced' # "ready" /\ UNCHANGED <<generation, startPc>>
      BY <2>2 DEF ExitAfterStop, ExitDuringTurn, ExitOverLimit, ExitWhenIdle, ExitEvent,
         SetPhase, Announced
    <3> QED
      BY <3>1, LeaveMaps
  <2> QED
    BY <1>6, <2>1, <2>2 DEF Exit
<1>7. ASSUME NEW t \in timers, RestartTimerFires(t)
      PROVE  Lifecycle!EngineNext \/ UNCHANGED Lifecycle!engine
  BY <1>1, <1>7, BeginMaps DEF RestartTimerFires
<1>8. CASE \/ MarkTurnStarted \/ MarkTurnCompleted
           \/ MarkProcessStarted \/ MarkProcessCompleted
  BY <1>1, <1>8 DEF MarkTurnStarted, MarkTurnCompleted, MarkProcessStarted,
     MarkProcessCompleted, snapshot
<1>9. ASSUME NEW g \in Generations, ProcessDies(g) \/ PeerFails(g)
      PROVE  Lifecycle!EngineNext \/ UNCHANGED Lifecycle!engine
  BY <1>1, <1>9 DEF ProcessDies, PeerFails, snapshot
<1>10. CASE UNCHANGED vars
  BY <1>1, <1>10 DEF vars, snapshot
<1> QED
  BY <1>2, <1>3, <1>4, <1>5, <1>6, <1>7, <1>8, <1>9, <1>10
     DEF Next, Restart, UpdateLaunchConfiguration

\* The supervisor is the engine the models of the services assume.
THEOREM ImplementsLifecycle == Spec => KeepsLifecycle
<1>1. Init => Lifecycle!EngineInit
  BY DEF Init, Announced, Lifecycle!EngineInit
<1> QED
  BY <1>1, StepMaps, PTL DEF Spec, KeepsLifecycle, Lifecycle!EngineSpec
=============================================================================
