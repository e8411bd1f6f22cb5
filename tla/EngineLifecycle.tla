--------------------------- MODULE EngineLifecycle ---------------------------
(***************************************************************************)
(* What the services of the main process may assume of the supervisor of   *)
(* the agent engine: the phases and generations that subscribe() of        *)
(* src/main/runtime/codexRuntime.ts announces.  CodexRuntime implements    *)
(* this specification; the models of the services take it for their        *)
(* environment.                                                            *)
(***************************************************************************)
EXTENDS Naturals

CONSTANT MaxGeneration     \* bound: starts in one behaviour

ASSUME LifecycleAssumption == MaxGeneration \in Nat

VARIABLES
    phase,       \* the announced phase, by what it means to a service
    generation,  \* the number of the latest start
    settled      \* no start is in flight: #startPromise is null

engine == <<phase, generation, settled>>

\* "down" stands for stopped, unavailable and failed; "starting" for the phases
\* on the way to ready, the wait for an automatic restart included.
EnginePhases == {"down", "starting", "ready"}

EngineTypeOK ==
    phase \in EnginePhases /\ generation \in 0 .. MaxGeneration /\ settled \in BOOLEAN

EngineInit == phase = "down" /\ generation = 0 /\ settled = TRUE

\* start(): a new generation, unless the engine is ready or a start is in flight.
\* restart() of a ready engine begins one in the same task.
BeginStart ==
    /\ settled /\ generation < MaxGeneration
    /\ generation' = generation + 1
    /\ phase' = "starting" /\ settled' = FALSE

\* The start in flight ends once: ready is announced at most once a generation.
StartSucceeds ==
    /\ ~settled
    /\ phase' = "ready" /\ settled' = TRUE
    /\ UNCHANGED generation

StartFails ==
    /\ ~settled
    /\ phase' = "down" /\ settled' = TRUE
    /\ UNCHANGED generation

\* A stop, a restart, the exit of the child or the next step of a start.  Only a
\* start that succeeds makes the engine ready again.
Leave ==
    /\ phase' \in {"down", "starting"}
    /\ UNCHANGED <<generation, settled>>

EngineNext == BeginStart \/ StartSucceeds \/ StartFails \/ Leave

EngineSpec == EngineInit /\ [][EngineNext]_engine
=============================================================================
