------------------------------ MODULE WallClock ------------------------------
(***************************************************************************)
(* How a scheduled task's next run is computed from a recurrence of wall   *)
(* clock times: nextOccurrence and wallTimeToInstant of                    *)
(* src/main/scheduler/schedulerService.ts, with the save and tick that use *)
(* them.  Scheduler takes the result as a constant; this module is about   *)
(* the result.                                                             *)
(*                                                                         *)
(* An instant and a wall time are integers, as the code represents them: a *)
(* wall time is the instant at which a clock without offset shows it.  A   *)
(* zone changes its offset once; real zones change months apart.           *)
(***************************************************************************)
EXTENDS Integers, Sequences

CONSTANTS
    Zones,      \* time zones: offsets before and after an instant of change
    Rules,      \* recurrence rules
    NextWall,   \* rule.after: NextWall[r][w] is the first wall time of r after w
    WallTimes,  \* the wall times of the modelled period
    Never,      \* null: no occurrence is left
    Start, End, \* bound: the modelled period
    MaxQueued   \* bound: the runs queued in it

Instants == Start .. End

ASSUME PeriodAssumption == Start \in Int /\ End \in Int /\ MaxQueued \in Nat
ASSUME ZonesAssumption == \A z \in Zones : z.before \in Int /\ z.after \in Int /\ z.change \in Int
ASSUME NeverAssumption == Never \notin Int
ASSUME WallTimesAssumption ==
    /\ \A w \in WallTimes : w \in Int
    /\ \A z \in Zones, i \in Instants : {i + z.before, i + z.after} \subseteq WallTimes
ASSUME NextWallAssumption ==
    \A r \in Rules, w \in WallTimes :
        NextWall[r][w] = Never \/ (NextWall[r][w] \in Int /\ NextWall[r][w] > w)

VARIABLES
    zone, rule,  \* of the task
    now,         \* the clock
    nextRunAt,   \* of the task
    queued       \* the scheduledFor of the runs queued so far

vars == <<zone, rule, now, nextRunAt, queued>>

TypeOK ==
    /\ zone \in Zones /\ rule \in Rules
    /\ now \in Instants
    /\ nextRunAt = Never \/ nextRunAt \in Int
    /\ queued \in Seq(Int) /\ Len(queued) <= MaxQueued

-----------------------------------------------------------------------------

OffsetAt(z, i) == IF i < z.change THEN z.before ELSE z.after

\* localDateTime: what a clock in the zone shows.
LocalDateTime(z, i) == i + OffsetAt(z, i)

\* One round of the loop: move by the difference to the wall time asked for.  A
\* round that finds no difference, where the loop breaks, changes nothing.
Correct(z, w, i) == i + (w - LocalDateTime(z, i))

\* Fault: a single round.
Fault_OneRound(z, w) == Correct(z, w, w)

\* wallTimeToInstant: at most four rounds.
WallTimeToInstant(z, w) ==
    Correct(z, w, Correct(z, w, Correct(z, w, Correct(z, w, w))))

NextOccurrence(z, r, after) ==
    LET w == NextWall[r][LocalDateTime(z, after)]
    IN IF w = Never THEN Never ELSE WallTimeToInstant(z, w)

-----------------------------------------------------------------------------

\* A new task is saved.
Init ==
    /\ zone \in Zones /\ rule \in Rules /\ now \in Instants
    /\ nextRunAt = NextOccurrence(zone, rule, now)
    /\ queued = <<>>

\* The task is saved again with a rule, or resumed.
Save ==
    /\ \E r \in Rules : rule' = r /\ nextRunAt' = NextOccurrence(zone, r, now)
    /\ UNCHANGED <<zone, now, queued>>

\* Fault: a task without a next run counts as due.
Fault_TickWithoutNullCheck ==
    /\ nextRunAt = Never \/ nextRunAt <= now
    /\ Len(queued) < MaxQueued
    /\ queued' = Append(queued, nextRunAt)
    /\ nextRunAt' = NextOccurrence(zone, rule, now)
    /\ UNCHANGED <<zone, rule, now>>

\* A tick finds the task due.  It may come late, after the application was down.
Tick ==
    /\ nextRunAt # Never /\ nextRunAt <= now
    /\ Len(queued) < MaxQueued
    /\ queued' = Append(queued, nextRunAt)
    /\ nextRunAt' = NextOccurrence(zone, rule, now)
    /\ UNCHANGED <<zone, rule, now>>

Advance ==
    /\ now < End
    /\ now' = now + 1
    /\ UNCHANGED <<zone, rule, nextRunAt, queued>>

Next == Save \/ Tick \/ Advance

Spec == Init /\ [][Next]_vars

-----------------------------------------------------------------------------
(* Properties.                                                             *)

\* A clock in the zone shows w at some instant: w is not in the gap of a change.
Exists(z, w) == \E i \in {w - z.before, w - z.after} : LocalDateTime(z, i) = w

\* A wall time that exists is hit exactly, in every zone and however close to a
\* change of offset: the loop has converged when it stops.
ExistingWallTimeIsHit ==
    \A w \in WallTimes : Exists(zone, w) => LocalDateTime(zone, WallTimeToInstant(zone, w)) = w

\* East of Greenwich and on it an occurrence is queued once and in order, also
\* through gaps, repeated hours, late ticks and changes of the rule.
EastQueuesOnce ==
    zone.before >= 0 /\ zone.after >= 0 =>
        \A i, j \in 1 .. Len(queued) : i < j => queued[i] < queued[j]

\* docs/SCHEDULED_TASKS.md: the NEXT wall time is computed.  So no tick queues
\* an occurrence that an earlier tick has queued.
OccurrencesQueuedOnce ==
    \A i, j \in 1 .. Len(queued) : i < j => queued[i] # queued[j]
=============================================================================
