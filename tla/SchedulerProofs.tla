--------------------------- MODULE SchedulerProofs ---------------------------
(***************************************************************************)
(* Theorems about Scheduler, for every set of tasks and projects, every    *)
(* recurrence and every number of runs, attempts and crashes.              *)
(*                                                                         *)
(* The first part is about the run table: what a new record and a change   *)
(* of status do to it.  Every action changes the table in one of these     *)
(* ways, so the invariant IInv and the forward movement of runs follow     *)
(* from the lemmas and from who may be executing.                          *)
(***************************************************************************)
EXTENDS Scheduler, SequenceTheorems, TLAPS

\* rs2 is rs with records added, none of them running.
Grows(rs, rs2) ==
    /\ rs2 \in RunTable
    /\ \A t \in Tasks, p \in Projects :
         /\ Len(rs[t][p]) <= Len(rs2[t][p])
         /\ \A i \in 1 .. Len(rs[t][p]) : rs2[t][p][i] = rs[t][p][i]
         /\ \A i \in 1 .. Len(rs2[t][p]) :
              i > Len(rs[t][p]) => rs2[t][p][i].status # "running"

LEMMA RangeGrows ==
    ASSUME NEW a \in Nat, NEW b \in Nat, a <= b, NEW i \in 1 .. a PROVE i \in 1 .. b
OBVIOUS

LEMMA StatusChange ==
    ASSUME NEW r \in RunRecord, NEW s \in Statuses, NEW why \in Causes
    PROVE  /\ Mark(r, s, why) \in RunRecord
           /\ Mark(r, s, why).status = s
BY DEF Mark, RunRecord

LEMMA DomainIsRange ==
    ASSUME NEW rs \in RunTable, NEW t \in Tasks, NEW p \in Projects
    PROVE  /\ rs[t] \in [Projects -> Seq(RunRecord)]
           /\ rs[t][p] \in Seq(RunRecord)
           /\ DOMAIN rs[t][p] = 1 .. Len(rs[t][p])
           /\ Len(rs[t][p]) \in Nat
           /\ \A i \in 1 .. Len(rs[t][p]) : rs[t][p][i] \in RunRecord
<1>1. rs[t] \in [Projects -> Seq(RunRecord)] /\ rs[t][p] \in Seq(RunRecord)
  BY DEF RunTable
<1>2. \A i \in 1 .. Len(rs[t][p]) : rs[t][p][i] \in RunRecord
  BY <1>1, ElementOfSeq
<1> QED
  BY <1>1, <1>2

\* Queueing or skipping adds records and changes none.
LEMMA RecordGrows ==
    ASSUME NEW rs \in RunTable, NEW t \in Tasks, NEW ps \in SUBSET Projects,
           NEW run \in RunRecord, run.status # "running"
    PROVE  Grows(rs, Record(rs, t, ps, run))
<1> DEFINE rs2 == Record(rs, t, ps, run)
<1>1. ASSUME NEW p \in Projects
      PROVE  /\ rs2[t][p] \in Seq(RunRecord)
             /\ Len(rs[t][p]) <= Len(rs2[t][p])
             /\ \A i \in 1 .. Len(rs[t][p]) : rs2[t][p][i] = rs[t][p][i]
             /\ \A i \in 1 .. Len(rs2[t][p]) :
                  i > Len(rs[t][p]) => rs2[t][p][i].status # "running"
  <2>0. rs[t][p] \in Seq(RunRecord) /\ Len(rs[t][p]) \in Nat
    BY DomainIsRange
  <2>1. rs2[t][p] = IF p \in ps THEN Append(rs[t][p], run) ELSE rs[t][p]
    BY DEF Record, RunTable
  <2>2. CASE p \in ps
    <3>1. rs2[t][p] = Append(rs[t][p], run)
      BY <2>1, <2>2
    <3>2. /\ Append(rs[t][p], run) \in Seq(RunRecord)
          /\ Len(Append(rs[t][p], run)) = Len(rs[t][p]) + 1
          /\ \A i \in 1 .. Len(rs[t][p]) : Append(rs[t][p], run)[i] = rs[t][p][i]
          /\ Append(rs[t][p], run)[Len(rs[t][p]) + 1] = run
      BY <2>0, AppendProperties
    <3> QED
      BY <2>0, <3>1, <3>2
  <2>3. CASE p \notin ps
    BY <2>0, <2>1, <2>3
  <2> QED
    BY <2>2, <2>3
<1>2. \A u \in Tasks : u # t => rs2[u] = rs[u]
  BY DEF Record, RunTable
<1>3. rs2 \in RunTable
  <2>1. [p \in Projects |-> IF p \in ps THEN Append(rs[t][p], run) ELSE rs[t][p]]
          \in [Projects -> Seq(RunRecord)]
    BY DomainIsRange, AppendProperties
  <2> QED
    BY <2>1 DEF Record, RunTable
<1>4. \A u \in Tasks, p \in Projects : Len(rs[u][p]) \in Nat
  BY DomainIsRange
<1> QED
  BY <1>1, <1>2, <1>3, <1>4 DEF Grows

\* rs2 is rs with one record marked.
Marks(rs, rs2, t, p, i, s, why) ==
    /\ rs2 \in RunTable
    /\ \A u \in Tasks, q \in Projects :
         /\ Len(rs2[u][q]) = Len(rs[u][q])
         /\ \A j \in 1 .. Len(rs[u][q]) :
              rs2[u][q][j] = IF u = t /\ q = p /\ j = i
                               THEN Mark(rs[t][p][i], s, why)
                               ELSE rs[u][q][j]

\* A change of status changes that one record.
LEMMA SetRunFacts ==
    ASSUME NEW rs \in RunTable, NEW t \in Tasks, NEW p \in Projects,
           NEW i \in DOMAIN rs[t][p], NEW s \in Statuses, NEW why \in Causes
    PROVE  Marks(rs, SetRun(rs, t, p, i, s, why), t, p, i, s, why)
<1> DEFINE rs2 == SetRun(rs, t, p, i, s, why)
           e == Mark(rs[t][p][i], s, why)
           sq == [rs[t][p] EXCEPT ![i] = e]
<1>0. /\ rs[t][p] \in Seq(RunRecord) /\ i \in 1 .. Len(rs[t][p])
      /\ rs[t][p][i] \in RunRecord
  BY DomainIsRange
<1>1. e \in RunRecord
  BY <1>0, StatusChange
<1>2. /\ sq \in Seq(RunRecord)
      /\ Len(sq) = Len(rs[t][p])
      /\ \A j \in 1 .. Len(rs[t][p]) : sq[j] = IF j = i THEN e ELSE rs[t][p][j]
  <2> HIDE DEF e
  <2> QED
    BY <1>0, <1>1, ExceptSeq
<1>3. rs2 = [rs EXCEPT ![t] = [rs[t] EXCEPT ![p] = sq]]
  BY DEF SetRun, RunTable
<1>4. rs2 \in RunTable /\ rs2[t][p] = sq
  <2> HIDE DEF sq, rs2
  <2> QED
    BY <1>2, <1>3 DEF RunTable
<1>5. \A u \in Tasks, q \in Projects : ~(u = t /\ q = p) => rs2[u][q] = rs[u][q]
  <2> HIDE DEF sq, rs2
  <2> QED
    BY <1>3 DEF RunTable
<1> HIDE DEF e, sq, rs2
<1>6. /\ rs2 \in RunTable
      /\ \A u \in Tasks, q \in Projects :
           /\ Len(rs2[u][q]) = Len(rs[u][q])
           /\ \A j \in 1 .. Len(rs[u][q]) :
                rs2[u][q][j] = IF u = t /\ q = p /\ j = i THEN e ELSE rs[u][q][j]
  BY <1>2, <1>4, <1>5
<1> QED
  BY <1>6 DEF e, rs2, Marks

\* recoverInterruptedScheduledRuns leaves no run running and touches no other.
LEMMA RecoveredFacts ==
    ASSUME runs \in RunTable
    PROVE  /\ Recovered \in RunTable
           /\ \A t \in Tasks, p \in Projects :
                /\ Len(Recovered[t][p]) = Len(runs[t][p])
                /\ \A i \in 1 .. Len(runs[t][p]) :
                     /\ Recovered[t][p][i].status # "running"
                     /\ runs[t][p][i].status # "running" =>
                          Recovered[t][p][i] = runs[t][p][i]
                     /\ runs[t][p][i].status = "running" =>
                          Recovered[t][p][i].status = "failed"
<1>1. ASSUME NEW t \in Tasks, NEW p \in Projects
      PROVE  /\ Recovered[t][p] \in Seq(RunRecord)
             /\ Len(Recovered[t][p]) = Len(runs[t][p])
             /\ \A i \in 1 .. Len(runs[t][p]) :
                  Recovered[t][p][i] =
                    IF runs[t][p][i].status = "running"
                      THEN Mark(runs[t][p][i], "failed", "interrupted")
                      ELSE runs[t][p][i]
  <2> DEFINE e(i) == IF runs[t][p][i].status = "running"
                       THEN Mark(runs[t][p][i], "failed", "interrupted")
                       ELSE runs[t][p][i]
  <2>1. ASSUME NEW i \in 1 .. Len(runs[t][p]) PROVE e(i) \in RunRecord
    <3>1. runs[t][p][i] \in RunRecord
      BY DomainIsRange
    <3>2. "failed" \in Statuses /\ "interrupted" \in Causes
      BY DEF Statuses, Causes
    <3>3. Mark(runs[t][p][i], "failed", "interrupted") \in RunRecord
      BY <3>1, <3>2, StatusChange
    <3> QED
      BY <3>1, <3>3
  <2>2. DOMAIN runs[t][p] = 1 .. Len(runs[t][p]) /\ Len(runs[t][p]) \in Nat
    BY DomainIsRange
  <2>3. Recovered[t][p] = [i \in 1 .. Len(runs[t][p]) |-> e(i)]
    BY <2>2 DEF Recovered
  <2> HIDE DEF e
  <2>4. /\ Recovered[t][p] \in Seq(RunRecord)
        /\ Len(Recovered[t][p]) = Len(runs[t][p])
        /\ \A i \in 1 .. Len(runs[t][p]) : Recovered[t][p][i] = e(i)
    BY <2>1, <2>2, <2>3
  <2> QED
    BY <2>4 DEF e
<1>2. Recovered \in RunTable
  BY <1>1 DEF Recovered, RunTable
<1>3. ASSUME NEW t \in Tasks, NEW p \in Projects, NEW i \in 1 .. Len(runs[t][p])
      PROVE  /\ Recovered[t][p][i].status # "running"
             /\ runs[t][p][i].status # "running" => Recovered[t][p][i] = runs[t][p][i]
             /\ runs[t][p][i].status = "running" => Recovered[t][p][i].status = "failed"
  <2>1. runs[t][p][i] \in RunRecord
    BY DomainIsRange
  <2>2. "failed" \in Statuses /\ "interrupted" \in Causes
    BY DEF Statuses, Causes
  <2>3. Mark(runs[t][p][i], "failed", "interrupted").status = "failed"
    BY <2>1, <2>2, StatusChange
  <2>4. CASE runs[t][p][i].status = "running"
    BY <1>1, <2>3, <2>4
  <2>5. CASE runs[t][p][i].status # "running"
    BY <1>1, <2>5
  <2> QED
    BY <2>4, <2>5
<1> QED
  BY <1>1, <1>2, <1>3

(***************************************************************************)
(* The invariant.                                                          *)
(***************************************************************************)

\* Before start() nothing executes and nobody drains.
QuietBeforeStart == service \in {"down", "booted"} => active = {} /\ drain = "none"

\* After recovery no record says running.
CleanAfterBoot ==
    service = "booted" =>
        \A t \in Tasks, p \in Projects : \A i \in 1 .. Len(runs[t][p]) :
            runs[t][p][i].status # "running"

\* The record of an execution in progress says running.
ActiveIsRunning ==
    service = "started" => \A c \in active : runs[c.task][c.project][c.index].status = "running"

IInv ==
    /\ TypeOK
    /\ QuietBeforeStart
    /\ CleanAfterBoot
    /\ ActiveIsRunning
    /\ OneRunAtATime
    /\ PausedNeverScheduled
    /\ TickStaysArmed

LEMMA TimeFacts ==
    ASSUME TypeOK
    PROVE  /\ now \in Nat /\ Never \in Nat /\ Never \in 0 .. Never
           /\ TickTime \in 0 .. Never /\ TickTime # Never
           /\ \A t \in Tasks : NextOccurrence[t][now] \in 0 .. Never
BY TimeAssumption, NextOccurrenceAssumption DEF TypeOK, Time, Never, TickTime

LEMMA InitIInv == Init => IInv
<1> SUFFICES ASSUME Init PROVE IInv
  OBVIOUS
<1>1. runs \in RunTable
  <2>1. <<>> \in Seq(RunRecord)
    OBVIOUS
  <2> QED
    BY <2>1 DEF Init, RunTable
<1>2. tasks \in [Tasks -> TaskRecord]
  BY TimeAssumption, AttemptsAssumption DEF Init, Absent, TaskRecord, Never
<1>3. now \in Time /\ timer \in 0 .. Never
  BY TimeAssumption DEF Init, Time, Never
<1>4. TypeOK
  BY <1>1, <1>2, <1>3 DEF Init, TypeOK
<1>5. PausedNeverScheduled
  BY DEF Init, PausedNeverScheduled, Absent
<1>6. QuietBeforeStart /\ CleanAfterBoot /\ ActiveIsRunning /\ OneRunAtATime /\ TickStaysArmed
  BY DEF Init, QuietBeforeStart, CleanAfterBoot, ActiveIsRunning, OneRunAtATime, TickStaysArmed
<1> QED
  BY <1>4, <1>5, <1>6 DEF IInv

\* A step that only adds records keeps what is said about runs.
LEMMA GrowKeepsRuns ==
    ASSUME IInv, Grows(runs, runs'), UNCHANGED active,
           service' = service \/ (service = "booted" /\ service' = "started")
    PROVE  /\ CleanAfterBoot' /\ ActiveIsRunning' /\ OneRunAtATime'
           /\ \A c \in active' : c.index \in DOMAIN runs'[c.task][c.project]
<1>0. /\ runs \in RunTable /\ runs' \in RunTable /\ active \subseteq ActiveRecord
      /\ \A c \in active : c.index \in DOMAIN runs[c.task][c.project]
  BY DEF IInv, TypeOK, Grows
<1>1. \A t \in Tasks, p \in Projects :
        /\ DOMAIN runs[t][p] = 1 .. Len(runs[t][p]) /\ Len(runs[t][p]) \in Nat
        /\ DOMAIN runs'[t][p] = 1 .. Len(runs'[t][p]) /\ Len(runs'[t][p]) \in Nat
  BY <1>0, DomainIsRange
<1>2. ASSUME NEW c \in active
      PROVE  /\ c.task \in Tasks /\ c.project \in Projects
             /\ c.index \in 1 .. Len(runs[c.task][c.project])
             /\ c.index \in 1 .. Len(runs'[c.task][c.project])
             /\ runs'[c.task][c.project][c.index] = runs[c.task][c.project][c.index]
  <2>1. c.task \in Tasks /\ c.project \in Projects
    BY <1>0 DEF ActiveRecord
  <2>2. c.index \in 1 .. Len(runs[c.task][c.project])
    BY <1>0, <1>1, <2>1
  <2>3. /\ Len(runs[c.task][c.project]) <= Len(runs'[c.task][c.project])
        /\ runs'[c.task][c.project][c.index] = runs[c.task][c.project][c.index]
    BY <2>1, <2>2 DEF Grows
  <2>4. /\ Len(runs[c.task][c.project]) \in Nat
        /\ Len(runs'[c.task][c.project]) \in Nat
    BY <1>1, <2>1
  <2>5. c.index \in 1 .. Len(runs'[c.task][c.project])
    BY <2>2, <2>3, <2>4, RangeGrows
  <2> QED
    BY <2>1, <2>2, <2>3, <2>5
<1>3. ASSUME NEW t \in Tasks, NEW p \in Projects, NEW i \in 1 .. Len(runs'[t][p]),
             runs'[t][p][i].status = "running"
      PROVE  i \in 1 .. Len(runs[t][p]) /\ runs[t][p][i].status = "running"
  BY <1>1, <1>3 DEF Grows
<1>4. CleanAfterBoot'
  BY <1>3 DEF IInv, CleanAfterBoot
<1>5. ActiveIsRunning'
  BY <1>2 DEF IInv, ActiveIsRunning, QuietBeforeStart
<1>6. OneRunAtATime'
  <2>1. \A c, d \in active' : c = d
    BY DEF IInv, OneRunAtATime
  <2>2. ASSUME service' = "started", NEW t \in Tasks, NEW p \in Projects,
               NEW i \in DOMAIN runs'[t][p], runs'[t][p][i].status = "running"
        PROVE  \E c \in active' : c.task = t /\ c.project = p /\ c.index = i
    <3>1. i \in DOMAIN runs[t][p] /\ runs[t][p][i].status = "running"
      BY <1>1, <1>3, <2>2
    <3>2. service = "started"
      BY <1>1, <2>2, <3>1 DEF IInv, CleanAfterBoot
    <3> QED
      BY <3>1, <3>2 DEF IInv, OneRunAtATime
  <2> QED
    BY <2>1, <2>2 DEF OneRunAtATime
<1> QED
  BY <1>1, <1>2, <1>4, <1>5, <1>6

LEMMA TickGrows ==
    ASSUME TypeOK, TickBody
    PROVE  /\ Grows(runs, runs')
           /\ tasks' \in [Tasks -> TaskRecord]
           /\ PausedNeverScheduled => PausedNeverScheduled'
<1>1. ASSUME NEW t \in Tasks, IsDue(t)
      PROVE  Grows(runs, Record(runs, t, tasks[t].projectIds, TickRun(t)))
  <2>1. tasks[t] \in TaskRecord
    BY DEF TypeOK
  <2>2. TickRun(t) \in RunRecord /\ TickRun(t).status # "running"
    BY <2>1, AttemptsAssumption, TimeAssumption
    DEF TickRun, NewRun, RunRecord, Statuses, Causes, TaskRecord, Never
  <2>3. tasks[t].projectIds \in SUBSET Projects
    BY <2>1 DEF TaskRecord
  <2> QED
    BY <2>2, <2>3, RecordGrows DEF TypeOK
<1>2. ASSUME NEW t \in Tasks
      PROVE  /\ runs'[t] \in [Projects -> Seq(RunRecord)]
             /\ \A p \in Projects :
                  /\ Len(runs[t][p]) <= Len(runs'[t][p])
                  /\ \A i \in 1 .. Len(runs[t][p]) : runs'[t][p][i] = runs[t][p][i]
                  /\ \A i \in 1 .. Len(runs'[t][p]) :
                       i > Len(runs[t][p]) => runs'[t][p][i].status # "running"
  <2>1. CASE IsDue(t)
    <3>1. runs'[t] = Record(runs, t, tasks[t].projectIds, TickRun(t))[t]
      BY <2>1 DEF TickBody
    <3> QED
      BY <1>1, <2>1, <3>1 DEF Grows, RunTable
  <2>2. CASE ~IsDue(t)
    <3>1. runs'[t] = runs[t]
      BY <2>2 DEF TickBody
    <3>2. \A p \in Projects : Len(runs[t][p]) \in Nat
      BY DomainIsRange DEF TypeOK
    <3> QED
      BY <3>1, <3>2, DomainIsRange DEF TypeOK, RunTable
  <2> QED
    BY <2>1, <2>2
<1>3. runs' \in RunTable
  BY <1>2 DEF TickBody, RunTable
<1>4. Grows(runs, runs')
  BY <1>2, <1>3 DEF Grows
<1>5. tasks' \in [Tasks -> TaskRecord]
  BY TimeFacts DEF TickBody, TypeOK, TaskRecord
<1>6. PausedNeverScheduled => PausedNeverScheduled'
  BY DEF TickBody, TypeOK, TaskRecord, PausedNeverScheduled, IsDue
<1> QED
  BY <1>4, <1>5, <1>6

(***************************************************************************)
(* The end of an execution, and the start of one.                          *)
(***************************************************************************)

\* rs is the table after the execution c has been given a final status.
Finished(c, rs) ==
    /\ rs \in RunTable
    /\ \A t \in Tasks, p \in Projects :
         /\ Len(rs[t][p]) = Len(runs[t][p])
         /\ \A i \in 1 .. Len(runs[t][p]) :
              \/ rs[t][p][i] = runs[t][p][i]
              \/ /\ t = c.task /\ p = c.project /\ i = c.index
                 /\ rs[t][p][i].status \in {"succeeded", "failed", "cancelled"}
    /\ rs[c.task][c.project][c.index].status # "running"

LEMMA SetRunFinishes ==
    ASSUME TypeOK, NEW c \in active, NEW s \in {"succeeded", "failed", "cancelled"},
           NEW why \in Causes
    PROVE  Finished(c, SetRun(runs, c.task, c.project, c.index, s, why))
<1> DEFINE rs == SetRun(runs, c.task, c.project, c.index, s, why)
<1>1. /\ c.task \in Tasks /\ c.project \in Projects /\ s \in Statuses
      /\ c.index \in DOMAIN runs[c.task][c.project] /\ runs \in RunTable
  BY DEF TypeOK, ActiveRecord, Statuses
<1>2. c.index \in 1 .. Len(runs[c.task][c.project])
  BY <1>1, DomainIsRange
<1>3. Marks(runs, rs, c.task, c.project, c.index, s, why)
  BY <1>1, SetRunFacts
<1>4. Mark(runs[c.task][c.project][c.index], s, why).status = s
  <2>1. runs[c.task][c.project][c.index] \in RunRecord
    BY <1>1, <1>2, DomainIsRange
  <2> QED
    BY <1>1, <2>1, StatusChange
<1> HIDE DEF rs
<1>5. rs[c.task][c.project][c.index].status = s
  BY <1>1, <1>2, <1>3, <1>4 DEF Marks
<1>6. ASSUME NEW t \in Tasks, NEW p \in Projects, NEW i \in 1 .. Len(runs[t][p])
      PROVE  \/ rs[t][p][i] = runs[t][p][i]
             \/ /\ t = c.task /\ p = c.project /\ i = c.index
                /\ rs[t][p][i].status = s
  BY <1>1, <1>3, <1>5 DEF Marks
<1>7. Finished(c, rs)
  BY <1>3, <1>5, <1>6 DEF Finished, Marks
<1> QED
  BY <1>7 DEF rs

\* Once the one execution has a final status, no record says running, and none
\* does after more records were queued.
LEMMA FinishedIsClean ==
    ASSUME IInv, service = "started", NEW c \in active, NEW rs, Finished(c, rs),
           Grows(rs, runs')
    PROVE  /\ runs' \in RunTable
           /\ \A t \in Tasks, p \in Projects : \A i \in 1 .. Len(runs'[t][p]) :
                runs'[t][p][i].status # "running"
<1>1. ASSUME NEW t \in Tasks, NEW p \in Projects, NEW i \in 1 .. Len(rs[t][p])
      PROVE  rs[t][p][i].status # "running"
  <2>1. i \in DOMAIN runs[t][p] /\ i \in 1 .. Len(runs[t][p])
    BY DomainIsRange DEF Finished, IInv, TypeOK
  <2>2. CASE runs[t][p][i].status = "running"
    <3>1. c.task = t /\ c.project = p /\ c.index = i
      BY <2>1, <2>2 DEF IInv, OneRunAtATime
    <3> QED
      BY <3>1 DEF Finished
  <2>3. CASE runs[t][p][i].status # "running"
    BY <2>1, <2>3 DEF Finished
  <2> QED
    BY <2>2, <2>3
<1>2. \A t \in Tasks, p \in Projects :
        Len(rs[t][p]) \in Nat /\ Len(runs'[t][p]) \in Nat
  BY DomainIsRange DEF Finished, Grows
<1> QED
  BY <1>1, <1>2 DEF Grows

LEMMA GrowsReflexive == ASSUME NEW rs \in RunTable PROVE Grows(rs, rs)
<1>1. \A t \in Tasks, p \in Projects : Len(rs[t][p]) \in Nat
  BY DomainIsRange
<1> QED
  BY <1>1 DEF Grows

\* A failed execution: the final status, then the retries if any.
LEMMA FailureFinishes ==
    ASSUME IInv, NEW c \in active, NEW ps \in SUBSET Projects
    PROVE  /\ Finished(c, Finish(c))
           /\ Retries(c) => Grows(Finish(c), Record(Finish(c), c.task, ps, RetryRun(c)))
<1>1. Finished(c, Finish(c))
  BY SetRunFinishes DEF Finish, IInv, Causes
<1>2. ASSUME Retries(c) PROVE RetryRun(c) \in RunRecord /\ RetryRun(c).status # "running"
  <2>0. c \in ActiveRecord /\ runs \in RunTable
    BY DEF IInv, TypeOK
  <2>1. c.index \in DOMAIN runs[c.task][c.project]
    BY DEF IInv, TypeOK
  <2>2. runs[c.task][c.project][c.index] \in RunRecord
    BY <2>0, <2>1, DomainIsRange DEF ActiveRecord
  <2>3. /\ runs[c.task][c.project][c.index].attempt \in 1 .. MaxAttempts
        /\ c.held.maxAttempts \in 1 .. MaxAttempts
    BY <2>0, <2>2 DEF RunRecord, ActiveRecord, TaskRecord
  <2>4. runs[c.task][c.project][c.index].attempt + 1 \in 1 .. MaxAttempts
    BY <1>2, <2>3, AttemptsAssumption DEF Retries
  <2>5. now + Backoff \in Nat
    BY AttemptsAssumption, TimeFacts DEF IInv
  <2> QED
    BY <2>4, <2>5 DEF RetryRun, NewRun, RunRecord, Statuses, Causes
<1>3. c.task \in Tasks
  BY DEF IInv, TypeOK, ActiveRecord
<1> QED
  BY <1>1, <1>2, <1>3, RecordGrows DEF Finished

\* The state after an execution has ended: nothing runs.
LEMMA EndIInv ==
    ASSUME IInv, service = "started", service' \in {"started", "down"}, active' = {},
           UNCHANGED <<tasks, now>>,
           service' = "started" => UNCHANGED <<timer, drain>>,
           service' = "down" => timer' = Never /\ drain' = "none",
           runs' \in RunTable,
           \A t \in Tasks, p \in Projects : \A i \in 1 .. Len(runs'[t][p]) :
                runs'[t][p][i].status # "running"
    PROVE  IInv'
<1>1. Never \in 0 .. Never
  BY TimeFacts DEF IInv
<1>2. TypeOK'
  BY <1>1 DEF IInv, TypeOK, Time, Never
<1>3. OneRunAtATime'
  BY DomainIsRange DEF OneRunAtATime
<1> QED
  BY <1>2, <1>3 DEF IInv, QuietBeforeStart, CleanAfterBoot, ActiveIsRunning,
     PausedNeverScheduled, TickStaysArmed, Never

\* A step that leaves the runs alone.
LEMMA SameRunsIInv ==
    ASSUME IInv, UNCHANGED runs, TypeOK',
           service' = service \/ service' = "stopping",
           \/ UNCHANGED active
           \/ \A c \in active' : \E d \in active :
                 c.task = d.task /\ c.project = d.project /\ c.index = d.index,
           \A c, d \in active' : c = d,
           service' = "started" =>
              \A d \in active : \E c \in active' :
                 c.task = d.task /\ c.project = d.project /\ c.index = d.index,
           QuietBeforeStart', PausedNeverScheduled', TickStaysArmed'
    PROVE  IInv'
<1>1. CleanAfterBoot' /\ ActiveIsRunning'
  BY DEF IInv, CleanAfterBoot, ActiveIsRunning
<1>2. OneRunAtATime'
  BY DEF IInv, OneRunAtATime
<1> QED
  BY <1>1, <1>2 DEF IInv

LEMMA DrainStepIInv == IInv /\ DrainStep => IInv'
<1> SUFFICES ASSUME IInv, DrainStep PROVE IInv'
  OBVIOUS
<1>0. /\ runs \in RunTable /\ active = {} /\ service = "started" /\ service' = "started"
      /\ tasks \in [Tasks -> TaskRecord] /\ UNCHANGED <<tasks, now, timer, drain>>
  BY DEF IInv, TypeOK, DrainStep
<1>1. \A u \in Tasks, q \in Projects : \A j \in 1 .. Len(runs[u][q]) :
        runs[u][q][j].status # "running"
  BY <1>0, DomainIsRange DEF IInv, OneRunAtATime
<1>a. PICK t \in Tasks, p \in Projects : \E i \in DOMAIN runs[t][p] :
        IF Exists(t)
          THEN /\ runs' = SetRun(runs, t, p, i, "running", "none")
               /\ active' = {[task |-> t, project |-> p, index |-> i,
                              held |-> tasks[t], aborted |-> FALSE]}
          ELSE /\ runs' = SetRun(runs, t, p, i, "skipped", "deleted")
               /\ UNCHANGED active
  BY DEF DrainStep
<1>2. PICK i \in DOMAIN runs[t][p] :
        IF Exists(t)
          THEN /\ runs' = SetRun(runs, t, p, i, "running", "none")
               /\ active' = {[task |-> t, project |-> p, index |-> i,
                              held |-> tasks[t], aborted |-> FALSE]}
          ELSE /\ runs' = SetRun(runs, t, p, i, "skipped", "deleted")
               /\ UNCHANGED active
  BY <1>a
<1>3. i \in 1 .. Len(runs[t][p]) /\ Len(runs[t][p]) \in Nat /\ runs[t][p][i] \in RunRecord
  BY <1>0, DomainIsRange
<1>4. CASE Exists(t)
  <2> DEFINE c == [task |-> t, project |-> p, index |-> i, held |-> tasks[t],
                   aborted |-> FALSE]
  <2>1. active' = {c} /\ runs' = SetRun(runs, t, p, i, "running", "none")
    BY <1>2, <1>4
  <2>2. "running" \in Statuses /\ "none" \in Causes
    BY DEF Statuses, Causes
  <2>3. Marks(runs, runs', t, p, i, "running", "none")
    BY <1>0, <2>1, <2>2, SetRunFacts
  <2>4. runs'[t][p][i].status = "running"
    BY <1>3, <2>2, <2>3, StatusChange DEF Marks
  <2>5. \A u \in Tasks, q \in Projects : \A j \in 1 .. Len(runs[u][q]) :
          runs'[u][q][j].status = "running" => u = t /\ q = p /\ j = i
    BY <1>1, <2>3 DEF Marks
  <2>6. c \in ActiveRecord
    BY <1>0, <1>3 DEF ActiveRecord
  <2>7. \A u \in Tasks, q \in Projects :
          DOMAIN runs'[u][q] = 1 .. Len(runs[u][q]) /\ runs' \in RunTable
    BY <2>3, DomainIsRange DEF Marks
  <2>8. c.task = t /\ c.project = p /\ c.index = i
    OBVIOUS
  <2> HIDE DEF c
  <2>9. TypeOK'
    BY <1>0, <1>3, <2>1, <2>6, <2>7, <2>8 DEF IInv, TypeOK, Time, Never
  <2>10. OneRunAtATime' /\ ActiveIsRunning'
    BY <1>0, <2>1, <2>4, <2>5, <2>7, <2>8 DEF OneRunAtATime, ActiveIsRunning
  <2> QED
    BY <1>0, <2>9, <2>10 DEF IInv, QuietBeforeStart, CleanAfterBoot, PausedNeverScheduled,
       TickStaysArmed, Never
<1>5. CASE ~Exists(t)
  <2>1. active' = {} /\ runs' = SetRun(runs, t, p, i, "skipped", "deleted")
    BY <1>0, <1>2, <1>5
  <2>2. "skipped" \in Statuses /\ "deleted" \in Causes
    BY DEF Statuses, Causes
  <2>3. Marks(runs, runs', t, p, i, "skipped", "deleted")
    BY <1>0, <2>1, <2>2, SetRunFacts
  <2>4. runs'[t][p][i].status = "skipped"
    BY <1>3, <2>2, <2>3, StatusChange DEF Marks
  <2>5. \A u \in Tasks, q \in Projects : \A j \in 1 .. Len(runs'[u][q]) :
          runs'[u][q][j].status # "running"
    BY <1>1, <2>3, <2>4 DEF Marks
  <2>6. runs' \in RunTable
    BY <2>3 DEF Marks
  <2> QED
    BY <1>0, <2>1, <2>5, <2>6, EndIInv
<1> QED
  BY <1>4, <1>5

LEMMA GrowIInv ==
    ASSUME IInv, Grows(runs, runs'), UNCHANGED <<active, now>>,
           service' = service \/ (service = "booted" /\ service' = "started"),
           tasks' \in [Tasks -> TaskRecord], timer' \in 0 .. Never,
           drain' \in {"none", "tick", "call"},
           QuietBeforeStart', PausedNeverScheduled', TickStaysArmed'
    PROVE  IInv'
<1>1. /\ CleanAfterBoot' /\ ActiveIsRunning' /\ OneRunAtATime'
      /\ \A c \in active' : c.index \in DOMAIN runs'[c.task][c.project]
  BY GrowKeepsRuns
<1>2. TypeOK'
  BY <1>1 DEF IInv, TypeOK, Grows, Time, Never
<1> QED
  BY <1>1, <1>2 DEF IInv

\* The process is gone: memory is empty and the table only has to be well formed.
LEMMA GoneIInv ==
    ASSUME IInv, ProcessGone, UNCHANGED <<tasks, now>>, runs' \in RunTable
    PROVE  IInv'
<1>1. TypeOK'
  BY TimeFacts DEF IInv, TypeOK, ProcessGone, Time, Never
<1> QED
  BY <1>1 DEF IInv, ProcessGone, QuietBeforeStart, CleanAfterBoot, ActiveIsRunning,
     OneRunAtATime, PausedNeverScheduled, TickStaysArmed

LEMMA NextIInv == IInv /\ [Next]_vars => IInv'
<1> SUFFICES ASSUME IInv, [Next]_vars PROVE IInv'
  OBVIOUS
<1>0. /\ TypeOK /\ runs \in RunTable /\ tasks \in [Tasks -> TaskRecord]
      /\ active \subseteq ActiveRecord /\ timer \in 0 .. Never
      /\ drain \in {"none", "tick", "call"}
  BY DEF IInv, TypeOK
<1>t. /\ now \in Nat /\ Never \in Nat /\ Never \in 0 .. Never
      /\ TickTime \in 0 .. Never /\ TickTime # Never
      /\ \A t \in Tasks : NextOccurrence[t][now] \in 0 .. Never
  BY <1>0, TimeFacts
<1>g. Grows(runs, runs)
  BY <1>0, GrowsReflexive
<1>1. ASSUME NEW t \in Tasks, SaveTask(t) PROVE IInv'
  <2>1. PICK input \in TaskInputs[t] : tasks' = [tasks EXCEPT ![t] =
            [status |-> IF Exists(t) THEN tasks[t].status ELSE "active",
             nextRunAt |-> SavedNextRunAt(t),
             missedRunPolicy |-> input.missedRunPolicy, maxAttempts |-> input.maxAttempts,
             projectIds |-> input.projectIds]]
    BY <1>1 DEF SaveTask
  <2>2. input \in [missedRunPolicy : {"run_once", "skip"}, maxAttempts : 1 .. MaxAttempts,
                   projectIds : SUBSET Projects]
    BY TaskInputsAssumption
  <2>3. tasks' \in [Tasks -> TaskRecord]
    BY <1>0, <1>t, <2>1, <2>2 DEF TaskRecord, SavedNextRunAt, Exists
  <2>4. PausedNeverScheduled'
    BY <1>0, <2>1 DEF IInv, PausedNeverScheduled, SavedNextRunAt, Exists, TaskRecord
  <2>5. timer' \in 0 .. Never /\ TickStaysArmed'
    BY <1>0, <1>1, <1>t DEF SaveTask, ScheduleTick, TickStaysArmed, Never
  <2> QED
    BY <1>0, <1>1, <1>g, <2>3, <2>4, <2>5, GrowIInv DEF SaveTask, IInv, QuietBeforeStart
<1>2. ASSUME NEW t \in Tasks, SetPaused(t, TRUE) \/ SetPaused(t, FALSE) PROVE IInv'
  <2>1. PICK status \in {"active", "paused"}, next \in 0 .. Never :
          /\ status = "paused" => next = Never
          /\ tasks' = [tasks EXCEPT ![t] =
               [tasks[t] EXCEPT !.status = status, !.nextRunAt = next]]
    <3>1. CASE SetPaused(t, TRUE)
      <4>1. tasks' = [tasks EXCEPT ![t] =
               [tasks[t] EXCEPT !.status = "paused", !.nextRunAt = Never]]
        BY <1>0, <3>1 DEF SetPaused, TaskRecord
      <4> QED
        BY <1>t, <4>1
    <3>2. CASE SetPaused(t, FALSE)
      <4>1. tasks' = [tasks EXCEPT ![t] =
               [tasks[t] EXCEPT !.status = "active", !.nextRunAt = NextOccurrence[t][now]]]
        BY <1>0, <3>2 DEF SetPaused, TaskRecord
      <4> QED
        BY <1>t, <4>1
    <3> QED
      BY <1>2, <3>1, <3>2
  <2>2. tasks' \in [Tasks -> TaskRecord]
    BY <1>0, <2>1 DEF TaskRecord
  <2>3. PausedNeverScheduled'
    BY <1>0, <2>1 DEF IInv, PausedNeverScheduled, TaskRecord, Never
  <2>4. timer' \in 0 .. Never /\ TickStaysArmed' /\ UNCHANGED <<runs, now, service, drain, active>>
    BY <1>0, <1>2, <1>t DEF SetPaused, ScheduleTick, TickStaysArmed, Never
  <2> QED
    BY <1>0, <1>g, <2>2, <2>3, <2>4, GrowIInv DEF IInv, QuietBeforeStart
<1>3. ASSUME NEW t \in Tasks, DeleteTask(t) PROVE IInv'
  <2>1. tasks' \in [Tasks -> TaskRecord]
    BY <1>0, <1>3, <1>t, AttemptsAssumption DEF DeleteTask, Absent, TaskRecord
  <2>2. PausedNeverScheduled'
    BY <1>0, <1>3 DEF IInv, DeleteTask, PausedNeverScheduled, Absent, Never
  <2> QED
    BY <1>0, <1>3, <1>g, <2>1, <2>2, GrowIInv
    DEF DeleteTask, memory, IInv, QuietBeforeStart, TickStaysArmed, Never
<1>4. ASSUME NEW t \in Tasks, RunNow(t) PROVE IInv'
  <2>1. NewRun(now, 1, "queued", "none") \in RunRecord
    BY <1>t, AttemptsAssumption DEF NewRun, RunRecord, Statuses, Causes
  <2>2. NewRun(now, 1, "queued", "none").status # "running"
    BY DEF NewRun
  <2>3. tasks[t].projectIds \in SUBSET Projects
    BY <1>0 DEF TaskRecord
  <2>4. Grows(runs, runs')
    BY <1>0, <1>4, <2>1, <2>2, <2>3, RecordGrows DEF RunNow
  <2> QED
    BY <1>0, <1>4, <2>4, GrowIInv DEF RunNow, IInv, QuietBeforeStart, PausedNeverScheduled,
       TickStaysArmed, Never
<1>5. CASE CancelRun
  <2>1. PICK c \in active : active' = {[c EXCEPT !.aborted = TRUE]}
    BY <1>5 DEF CancelRun
  <2>2. \A d \in active : d = c
    BY DEF IInv, OneRunAtATime
  <2> DEFINE e == [c EXCEPT !.aborted = TRUE]
  <2>3. e \in ActiveRecord /\ e.task = c.task /\ e.project = c.project /\ e.index = c.index
    BY <1>0 DEF ActiveRecord
  <2>4. active' = {e}
    BY <2>1
  <2> HIDE DEF e
  <2>5. TypeOK'
    BY <1>0, <1>5, <2>3, <2>4 DEF CancelRun, store, TypeOK, Time, Never
  <2> QED
    BY <1>5, <2>2, <2>3, <2>4, <2>5, SameRunsIInv DEF CancelRun, store, IInv,
       QuietBeforeStart, PausedNeverScheduled, TickStaysArmed, Never
<1>6. CASE Tick
  <2>1. timer' \in 0 .. Never /\ drain' \in {"none", "tick", "call"} /\ TickStaysArmed'
    BY <1>0, <1>6, <1>t DEF Tick, TickBody, TickStaysArmed, Never
  <2> QED
    BY <1>0, <1>6, <2>1, TickGrows, GrowIInv DEF Tick, IInv, QuietBeforeStart
<1>7. CASE DrainStep
  BY <1>7, DrainStepIInv
<1>8. CASE DrainEnds
  <2>1. timer' \in 0 .. Never /\ TickStaysArmed'
    BY <1>0, <1>8, <1>t DEF IInv, DrainEnds, ScheduleTick, TickStaysArmed, Never
  <2> QED
    BY <1>0, <1>8, <1>g, <2>1, GrowIInv DEF DrainEnds, store, IInv, QuietBeforeStart,
       PausedNeverScheduled, Never
<1>9. ASSUME NEW c \in active, ExecuteSucceeds(c) PROVE IInv'
  <2>1. "none" \in Causes
    BY DEF Causes
  <2>2. Finished(c, runs')
    BY <1>0, <1>9, <2>1, SetRunFinishes DEF ExecuteSucceeds
  <2>3. Grows(runs', runs')
    BY <2>2, GrowsReflexive DEF Finished
  <2> QED
    BY <1>9, <2>2, <2>3, FinishedIsClean, EndIInv DEF ExecuteSucceeds
<1>10. ASSUME NEW c \in active, ExecuteFails(c) PROVE IInv'
  <2>1. c.held.projectIds \in SUBSET Projects
    BY <1>0 DEF ActiveRecord, TaskRecord
  <2>2. Finished(c, Finish(c)) /\ Grows(Finish(c), runs')
    BY <1>10, <2>1, FailureFinishes, GrowsReflexive DEF ExecuteFails, Finished
  <2> QED
    BY <1>10, <2>2, FinishedIsClean, EndIInv DEF ExecuteFails
<1>11. ASSUME NEW c \in active, ExecuteAfterStop(c) PROVE IInv'
  <2>1. TypeOK'
    BY <1>0, <1>11 DEF ExecuteAfterStop, store, TypeOK, Time, Never
  <2> QED
    BY <1>11, <2>1, SameRunsIInv DEF ExecuteAfterStop, store, IInv, QuietBeforeStart,
       PausedNeverScheduled, TickStaysArmed, Never
<1>12. CASE Boot
  <2>1. active = {} /\ active' = {} /\ runs' \in RunTable
    BY <1>0, <1>12, RecoveredFacts DEF Boot, memory, IInv, QuietBeforeStart
  <2>2. CleanAfterBoot'
    BY <1>0, <1>12, RecoveredFacts DEF Boot, CleanAfterBoot
  <2>3. TypeOK'
    BY <1>0, <1>12, <2>1 DEF Boot, memory, TypeOK, Time, Never
  <2> QED
    BY <1>12, <2>1, <2>2, <2>3 DEF Boot, memory, IInv, QuietBeforeStart, ActiveIsRunning,
       OneRunAtATime, PausedNeverScheduled, TickStaysArmed, Never
<1>13. CASE StartService
  <2>1. timer' \in 0 .. Never /\ drain' \in {"none", "tick", "call"} /\ TickStaysArmed'
    BY <1>0, <1>13, <1>t DEF StartService, TickBody, TickStaysArmed, Never
  <2> QED
    BY <1>0, <1>13, <2>1, TickGrows, GrowIInv DEF StartService, IInv, QuietBeforeStart
<1>14. CASE Stop
  <2>1. active' = {[c EXCEPT !.aborted = TRUE] : c \in active}
    BY <1>14 DEF Stop
  <2>2. \A c \in active :
          LET e == [c EXCEPT !.aborted = TRUE]
          IN  /\ e \in ActiveRecord /\ e.task = c.task /\ e.project = c.project
              /\ e.index = c.index
    BY <1>0 DEF ActiveRecord
  <2>3. \A e \in active' : e \in ActiveRecord /\ \E c \in active :
          e.task = c.task /\ e.project = c.project /\ e.index = c.index
    BY <2>1, <2>2
  <2>4. \A d, e \in active' : d = e
    BY <2>1 DEF IInv, OneRunAtATime
  <2>5. TypeOK'
    BY <1>0, <1>14, <1>t, <2>3 DEF Stop, store, TypeOK, Time, Never
  <2> QED
    BY <1>14, <2>3, <2>4, <2>5, SameRunsIInv DEF Stop, store, IInv, QuietBeforeStart,
       PausedNeverScheduled, TickStaysArmed, Never
<1>15. CASE Kill
  BY <1>0, <1>15, GoneIInv DEF Kill, store
<1>16. CASE KilledInTick
  <2>a. PICK t \in Tasks : \E ps \in SUBSET tasks[t].projectIds :
          IsDue(t) /\ runs' = Record(runs, t, ps, TickRun(t))
    BY <1>16 DEF KilledInTick
  <2>1. PICK ps \in SUBSET tasks[t].projectIds :
          IsDue(t) /\ runs' = Record(runs, t, ps, TickRun(t))
    BY <2>a
  <2>2. tasks[t] \in TaskRecord /\ ps \in SUBSET Projects
    BY <1>0, <2>1 DEF TaskRecord
  <2>3. TickRun(t) \in RunRecord /\ TickRun(t).status # "running"
    BY <2>2, <1>t, AttemptsAssumption
    DEF TickRun, NewRun, RunRecord, Statuses, Causes, TaskRecord
  <2>4. runs' \in RunTable
    BY <1>0, <2>1, <2>2, <2>3, RecordGrows DEF Grows
  <2> QED
    BY <1>16, <2>4, GoneIInv DEF KilledInTick
<1>17. ASSUME NEW c \in active, KilledInRetry(c) PROVE IInv'
  <2>1. PICK ps \in SUBSET c.held.projectIds :
          runs' = Record(Finish(c), c.task, ps, RetryRun(c))
    BY <1>17 DEF KilledInRetry
  <2>2. ps \in SUBSET Projects
    BY <1>0, <2>1 DEF ActiveRecord, TaskRecord
  <2>3. runs' \in RunTable
    BY <1>17, <2>1, <2>2, FailureFinishes DEF KilledInRetry, Grows
  <2> QED
    BY <1>17, <2>3, GoneIInv DEF KilledInRetry
<1>18. CASE Advance
  <2>1. now' \in Time
    BY <1>18, <1>t, TimeAssumption DEF Advance, Time
  <2>2. TypeOK'
    BY <1>0, <1>18, <2>1 DEF Advance, store, memory, TypeOK, Never
  <2> QED
    BY <1>18, <2>2, SameRunsIInv DEF Advance, store, memory, IInv, QuietBeforeStart,
       OneRunAtATime, PausedNeverScheduled, TickStaysArmed, Never
<1>19. CASE UNCHANGED vars
  BY <1>0, <1>19, <1>g, GrowIInv DEF vars, IInv, QuietBeforeStart,
     PausedNeverScheduled, TickStaysArmed, Never
<1>20. ASSUME NEW t \in Tasks,
              SaveTask(t) \/ SetPaused(t, TRUE) \/ SetPaused(t, FALSE)
                \/ DeleteTask(t) \/ RunNow(t)
       PROVE  IInv'
  BY <1>1, <1>2, <1>3, <1>4, <1>20
<1>21. CASE Execution
  BY <1>9, <1>10, <1>11, <1>21 DEF Execution
<1> QED
  BY <1>5, <1>6, <1>7, <1>8, <1>12, <1>13, <1>14, <1>15, <1>16, <1>17, <1>18, <1>19,
     <1>20, <1>21 DEF Next

(***************************************************************************)
(* The theorems.                                                           *)
(***************************************************************************)

\* IInv holds in every reachable state.
THEOREM SchedulerInvariant == Spec => []IInv
<1>1. Init => IInv
  BY InitIInv
<1>2. IInv /\ [Next]_vars => IInv'
  BY NextIInv
<1> QED
  BY <1>1, <1>2, PTL DEF Spec

\* Every value has its type; no attempt number passes the largest maxAttempts.
THEOREM TypeCorrect == Spec => []TypeOK
<1>1. IInv => TypeOK
  BY DEF IInv
<1> QED
  BY <1>1, SchedulerInvariant, PTL

\* One run executes at a time, and no other record says running while the
\* service runs, for any number of tasks, projects, crashes and restarts.
THEOREM SerialExecution == Spec => []OneRunAtATime
<1>1. IInv => OneRunAtATime
  BY DEF IInv
<1> QED
  BY <1>1, SchedulerInvariant, PTL

\* A paused task has no next run.
THEOREM PausedStaysIdle == Spec => []PausedNeverScheduled
<1>1. IInv => PausedNeverScheduled
  BY DEF IInv
<1> QED
  BY <1>1, SchedulerInvariant, PTL

\* While the service runs a tick is armed or waits for the drain.
THEOREM TickArmed == Spec => []TickStaysArmed
<1>1. IInv => TickStaysArmed
  BY DEF IInv
<1> QED
  BY <1>1, SchedulerInvariant, PTL

(***************************************************************************)
(* Runs only move forward.                                                 *)
(***************************************************************************)

Forward ==
    \A t \in Tasks, p \in Projects : \A i \in DOMAIN runs[t][p] :
        \/ runs'[t][p][i] = runs[t][p][i]
        \/ Rank(runs[t][p][i].status) < Rank(runs'[t][p][i].status)

LEMMA GrowsForward == ASSUME runs \in RunTable, Grows(runs, runs') PROVE Forward
<1> SUFFICES ASSUME NEW t \in Tasks, NEW p \in Projects, NEW i \in DOMAIN runs[t][p]
             PROVE  runs'[t][p][i] = runs[t][p][i]
  BY DEF Forward
<1>1. i \in 1 .. Len(runs[t][p])
  BY DomainIsRange
<1> QED
  BY <1>1 DEF Grows

\* The end of an execution, and the retries recorded after it.
LEMMA FinishedForward ==
    ASSUME IInv, service = "started", NEW c \in active, NEW rs, Finished(c, rs),
           Grows(rs, runs')
    PROVE  Forward
<1>0. runs \in RunTable /\ rs \in RunTable /\ active \subseteq ActiveRecord
  BY DEF IInv, TypeOK, Finished
<1>1. runs[c.task][c.project][c.index].status = "running"
  BY DEF IInv, ActiveIsRunning
<1> SUFFICES ASSUME NEW t \in Tasks, NEW p \in Projects, NEW i \in DOMAIN runs[t][p]
             PROVE  \/ runs'[t][p][i] = runs[t][p][i]
                    \/ Rank(runs[t][p][i].status) < Rank(runs'[t][p][i].status)
  BY DEF Forward
<1>2. i \in 1 .. Len(runs[t][p]) /\ i \in 1 .. Len(rs[t][p])
  BY <1>0, DomainIsRange DEF Finished
<1>3. runs'[t][p][i] = rs[t][p][i]
  BY <1>2 DEF Grows
<1>4. CASE rs[t][p][i] = runs[t][p][i]
  BY <1>3, <1>4
<1>5. CASE /\ t = c.task /\ p = c.project /\ i = c.index
           /\ rs[t][p][i].status \in {"succeeded", "failed", "cancelled"}
  <2>1. Rank(runs[t][p][i].status) = 1 /\ Rank(rs[t][p][i].status) = 2
    BY <1>1, <1>5 DEF Rank
  <2> QED
    BY <1>3, <2>1
<1> QED
  BY <1>2, <1>4, <1>5 DEF Finished

LEMMA DrainForward == ASSUME IInv, DrainStep PROVE Forward
<1>0. runs \in RunTable
  BY DEF IInv, TypeOK
<1>1. PICK t \in Tasks, p \in Projects : \E i \in DOMAIN runs[t][p] :
        /\ IsNext(t, p, i)
        /\ \/ runs' = SetRun(runs, t, p, i, "running", "none")
           \/ runs' = SetRun(runs, t, p, i, "skipped", "deleted")
  BY DEF DrainStep
<1>2. PICK i \in DOMAIN runs[t][p] :
        /\ runs[t][p][i].status = "queued"
        /\ \/ runs' = SetRun(runs, t, p, i, "running", "none")
           \/ runs' = SetRun(runs, t, p, i, "skipped", "deleted")
  BY <1>1 DEF IsNext, Due
<1>3. PICK s \in {"running", "skipped"}, why \in Causes : runs' = SetRun(runs, t, p, i, s, why)
  BY <1>2 DEF Causes
<1>4. Marks(runs, runs', t, p, i, s, why) /\ s \in Statuses
  BY <1>0, <1>3, SetRunFacts DEF Statuses
<1>5. runs[t][p][i] \in RunRecord
  BY <1>0, DomainIsRange
<1>6. Mark(runs[t][p][i], s, why).status = s
  BY <1>4, <1>5, StatusChange
<1>7. Rank(runs[t][p][i].status) = 0 /\ Rank(s) \in {1, 2}
  BY <1>2 DEF Rank
<1>8. ASSUME NEW u \in Tasks, NEW q \in Projects, NEW j \in DOMAIN runs[u][q]
      PROVE  \/ runs'[u][q][j] = runs[u][q][j]
             \/ Rank(runs[u][q][j].status) < Rank(runs'[u][q][j].status)
  <2>1. j \in 1 .. Len(runs[u][q])
    BY <1>0, DomainIsRange
  <2>2. CASE u = t /\ q = p /\ j = i
    <3>1. runs'[u][q][j] = Mark(runs[t][p][i], s, why)
      BY <1>4, <2>1, <2>2 DEF Marks
    <3> QED
      BY <1>6, <1>7, <2>2, <3>1
  <2>3. CASE ~(u = t /\ q = p /\ j = i)
    BY <1>4, <2>1, <2>3 DEF Marks
  <2> QED
    BY <2>2, <2>3
<1> QED
  BY <1>8 DEF Forward

LEMMA BootForward == ASSUME IInv, Boot PROVE Forward
<1>0. runs \in RunTable /\ runs' = Recovered
  BY DEF IInv, TypeOK, Boot
<1>1. Rank("running") = 1 /\ Rank("failed") = 2
  BY DEF Rank
<1>2. ASSUME NEW t \in Tasks, NEW p \in Projects, NEW i \in DOMAIN runs[t][p]
      PROVE  \/ Recovered[t][p][i] = runs[t][p][i]
             \/ Rank(runs[t][p][i].status) < Rank(Recovered[t][p][i].status)
  <2>1. i \in 1 .. Len(runs[t][p])
    BY <1>0, DomainIsRange
  <2>2. CASE runs[t][p][i].status = "running"
    <3>1. Recovered[t][p][i].status = "failed"
      BY <1>0, <2>1, <2>2, RecoveredFacts
    <3>2. Rank(runs[t][p][i].status) = 1 /\ Rank(Recovered[t][p][i].status) = 2
      BY <1>1, <2>2, <3>1
    <3> QED
      BY <3>2
  <2>3. CASE runs[t][p][i].status # "running"
    BY <1>0, <2>1, <2>3, RecoveredFacts
  <2> QED
    BY <2>2, <2>3
<1> QED
  BY <1>0, <1>2 DEF Forward

LEMMA NextForward == IInv /\ [Next]_vars => [Forward]_vars
<1> SUFFICES ASSUME IInv, Next PROVE Forward
  OBVIOUS
<1>0. TypeOK /\ runs \in RunTable /\ tasks \in [Tasks -> TaskRecord]
      /\ active \subseteq ActiveRecord
  BY DEF IInv, TypeOK
<1>1. ASSUME UNCHANGED runs PROVE Forward
  BY <1>1 DEF Forward
<1>2. ASSUME NEW t \in Tasks, NEW ps \in SUBSET Projects, NEW run \in RunRecord,
             run.status # "running", runs' = Record(runs, t, ps, run)
      PROVE  Forward
  BY <1>0, <1>2, RecordGrows, GrowsForward
<1>3. ASSUME NEW t \in Tasks, RunNow(t) PROVE Forward
  <2>1. NewRun(now, 1, "queued", "none") \in RunRecord
    BY <1>0, TimeFacts, AttemptsAssumption DEF NewRun, RunRecord, Statuses, Causes
  <2>2. NewRun(now, 1, "queued", "none").status # "running"
    BY DEF NewRun
  <2>3. tasks[t].projectIds \in SUBSET Projects
    BY <1>0 DEF TaskRecord
  <2> QED
    BY <1>2, <1>3, <2>1, <2>2, <2>3 DEF RunNow
<1>4. ASSUME TickBody PROVE Forward
  BY <1>0, <1>4, TickGrows, GrowsForward
<1>5. ASSUME NEW c \in active, ExecuteSucceeds(c) PROVE Forward
  <2>1. "none" \in Causes
    BY DEF Causes
  <2>2. Finished(c, runs')
    BY <1>0, <1>5, <2>1, SetRunFinishes DEF ExecuteSucceeds
  <2>3. Grows(runs', runs')
    BY <2>2, GrowsReflexive DEF Finished
  <2> QED
    BY <1>5, <2>2, <2>3, FinishedForward DEF ExecuteSucceeds
<1>6. ASSUME NEW c \in active, ExecuteFails(c) \/ KilledInRetry(c) PROVE Forward
  <2>1. service = "started" /\ c.held.projectIds \in SUBSET Projects
    BY <1>0, <1>6 DEF ExecuteFails, KilledInRetry, ActiveRecord, TaskRecord
  <2>2. Finished(c, Finish(c))
    BY FailureFinishes
  <2>3. CASE ExecuteFails(c)
    BY <2>1, <2>2, <2>3, FailureFinishes, GrowsReflexive, FinishedForward
    DEF ExecuteFails, Finished
  <2>4. CASE KilledInRetry(c)
    <3>1. PICK ps \in SUBSET c.held.projectIds :
            runs' = Record(Finish(c), c.task, ps, RetryRun(c))
      BY <2>4 DEF KilledInRetry
    <3>2. ps \in SUBSET Projects /\ Retries(c)
      BY <2>1, <2>4, <3>1 DEF KilledInRetry
    <3> QED
      BY <2>1, <2>2, <3>1, <3>2, FailureFinishes, FinishedForward
  <2> QED
    BY <1>6, <2>3, <2>4
<1>7. CASE KilledInTick
  <2>a. PICK t \in Tasks : \E ps \in SUBSET tasks[t].projectIds :
          IsDue(t) /\ runs' = Record(runs, t, ps, TickRun(t))
    BY <1>7 DEF KilledInTick
  <2>1. PICK ps \in SUBSET tasks[t].projectIds :
          IsDue(t) /\ runs' = Record(runs, t, ps, TickRun(t))
    BY <2>a
  <2>2. tasks[t] \in TaskRecord /\ ps \in SUBSET Projects
    BY <1>0, <2>1 DEF TaskRecord
  <2>3. TickRun(t) \in RunRecord /\ TickRun(t).status # "running"
    BY <2>2, TimeAssumption, AttemptsAssumption
    DEF TickRun, NewRun, RunRecord, Statuses, Causes, TaskRecord, Never
  <2> QED
    BY <1>2, <2>1, <2>2, <2>3
<1>8. ASSUME NEW t \in Tasks,
             SaveTask(t) \/ SetPaused(t, TRUE) \/ SetPaused(t, FALSE) \/ DeleteTask(t)
      PROVE  Forward
  BY <1>1, <1>8 DEF SaveTask, SetPaused, DeleteTask
<1>9. CASE CancelRun \/ DrainEnds \/ Stop \/ Kill \/ Advance
  BY <1>1, <1>9 DEF CancelRun, DrainEnds, Stop, Kill, Advance, store
<1>10. CASE Tick \/ StartService
  BY <1>4, <1>10 DEF Tick, StartService
<1>11. CASE Execution
  <2>1. ASSUME NEW c \in active, ExecuteAfterStop(c) PROVE Forward
    BY <1>1, <2>1 DEF ExecuteAfterStop, store
  <2> QED
    BY <1>5, <1>6, <1>11, <2>1 DEF Execution
<1>12. CASE \E t \in Tasks :
            SaveTask(t) \/ SetPaused(t, TRUE) \/ SetPaused(t, FALSE) \/ DeleteTask(t) \/ RunNow(t)
  BY <1>3, <1>8, <1>12
<1>13. CASE DrainStep
  BY <1>13, DrainForward
<1>14. CASE Boot
  BY <1>14, BootForward
<1>15. CASE \E c \in active : KilledInRetry(c)
  BY <1>6, <1>15
<1> QED
  BY <1>7, <1>9, <1>10, <1>11, <1>12, <1>13, <1>14, <1>15 DEF Next

\* No run goes back to the queue or changes its result, through retries, crashes
\* and recoveries.
THEOREM RunsOnlyMoveForward == Spec => RunsMoveForward
<1>1. IInv /\ [Next]_vars => [Forward]_vars
  BY NextForward
<1>2. [Forward]_vars =>
        [\A t \in Tasks, p \in Projects : \A i \in DOMAIN runs[t][p] :
            \/ runs'[t][p][i] = runs[t][p][i]
            \/ Rank(runs[t][p][i].status) < Rank(runs'[t][p][i].status)]_vars
  BY DEF Forward
<1> QED
  BY <1>1, <1>2, SchedulerInvariant, PTL DEF Spec, RunsMoveForward

(***************************************************************************)
(* Retries are justified.                                                  *)
(***************************************************************************)

IsError(run) == run.status = "failed" /\ run.cause = "error"

\* An attempt k of task t has failed.
HasFailed(rs, t, k) ==
    \E q \in Projects : \E j \in 1 .. Len(rs[t][q]) :
        rs[t][q][j].attempt = k /\ IsError(rs[t][q][j])

Justified(rs, t, run) == run.attempt > 1 => HasFailed(rs, t, run.attempt - 1)

AllJustified(rs) ==
    \A t \in Tasks, p \in Projects : \A i \in 1 .. Len(rs[t][p]) : Justified(rs, t, rs[t][p][i])

\* A change of the table that keeps attempts and errors and adds only justified records.
KeepsReasons(rs, rs2) ==
    \A t \in Tasks, p \in Projects :
        /\ \A i \in 1 .. Len(rs[t][p]) :
             /\ i \in 1 .. Len(rs2[t][p])
             /\ rs2[t][p][i].attempt = rs[t][p][i].attempt
             /\ IsError(rs[t][p][i]) => IsError(rs2[t][p][i])
        /\ \A i \in 1 .. Len(rs2[t][p]) :
             i \in 1 .. Len(rs[t][p]) \/ Justified(rs, t, rs2[t][p][i])

LEMMA StayJustified ==
    ASSUME NEW rs, NEW rs2, AllJustified(rs), KeepsReasons(rs, rs2)
    PROVE  AllJustified(rs2)
<1> SUFFICES ASSUME NEW t \in Tasks, NEW p \in Projects, NEW i \in 1 .. Len(rs2[t][p])
             PROVE  Justified(rs2, t, rs2[t][p][i])
  BY DEF AllJustified
<1>1. Justified(rs, t, rs2[t][p][i])
  BY DEF AllJustified, KeepsReasons, Justified
<1>2. ASSUME NEW k, HasFailed(rs, t, k) PROVE HasFailed(rs2, t, k)
  <2>1. PICK q \in Projects : \E j \in 1 .. Len(rs[t][q]) :
          rs[t][q][j].attempt = k /\ IsError(rs[t][q][j])
    BY <1>2 DEF HasFailed
  <2>2. PICK j \in 1 .. Len(rs[t][q]) : rs[t][q][j].attempt = k /\ IsError(rs[t][q][j])
    BY <2>1
  <2>3. j \in 1 .. Len(rs2[t][q]) /\ rs2[t][q][j].attempt = k /\ IsError(rs2[t][q][j])
    BY <2>2 DEF KeepsReasons
  <2> QED
    BY <2>3 DEF HasFailed
<1> QED
  BY <1>1, <1>2 DEF Justified

\* What Record adds is the record it was given.
LEMMA RecordAdds ==
    ASSUME NEW rs \in RunTable, NEW t \in Tasks, NEW ps \in SUBSET Projects, NEW run \in RunRecord
    PROVE  \A u \in Tasks, p \in Projects :
             \A i \in 1 .. Len(Record(rs, t, ps, run)[u][p]) :
               \/ i \in 1 .. Len(rs[u][p])
               \/ u = t /\ Record(rs, t, ps, run)[u][p][i] = run
<1> DEFINE rs2 == Record(rs, t, ps, run)
<1>1. ASSUME NEW u \in Tasks, NEW p \in Projects, NEW i \in 1 .. Len(rs2[u][p])
      PROVE  i \in 1 .. Len(rs[u][p]) \/ (u = t /\ rs2[u][p][i] = run)
  <2>1. rs[u][p] \in Seq(RunRecord) /\ Len(rs[u][p]) \in Nat
    BY DomainIsRange
  <2>2. rs2[u][p] = IF u = t /\ p \in ps THEN Append(rs[u][p], run) ELSE rs[u][p]
    BY DEF Record, RunTable
  <2>3. CASE u = t /\ p \in ps
    <3>1. /\ Len(Append(rs[u][p], run)) = Len(rs[u][p]) + 1
          /\ Append(rs[u][p], run)[Len(rs[u][p]) + 1] = run
      BY <2>1, AppendProperties
    <3>2. i \in 1 .. Len(rs[u][p]) + 1 /\ rs2[u][p] = Append(rs[u][p], run)
      BY <2>2, <2>3, <3>1
    <3>3. i \in 1 .. Len(rs[u][p]) \/ i = Len(rs[u][p]) + 1
      BY <2>1, <3>2
    <3> QED
      BY <2>3, <3>1, <3>2, <3>3
  <2>4. CASE ~(u = t /\ p \in ps)
    BY <2>2, <2>4
  <2> QED
    BY <2>3, <2>4
<1> QED
  BY <1>1

LEMMA RecordKeepsReasons ==
    ASSUME NEW rs \in RunTable, NEW t \in Tasks, NEW ps \in SUBSET Projects,
           NEW run \in RunRecord, run.status # "running", Justified(rs, t, run)
    PROVE  KeepsReasons(rs, Record(rs, t, ps, run))
<1> DEFINE rs2 == Record(rs, t, ps, run)
<1>1. Grows(rs, rs2)
  BY RecordGrows
<1>2. \A u \in Tasks, p \in Projects : \A i \in 1 .. Len(rs2[u][p]) :
        i \in 1 .. Len(rs[u][p]) \/ (u = t /\ rs2[u][p][i] = run)
  BY RecordAdds
<1> HIDE DEF rs2
<1>3. \A u \in Tasks, p \in Projects : Len(rs[u][p]) \in Nat /\ Len(rs2[u][p]) \in Nat
  BY <1>1, DomainIsRange DEF Grows
<1>4. KeepsReasons(rs, rs2)
  <2>1. ASSUME NEW u \in Tasks, NEW p \in Projects, NEW i \in 1 .. Len(rs[u][p])
        PROVE  i \in 1 .. Len(rs2[u][p]) /\ rs2[u][p][i] = rs[u][p][i]
    BY <1>1, <1>3, <2>1 DEF Grows
  <2>2. ASSUME NEW u \in Tasks, NEW p \in Projects, NEW i \in 1 .. Len(rs2[u][p])
        PROVE  i \in 1 .. Len(rs[u][p]) \/ Justified(rs, u, rs2[u][p][i])
    BY <1>2, <2>2
  <2> QED
    BY <2>1, <2>2 DEF KeepsReasons
<1> QED
  BY <1>4 DEF rs2

\* Any record may be marked, but one that says an error.
LEMMA MarkKeepsReasons ==
    ASSUME NEW rs \in RunTable, NEW rs2, NEW t \in Tasks, NEW p \in Projects,
           NEW i \in 1 .. Len(rs[t][p]), NEW s, NEW why, Marks(rs, rs2, t, p, i, s, why),
           ~IsError(rs[t][p][i])
    PROVE  KeepsReasons(rs, rs2)
<1>1. Mark(rs[t][p][i], s, why).attempt = rs[t][p][i].attempt
  <2>1. rs[t][p][i] \in RunRecord
    BY DomainIsRange
  <2> QED
    BY <2>1 DEF Mark, RunRecord
<1>2. ASSUME NEW u \in Tasks, NEW q \in Projects, NEW j \in 1 .. Len(rs[u][q])
      PROVE  /\ rs2[u][q][j].attempt = rs[u][q][j].attempt
             /\ IsError(rs[u][q][j]) => IsError(rs2[u][q][j])
  <2>1. CASE u = t /\ q = p /\ j = i
    BY <1>1, <2>1 DEF Marks
  <2>2. CASE ~(u = t /\ q = p /\ j = i)
    <3>1. rs2[u][q][j] = rs[u][q][j]
      BY <2>2 DEF Marks
    <3> QED
      BY <3>1
  <2> QED
    BY <2>1, <2>2
<1> QED
  BY <1>2 DEF KeepsReasons, Marks

\* A failed execution leaves an error, and that justifies its retries.
LEMMA FailureJustified ==
    ASSUME IInv, service = "started", NEW c \in active, NEW ps \in SUBSET Projects
    PROVE  /\ KeepsReasons(runs, Finish(c))
           /\ Retries(c) => KeepsReasons(Finish(c), Record(Finish(c), c.task, ps, RetryRun(c)))
<1> DEFINE t == c.task
           p == c.project
           i == c.index
<1>0. /\ t \in Tasks /\ p \in Projects /\ runs \in RunTable
      /\ i \in DOMAIN runs[t][p] /\ runs[t][p][i].status = "running"
  BY DEF IInv, TypeOK, ActiveRecord, ActiveIsRunning
<1>1. i \in 1 .. Len(runs[t][p]) /\ runs[t][p][i] \in RunRecord /\ ~IsError(runs[t][p][i])
  BY <1>0, DomainIsRange DEF IsError
<1>2. /\ Marks(runs, SetRun(runs, t, p, i, "failed", "error"), t, p, i, "failed", "error")
      /\ Marks(runs, SetRun(runs, t, p, i, "cancelled", "cancelled"), t, p, i, "cancelled",
               "cancelled")
  BY <1>0, SetRunFacts DEF Statuses, Causes
<1>3. KeepsReasons(runs, Finish(c))
  <2>1. CASE c.aborted
    BY <1>0, <1>1, <1>2, <2>1, MarkKeepsReasons DEF Finish
  <2>2. CASE ~c.aborted
    BY <1>0, <1>1, <1>2, <2>2, MarkKeepsReasons DEF Finish
  <2> QED
    BY <2>1, <2>2
<1>4. ASSUME Retries(c)
      PROVE  KeepsReasons(Finish(c), Record(Finish(c), t, ps, RetryRun(c)))
  <2> DEFINE rs == Finish(c)
             e == Mark(runs[t][p][i], "failed", "error")
             k == runs[t][p][i].attempt
  <2>1. Marks(runs, rs, t, p, i, "failed", "error")
    BY <1>2, <1>4 DEF Retries, Finish
  <2>2. IsError(e) /\ e.attempt = k /\ k \in Nat
    BY <1>1, AttemptsAssumption DEF Mark, RunRecord, IsError
  <2>3. RetryRun(c) \in RunRecord /\ RetryRun(c).status # "running"
    <3>1. c \in ActiveRecord
      BY DEF IInv, TypeOK
    <3>2. k \in 1 .. MaxAttempts /\ c.held.maxAttempts \in 1 .. MaxAttempts
      BY <1>1, <3>1 DEF RunRecord, ActiveRecord, TaskRecord
    <3>3. k + 1 \in 1 .. MaxAttempts
      BY <1>4, <3>2, AttemptsAssumption DEF Retries
    <3>4. now + Backoff \in Nat
      BY AttemptsAssumption, TimeFacts DEF IInv
    <3> QED
      BY <3>3, <3>4 DEF RetryRun, NewRun, RunRecord, Statuses, Causes
  <2>4. RetryRun(c).attempt = k + 1
    BY DEF RetryRun, NewRun
  <2> HIDE DEF rs, k
  <2>5. HasFailed(rs, t, k)
    <3>1. i \in 1 .. Len(rs[t][p]) /\ rs[t][p][i] = e
      BY <1>0, <1>1, <2>1 DEF Marks
    <3> HIDE DEF t, p, i, e
    <3> QED
      BY <1>0, <2>2, <3>1 DEF HasFailed
  <2>6. Justified(rs, t, RetryRun(c))
    BY <2>2, <2>4, <2>5 DEF Justified
  <2>7. rs \in RunTable
    BY <2>1 DEF Marks
  <2>8. KeepsReasons(rs, Record(rs, t, ps, RetryRun(c)))
    BY <1>0, <2>3, <2>6, <2>7, RecordKeepsReasons
  <2> QED
    BY <2>8 DEF rs
<1> QED
  BY <1>3, <1>4

\* A tick queues first attempts only.
LEMMA TickJustified == ASSUME TypeOK, TickBody PROVE KeepsReasons(runs, runs')
<1>0. runs \in RunTable /\ Grows(runs, runs')
  BY TickGrows DEF TypeOK
<1>1. \A t \in Tasks, p \in Projects : Len(runs[t][p]) \in Nat /\ Len(runs'[t][p]) \in Nat
  BY <1>0, DomainIsRange DEF Grows
<1>2. ASSUME NEW t \in Tasks, NEW p \in Projects, NEW i \in 1 .. Len(runs'[t][p]),
             i \notin 1 .. Len(runs[t][p])
      PROVE  runs'[t][p][i].attempt = 1
  <2>1. CASE IsDue(t)
    <3>1. tasks[t] \in TaskRecord
      BY DEF TypeOK
    <3>2. TickRun(t) \in RunRecord /\ TickRun(t).attempt = 1
      BY <3>1, AttemptsAssumption, TimeAssumption
      DEF TickRun, NewRun, RunRecord, Statuses, Causes, TaskRecord, Never
    <3>3. tasks[t].projectIds \in SUBSET Projects
      BY <3>1 DEF TaskRecord
    <3>4. runs'[t] = Record(runs, t, tasks[t].projectIds, TickRun(t))[t]
      BY <2>1 DEF TickBody
    <3>5. \A q \in Projects :
            \A j \in 1 .. Len(Record(runs, t, tasks[t].projectIds, TickRun(t))[t][q]) :
              \/ j \in 1 .. Len(runs[t][q])
              \/ Record(runs, t, tasks[t].projectIds, TickRun(t))[t][q][j] = TickRun(t)
      BY <1>0, <3>2, <3>3, RecordAdds
    <3> QED
      BY <1>2, <3>2, <3>4, <3>5
  <2>2. CASE ~IsDue(t)
    <3>1. runs'[t] = runs[t]
      BY <2>2 DEF TickBody
    <3> QED
      BY <1>2, <3>1
  <2> QED
    BY <2>1, <2>2
<1>3. ASSUME NEW t \in Tasks, NEW p \in Projects, NEW i \in 1 .. Len(runs[t][p])
      PROVE  i \in 1 .. Len(runs'[t][p]) /\ runs'[t][p][i] = runs[t][p][i]
  BY <1>0, <1>1 DEF Grows
<1>4. ASSUME NEW t \in Tasks, NEW p \in Projects, NEW i \in 1 .. Len(runs'[t][p])
      PROVE  i \in 1 .. Len(runs[t][p]) \/ Justified(runs, t, runs'[t][p][i])
  BY <1>2 DEF Justified
<1> QED
  BY <1>3, <1>4 DEF KeepsReasons

LEMMA BootJustified == ASSUME TypeOK, Boot PROVE KeepsReasons(runs, runs')
<1>0. runs \in RunTable /\ runs' = Recovered
  BY DEF TypeOK, Boot
<1>1. \A t \in Tasks, p \in Projects : Len(runs'[t][p]) = Len(runs[t][p])
  BY <1>0, RecoveredFacts
<1>2. ASSUME NEW t \in Tasks, NEW p \in Projects, NEW i \in 1 .. Len(runs[t][p])
      PROVE  /\ runs'[t][p][i].attempt = runs[t][p][i].attempt
             /\ IsError(runs[t][p][i]) => IsError(runs'[t][p][i])
  <2>1. runs[t][p][i] \in RunRecord /\ i \in DOMAIN runs[t][p]
    BY <1>0, DomainIsRange
  <2>2. runs'[t][p][i] = IF runs[t][p][i].status = "running"
                           THEN Mark(runs[t][p][i], "failed", "interrupted")
                           ELSE runs[t][p][i]
    BY <1>0, <2>1 DEF Recovered
  <2>3. Mark(runs[t][p][i], "failed", "interrupted").attempt = runs[t][p][i].attempt
    BY <2>1 DEF Mark, RunRecord
  <2> QED
    BY <2>2, <2>3 DEF IsError
<1> QED
  BY <1>1, <1>2 DEF KeepsReasons

LEMMA DrainJustified == ASSUME IInv, DrainStep PROVE KeepsReasons(runs, runs')
<1>0. runs \in RunTable
  BY DEF IInv, TypeOK
<1>1. PICK t \in Tasks, p \in Projects : \E i \in DOMAIN runs[t][p] :
        /\ IsNext(t, p, i)
        /\ \/ runs' = SetRun(runs, t, p, i, "running", "none")
           \/ runs' = SetRun(runs, t, p, i, "skipped", "deleted")
  BY DEF DrainStep
<1>2. PICK i \in DOMAIN runs[t][p] :
        /\ runs[t][p][i].status = "queued"
        /\ \/ runs' = SetRun(runs, t, p, i, "running", "none")
           \/ runs' = SetRun(runs, t, p, i, "skipped", "deleted")
  BY <1>1 DEF IsNext, Due
<1>3. PICK s \in {"running", "skipped"}, why \in Causes : runs' = SetRun(runs, t, p, i, s, why)
  BY <1>2 DEF Causes
<1>4. Marks(runs, runs', t, p, i, s, why)
  BY <1>0, <1>3, SetRunFacts DEF Statuses
<1>5. i \in 1 .. Len(runs[t][p]) /\ ~IsError(runs[t][p][i])
  BY <1>0, <1>2, DomainIsRange DEF IsError
<1> QED
  BY <1>0, <1>4, <1>5, MarkKeepsReasons

LEMMA NextJustified == IInv /\ AllJustified(runs) /\ [Next]_vars => AllJustified(runs')
<1> SUFFICES ASSUME IInv, AllJustified(runs), [Next]_vars PROVE AllJustified(runs')
  OBVIOUS
<1>0. TypeOK /\ runs \in RunTable /\ tasks \in [Tasks -> TaskRecord]
      /\ active \subseteq ActiveRecord
  BY DEF IInv, TypeOK
<1>1. ASSUME UNCHANGED runs PROVE AllJustified(runs')
  BY <1>1
<1>2. ASSUME NEW t \in Tasks, NEW ps \in SUBSET Projects, NEW run \in RunRecord,
             run.status # "running", run.attempt = 1, runs' = Record(runs, t, ps, run)
      PROVE  AllJustified(runs')
  <2>1. Justified(runs, t, run)
    BY <1>2 DEF Justified
  <2> QED
    BY <1>0, <1>2, <2>1, RecordKeepsReasons, StayJustified
<1>3. ASSUME NEW t \in Tasks, RunNow(t) PROVE AllJustified(runs')
  <2>1. NewRun(now, 1, "queued", "none") \in RunRecord
    BY <1>0, TimeFacts, AttemptsAssumption DEF NewRun, RunRecord, Statuses, Causes
  <2>2. NewRun(now, 1, "queued", "none").status # "running"
        /\ NewRun(now, 1, "queued", "none").attempt = 1
    BY DEF NewRun
  <2>3. tasks[t].projectIds \in SUBSET Projects
    BY <1>0 DEF TaskRecord
  <2> QED
    BY <1>2, <1>3, <2>1, <2>2, <2>3 DEF RunNow
<1>4. CASE Tick \/ StartService
  BY <1>0, <1>4, TickJustified, StayJustified DEF Tick, StartService
<1>5. ASSUME NEW c \in active, ExecuteSucceeds(c) PROVE AllJustified(runs')
  <2>1. /\ c.task \in Tasks /\ c.project \in Projects
        /\ c.index \in DOMAIN runs[c.task][c.project]
        /\ runs[c.task][c.project][c.index].status = "running"
    BY <1>0, <1>5 DEF IInv, TypeOK, ActiveRecord, ActiveIsRunning, ExecuteSucceeds
  <2>2. Marks(runs, runs', c.task, c.project, c.index, "succeeded", "none")
    BY <1>0, <1>5, <2>1, SetRunFacts DEF ExecuteSucceeds, Statuses, Causes
  <2>3. c.index \in 1 .. Len(runs[c.task][c.project])
        /\ ~IsError(runs[c.task][c.project][c.index])
    BY <1>0, <2>1, DomainIsRange DEF IsError
  <2> QED
    BY <1>0, <2>1, <2>2, <2>3, MarkKeepsReasons, StayJustified
<1>6. ASSUME NEW c \in active, ExecuteFails(c) \/ KilledInRetry(c) PROVE AllJustified(runs')
  <2>1. service = "started" /\ c.held.projectIds \in SUBSET Projects
    BY <1>0, <1>6 DEF ExecuteFails, KilledInRetry, ActiveRecord, TaskRecord
  <2>2. AllJustified(Finish(c))
    BY <2>1, FailureJustified, StayJustified
  <2>3. CASE runs' = Finish(c)
    BY <2>2, <2>3
  <2>4. ASSUME Retries(c), NEW ps \in SUBSET c.held.projectIds,
               runs' = Record(Finish(c), c.task, ps, RetryRun(c))
        PROVE  AllJustified(runs')
    <3>1. ps \in SUBSET Projects
      BY <2>1
    <3>2. KeepsReasons(Finish(c), runs')
      BY <2>1, <2>4, <3>1, FailureJustified
    <3> QED
      BY <2>2, <3>2, StayJustified
  <2>5. \/ runs' = Finish(c)
        \/ Retries(c) /\ \E ps \in SUBSET c.held.projectIds :
             runs' = Record(Finish(c), c.task, ps, RetryRun(c))
    BY <1>6 DEF ExecuteFails, KilledInRetry
  <2> QED
    BY <2>3, <2>4, <2>5
<1>7. CASE KilledInTick
  <2>a. PICK t \in Tasks : \E ps \in SUBSET tasks[t].projectIds :
          IsDue(t) /\ runs' = Record(runs, t, ps, TickRun(t))
    BY <1>7 DEF KilledInTick
  <2>1. PICK ps \in SUBSET tasks[t].projectIds :
          IsDue(t) /\ runs' = Record(runs, t, ps, TickRun(t))
    BY <2>a
  <2>2. tasks[t] \in TaskRecord /\ ps \in SUBSET Projects
    BY <1>0, <2>1 DEF TaskRecord
  <2>3. TickRun(t) \in RunRecord /\ TickRun(t).status # "running" /\ TickRun(t).attempt = 1
    BY <2>2, TimeAssumption, AttemptsAssumption
    DEF TickRun, NewRun, RunRecord, Statuses, Causes, TaskRecord, Never
  <2> QED
    BY <1>2, <2>1, <2>2, <2>3
<1>8. ASSUME \/ \E t \in Tasks : \/ SaveTask(t) \/ SetPaused(t, TRUE) \/ SetPaused(t, FALSE)
                                 \/ DeleteTask(t)
             \/ CancelRun \/ DrainEnds \/ Stop \/ Kill \/ Advance
             \/ \E c \in active : ExecuteAfterStop(c)
             \/ UNCHANGED vars
      PROVE  AllJustified(runs')
  BY <1>1, <1>8 DEF SaveTask, SetPaused, DeleteTask, CancelRun, DrainEnds, Stop, Kill,
     Advance, ExecuteAfterStop, store, vars
<1>9. CASE DrainStep
  BY <1>9, DrainJustified, StayJustified
<1>10. CASE Boot
  BY <1>0, <1>10, BootJustified, StayJustified
<1>11. CASE Execution
  BY <1>5, <1>6, <1>8, <1>11 DEF Execution
<1> QED
  BY <1>3, <1>4, <1>6, <1>7, <1>8, <1>9, <1>10, <1>11 DEF Next

\* A second attempt follows an attempt that failed while the service ran, whatever was
\* cancelled, interrupted, killed between the failure and its retries, or deleted.
THEOREM RetriesHaveReasons == Spec => []RetriesAreJustified
<1>1. Init => AllJustified(runs)
  <2> SUFFICES ASSUME Init, NEW t \in Tasks, NEW p \in Projects,
                      NEW i \in 1 .. Len(runs[t][p])
               PROVE  FALSE
    BY DEF AllJustified
  <2>1. Len(runs[t][p]) = 0
    BY DEF Init
  <2> QED
    BY <2>1
<1>2. IInv /\ AllJustified(runs) => RetriesAreJustified
  <2> SUFFICES ASSUME IInv, AllJustified(runs), NEW t \in Tasks, NEW p \in Projects,
                      NEW i \in DOMAIN runs[t][p], runs[t][p][i].attempt > 1
               PROVE  \E q \in Projects : \E j \in DOMAIN runs[t][q] :
                        /\ runs[t][q][j].attempt = runs[t][p][i].attempt - 1
                        /\ runs[t][q][j].status = "failed" /\ runs[t][q][j].cause = "error"
    BY DEF RetriesAreJustified
  <2>1. \A q \in Projects : DOMAIN runs[t][q] = 1 .. Len(runs[t][q])
    BY DomainIsRange DEF IInv, TypeOK
  <2>2. HasFailed(runs, t, runs[t][p][i].attempt - 1)
    BY <2>1 DEF AllJustified, Justified
  <2> QED
    BY <2>1, <2>2 DEF HasFailed, IsError
<1>3. IInv /\ AllJustified(runs) /\ [Next]_vars => AllJustified(runs)'
  BY NextJustified
<1> QED
  BY <1>1, <1>2, <1>3, SchedulerInvariant, PTL DEF Spec

\* What the user does to a task while it executes is still there when the execution ends,
\* also when the application is killed or quits at that moment.
THEOREM EditsAreKept == Spec => FinishKeepsEdits
<1>1. [Next]_vars => [active # {} /\ active' = {} => tasks' = tasks]_vars
  <2> SUFFICES ASSUME Next, active # {}, active' = {} PROVE tasks' = tasks
    OBVIOUS
  <2> QED
    BY DEF Next, SaveTask, SetPaused, DeleteTask, RunNow, CancelRun, Tick, DrainStep, DrainEnds,
       Execution, ExecuteSucceeds, ExecuteFails, ExecuteAfterStop, Boot, StartService, Stop,
       Kill, KilledInTick, KilledInRetry, Advance, store, memory
<1> QED
  BY <1>1, PTL DEF Spec, FinishKeepsEdits
=============================================================================
