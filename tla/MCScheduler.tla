---------------------------- MODULE MCScheduler ----------------------------
(* The schedules and inputs of the instances of Scheduler that TLC checks.    *)
EXTENDS Scheduler

CONSTANTS Recurring,   \* the tasks whose rule has occurrences ahead
          Occurrences  \* the instants at which they recur

\* The first occurrence after n, as nextOccurrence computes it for a rule whose
\* occurrences are a fixed set of instants.
MCNextOccurrence ==
    LET first(S) == CHOOSE o \in S : \A q \in S : o <= q
    IN [t \in Tasks |-> [n \in Time |->
          first({Never} \cup {o \in Occurrences : t \in Recurring /\ o > n})]]

\* A recurring task is caught up and tried MaxAttempts times, or skipped and tried
\* once; the others run on demand.
MCTaskInputs ==
    LET once == [missedRunPolicy |-> "skip", projectIds |-> Projects, maxAttempts |-> 1]
        retried == [missedRunPolicy |-> "run_once", projectIds |-> Projects,
                    maxAttempts |-> MaxAttempts]
    IN [t \in Tasks |-> IF t \in Recurring THEN {once, retried} ELSE {once}]
=============================================================================
