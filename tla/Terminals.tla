------------------------------ MODULE Terminals ------------------------------
(***************************************************************************)
(* The terminals: TerminalService of src/main/terminal/terminalService.ts, *)
(* with the count of processes it keeps in the supervisor.                 *)
(*                                                                         *)
(* A terminal is a command/exec request that is answered when its process  *)
(* ends.  What a terminal has written is left out.  An action is one task  *)
(* of the event loop; the rejections of a connection that closes run in    *)
(* the task that closes it.  The write queue of the peer has room for a    *)
(* terminate request: one that it refuses is not followed.                 *)
(***************************************************************************)
EXTENDS EngineLifecycle, FiniteSets

CONSTANTS
    Terms,        \* bound: terminals opened in one behaviour
    MaxSessions   \* MAX_SESSIONS, 12

ASSUME TermsAssumption == IsFiniteSet(Terms) /\ MaxSessions \in Nat

VARIABLES
    session,      \* the status of each session, "new" before it and "removed" after it
    exec,         \* the terminals whose command/exec request is in flight
    closing,      \* close() waits for its terminate request
    told,         \* processes that a terminate request was made for
    processCount  \* #activeProcessCount of the supervisor

termVars == <<engine, session, exec, closing, told, processCount>>

Open == {"starting", "running", "terminating", "exited", "failed"}

TermTypeOK ==
    /\ EngineTypeOK
    /\ session \in [Terms -> Open \cup {"new", "removed"}]
    /\ exec \subseteq Terms /\ closing \subseteq Terms /\ told \subseteq Terms
    /\ processCount \in 0 .. Cardinality(Terms)

TermInit ==
    /\ EngineInit
    /\ session = [t \in Terms |-> "new"]
    /\ exec = {} /\ closing = {} /\ told = {} /\ processCount = 0

-----------------------------------------------------------------------------

SetStatus(t, s) == session' = [session EXCEPT ![t] = s]

Active(t) == session[t] \in {"starting", "running"}

Decremented(n) == IF n > 0 THEN n - 1 ELSE 0

\* create(): the process is counted and, one microtask later, asked for.  Without a
\* ready engine the request throws, the session fails and the count goes back.
Create(t) ==
    /\ session[t] = "new"
    /\ Cardinality({u \in Terms : session[u] \in Open}) < MaxSessions
    /\ IF phase = "ready"
         THEN SetStatus(t, "starting") /\ exec' = exec \cup {t} /\ processCount' = processCount + 1
         ELSE SetStatus(t, "failed") /\ UNCHANGED <<exec, processCount>>
    /\ UNCHANGED <<engine, closing, told>>

\* The first output of a process; write() and resize() change no status.
Output(t) ==
    /\ t \in exec /\ phase = "ready" /\ session[t] = "starting"
    /\ SetStatus(t, "running")
    /\ UNCHANGED <<engine, exec, closing, told, processCount>>

\* Fault: the count goes back only when the process ends by itself.
Fault_CountSuccesses(t, s) ==
    /\ exec' = exec \ {t}
    /\ session' = IF session[t] \in Open THEN [session EXCEPT ![t] = s] ELSE session
    /\ processCount' = IF s = "exited" THEN Decremented(processCount) ELSE processCount

\* The request settles.  A session that was removed meanwhile is left alone, and the
\* count goes back in every case.
Settle(t, s) ==
    /\ exec' = exec \ {t}
    /\ session' = IF session[t] \in Open THEN [session EXCEPT ![t] = s] ELSE session
    /\ processCount' = Decremented(processCount)

ExecEnds(t) ==
    /\ t \in exec /\ phase = "ready"
    /\ Settle(t, "exited") \/ Settle(t, "failed")
    /\ UNCHANGED <<engine, closing, told>>

\* Requests of a closed connection fail one after the other, before anything else.
ConnectionLost == exec # {} /\ phase # "ready"

ExecRejected(t) ==
    /\ t \in exec /\ ConnectionLost
    /\ Settle(t, "failed")
    /\ UNCHANGED <<engine, closing, told>>

Terminate(t) ==
    /\ Active(t) /\ ~ConnectionLost
    /\ SetStatus(t, "terminating")
    /\ told' = told \cup {t}
    /\ UNCHANGED <<engine, exec, closing, processCount>>

\* close() asks a process that runs to end, unless terminate() has, and removes the
\* session when that request has settled, whatever the answer.
Close(t) ==
    /\ session[t] \in Open /\ t \notin closing /\ ~ConnectionLost
    /\ IF Active(t) THEN closing' = closing \cup {t} /\ told' = told \cup {t} /\ UNCHANGED session
       ELSE SetStatus(t, "removed") /\ UNCHANGED <<closing, told>>
    /\ UNCHANGED <<engine, exec, processCount>>

CloseEnds(t) ==
    /\ t \in closing
    /\ closing' = closing \ {t} /\ SetStatus(t, "removed")
    /\ UNCHANGED <<engine, exec, told, processCount>>

\* The supervisor.  An exit outside a turn forgets the processes it counted.
EngineStep ==
    /\ ~ConnectionLost
    /\ \/ (BeginStart \/ StartSucceeds \/ StartFails) /\ UNCHANGED processCount
       \/ phase # "down" /\ Leave /\ UNCHANGED processCount
       \/ phase = "ready" /\ Leave /\ processCount' = 0
    /\ UNCHANGED <<session, exec, closing, told>>

TermNext ==
    \/ \E t \in Terms :
         \/ Create(t) \/ Output(t) \/ ExecEnds(t) \/ ExecRejected(t)
         \/ Terminate(t) \/ Close(t) \/ CloseEnds(t)
    \/ EngineStep

TermSpec == TermInit /\ [][TermNext]_termVars

-----------------------------------------------------------------------------

\* No terminal process is unaccounted for: the supervisor, which restarts the engine
\* for a new credential only when it counts none, counts exactly those that run, and
\* one whose session is gone has been told to end.
ProcessesAreAccountedFor ==
    ~ConnectionLost =>
        /\ processCount = Cardinality(exec)
        /\ \A t \in exec : session[t] = "removed" => t \in told
=============================================================================
