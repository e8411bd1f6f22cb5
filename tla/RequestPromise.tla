--------------------------- MODULE RequestPromise ---------------------------
(***************************************************************************)
(* What the services of Norevinq may rely on when they talk to the agent   *)
(* engine: docs/PROTOCOL.md says that each request has its own identifier, *)
(* timeout and pending entry, and that the end of the connection rejects   *)
(* all requests that are not finished.                                     *)
(*                                                                         *)
(* A call is a request or a notification.  Its promise is settled once:    *)
(* resolved only after the engine served this very call, rejected at any   *)
(* time.  When the connection ends no promise stays behind.  JsonlRpc      *)
(* implements this specification.                                          *)
(***************************************************************************)
CONSTANT Calls

VARIABLES
    call,    \* the promise of each call
    served,  \* calls the engine has served
    open     \* the connection

vars == <<call, served, open>>

Init ==
    /\ call = [c \in Calls |-> "new"]
    /\ served = {}
    /\ open = TRUE

Settle(c, outcome) == call' = [call EXCEPT ![c] = outcome]

\* A call may be refused at once, and is when the connection has ended.
Ask(c) ==
    /\ call[c] = "new"
    /\ \/ open /\ Settle(c, "waiting")
       \/ Settle(c, "rejected")
    /\ UNCHANGED <<served, open>>

Serve(c) ==
    /\ call[c] # "new" /\ c \notin served
    /\ served' = served \cup {c}
    /\ UNCHANGED <<call, open>>

Resolve(c) ==
    /\ open /\ call[c] = "waiting" /\ c \in served
    /\ Settle(c, "resolved")
    /\ UNCHANGED <<served, open>>

Reject(c) ==
    /\ call[c] = "waiting"
    /\ Settle(c, "rejected")
    /\ UNCHANGED <<served, open>>

End ==
    /\ open
    /\ open' = FALSE
    /\ call' = [c \in Calls |-> IF call[c] = "waiting" THEN "rejected" ELSE call[c]]
    /\ UNCHANGED served

Next == End \/ \E c \in Calls : Ask(c) \/ Serve(c) \/ Resolve(c) \/ Reject(c)

Spec == Init /\ [][Next]_vars
=============================================================================
