---------------------------- MODULE WorkTransfer ----------------------------
(***************************************************************************)
(* What the handoff of a conversation promises about the user's work: it   *)
(* moves as one, and only a conversation that has moved takes it along.    *)
(*                                                                         *)
(* A handoff departs with all the uncommitted work of the source and       *)
(* leaves the source clean; it arrives where the conversation is by then.  *)
(* On the way the work is in no worktree, and what the user commits of it  *)
(* in the source does not travel further.  A handoff may also be given up  *)
(* where it departed, with its work stranded outside the worktrees.        *)
(* Everything else in the worktrees is the user's alone.  Handoff          *)
(* implements this specification.                                          *)
(***************************************************************************)
CONSTANTS Locations, Edits, None

VARIABLES
    committed,  \* the work on the HEAD of each worktree
    changes,    \* the work that is not committed
    context,    \* the worktree of the conversation
    route,      \* the worktrees a handoff is under way between, or None
    carried,    \* the work it carries
    stranded    \* the work of handoffs that were given up

vars == <<committed, changes, context, route, carried, stranded>>

Init ==
    /\ committed = [x \in Locations |-> {}]
    /\ changes = [x \in Locations |-> {}]
    /\ context \in Locations
    /\ route = None /\ carried = {} /\ stranded = {}

\* Nothing to carry: only the conversation moves.
MoveAlone(to) ==
    /\ route = None /\ changes[context] = {}
    /\ context' = to
    /\ UNCHANGED <<committed, changes, route, carried, stranded>>

Depart(to) ==
    /\ route = None /\ to # context /\ changes[to] = {}
    /\ route' = [from |-> context, to |-> to]
    /\ carried' = changes[context]
    /\ changes' = [changes EXCEPT ![context] = {}]
    /\ UNCHANGED <<committed, context, stranded>>

Switch ==
    /\ route # None /\ context = route.from
    /\ context' = route.to
    /\ UNCHANGED <<committed, changes, route, carried, stranded>>

Arrive ==
    /\ route # None
    /\ changes' = [changes EXCEPT ![context] = @ \cup (carried \ committed[context])]
    /\ route' = None /\ carried' = {}
    /\ UNCHANGED <<committed, context, stranded>>

\* The work stays where only a name the user has to know leads to it.  part of it is in
\* the worktree it came from as well, and done is what the user committed there.
Strand(part, done) ==
    /\ route # None /\ context = route.from
    /\ part \subseteq carried /\ done \subseteq committed[context]
    /\ stranded' = stranded \cup carried \cup done
    /\ changes' = [changes EXCEPT ![context] = @ \cup part]
    /\ route' = None /\ carried' = {}
    /\ UNCHANGED <<committed, context>>

Edit(x, e) ==
    /\ \A y \in Locations : e \notin committed[y] \cup changes[y]
    /\ e \notin carried \cup stranded
    /\ changes' = [changes EXCEPT ![x] = @ \cup {e}]
    /\ UNCHANGED <<committed, context, route, carried, stranded>>

\* A commit at an end of the route may take some of the work that is on its way.
Commit(x, part) ==
    /\ part \subseteq carried
    /\ part # {} => x \in {route.from, route.to}
    /\ committed' = [committed EXCEPT ![x] = @ \cup changes[x] \cup part]
    /\ changes' = [changes EXCEPT ![x] = {}]
    /\ carried' = IF part # {} /\ x = route.from THEN carried \ part ELSE carried
    /\ UNCHANGED <<context, route, stranded>>

Next ==
    \/ \E to \in Locations : MoveAlone(to) \/ Depart(to)
    \/ Switch \/ Arrive
    \/ \E part \in SUBSET carried : \E done \in SUBSET committed[context] : Strand(part, done)
    \/ \E x \in Locations : \/ \E e \in Edits : Edit(x, e)
                            \/ \E part \in SUBSET carried : Commit(x, part)

Spec == Init /\ [][Next]_vars
=============================================================================
