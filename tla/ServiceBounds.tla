---------------------------- MODULE ServiceBounds ----------------------------
(* The constants that the models of several services share. *)
EXTENDS Naturals, FiniteSets

CONSTANTS
    None,      \* null
    Projects,
    Slots,     \* bound: calls of a service in flight at the same time
    MaxCalls,  \* bound: calls made of a service in one behaviour
    MaxAsks    \* bound: questions or approvals one engine asks for

ASSUME ServiceBoundsAssumption ==
    None \notin Projects \cup Slots /\ MaxCalls \in Nat /\ MaxAsks \in Nat
=============================================================================
