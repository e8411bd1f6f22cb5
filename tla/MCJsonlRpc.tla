----------------------------- MODULE MCJsonlRpc -----------------------------
(* An instance of JsonlRpc for TLC: a short and a long line, a queue that holds *)
(* them but not much more.                                                     *)
EXTENDS JsonlRpc

CONSTANT Long  \* the calls with lines of two units

MCBytes == [c \in Calls \cup Reverse |-> IF c \in Long THEN 2 ELSE 1]
=============================================================================
