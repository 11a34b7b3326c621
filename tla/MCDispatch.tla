----------------------------- MODULE MCDispatch -----------------------------
(* Two participants of one capability and one score.                       *)
EXTENDS Dispatch

MCScore == [p \in Worker |-> 1]
=============================================================================
