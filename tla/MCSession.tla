----------------------------- MODULE MCSession -----------------------------
(* A client or two, a few connections, a call.                             *)
EXTENDS Session, TLC

Symmetry == Permutations(Conn \ Slow) \cup Permutations(Client)
=============================================================================
