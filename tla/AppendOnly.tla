----------------------------- MODULE AppendOnly -----------------------------
(***************************************************************************)
(* What the transcript's storage promises: an append-only log.  Whatever   *)
(* the storage does with files, an entry that is on record stays, and      *)
(* entries come one at a time, each once.                                  *)
(***************************************************************************)
CONSTANT Entry

VARIABLE log    \* the entries on record

Init == log = {}

Write(e) ==
  /\ e \notin log
  /\ log' = log \cup {e}

Next == \E e \in Entry : Write(e)

Spec == Init /\ [][Next]_log
=============================================================================
