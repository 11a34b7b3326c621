------------------------------- MODULE Lease -------------------------------
(***************************************************************************)
(* What the suspended_tasks table promises to everyone who resumes a       *)
(* parked task, stated without clocks, rows or claim timestamps: a parked  *)
(* task is leased to at most one resumer, a re-park gives the lease back,  *)
(* a finished resume retires the task, and a lease is taken away from its  *)
(* holder only when the holder died.                                       *)
(*                                                                         *)
(* The code has no owner in the row.  It has a claimed_at column, a        *)
(* compare-and-set and a reclaimer that trusts a time-out.  Module Parking *)
(* is that code; it implements this module.                                *)
(***************************************************************************)
CONSTANTS
  Task,      \* the tasks that can be parked
  Resumer,   \* everyone who re-enters parked tasks
  Nobody,    \* the task is not leased
  Dead       \* the task is leased to a resumer that crashed

VARIABLES
  queued,    \* the parked tasks
  holder     \* who holds the lease of each task

vars == <<queued, holder>>

Init == queued = {} /\ holder = [t \in Task |-> Nobody]

(* A task is parked for the first time.                                    *)
Enqueue(t) ==
  /\ t \notin queued
  /\ holder[t] = Nobody
  /\ queued' = queued \cup {t}
  /\ UNCHANGED holder

(* Leases of dead resumers are recovered, never those of live ones.        *)
Recover(S) ==
  /\ \A t \in S : holder[t] = Dead
  /\ holder' = [t \in Task |-> IF t \in S THEN Nobody ELSE holder[t]]
  /\ UNCHANGED queued

(* r takes the lease of a parked task nobody holds, after the leases in S  *)
(* have been recovered.                                                    *)
Acquire(r, t, S) ==
  /\ t \in queued
  /\ \A u \in S : holder[u] = Dead
  /\ t \in S \/ holder[t] = Nobody
  /\ holder' = [u \in Task |-> IF u = t THEN r
                               ELSE IF u \in S THEN Nobody ELSE holder[u]]
  /\ UNCHANGED queued

(* The resumed task parks again: its holder hands the lease back.          *)
Requeue(r, t) ==
  /\ holder[t] = r
  /\ holder' = [holder EXCEPT ![t] = Nobody]
  /\ UNCHANGED queued

(* The resumed task is over: its holder retires it.                        *)
Finish(r, t) ==
  /\ holder[t] = r
  /\ queued' = queued \ {t}
  /\ holder' = [holder EXCEPT ![t] = Nobody]

(* Every live holder dies at once; the parked tasks survive.               *)
Die ==
  /\ holder' = [t \in Task |-> IF holder[t] = Nobody THEN Nobody ELSE Dead]
  /\ UNCHANGED queued

Next ==
  \/ \E t \in Task : Enqueue(t)
  \/ \E S \in SUBSET Task : Recover(S)
  \/ \E r \in Resumer, t \in Task, S \in SUBSET Task : Acquire(r, t, S)
  \/ \E r \in Resumer, t \in Task : Requeue(r, t) \/ Finish(r, t)
  \/ Die

Spec == Init /\ [][Next]_vars
=============================================================================
