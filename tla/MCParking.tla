----------------------------- MODULE MCParking -----------------------------
(* Parking on small sets, with a history of what an inbox request re-      *)
(* entered while a pass was working through its list.                      *)
EXTENDS Parking

VARIABLE moved  \* tasks a worker has re-entered since a pass listed its rows

MCInit == Init /\ moved = {}

MCNext ==
  /\ Next
  /\ moved' = {t \in Task : \/ \E w \in Worker : on[w] # t /\ on'[w] = t
                            \/ t \in moved /\ \E p \in Pass : batch[p] # {}}

MCSpec == MCInit /\ [][MCNext]_<<vars, moved>> /\ Fairness

(* A resume re-enters the task with the state it is parked with now, not   *)
(* with the state of an earlier park (hub.resumeTask as sweep and inbox    *)
(* call it): passes never make each other stale.  What an inbox request    *)
(* has re-entered under a pass's list is outside the promise.              *)
EntersStoredPark ==
  [][\A r \in Resumer : on'[r] # on[r] /\ on'[r] \notin moved \cup {NoTask}
       => with'[r] = park[on'[r]]]_vars

(* The sweep wakes nobody early: what a pass re-enters is due now, and not *)
(* only when the list was made (listDueSuspendedTasks, "resume_at <= now").*)
(* What an inbox request has re-entered may have parked for later since.   *)
WakesWhenDue ==
  [][\A p \in Pass : on'[p] # on[p] /\ on'[p] \notin moved \cup {NoTask}
       => due[on'[p]] = "past"]_vars
=============================================================================
