------------------------------ MODULE Parking ------------------------------
(***************************************************************************)
(* Parking and resuming of tasks: the suspended_tasks table, the hub's     *)
(* resumeTask, the host's resume sweep, and the claim that inbox requests  *)
(* share with it.                                                          *)
(*                                                                         *)
(* A participant that throws SuspendTaskError is parked: one row, keyed by *)
(* the task id, holding the state it wants back and the time it wants to   *)
(* be woken.  Two kinds of resumer re-enter parked tasks: passes of the    *)
(* resume sweep (a timer, over the rows that are due) and workers (an      *)
(* inbox request that resumes the workflow its answer belongs to).  Both   *)
(* first claim the row with the same compare-and-set; a claim whose owner  *)
(* crashed is taken back after ClaimTtl.                                   *)
(*                                                                         *)
(* The state a task parked with is its park number 1, 2, ...; time is      *)
(* counted in ticks, as the age of a claim.  A result is "settled" when it *)
(* is not `suspended' (ok, failed, cancelled, no_participant, and a park   *)
(* whose row could not be written).  Rows whose JSON is damaged are left   *)
(* out, and so is the batch limit of 100 rows.                             *)
(***************************************************************************)
EXTENDS Naturals, FiniteSets

CONSTANTS
  Task,       \* task ids
  Pass,       \* passes of the resume sweep that could be in flight at once
  Worker,     \* inbox requests that resume a parked workflow
  NoTask,     \* the task of an idle resumer
  ClaimTtl,   \* age beyond which a claim is reclaimed
  ResumeMax,  \* longest a resume runs
  MaxPark,    \* bound: parks of one task
  MaxCrash    \* bound: crashes of the host

Resumer == Pass \cup Worker

ASSUME ConstantsAssumption ==
  /\ ClaimTtl \in Nat /\ ResumeMax \in Nat
  /\ MaxPark \in Nat /\ MaxCrash \in Nat
  /\ NoTask \notin Task
  /\ Pass \cap Worker = {}
  /\ "nobody" \notin Resumer /\ "dead" \notin Resumer

(* "Call with a cutoff comfortably larger than the longest expected        *)
(* resume": the promise under which claims are exclusive.                  *)
ASSUME TtlAssumption == ResumeMax <= ClaimTtl

VARIABLES
  up,       \* the host process is alive
  crashes,  \* how often it crashed
  status,   \* what has happened to each task
  row,      \* the tasks that have a row
  park,     \* park number of the state in the row
  due,      \* resume_at of the row: past, in the future, or NEVER_RESUME_AT
  claimed,  \* the rows with claimed_at set
  age,      \* how long ago claimed_at is
  batch,    \* rows a pass has listed and not visited yet
  snap,     \* park number of each row as a pass listed it
  on,       \* the task a resumer has claimed and re-entered
  with,     \* park number of the state it re-entered with
  ran,      \* how long it has been running
  back      \* resumers whose hub.resumeTask came back settled

store  == <<row, park, due, claimed, age>>
sweep  == <<batch, snap>>
calls  == <<on, with, ran, back>>
vars   == <<up, crashes, status, store, sweep, calls>>

Status == {"new", "running", "lost", "suspended", "settled"}
Due    == {"past", "future", "never"}

TypeOK ==
  /\ up \in BOOLEAN
  /\ crashes \in Nat
  /\ status \in [Task -> Status]
  /\ row \in SUBSET Task
  /\ park \in [Task -> Nat]
  /\ due \in [Task -> Due]
  /\ claimed \in SUBSET Task
  /\ age \in [Task -> Nat]
  /\ batch \in [Pass -> SUBSET Task]
  /\ snap \in [Pass -> [Task -> Nat]]
  /\ on \in [Resumer -> Task \cup {NoTask}]
  /\ with \in [Resumer -> Nat]
  /\ ran \in [Resumer -> Nat]
  /\ back \in SUBSET Resumer

Init ==
  /\ up = TRUE
  /\ crashes = 0
  /\ status = [t \in Task |-> "new"]
  /\ row = {}
  /\ park = [t \in Task |-> 0]
  /\ due = [t \in Task |-> "never"]
  /\ claimed = {}
  /\ age = [t \in Task |-> 0]
  /\ batch = [p \in Pass |-> {}]
  /\ snap = [p \in Pass |-> [t \in Task |-> 0]]
  /\ on = [r \in Resumer |-> NoTask]
  /\ with = [r \in Resumer |-> 0]
  /\ ran = [r \in Resumer |-> 0]
  /\ back = {}

-----------------------------------------------------------------------------
(* The row                                                                 *)

(* INSERT OR REPLACE: a new state and resume_at, and no claim.             *)
PersistRow(t, d) ==
  /\ row' = row \cup {t}
  /\ park' = [park EXCEPT ![t] = @ + 1]
  /\ due' = [due EXCEPT ![t] = d]
  /\ claimed' = claimed \ {t}
  /\ age' = [age EXCEPT ![t] = 0]

(* Mutant: the claim is not a compare-and-set.                             *)
Claimable_Blind(t) == t \in row

(* UPDATE ... SET claimed_at WHERE task_id = ? AND claimed_at IS NULL      *)
Claimable(t) == t \in row /\ t \notin claimed

(* Mutants: claims are never taken back; or at any age.                    *)
Stale_Never(t) == FALSE
Stale_Always(t) == t \in claimed

(* Claims older than the time-out, as the reclaimer finds them.            *)
Stale(t) == t \in claimed /\ age[t] > ClaimTtl

-----------------------------------------------------------------------------
(* Dispatch: Hub.dispatch down to the participant's onTask                 *)

Dispatch(t) ==
  /\ up
  /\ status[t] = "new"
  /\ status' = [status EXCEPT ![t] = "running"]
  /\ UNCHANGED <<up, crashes, store, sweep, calls>>

DispatchSettles(t) ==
  /\ up
  /\ status[t] = "running"
  /\ status' = [status EXCEPT ![t] = "settled"]
  /\ UNCHANGED <<up, crashes, store, sweep, calls>>

(* SuspendTaskError: the row is written before the result is reported, and *)
(* nothing runs in between.                                                *)
DispatchParks(t, d) ==
  /\ up
  /\ status[t] = "running"
  /\ park[t] < MaxPark
  /\ PersistRow(t, d)
  /\ status' = [status EXCEPT ![t] = "suspended"]
  /\ UNCHANGED <<up, crashes, sweep, calls>>

-----------------------------------------------------------------------------
(* Resumers                                                                *)

Idle(r) == on[r] = NoTask

(* r has won the claim of t and calls hub.resumeTask with a park's state.  *)
Enter(r, t, n) ==
  /\ age' = [age EXCEPT ![t] = 0]
  /\ on' = [on EXCEPT ![r] = t]
  /\ with' = [with EXCEPT ![r] = n]
  /\ ran' = [ran EXCEPT ![r] = 0]
  /\ UNCHANGED back

(* Mutant: no reentrancy guard.                                            *)
SweepInFlight_Open == FALSE

(* sweepInflight                                                           *)
SweepInFlight == \E p \in Pass : batch[p] # {} \/ ~Idle(p)

(* A timer tick: reclaim, list the due rows, and visit the first of them.  *)
(* The code does all three without giving up control.                      *)
SweepTick(p) ==
  LET kept == {t \in claimed : ~Stale(t)}
      list == {t \in row : due[t] = "past" /\ t \notin kept}
  IN  /\ up
      /\ ~SweepInFlight
      /\ Idle(p)
      /\ \/ /\ list = {}
            /\ claimed' = kept
            /\ UNCHANGED <<age, sweep, calls>>
         \/ \E t \in list :
              /\ claimed' = kept \cup {t}
              /\ batch' = [batch EXCEPT ![p] = list \ {t}]
              /\ snap' = [snap EXCEPT ![p] = park]
              /\ Enter(p, t, park[t])
      /\ UNCHANGED <<up, crashes, status, row, park, due>>

(* The next row of the batch: claimed and re-entered with the state it had *)
(* when it was listed, or skipped when the claim is lost.                  *)
SweepNext(p) ==
  /\ up
  /\ Idle(p)
  /\ \E t \in batch[p] :
       /\ batch' = [batch EXCEPT ![p] = @ \ {t}]
       /\ IF Claimable(t)
          THEN claimed' = claimed \cup {t} /\ Enter(p, t, snap[p][t])
          ELSE UNCHANGED <<claimed, age, calls>>
  /\ UNCHANGED <<up, crashes, status, row, park, due, snap>>

(* An inbox request resumes the workflow its item belongs to: it reads the *)
(* row, claims it and re-enters without giving up control.                 *)
WorkerResume(w, t) ==
  /\ up
  /\ Idle(w)
  /\ Claimable(t)
  /\ claimed' = claimed \cup {t}
  /\ Enter(w, t, park[t])
  /\ UNCHANGED <<up, crashes, status, row, park, due, sweep>>

(* hub.resumeTask has returned and r goes on to its next row.              *)
Leave(r) ==
  /\ on' = [on EXCEPT ![r] = NoTask]
  /\ with' = [with EXCEPT ![r] = 0]
  /\ ran' = [ran EXCEPT ![r] = 0]

(* Mutant: the row is removed although the result is `suspended'.          *)
Repark_Removes(r, d) ==
  /\ up
  /\ ~Idle(r) /\ r \notin back
  /\ park[on[r]] < MaxPark
  /\ row' = row \ {on[r]}
  /\ park' = [park EXCEPT ![on[r]] = @ + 1]
  /\ due' = [due EXCEPT ![on[r]] = d]
  /\ claimed' = claimed \ {on[r]}
  /\ age' = [age EXCEPT ![on[r]] = 0]
  /\ status' = [status EXCEPT ![on[r]] = "suspended"]
  /\ Leave(r)
  /\ UNCHANGED <<up, crashes, sweep, back>>

(* The resumed participant throws SuspendTaskError again: a fresh row      *)
(* replaces the claimed one and the resumer must leave it alone.           *)
Repark(r, d) ==
  /\ up
  /\ ~Idle(r) /\ r \notin back
  /\ park[on[r]] < MaxPark
  /\ PersistRow(on[r], d)
  /\ status' = [status EXCEPT ![on[r]] = "suspended"]
  /\ Leave(r)
  /\ UNCHANGED <<up, crashes, sweep, back>>

(* The resumed participant settles; hub.resumeTask records the result.     *)
Settle(r) ==
  /\ up
  /\ ~Idle(r) /\ r \notin back
  /\ status' = [status EXCEPT ![on[r]] = "settled"]
  /\ back' = back \cup {r}
  /\ UNCHANGED <<up, crashes, store, sweep, on, with, ran>>

(* removeSuspendedTask by bare task id, once the result is in hand.        *)
RemoveRow(r) ==
  /\ up
  /\ r \in back
  /\ row' = row \ {on[r]}
  /\ claimed' = claimed \ {on[r]}
  /\ Leave(r)
  /\ back' = back \ {r}
  /\ UNCHANGED <<up, crashes, status, park, due, age, sweep>>

-----------------------------------------------------------------------------
(* Time and failures                                                       *)

(* Ages stop growing once they are past the time-out.                      *)
Older(n) == IF n > ClaimTtl THEN n ELSE n + 1

(* No resume outlives ResumeMax.                                           *)
Tick ==
  /\ \A r \in Resumer : ~Idle(r) => ran[r] < ResumeMax
  /\ age' = [t \in Task |-> IF t \in claimed THEN Older(age[t]) ELSE age[t]]
  /\ ran' = [r \in Resumer |-> IF Idle(r) THEN ran[r] ELSE Older(ran[r])]
  /\ UNCHANGED <<up, crashes, status, row, park, due, claimed, sweep,
                 on, with, back>>

FallDue(t) ==
  /\ t \in row
  /\ due[t] = "future"
  /\ due' = [due EXCEPT ![t] = "past"]
  /\ UNCHANGED <<up, crashes, status, row, park, claimed, age, sweep, calls>>

(* The table survives; passes, requests and running tasks do not.          *)
Crash ==
  /\ up
  /\ crashes < MaxCrash
  /\ up' = FALSE
  /\ crashes' = crashes + 1
  /\ status' = [t \in Task |-> IF status[t] = "running" THEN "lost"
                               ELSE status[t]]
  /\ batch' = [p \in Pass |-> {}]
  /\ snap' = [p \in Pass |-> [t \in Task |-> 0]]
  /\ on' = [r \in Resumer |-> NoTask]
  /\ with' = [r \in Resumer |-> 0]
  /\ ran' = [r \in Resumer |-> 0]
  /\ back' = {}
  /\ UNCHANGED store

Restart ==
  /\ ~up
  /\ up' = TRUE
  /\ UNCHANGED <<crashes, status, store, sweep, calls>>

Next ==
  \/ \E t \in Task : Dispatch(t) \/ DispatchSettles(t) \/ FallDue(t)
  \/ \E t \in Task, d \in Due : DispatchParks(t, d)
  \/ \E p \in Pass : SweepTick(p) \/ SweepNext(p)
  \/ \E w \in Worker, t \in Task : WorkerResume(w, t)
  \/ \E r \in Resumer, d \in Due : Repark(r, d)
  \/ \E r \in Resumer : Settle(r) \/ RemoveRow(r)
  \/ Tick \/ Crash \/ Restart

Spec == Init /\ [][Next]_vars

(* The timer keeps ticking, a restarted host stays restarted, and a resume *)
(* that was started comes back.  Nobody has to dispatch or to answer.      *)
Fairness ==
  /\ WF_vars(\E p \in Pass : SweepTick(p))
  /\ \A p \in Pass : WF_vars(SweepNext(p))
  /\ \A r \in Resumer : WF_vars(Settle(r) \/ \E d \in Due : Repark(r, d))
  /\ \A r \in Resumer : WF_vars(RemoveRow(r))
  /\ \A t \in Task : WF_vars(FallDue(t))
  /\ WF_vars(Tick) /\ WF_vars(Restart)

FairSpec == Spec /\ Fairness

-----------------------------------------------------------------------------
(* Properties                                                              *)

(* One parked task is never resumed by two resumers at once, and whoever   *)
(* resumes it holds the claim of its row.  This is what the claim column,  *)
(* the compare-and-set and the reclaimer's time-out are for                *)
(* (claimSuspendedTask, reclaimStaleSuspendedClaims).                      *)
ClaimIsExclusive ==
  \A r \in Resumer : ~Idle(r) =>
    /\ on[r] \in claimed
    /\ \A s \in Resumer : on[s] = on[r] => s = r

(* A task that parked and was not settled since has a row, whoever resumes *)
(* it, crashes or deletes rows meanwhile: no interleaving loses a parking. *)
NotForgotten == \A t \in Task : status[t] = "suspended" => t \in row

(* A due park does not stay: it is settled or replaced by the next park of *)
(* the task in the end, also when the host crashes after the claim, for    *)
(* the reclaimer gives the row back to the sweep.                          *)
DueParkIsServed ==
  \A t \in Task, n \in 1..MaxPark :
    (t \in row /\ park[t] = n /\ due[t] = "past")
      ~> (t \notin row \/ park[t] # n)

(* The claim column implements a lease with an owner: see module Lease.    *)
Holder == [t \in Task |->
  IF t \notin claimed THEN "nobody"
  ELSE IF \E r \in Resumer : on[r] = t THEN CHOOSE r \in Resumer : on[r] = t
  ELSE "dead"]

Leased == INSTANCE Lease WITH
  Nobody <- "nobody", Dead <- "dead", queued <- row, holder <- Holder

LeaseSpec == Leased!Spec
=============================================================================
