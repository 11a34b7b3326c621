--------------------------- MODULE ParkingProofs ---------------------------
(***************************************************************************)
(* Proofs about Parking for any number of tasks, sweep passes and workers: *)
(* the claim of a row is exclusive, no parking is lost, and the claim      *)
(* column implements the lease of module Lease.                            *)
(*                                                                         *)
(* The row does not say who claimed it, so exclusiveness is not inductive. *)
(* What makes it so is Punctual: the claim of a running resume is exactly  *)
(* as old as the resume, hence never older than ResumeMax, hence never     *)
(* reclaimed.                                                              *)
(***************************************************************************)
EXTENDS MCParking, TLAPS

(* Only claimed rows are being resumed, and only rows are claimed.         *)
ClaimsAreRows == claimed \subseteq row

(* A row exists only once its task has parked.                             *)
RowsHaveParked ==
  \A t \in Task : t \in row => status[t] \in {"suspended", "settled"}

(* A resumer that is about to delete a row knows that its task settled.    *)
BackMeansSettled ==
  \A r \in back : on[r] # NoTask /\ status[on[r]] = "settled"

(* A claim is as old as the resume it belongs to, which is within bounds.  *)
Punctual ==
  \A r \in Resumer : on[r] # NoTask => age[on[r]] = ran[r] /\ ran[r] <= ResumeMax

IInv ==
  /\ TypeOK
  /\ ClaimIsExclusive
  /\ NotForgotten
  /\ ClaimsAreRows
  /\ RowsHaveParked
  /\ BackMeansSettled
  /\ Punctual

(* A resumer is idle when it is in no task: always expanded below.         *)
USE DEF Idle

(* Nothing is parked at the start.                                         *)
LEMMA InitIInv == Init => IInv
<1> SUFFICES ASSUME Init PROVE IInv
  OBVIOUS
<1> USE ConstantsAssumption DEF Init
<1>1. TypeOK
  BY DEF TypeOK, Status, Due
<1>2. ClaimIsExclusive /\ NotForgotten /\ ClaimsAreRows /\ RowsHaveParked
  BY DEF ClaimIsExclusive, NotForgotten, ClaimsAreRows, RowsHaveParked
<1>3. BackMeansSettled /\ Punctual
  BY DEF BackMeansSettled, Punctual
<1> QED
  BY <1>1, <1>2, <1>3 DEF IInv

(* Dispatching touches no resumer and no claim.                            *)
LEMMA DispatchKeeps ==
  ASSUME IInv, NEW t \in Task, Dispatch(t) \/ DispatchSettles(t)
  PROVE  IInv'
<1> USE DEF IInv, Dispatch, DispatchSettles, store, sweep, calls
<1>1. TypeOK'
  BY DEF TypeOK, Status
<1>2. t \notin row
  BY DEF RowsHaveParked, TypeOK
<1>3. ClaimIsExclusive' /\ ClaimsAreRows' /\ Punctual'
  BY DEF ClaimIsExclusive, ClaimsAreRows, Punctual
<1>4. NotForgotten' /\ RowsHaveParked'
  BY <1>2 DEF NotForgotten, RowsHaveParked, TypeOK
<1>5. BackMeansSettled'
  BY DEF BackMeansSettled, TypeOK
<1> QED
  BY <1>1, <1>3, <1>4, <1>5

(* A first park writes a row nobody can be resuming.                       *)
LEMMA DispatchParksKeeps ==
  ASSUME IInv, NEW t \in Task, NEW d \in Due, DispatchParks(t, d)
  PROVE  IInv'
<1> USE DEF IInv, DispatchParks, PersistRow, sweep, calls
<1>1. TypeOK'
  BY DEF TypeOK, Status
<1>2. t \notin row /\ \A r \in Resumer : on[r] # t
  BY ConstantsAssumption DEF RowsHaveParked, ClaimsAreRows, ClaimIsExclusive, TypeOK
<1>3. ClaimIsExclusive' /\ ClaimsAreRows'
  BY <1>2 DEF ClaimIsExclusive, ClaimsAreRows, TypeOK
<1>4. NotForgotten' /\ RowsHaveParked' /\ BackMeansSettled'
  BY <1>2 DEF NotForgotten, RowsHaveParked, BackMeansSettled, TypeOK
<1>5. Punctual'
  BY <1>2 DEF Punctual, TypeOK
<1> QED
  BY <1>1, <1>3, <1>4, <1>5

(* The heart of the matter: a resumer that enters t when the claim of t is *)
(* free finds nobody else in t.  C is what the step leaves of the claims   *)
(* before it adds that of t; it keeps every claim a live resumer holds.    *)
LEMMA EnterKeeps ==
  ASSUME IInv,
         NEW r \in Resumer, NEW t \in Task, NEW n \in Nat, NEW C \in SUBSET claimed,
         on[r] = NoTask, t \in row, t \notin C,
         \A s \in Resumer : on[s] # NoTask => on[s] \in C,
         claimed' = C \cup {t},
         Enter(r, t, n),
         batch' \in [Pass -> SUBSET Task], snap' \in [Pass -> [Task -> Nat]],
         UNCHANGED <<up, crashes, status, row, park, due>>
  PROVE  IInv'
<1> USE ConstantsAssumption DEF IInv, Enter
<1>1. TypeOK'
  BY DEF TypeOK
<1>2. \A s \in Resumer : on[s] # t
  BY DEF TypeOK
<1>3. /\ on'[r] = t /\ ran'[r] = 0 /\ age'[t] = 0
      /\ \A s \in Resumer : s # r => on'[s] = on[s] /\ ran'[s] = ran[s]
      /\ \A u \in Task : u # t => age'[u] = age[u]
  BY DEF TypeOK
<1>4. ClaimIsExclusive'
  BY <1>2, <1>3 DEF ClaimIsExclusive
<1>5. ClaimsAreRows' /\ NotForgotten' /\ RowsHaveParked'
  BY DEF ClaimsAreRows, NotForgotten, RowsHaveParked
<1>6. r \notin back
  BY DEF BackMeansSettled
<1>7. BackMeansSettled'
  BY <1>3, <1>6 DEF BackMeansSettled, TypeOK
<1>8. Punctual'
  BY <1>2, <1>3 DEF Punctual, TypeOK
<1> QED
  BY <1>1, <1>4, <1>5, <1>7, <1>8

(* The reclaimer never takes the claim of a live resume.                   *)
LEMMA LiveClaimsAreFresh ==
  ASSUME IInv, NEW r \in Resumer, on[r] # NoTask
  PROVE  on[r] \in claimed /\ ~Stale(on[r])
BY ConstantsAssumption, TtlAssumption
   DEF IInv, ClaimIsExclusive, Punctual, Stale, TypeOK

(* A tick reclaims what is stale, lists what is due, and enters the first  *)
(* row of the list.                                                        *)
LEMMA SweepTickKeeps ==
  ASSUME IInv, NEW p \in Pass, SweepTick(p)
  PROVE  IInv'
<1> DEFINE kept == {t \in claimed : ~Stale(t)}
           list == {t \in row : due[t] = "past" /\ t \notin kept}
<1>1. \A s \in Resumer : on[s] # NoTask => on[s] \in kept
  BY LiveClaimsAreFresh
<1>2. kept \in SUBSET claimed
  OBVIOUS
<1>3. CASE claimed' = kept /\ UNCHANGED <<age, sweep, calls>>
  <2> USE <1>3 DEF IInv, SweepTick, sweep, calls
  <2>1. TypeOK'
    BY <1>2 DEF TypeOK
  <2>2. ClaimIsExclusive'
    BY <1>1 DEF ClaimIsExclusive
  <2>3. NotForgotten' /\ ClaimsAreRows' /\ RowsHaveParked'
    BY <1>2 DEF NotForgotten, ClaimsAreRows, RowsHaveParked
  <2>4. BackMeansSettled' /\ Punctual'
    BY DEF BackMeansSettled, Punctual
  <2> QED
    BY <2>1, <2>2, <2>3, <2>4
<1>4. ASSUME NEW t \in list,
             claimed' = kept \cup {t},
             batch' = [batch EXCEPT ![p] = list \ {t}],
             snap' = [snap EXCEPT ![p] = park],
             Enter(p, t, park[t])
      PROVE  IInv'
  <2>1. /\ p \in Resumer /\ t \in Task /\ t \in row /\ t \notin kept
        /\ park[t] \in Nat /\ on[p] = NoTask
        /\ UNCHANGED <<up, crashes, status, row, park, due>>
    BY DEF IInv, TypeOK, SweepTick, Resumer
  <2>2. batch' \in [Pass -> SUBSET Task] /\ snap' \in [Pass -> [Task -> Nat]]
    BY <1>4 DEF IInv, TypeOK
  <2> HIDE DEF kept, list
  <2> QED
    BY <1>1, <1>2, <1>4, <2>1, <2>2, EnterKeeps
<1> QED
  BY <1>3, <1>4 DEF SweepTick

(* A later row of the list is entered only if its claim is won.            *)
LEMMA SweepNextKeeps ==
  ASSUME IInv, NEW p \in Pass, SweepNext(p)
  PROVE  IInv'
<1>1. PICK t \in batch[p] :
        /\ batch' = [batch EXCEPT ![p] = @ \ {t}]
        /\ IF Claimable(t)
           THEN claimed' = claimed \cup {t} /\ Enter(p, t, snap[p][t])
           ELSE UNCHANGED <<claimed, age, calls>>
  BY DEF SweepNext
<1>2. /\ p \in Resumer /\ t \in Task /\ snap[p][t] \in Nat /\ on[p] = NoTask
      /\ UNCHANGED <<up, crashes, status, row, park, due, snap>>
  BY DEF IInv, TypeOK, SweepNext, Resumer
<1>3. batch' \in [Pass -> SUBSET Task] /\ snap' \in [Pass -> [Task -> Nat]]
  BY <1>1, <1>2 DEF IInv, TypeOK
<1>4. CASE Claimable(t)
  <2>1. t \in row /\ t \notin claimed
    BY <1>4 DEF Claimable
  <2>2. \A s \in Resumer : on[s] # NoTask => on[s] \in claimed
    BY LiveClaimsAreFresh
  <2> QED
    BY <1>1, <1>2, <1>3, <1>4, <2>1, <2>2, EnterKeeps
<1>5. CASE ~Claimable(t)
  BY <1>1, <1>2, <1>3, <1>5
     DEF IInv, TypeOK, ClaimIsExclusive, NotForgotten, ClaimsAreRows,
         RowsHaveParked, BackMeansSettled, Punctual, calls
<1> QED
  BY <1>4, <1>5

(* An inbox request enters by the same claim.                              *)
LEMMA WorkerResumeKeeps ==
  ASSUME IInv, NEW w \in Worker, NEW t \in Task, WorkerResume(w, t)
  PROVE  IInv'
<1>1. /\ w \in Resumer /\ park[t] \in Nat /\ on[w] = NoTask
      /\ t \in row /\ t \notin claimed
      /\ claimed' = claimed \cup {t} /\ Enter(w, t, park[t])
      /\ UNCHANGED <<up, crashes, status, row, park, due, batch, snap>>
  BY DEF IInv, TypeOK, WorkerResume, Claimable, Resumer, sweep
<1>2. batch' \in [Pass -> SUBSET Task] /\ snap' \in [Pass -> [Task -> Nat]]
  BY <1>1 DEF IInv, TypeOK
<1>3. \A s \in Resumer : on[s] # NoTask => on[s] \in claimed
  BY LiveClaimsAreFresh
<1> QED
  BY <1>1, <1>2, <1>3, EnterKeeps

(* A re-park clears the claim, and its resumer, the only one, is out.      *)
LEMMA ReparkKeeps ==
  ASSUME IInv, NEW r \in Resumer, NEW d \in Due, Repark(r, d)
  PROVE  IInv'
<1> DEFINE t == on[r]
<1>1. t \in Task /\ t \in claimed /\ t \in row
  BY DEF IInv, Repark, TypeOK, ClaimIsExclusive, ClaimsAreRows
<1>2. \A s \in Resumer : s # r => on[s] # t
  BY <1>1 DEF IInv, ClaimIsExclusive, Repark
<1> USE <1>1, <1>2 DEF IInv, Repark, PersistRow, Leave, sweep
<1>3. TypeOK'
  BY DEF TypeOK, Status
<1>4. ClaimIsExclusive' /\ ClaimsAreRows'
  BY ConstantsAssumption DEF ClaimIsExclusive, ClaimsAreRows, TypeOK
<1>5. NotForgotten' /\ RowsHaveParked'
  BY DEF NotForgotten, RowsHaveParked, TypeOK
<1>6. BackMeansSettled'
  BY DEF BackMeansSettled, TypeOK
<1>7. Punctual'
  BY DEF Punctual, TypeOK
<1> QED
  BY <1>3, <1>4, <1>5, <1>6, <1>7

(* A result is in hand; the row is still there and still claimed.          *)
LEMMA SettleKeeps ==
  ASSUME IInv, NEW r \in Resumer, Settle(r)
  PROVE  IInv'
<1> USE DEF IInv, Settle, store, sweep
<1>1. on[r] \in Task
  BY DEF TypeOK
<1>2. TypeOK'
  BY DEF TypeOK, Status
<1>3. ClaimIsExclusive' /\ ClaimsAreRows' /\ Punctual'
  BY DEF ClaimIsExclusive, ClaimsAreRows, Punctual
<1>4. NotForgotten' /\ RowsHaveParked' /\ BackMeansSettled'
  BY <1>1 DEF NotForgotten, RowsHaveParked, BackMeansSettled, TypeOK
<1> QED
  BY <1>2, <1>3, <1>4

(* The row a resumer deletes is its own: nobody parked the task meanwhile. *)
LEMMA RemoveRowKeeps ==
  ASSUME IInv, NEW r \in Resumer, RemoveRow(r)
  PROVE  IInv'
<1> USE DEF IInv, RemoveRow, Leave, sweep
<1>1. on[r] \in Task /\ status[on[r]] = "settled"
  BY DEF TypeOK, BackMeansSettled
<1>2. \A s \in Resumer : s # r => on[s] # on[r]
  BY <1>1, ConstantsAssumption DEF ClaimIsExclusive
<1>3. TypeOK'
  BY DEF TypeOK
<1>4. ClaimIsExclusive' /\ ClaimsAreRows'
  BY <1>1, <1>2 DEF ClaimIsExclusive, ClaimsAreRows, TypeOK
<1>5. NotForgotten' /\ RowsHaveParked'
  BY <1>1 DEF NotForgotten, RowsHaveParked, TypeOK
<1>6. BackMeansSettled' /\ Punctual'
  BY <1>1, <1>2 DEF BackMeansSettled, Punctual, TypeOK
<1> QED
  BY <1>3, <1>4, <1>5, <1>6

(* Time passes for the claims and for the resumes that hold them alike.    *)
LEMMA TickKeeps == ASSUME IInv, Tick PROVE IInv'
<1> USE DEF IInv, Tick, sweep
<1>1. TypeOK'
  <2>1. \A n \in Nat : Older(n) \in Nat
    BY ConstantsAssumption DEF Older
  <2>2. age' \in [Task -> Nat]
    BY <2>1 DEF TypeOK
  <2>3. ran' \in [Resumer -> Nat]
    BY <2>1 DEF TypeOK
  <2> QED
    BY <2>2, <2>3 DEF TypeOK, calls
<1>2. ClaimIsExclusive' /\ NotForgotten' /\ ClaimsAreRows' /\ RowsHaveParked'
  BY DEF ClaimIsExclusive, NotForgotten, ClaimsAreRows, RowsHaveParked
<1>3. BackMeansSettled'
  BY DEF BackMeansSettled
<1>4. Punctual'
  BY ConstantsAssumption, TtlAssumption
     DEF Punctual, TypeOK, ClaimIsExclusive, Older
<1> QED
  BY <1>1, <1>2, <1>3, <1>4

(* Rows that fall due, crashes and restarts.                               *)
LEMMA EnvironmentKeeps ==
  ASSUME IInv, Crash \/ Restart \/ \E t \in Task : FallDue(t)
  PROVE  IInv'
<1> USE DEF IInv, store, sweep, calls
<1>1. CASE Crash
  <2> USE <1>1 DEF Crash
  <2>1. TypeOK'
    <3>1. status' \in [Task -> Status]
      BY DEF TypeOK, Status
    <3>2. up' \in BOOLEAN
      OBVIOUS
    <3>3. crashes' \in Nat
      BY DEF TypeOK
    <3>4. /\ batch' \in [Pass -> SUBSET Task]
          /\ on' \in [Resumer -> Task \cup {NoTask}]
          /\ back' \in SUBSET Resumer
      BY DEF TypeOK
    <3> QED
      BY <3>1, <3>2, <3>3, <3>4 DEF TypeOK
  <2>2. ClaimIsExclusive' /\ ClaimsAreRows' /\ Punctual' /\ BackMeansSettled'
    BY DEF ClaimIsExclusive, ClaimsAreRows, Punctual, BackMeansSettled
  <2>3. NotForgotten' /\ RowsHaveParked'
    BY DEF NotForgotten, RowsHaveParked, TypeOK
  <2> QED
    BY <2>1, <2>2, <2>3
<1>2. CASE Restart
  BY <1>2 DEF Restart, TypeOK, ClaimIsExclusive, NotForgotten, ClaimsAreRows,
              RowsHaveParked, BackMeansSettled, Punctual
<1>3. CASE \E t \in Task : FallDue(t)
  BY <1>3 DEF FallDue, TypeOK, Due, ClaimIsExclusive, NotForgotten, ClaimsAreRows,
              RowsHaveParked, BackMeansSettled, Punctual
<1> QED
  BY <1>1, <1>2, <1>3

(* One step of anybody.                                                    *)
LEMMA NextKeeps == IInv /\ [Next]_vars => IInv'
<1> SUFFICES ASSUME IInv, [Next]_vars PROVE IInv'
  OBVIOUS
<1>1. CASE UNCHANGED vars
  BY <1>1 DEF vars, store, sweep, calls, IInv, TypeOK, ClaimIsExclusive, NotForgotten,
              ClaimsAreRows, RowsHaveParked, BackMeansSettled, Punctual
<1>2. CASE Next
  BY <1>2, DispatchKeeps, DispatchParksKeeps, SweepTickKeeps, SweepNextKeeps,
     WorkerResumeKeeps, ReparkKeeps, SettleKeeps, RemoveRowKeeps, TickKeeps,
     EnvironmentKeeps
     DEF Next
<1> QED
  BY <1>1, <1>2

(* The invariant the other theorems rest on.                               *)
THEOREM Invariance == Spec => []IInv
BY InitIInv, NextKeeps, PTL DEF Spec

(* Every variable of the table, the sweep and the resumers keeps its type. *)
THEOREM TypeCorrect == Spec => []TypeOK
BY Invariance, PTL DEF IInv

(* However many passes and workers resume parked tasks, however they crash *)
(* and however long rows stay claimed, no two of them resume one task at   *)
(* once, as long as no resume outlives the claim time-out.                 *)
THEOREM Exclusion == Spec => []ClaimIsExclusive
BY Invariance, PTL DEF IInv

(* No interleaving of parks, resumes, crashes and deletions by bare task   *)
(* id loses the row of a task that is still suspended.                     *)
THEOREM NothingForgotten == Spec => []NotForgotten
BY Invariance, PTL DEF IInv

-----------------------------------------------------------------------------
(* The claim column implements the lease of module Lease                   *)

(* What the refinement mapping says of each task.                          *)
HolderFacts ==
  /\ Holder = [t \in Task |-> Holder[t]]
  /\ \A t \in Task : t \notin claimed <=> Holder[t] = "nobody"
  /\ \A t \in claimed : (\A r \in Resumer : on[r] # t) => Holder[t] = "dead"
  /\ \A r \in Resumer : on[r] # NoTask => Holder[on[r]] = r

(* The three cases of the mapping, free of its CHOOSE: a resumer that is   *)
(* in a task holds its lease, and a claim without a resumer is a dead one. *)
LEMMA HolderLemma == IInv => HolderFacts
<1> SUFFICES ASSUME IInv PROVE HolderFacts
  OBVIOUS
<1>1. Holder = [t \in Task |-> Holder[t]]
  BY DEF Holder
<1>2. ASSUME NEW t \in claimed, \A r \in Resumer : on[r] # t
      PROVE  Holder[t] = "dead"
  BY <1>2 DEF Holder, IInv, TypeOK
<1>3. ASSUME NEW r \in Resumer, on[r] # NoTask
      PROVE  Holder[on[r]] = r
  <2>1. on[r] \in Task /\ on[r] \in claimed /\ \A s \in Resumer : on[s] = on[r] => s = r
    BY <1>3 DEF IInv, TypeOK, ClaimIsExclusive
  <2>2. (CHOOSE s \in Resumer : on[s] = on[r]) = r
    BY <2>1
  <2> QED
    BY <2>1, <2>2 DEF Holder
<1>4. ASSUME NEW t \in Task
      PROVE  t \notin claimed <=> Holder[t] = "nobody"
  <2>1. CASE t \notin claimed
    BY <2>1 DEF Holder
  <2>2. CASE t \in claimed /\ \A r \in Resumer : on[r] # t
    BY <2>2, <1>2
  <2>3. CASE t \in claimed /\ \E r \in Resumer : on[r] = t
    BY <2>3, <1>3, ConstantsAssumption
  <2> QED
    BY <2>1, <2>2, <2>3
<1> QED
  BY <1>1, <1>2, <1>3, <1>4 DEF HolderFacts

(* The mapping looks at the claims and at the resumers only.               *)
LEMMA HolderSame == UNCHANGED <<claimed, on>> => Holder' = Holder
BY DEF Holder

(* A claim is an acquired lease; S are the claims reclaimed with it.       *)
LEMMA EnterAcquires ==
  ASSUME IInv, IInv',
         NEW r \in Resumer, NEW t \in Task, NEW n \in Nat, NEW C \in SUBSET claimed,
         on[r] = NoTask, t \in row, t \notin C,
         \A s \in Resumer : on[s] # NoTask => on[s] \in C,
         claimed' = C \cup {t},
         Enter(r, t, n), UNCHANGED row
  PROVE  \E S \in SUBSET Task : Leased!Acquire(r, t, S)
<1> DEFINE S == claimed \ C
<1>0. HolderFacts /\ (IInv' => HolderFacts')
  BY HolderLemma, PTL
<1>1. HolderFacts'
  BY <1>0
<1>2. S \in SUBSET Task /\ \A u \in S : Holder[u] = "dead"
  <2>1. \A u \in S : u \in Task /\ u \in claimed /\ u \notin C
    BY DEF IInv, TypeOK
  <2>2. \A u \in S : \A s \in Resumer : on[s] # u
    BY <2>1, ConstantsAssumption
  <2> QED
    BY <1>0, <2>1, <2>2 DEF HolderFacts
<1>3. t \in S \/ Holder[t] = "nobody"
  BY <1>0 DEF HolderFacts
<1>4. on'[r] = t /\ \A s \in Resumer : s # r => on'[s] = on[s]
  BY DEF Enter, IInv, TypeOK
<1>5. Holder'[t] = r
  BY <1>1, <1>4, ConstantsAssumption DEF HolderFacts
<1>6. ASSUME NEW u \in Task, u # t
      PROVE  Holder'[u] = IF u \in S THEN "nobody" ELSE Holder[u]
  <2>1. CASE u \notin claimed'
    BY <2>1, <1>6, <1>0, <1>1 DEF HolderFacts
  <2>2. CASE u \in claimed' /\ \E s \in Resumer : on[s] = u
    <3>1. PICK s \in Resumer : on[s] = u
      BY <2>2
    <3>2. s # r /\ on'[s] = u /\ u # NoTask
      BY <3>1, <1>4, ConstantsAssumption
    <3>3. Holder'[u] = s /\ Holder[u] = s
      BY <3>1, <3>2, <1>0, <1>1 DEF HolderFacts
    <3> QED
      BY <3>3, <2>2, <1>6
  <2>3. CASE u \in claimed' /\ \A s \in Resumer : on[s] # u
    <3>1. \A s \in Resumer : on'[s] # u
      BY <2>3, <1>4, <1>6
    <3>2. u \in C /\ Holder'[u] = "dead" /\ Holder[u] = "dead"
      BY <3>1, <2>3, <1>6, <1>0, <1>1 DEF HolderFacts
    <3> QED
      BY <3>2
  <2> QED
    BY <2>1, <2>2, <2>3
<1>7. Holder' = [u \in Task |-> IF u = t THEN r
                                 ELSE IF u \in S THEN "nobody" ELSE Holder[u]]
  <2>1. Holder' = [u \in Task |-> Holder'[u]]
    BY <1>1 DEF HolderFacts
  <2> HIDE DEF S
  <2> QED
    BY <2>1, <1>5, <1>6
<1> HIDE DEF S
<1> QED
  BY <1>2, <1>3, <1>7 DEF Leased!Acquire

(* Steps that leave rows and claims alone, or only write the first row.    *)
LEMMA StutterMaps ==
  ASSUME UNCHANGED <<row, claimed, on>>
  PROVE  UNCHANGED Leased!vars
BY HolderSame DEF Leased!vars

(* A first park queues a task.                                             *)
LEMMA ParkMaps ==
  ASSUME IInv, NEW t \in Task, NEW d \in Due, DispatchParks(t, d)
  PROVE  Leased!Enqueue(t)
<1>1. t \notin row /\ t \notin claimed
  BY DEF IInv, DispatchParks, RowsHaveParked, ClaimsAreRows
<1>2. Holder[t] = "nobody"
  BY <1>1, HolderLemma DEF HolderFacts
<1>3. claimed' = claimed /\ on' = on /\ row' = row \cup {t}
  BY <1>1 DEF DispatchParks, PersistRow, calls
<1>4. Holder' = Holder
  BY <1>3, HolderSame
<1> QED
  BY <1>1, <1>2, <1>3, <1>4 DEF Leased!Enqueue

(* Reclaiming is recovery, and the first claim of a tick comes with it.    *)
LEMMA SweepTickMaps ==
  ASSUME IInv, IInv', NEW p \in Pass, SweepTick(p)
  PROVE  Leased!Next
<1> DEFINE kept == {t \in claimed : ~Stale(t)}
           list == {t \in row : due[t] = "past" /\ t \notin kept}
           S == claimed \ kept
<1>1. \A s \in Resumer : on[s] # NoTask => on[s] \in kept
  BY LiveClaimsAreFresh
<1>2. kept \in SUBSET claimed
  OBVIOUS
<1>3. CASE claimed' = kept /\ UNCHANGED <<age, sweep, calls>>
  <2>1. on' = on /\ row' = row
    BY <1>3 DEF calls, SweepTick
  <2>2. HolderFacts /\ (IInv' => HolderFacts')
    BY HolderLemma, PTL
  <2>3. HolderFacts'
    BY <2>2
  <2>4. S \in SUBSET Task /\ \A u \in S : Holder[u] = "dead"
    <3>1. \A u \in S : u \in Task /\ u \in claimed /\ u \notin kept
      BY DEF IInv, TypeOK
    <3>2. \A u \in S : \A s \in Resumer : on[s] # u
      BY <3>1, <1>1, ConstantsAssumption
    <3> QED
      BY <2>2, <3>1, <3>2 DEF HolderFacts
  <2>5. ASSUME NEW u \in Task
        PROVE  Holder'[u] = IF u \in S THEN "nobody" ELSE Holder[u]
    <3>1. CASE u \notin kept
      BY <3>1, <1>3, <2>2, <2>3 DEF HolderFacts
    <3>2. CASE u \in kept /\ \E s \in Resumer : on[s] = u
      <4>1. PICK s \in Resumer : on[s] = u
        BY <3>2
      <4>2. Holder'[u] = s /\ Holder[u] = s
        BY <4>1, <2>1, <2>2, <2>3, ConstantsAssumption DEF HolderFacts
      <4> QED
        BY <4>2, <3>2
    <3>3. CASE u \in kept /\ \A s \in Resumer : on[s] # u
      BY <3>3, <1>3, <2>1, <2>2, <2>3 DEF HolderFacts
    <3> QED
      BY <3>1, <3>2, <3>3
  <2>6. Holder' = [u \in Task |-> Holder'[u]]
    BY <2>3 DEF HolderFacts
  <2> HIDE DEF S
  <2>7. Holder' = [u \in Task |-> IF u \in S THEN "nobody" ELSE Holder[u]]
    BY <2>5, <2>6
  <2>8. Leased!Recover(S)
    BY <2>1, <2>4, <2>7 DEF Leased!Recover
  <2> QED
    BY <2>4, <2>8 DEF Leased!Next
<1>4. ASSUME NEW t \in list, claimed' = kept \cup {t}, Enter(p, t, park[t])
      PROVE  Leased!Next
  <2>1. /\ p \in Resumer /\ t \in Task /\ t \in row /\ t \notin kept
        /\ park[t] \in Nat /\ on[p] = NoTask /\ UNCHANGED row
    BY DEF IInv, TypeOK, SweepTick, Resumer
  <2> HIDE DEF kept, list, S
  <2>2. \E Q \in SUBSET Task : Leased!Acquire(p, t, Q)
    BY <1>1, <1>2, <1>4, <2>1, EnterAcquires
  <2> QED
    BY <2>1, <2>2 DEF Leased!Next
<1> QED
  BY <1>3, <1>4 DEF SweepTick

(* A claim of a later row of the batch is a lease; a lost one a stutter.   *)
LEMMA SweepNextMaps ==
  ASSUME IInv, IInv', NEW p \in Pass, SweepNext(p)
  PROVE  Leased!Next \/ UNCHANGED Leased!vars
<1>1. PICK t \in batch[p] :
        IF Claimable(t)
        THEN claimed' = claimed \cup {t} /\ Enter(p, t, snap[p][t])
        ELSE UNCHANGED <<claimed, age, calls>>
  BY DEF SweepNext
<1>2. /\ p \in Resumer /\ t \in Task /\ snap[p][t] \in Nat /\ on[p] = NoTask
      /\ UNCHANGED row
  BY DEF IInv, TypeOK, SweepNext, Resumer
<1>3. CASE Claimable(t)
  <2>1. t \in row /\ t \notin claimed
    BY <1>3 DEF Claimable
  <2>2. \A s \in Resumer : on[s] # NoTask => on[s] \in claimed
    BY LiveClaimsAreFresh
  <2>3. \E S \in SUBSET Task : Leased!Acquire(p, t, S)
    BY <1>1, <1>2, <1>3, <2>1, <2>2, EnterAcquires
  <2> QED
    BY <1>2, <2>3 DEF Leased!Next
<1>4. CASE ~Claimable(t)
  BY <1>1, <1>2, <1>4, StutterMaps DEF calls
<1> QED
  BY <1>3, <1>4

(* So is the claim of an inbox request.                                    *)
LEMMA WorkerResumeMaps ==
  ASSUME IInv, IInv', NEW w \in Worker, NEW t \in Task, WorkerResume(w, t)
  PROVE  Leased!Next
<1>1. /\ w \in Resumer /\ park[t] \in Nat /\ on[w] = NoTask
      /\ t \in row /\ t \notin claimed /\ UNCHANGED row
      /\ claimed' = claimed \cup {t} /\ Enter(w, t, park[t])
  BY DEF IInv, TypeOK, WorkerResume, Claimable, Resumer
<1>2. \A s \in Resumer : on[s] # NoTask => on[s] \in claimed
  BY LiveClaimsAreFresh
<1>3. \E S \in SUBSET Task : Leased!Acquire(w, t, S)
  BY <1>1, <1>2, EnterAcquires
<1> QED
  BY <1>1, <1>3 DEF Leased!Next

(* Both ends of a resume give up the lease of its task and of no other.    *)
LEMMA LeaveMaps ==
  ASSUME IInv, IInv', NEW r \in Resumer, on[r] # NoTask,
         claimed' = claimed \ {on[r]},
         on' = [on EXCEPT ![r] = NoTask]
  PROVE  /\ Holder[on[r]] = r
         /\ Holder' = [Holder EXCEPT ![on[r]] = "nobody"]
<1>0. HolderFacts /\ (IInv' => HolderFacts')
  BY HolderLemma, PTL
<1>1. HolderFacts'
  BY <1>0
<1>2. Holder[on[r]] = r /\ on[r] \in Task
  <2>1. Holder[on[r]] = r
    BY <1>0 DEF HolderFacts
  <2>2. on[r] \in Task \cup {NoTask}
    BY DEF IInv, TypeOK
  <2> QED
    BY <2>1, <2>2
<1>3. \A s \in Resumer : s # r => on'[s] = on[s] /\ on[s] # on[r]
  BY DEF IInv, TypeOK, ClaimIsExclusive
<1>4. on'[r] = NoTask
  BY DEF IInv, TypeOK
<1>5. ASSUME NEW u \in Task
      PROVE  Holder'[u] = IF u = on[r] THEN "nobody" ELSE Holder[u]
  <2>1. CASE u \notin claimed'
    BY <2>1, <1>0, <1>1 DEF HolderFacts
  <2>2. CASE u \in claimed' /\ \E s \in Resumer : on[s] = u
    <3>1. PICK s \in Resumer : on[s] = u
      BY <2>2
    <3>2. s # r /\ on'[s] = u /\ u # NoTask
      BY <3>1, <2>2, <1>3, ConstantsAssumption
    <3>3. Holder'[u] = s /\ Holder[u] = s
      BY <3>1, <3>2, <1>0, <1>1 DEF HolderFacts
    <3> QED
      BY <3>3, <2>2
  <2>3. CASE u \in claimed' /\ \A s \in Resumer : on[s] # u
    <3>1. \A s \in Resumer : on'[s] # u
      BY <2>3, <1>3, <1>4, ConstantsAssumption
    <3>2. Holder'[u] = "dead" /\ Holder[u] = "dead"
      BY <3>1, <2>3, <1>0, <1>1 DEF HolderFacts
    <3> QED
      BY <3>2, <2>3
  <2> QED
    BY <2>1, <2>2, <2>3
<1> QED
  BY <1>0, <1>1, <1>2, <1>5 DEF HolderFacts

(* A re-park and a removal are the two ends LeaveMaps speaks of.           *)
LEMMA LeavingMaps ==
  ASSUME IInv, IInv', NEW r \in Resumer,
         RemoveRow(r) \/ \E d \in Due : Repark(r, d)
  PROVE  Leased!Next
<1>1. on[r] # NoTask /\ on[r] \in Task /\ on[r] \in row
  BY DEF RemoveRow, Repark, IInv, TypeOK, BackMeansSettled, ClaimIsExclusive,
         ClaimsAreRows
<1>2. claimed' = claimed \ {on[r]} /\ on' = [on EXCEPT ![r] = NoTask]
  BY DEF RemoveRow, Repark, Leave, PersistRow
<1>3. /\ Holder[on[r]] = r
      /\ Holder' = [Holder EXCEPT ![on[r]] = "nobody"]
  BY <1>1, <1>2, LeaveMaps
<1>4. CASE RemoveRow(r)
  <2>1. Leased!Finish(r, on[r])
    BY <1>3, <1>4 DEF RemoveRow, Leased!Finish
  <2> QED
    BY <1>1, <2>1 DEF Leased!Next
<1>5. CASE \E d \in Due : Repark(r, d)
  <2>1. row' = row
    BY <1>1, <1>5 DEF Repark, PersistRow
  <2>2. Leased!Requeue(r, on[r])
    BY <1>3, <2>1 DEF Leased!Requeue
  <2> QED
    BY <1>1, <2>2 DEF Leased!Next
<1> QED
  BY <1>4, <1>5

(* In a crash every holder dies, and nobody else is affected.              *)
LEMMA CrashMaps == ASSUME IInv, IInv', Crash PROVE Leased!Die
<1>0. HolderFacts /\ (IInv' => HolderFacts')
  BY HolderLemma, PTL
<1>1. HolderFacts'
  BY <1>0
<1>2. row' = row /\ claimed' = claimed /\ \A r \in Resumer : on'[r] = NoTask
  BY DEF Crash, store
<1>3. ASSUME NEW u \in Task
      PROVE  Holder'[u] = IF Holder[u] = "nobody" THEN "nobody" ELSE "dead"
  <2>1. CASE u \notin claimed
    BY <2>1, <1>0, <1>1, <1>2 DEF HolderFacts
  <2>2. CASE u \in claimed
    <3>1. \A r \in Resumer : on'[r] # u
      BY <1>2, ConstantsAssumption
    <3>2. Holder'[u] = "dead" /\ Holder[u] # "nobody"
      BY <3>1, <2>2, <1>0, <1>1, <1>2 DEF HolderFacts
    <3> QED
      BY <3>2
  <2> QED
    BY <2>1, <2>2
<1>4. Holder' = [u \in Task |-> Holder'[u]]
  BY <1>1 DEF HolderFacts
<1> QED
  BY <1>2, <1>3, <1>4 DEF Leased!Die

(* Every step of Parking is a step of Lease or stutters.                   *)
LEMMA StepMaps == IInv /\ IInv' /\ [Next]_vars => [Leased!Next]_(Leased!vars)
<1> SUFFICES ASSUME IInv, IInv', [Next]_vars
             PROVE  Leased!Next \/ UNCHANGED Leased!vars
  OBVIOUS
<1>1. CASE UNCHANGED vars
  BY <1>1, StutterMaps DEF vars, store, calls
<1>2. CASE \/ \E t \in Task : Dispatch(t) \/ DispatchSettles(t) \/ FallDue(t)
           \/ \E r \in Resumer : Settle(r)
           \/ Tick \/ Restart
  BY <1>2, StutterMaps
     DEF Dispatch, DispatchSettles, FallDue, Settle, Tick, Restart, store, calls
<1>3. CASE \E t \in Task, d \in Due : DispatchParks(t, d)
  BY <1>3, ParkMaps DEF Leased!Next
<1>4. CASE \E p \in Pass : SweepTick(p) \/ SweepNext(p)
  BY <1>4, SweepTickMaps, SweepNextMaps
<1>5. CASE \E w \in Worker, t \in Task : WorkerResume(w, t)
  BY <1>5, WorkerResumeMaps
<1>6. CASE \E r \in Resumer : RemoveRow(r) \/ \E d \in Due : Repark(r, d)
  BY <1>6, LeavingMaps
<1>7. CASE Crash
  BY <1>7, CrashMaps DEF Leased!Next
<1> QED
  BY <1>1, <1>2, <1>3, <1>4, <1>5, <1>6, <1>7 DEF Next

(* The claim column with its compare-and-set, its clearing on a re-park    *)
(* and its time-out is a lease with an owner: every step of the table, the *)
(* sweep and the inbox workers is a step of module Lease.                  *)
THEOREM Refinement == Spec => LeaseSpec
<1>1. Init => Leased!Init
  BY DEF Init, Holder, Leased!Init
<1>2. IInv /\ IInv' /\ [Next]_vars => [Leased!Next]_(Leased!vars)
  BY StepMaps
<1> QED
  BY <1>1, <1>2, Invariance, PTL DEF Spec, LeaseSpec, Leased!Spec
-----------------------------------------------------------------------------
(* Passes re-enter what is parked now                                      *)

(* At most one pass is at work: sweepInflight.                             *)
Sweeping(p) == batch[p] # {} \/ on[p] # NoTask
OnePass == \A p, q \in Pass : Sweeping(p) /\ Sweeping(q) => p = q

(* A row that waits in a pass's batch is as it was listed: still due, with *)
(* the state the pass has read and resumed by nobody, unless an inbox *)
(* request has entered it since.                                           *)
BatchIsCurrent ==
  \A p \in Pass : \A t \in batch[p] : t \notin moved =>
    /\ t \in row /\ due[t] = "past" /\ snap[p][t] = park[t]
    /\ \A r \in Resumer : on[r] # t

SweepInv == IInv /\ OnePass /\ BatchIsCurrent

(* No pass has listed anything at the start.                               *)
LEMMA InitSweepInv == MCInit => SweepInv
BY InitIInv, ConstantsAssumption
   DEF MCInit, Init, SweepInv, OnePass, BatchIsCurrent, Sweeping, Resumer

(* What a step must leave alone for a batch to stay current.               *)
LEMMA BatchStaysCurrent ==
  ASSUME SweepInv, MCNext,
         \A p \in Pass : batch'[p] \subseteq batch[p],
         \A p \in Pass : batch'[p] # {} => snap'[p] = snap[p],
         \A p \in Pass : \A t \in batch'[p] : t \notin moved' =>
           /\ t \in row' /\ due'[t] = due[t] /\ park'[t] = park[t]
           /\ \A r \in Resumer : on'[r] # t
  PROVE  BatchIsCurrent'
<1> SUFFICES ASSUME NEW p \in Pass, NEW t \in batch'[p], t \notin moved'
             PROVE  /\ t \in row' /\ due'[t] = "past" /\ snap'[p][t] = park'[t]
                    /\ \A r \in Resumer : on'[r] # t
  BY DEF BatchIsCurrent
<1>1. t \in batch[p] /\ t \in Task
  BY DEF SweepInv, IInv, TypeOK
<1>2. t \notin moved
  BY <1>1 DEF MCNext
<1>3. due[t] = "past" /\ snap[p][t] = park[t]
  BY <1>1, <1>2 DEF SweepInv, BatchIsCurrent
<1> QED
  BY <1>3

(* A tick: the list is the batch, and what was listed was free.            *)
LEMMA SweepTickKeepsBatch ==
  ASSUME SweepInv, IInv', MCNext, NEW p \in Pass, SweepTick(p)
  PROVE  OnePass' /\ BatchIsCurrent'
<1> DEFINE kept == {t \in claimed : ~Stale(t)}
           list == {t \in row : due[t] = "past" /\ t \notin kept}
<1>1. \A q \in Pass : batch[q] = {} /\ on[q] = NoTask
  BY DEF SweepTick, SweepInFlight
<1>2. \A s \in Resumer : on[s] # NoTask => on[s] \in kept
  BY LiveClaimsAreFresh DEF SweepInv
<1>3. CASE UNCHANGED <<age, sweep, calls>>
  BY <1>1, <1>3 DEF OnePass, BatchIsCurrent, Sweeping, sweep, calls, Resumer
<1>4. ASSUME NEW t \in list,
             batch' = [batch EXCEPT ![p] = list \ {t}],
             snap' = [snap EXCEPT ![p] = park],
             Enter(p, t, park[t])
      PROVE  OnePass' /\ BatchIsCurrent'
  <2>1. /\ p \in Resumer /\ row' = row /\ due' = due /\ park' = park /\ row \subseteq Task
        /\ on' = [on EXCEPT ![p] = t]
        /\ batch \in [Pass -> SUBSET Task] /\ on \in [Resumer -> Task \cup {NoTask}]
        /\ snap \in [Pass -> [Task -> Nat]]
    BY <1>4 DEF SweepInv, IInv, TypeOK, SweepTick, Enter, Resumer
  <2>2. \A u \in list : u \in row /\ due[u] = "past" /\ u \notin kept /\ u \in Task
    BY <2>1
  <2>3. \A u \in list \ {t} : \A r \in Resumer : on'[r] # u
    BY <1>2, <2>1, <2>2, ConstantsAssumption
  <2> HIDE DEF list, kept
  <2>4. OnePass'
    BY <1>1, <1>4, <2>1 DEF OnePass, Sweeping, Resumer
  <2>5. BatchIsCurrent'
    <3>1. /\ batch'[p] = list \ {t} /\ snap'[p] = park
          /\ \A q \in Pass : q # p => batch'[q] = {}
      BY <1>1, <1>4, <2>1
    <3> QED
      BY <3>1, <2>1, <2>2, <2>3 DEF BatchIsCurrent
  <2> QED
    BY <2>4, <2>5
<1> QED
  BY <1>3, <1>4 DEF SweepTick

(* The next row leaves the batch of the one pass at work.                  *)
LEMMA SweepNextKeepsBatch ==
  ASSUME SweepInv, IInv', MCNext, NEW p \in Pass, SweepNext(p)
  PROVE  OnePass' /\ BatchIsCurrent'
<1>1. PICK t \in batch[p] :
        /\ batch' = [batch EXCEPT ![p] = @ \ {t}]
        /\ IF Claimable(t)
           THEN claimed' = claimed \cup {t} /\ Enter(p, t, snap[p][t])
           ELSE UNCHANGED <<claimed, age, calls>>
  BY DEF SweepNext
<1>2. /\ p \in Resumer /\ UNCHANGED <<row, due, park, snap>>
      /\ batch \in [Pass -> SUBSET Task] /\ on \in [Resumer -> Task \cup {NoTask}]
  BY DEF SweepInv, IInv, TypeOK, SweepNext, Resumer
<1>3. \A q \in Pass : q # p => batch[q] = {} /\ on[q] = NoTask
  BY <1>1 DEF SweepInv, OnePass, Sweeping
<1>4. \A r \in Resumer : on'[r] = on[r] \/ (r = p /\ on'[r] = t)
  BY <1>1, <1>2 DEF Enter, calls
<1>5. /\ batch'[p] = batch[p] \ {t} /\ \A q \in Pass : q # p => batch'[q] = batch[q]
  BY <1>1, <1>2
<1>6. OnePass'
  BY <1>3, <1>4, <1>5 DEF OnePass, Sweeping, Resumer
<1>7. BatchIsCurrent'
  <2>1. ASSUME NEW q \in Pass, NEW u \in batch'[q], u \notin moved'
        PROVE  u \in row' /\ due'[u] = due[u] /\ park'[u] = park[u] /\ \A r \in Resumer : on'[r] # u
    <3>1. q = p /\ u \in batch[p] /\ u # t /\ u \in Task
      BY <2>1, <1>2, <1>3, <1>5
    <3>2. u \notin moved
      BY <2>1, <3>1 DEF MCNext
    <3> QED
      BY <3>1, <3>2, <1>2, <1>4 DEF SweepInv, BatchIsCurrent
  <2> QED
    BY <2>1, <1>2, <1>5, BatchStaysCurrent
<1> QED
  BY <1>6, <1>7

(* Whoever leaves a task, or enters it from the inbox, leaves the tasks of *)
(* a batch alone or has moved them.                                        *)
LEMMA ResumersKeepBatch ==
  ASSUME SweepInv, IInv', MCNext,
         \/ \E w \in Worker, t \in Task : WorkerResume(w, t)
         \/ \E r \in Resumer : Settle(r) \/ RemoveRow(r) \/ \E d \in Due : Repark(r, d)
  PROVE  OnePass' /\ BatchIsCurrent'
<1>1. batch' = batch /\ snap' = snap
  BY DEF WorkerResume, Settle, RemoveRow, Repark, sweep
<1>2. /\ on \in [Resumer -> Task \cup {NoTask}] /\ batch \in [Pass -> SUBSET Task]
      /\ park \in [Task -> Nat] /\ due \in [Task -> Due]
  BY DEF SweepInv, IInv, TypeOK
<1>3. ASSUME NEW w \in Worker, NEW t \in Task, WorkerResume(w, t)
      PROVE  OnePass' /\ BatchIsCurrent'
  <2>1. /\ w \in Resumer /\ w \notin Pass /\ on[w] = NoTask
        /\ on' = [on EXCEPT ![w] = t] /\ row' = row /\ due' = due /\ park' = park
    BY <1>3, ConstantsAssumption DEF WorkerResume, Enter, Resumer
  <2>2. OnePass'
    BY <1>1, <1>2, <2>1 DEF SweepInv, OnePass, Sweeping, Resumer
  <2>3. t \in moved'
    BY <1>2, <2>1, <1>3, ConstantsAssumption DEF MCNext
  <2>4. ASSUME NEW q \in Pass, NEW u \in batch'[q], u \notin moved'
        PROVE  u \in row' /\ due'[u] = due[u] /\ park'[u] = park[u] /\ \A r \in Resumer : on'[r] # u
    <3>1. u \in batch[q] /\ u # t /\ u \in Task
      BY <2>3, <2>4, <1>1, <1>2
    <3>2. u \notin moved
      BY <2>4, <3>1 DEF MCNext
    <3> QED
      BY <3>1, <3>2, <2>1, <1>2 DEF SweepInv, BatchIsCurrent
  <2> QED
    BY <2>2, <2>4, <1>1, BatchStaysCurrent
<1>4. ASSUME NEW r \in Resumer,
             Settle(r) \/ RemoveRow(r) \/ \E d \in Due : Repark(r, d)
      PROVE  OnePass' /\ BatchIsCurrent'
  <2>1. on[r] \in Task
    BY <1>4 DEF Settle, RemoveRow, Repark, SweepInv, IInv, TypeOK, BackMeansSettled
  <2>2. \A s \in Resumer : on'[s] \in {on[s], NoTask}
    BY <1>2, <1>4 DEF Settle, RemoveRow, Repark, Leave
  <2>3. \A u \in Task : u # on[r] => /\ park'[u] = park[u] /\ due'[u] = due[u]
                                    /\ (u \in row => u \in row')
    BY <1>2, <1>4 DEF Settle, RemoveRow, Repark, PersistRow, store
  <2>4. OnePass'
    BY <1>1, <2>2 DEF SweepInv, OnePass, Sweeping, Resumer
  <2>5. ASSUME NEW q \in Pass, NEW u \in batch'[q], u \notin moved'
        PROVE  u \in row' /\ due'[u] = due[u] /\ park'[u] = park[u] /\ \A s \in Resumer : on'[s] # u
    <3>1. u \in batch[q] /\ u \in Task
      BY <2>5, <1>1, <1>2
    <3>2. u \notin moved
      BY <2>5, <3>1 DEF MCNext
    <3>3. u \in row /\ \A s \in Resumer : on[s] # u
      BY <3>1, <3>2 DEF SweepInv, BatchIsCurrent
    <3>4. u # on[r] /\ u # NoTask
      BY <3>1, <3>3, ConstantsAssumption
    <3>5. u \in row' /\ due'[u] = due[u] /\ park'[u] = park[u]
      BY <3>1, <3>3, <3>4, <2>3
    <3>6. \A s \in Resumer : on'[s] # u
      BY <3>3, <3>4, <2>2
    <3> QED
      BY <3>5, <3>6
  <2> QED
    BY <2>4, <2>5, <1>1, BatchStaysCurrent
<1> QED
  BY <1>3, <1>4

(* Dispatches, time and failures.                                          *)
LEMMA OthersKeepBatch ==
  ASSUME SweepInv, IInv', MCNext,
         \/ \E t \in Task : Dispatch(t) \/ DispatchSettles(t) \/ FallDue(t)
         \/ \E t \in Task, d \in Due : DispatchParks(t, d)
         \/ Tick \/ Crash \/ Restart
  PROVE  OnePass' /\ BatchIsCurrent'
<1>1. CASE Crash
  BY <1>1 DEF Crash, OnePass, BatchIsCurrent, Sweeping, Resumer
<1>2. CASE ~Crash
  <2>1. batch' = batch /\ snap' = snap /\ on' = on /\ row \subseteq row'
    BY <1>2 DEF Dispatch, DispatchSettles, FallDue, DispatchParks, PersistRow,
                Tick, Restart, sweep, calls, store
  <2>2. \A u \in row : park'[u] = park[u] /\ (due[u] = "past" => due'[u] = due[u])
    BY <1>2 DEF Dispatch, DispatchSettles, FallDue, DispatchParks, PersistRow,
                Tick, Restart, store, SweepInv, IInv, TypeOK, RowsHaveParked
  <2>3. OnePass'
    BY <2>1 DEF SweepInv, OnePass, Sweeping
  <2>4. ASSUME NEW q \in Pass, NEW u \in batch'[q], u \notin moved'
        PROVE  u \in row' /\ due'[u] = due[u] /\ park'[u] = park[u] /\ \A r \in Resumer : on'[r] # u
    <3>1. u \in batch[q] /\ u \in Task
      BY <2>1, <2>4 DEF SweepInv, IInv, TypeOK
    <3>2. u \notin moved
      BY <2>4, <3>1 DEF MCNext
    <3> QED
      BY <3>1, <3>2, <2>1, <2>2 DEF SweepInv, BatchIsCurrent
  <2> QED
    BY <2>1, <2>3, <2>4, BatchStaysCurrent
<1> QED
  BY <1>1, <1>2

(* One step of anybody, with the history.                                  *)
LEMMA StepKeepsBatch ==
  SweepInv /\ [MCNext]_<<vars, moved>> => SweepInv'
<1> SUFFICES ASSUME SweepInv, [MCNext]_<<vars, moved>> PROVE SweepInv'
  OBVIOUS
<1>1. IInv'
  BY NextKeeps DEF SweepInv, MCNext, vars
<1>2. CASE UNCHANGED <<vars, moved>>
  BY <1>1, <1>2 DEF SweepInv, OnePass, BatchIsCurrent, Sweeping, vars, store, sweep, calls
<1>3. CASE MCNext
  BY <1>1, <1>3, SweepTickKeepsBatch, SweepNextKeepsBatch, ResumersKeepBatch,
     OthersKeepBatch DEF SweepInv, MCNext, Next
<1> QED
  BY <1>2, <1>3

(* A resumer that takes up a task takes the state of its present parking.  *)
LEMMA StepEntersStored ==
  ASSUME SweepInv, MCNext, NEW r \in Resumer, on'[r] # on[r],
         on'[r] \notin moved \cup {NoTask}
  PROVE  with'[r] = park'[on'[r]] /\ park' = park
<1> USE DEF SweepInv, IInv, TypeOK, Enter
<1>1. ASSUME NEW p \in Pass, SweepTick(p)
      PROVE  with'[r] = park'[on'[r]] /\ park' = park
  BY <1>1 DEF SweepTick, calls, Resumer
<1>2. ASSUME NEW p \in Pass, SweepNext(p)
      PROVE  with'[r] = park'[on'[r]] /\ park' = park
  <2>1. PICK t \in batch[p] :
          IF Claimable(t) THEN Enter(p, t, snap[p][t]) ELSE UNCHANGED <<claimed, age, calls>>
    BY <1>2 DEF SweepNext
  <2>2. r = p /\ on'[r] = t /\ with'[r] = snap[p][t]
    BY <2>1 DEF calls, Resumer
  <2>3. snap[p][t] = park[t]
    BY <2>1, <2>2 DEF BatchIsCurrent
  <2> QED
    BY <1>2, <2>2, <2>3 DEF SweepNext
<1>3. ASSUME NEW w \in Worker, NEW t \in Task, WorkerResume(w, t)
      PROVE  with'[r] = park'[on'[r]] /\ park' = park
  BY <1>3 DEF WorkerResume, Resumer
<1>4. CASE ~ \/ \E p \in Pass : SweepTick(p) \/ SweepNext(p)
             \/ \E w \in Worker, t \in Task : WorkerResume(w, t)
  <2>1. on'[r] \in {on[r], NoTask}
    BY <1>4 DEF MCNext, Next, Dispatch, DispatchSettles, DispatchParks, FallDue, Repark,
                Settle, RemoveRow, Tick, Crash, Restart, Leave, calls
  <2> QED
    BY <2>1
<1> QED
  BY <1>1, <1>2, <1>3, <1>4

(* A pass that takes up a task finds it due.                               *)
LEMMA StepWakesDue ==
  ASSUME SweepInv, MCNext, NEW p \in Pass, on'[p] # on[p],
         on'[p] \notin moved \cup {NoTask}
  PROVE  due[on'[p]] = "past"
<1> USE DEF SweepInv, IInv, TypeOK, Enter
<1>1. ASSUME NEW q \in Pass, SweepTick(q)
      PROVE  due[on'[p]] = "past"
  BY <1>1 DEF SweepTick, calls, Resumer
<1>2. ASSUME NEW q \in Pass, SweepNext(q)
      PROVE  due[on'[p]] = "past"
  <2>1. PICK t \in batch[q] :
          IF Claimable(t) THEN Enter(q, t, snap[q][t]) ELSE UNCHANGED <<claimed, age, calls>>
    BY <1>2 DEF SweepNext
  <2>2. p = q /\ on'[p] = t
    BY <2>1 DEF calls, Resumer
  <2> QED
    BY <2>1, <2>2 DEF BatchIsCurrent
<1>3. ASSUME NEW w \in Worker, NEW t \in Task, WorkerResume(w, t)
      PROVE  on'[p] = on[p]
  BY <1>3, ConstantsAssumption DEF WorkerResume, Resumer
<1>4. CASE ~ \/ \E q \in Pass : SweepTick(q) \/ SweepNext(q)
             \/ \E w \in Worker, t \in Task : WorkerResume(w, t)
  <2>1. on'[p] \in {on[p], NoTask}
    BY <1>4 DEF MCNext, Next, Dispatch, DispatchSettles, DispatchParks, FallDue, Repark,
                Settle, RemoveRow, Tick, Crash, Restart, Leave, calls, Resumer
  <2> QED
    BY <2>1
<1> QED
  BY <1>1, <1>2, <1>3, <1>4

(* Neither a pass nor an inbox request re-enters a task with the state of  *)
(* an earlier parking, but for rows that an inbox request has taken up     *)
(* while a pass was working through its list (sweepResume).      *)
THEOREM EntersWhatIsParked == MCSpec => EntersStoredPark
<1> DEFINE Enters == \A r \in Resumer : on'[r] # on[r] /\ on'[r] \notin moved \cup {NoTask}
                       => with'[r] = park[on'[r]]
<1>1. MCInit => SweepInv
  BY InitSweepInv
<1>2. SweepInv /\ [MCNext]_<<vars, moved>> => SweepInv'
  BY StepKeepsBatch
<1>3. SweepInv /\ [MCNext]_<<vars, moved>> => [Enters]_vars
  <2> SUFFICES ASSUME SweepInv, MCNext PROVE Enters
    BY DEF vars
  <2> QED
    BY StepEntersStored
<1> HIDE DEF Enters
<1>4. [][Enters]_vars => EntersStoredPark
  BY DEF EntersStoredPark, Enters
<1> QED
  BY <1>1, <1>2, <1>3, <1>4, PTL DEF MCSpec

(* A pass wakes a task that is due at that moment, with the same exception *)
(* (sweepResume and listDueSuspendedTasks).                                *)
THEOREM WokenWhenDue == MCSpec => WakesWhenDue
<1> DEFINE Wakes == \A p \in Pass : on'[p] # on[p] /\ on'[p] \notin moved \cup {NoTask}
                      => due[on'[p]] = "past"
<1>1. MCInit => SweepInv
  BY InitSweepInv
<1>2. SweepInv /\ [MCNext]_<<vars, moved>> => SweepInv'
  BY StepKeepsBatch
<1>3. SweepInv /\ [MCNext]_<<vars, moved>> => [Wakes]_vars
  <2> SUFFICES ASSUME SweepInv, MCNext PROVE Wakes
    BY DEF vars
  <2> QED
    BY StepWakesDue
<1> HIDE DEF Wakes
<1>4. [][Wakes]_vars => WakesWhenDue
  BY DEF WakesWhenDue, Wakes
<1> QED
  BY <1>1, <1>2, <1>3, <1>4, PTL DEF MCSpec
=============================================================================
