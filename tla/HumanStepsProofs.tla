-------------------------- MODULE HumanStepsProofs --------------------------
(***************************************************************************)
(* Proofs about module HumanSteps, for any number of members and agents    *)
(* that a step asks.                                                       *)
(*                                                                         *)
(* The argument: whoever drives the run holds its row, or there is none;   *)
(* and what a driver found suspended, like what the row says is suspended, *)
(* has every member whose child has no result yet.                         *)
(***************************************************************************)
EXTENDS HumanSteps, TLAPS

(* A free row has no driver.                                               *)
FreeIsIdle == runRow = "free" => \A d \in Driver : drive[d] = "off"

(* A member's child ends well or not at all, and its dispatch only ever    *)
(* returns that it is suspended.                                           *)
MembersSuspend ==
  \A b \in Human : child[b] # "failed" /\ outcome[b] \in {"none", "suspended"}

(* Nobody is forgotten: by a driver, by the row, at the end.               *)
DriverKnows ==
  \A d \in Driver, b \in Human :
    drive[d] = "saving" => b \in waits[d] \/ child[b] = "ok"
RowKnows ==
  \A b \in Human : runRow # "none" => b \in rowWaits \/ child[b] = "ok"

IInv ==
  /\ TypeOK /\ RunDrivenOnce /\ FreeIsIdle
  /\ MembersSuspend /\ DriverKnows /\ RowKnows /\ NoAnswerNoProgress

-----------------------------------------------------------------------------
(* At first the trigger fans out, and there is no row.                     *)
LEMMA InitIInv == Init => IInv
<1> SUFFICES ASSUME Init PROVE IInv
  OBVIOUS
<1> USE HumanStepsAssumption DEF Init, Driver, Branch
<1>1. TypeOK
  BY DEF TypeOK
<1>2. RunDrivenOnce /\ FreeIsIdle
  BY DEF RunDrivenOnce, FreeIsIdle
<1>3. MembersSuspend /\ DriverKnows /\ RowKnows /\ NoAnswerNoProgress
  BY DEF MembersSuspend, DriverKnows, RowKnows, NoAnswerNoProgress
<1> QED
  BY <1>1, <1>2, <1>3 DEF IInv

(* What branches and answers do on their own leaves run and row alone, and *)
(* never takes back a member's result.                                     *)
LEMMA OthersKeep ==
  ASSUME IInv,
         \/ \E b \in Branch, r \in {"ok", "failed"} : AgentReturns(b, r)
         \/ \E b \in Human : Ask(b) \/ ChildParks(b) \/ Answer(b) \/ Commit(b) \/ ResumeChild(b)
  PROVE  IInv'
<1> USE HumanStepsAssumption DEF IInv
<1>1. UNCHANGED <<driver, parent>>
  BY DEF AgentReturns, Ask, ChildParks, Answer, Commit, ResumeChild
<1>2. /\ drive' = drive /\ waits' = waits /\ ends' = ends
      /\ run' = run /\ runRow' = runRow /\ rowWaits' = rowWaits
  BY <1>1 DEF driver, parent
<1>3. /\ TypeOK'
      /\ \A b \in Human : child[b] = "ok" => child'[b] = "ok"
      /\ MembersSuspend'
  <2>1. ASSUME NEW b \in Branch, NEW r \in {"ok", "failed"}, AgentReturns(b, r)
        PROVE  <1>3!:
    BY <1>2, <2>1 DEF AgentReturns, reqs, TypeOK, MembersSuspend, Branch
  <2>2. ASSUME NEW b \in Human, Ask(b)
        PROVE  <1>3!:
    BY <1>2, <2>2 DEF Ask, reqs, TypeOK, MembersSuspend, Branch
  <2>3. ASSUME NEW b \in Human, ChildParks(b)
        PROVE  <1>3!:
    BY <1>2, <2>3 DEF ChildParks, reqs, TypeOK, MembersSuspend, Branch
  <2>4. ASSUME NEW b \in Human, Answer(b) \/ Commit(b)
        PROVE  <1>3!:
    BY <1>2, <2>4 DEF Answer, Commit, kids, TypeOK, MembersSuspend, Branch
  <2>5. ASSUME NEW b \in Human, ResumeChild(b)
        PROVE  <1>3!:
    BY <1>2, <2>5 DEF ResumeChild, TypeOK, MembersSuspend, Branch
  <2> QED
    BY <2>1, <2>2, <2>3, <2>4, <2>5
<1>4. RunDrivenOnce' /\ FreeIsIdle'
  BY <1>2 DEF RunDrivenOnce, FreeIsIdle
<1>5. DriverKnows' /\ RowKnows' /\ NoAnswerNoProgress'
  BY <1>2, <1>3 DEF DriverKnows, RowKnows, NoAnswerNoProgress
<1> QED
  BY <1>3, <1>4, <1>5

(* The fan-out is over: the members are all suspended.                     *)
LEMMA FoldKeeps ==
  ASSUME IInv, FoldOutcomes
  PROVE  IInv'
<1> USE HumanStepsAssumption DEF IInv
<1>1. /\ child' = child /\ asked' = asked /\ rows' = rows /\ outcome' = outcome
      /\ answer' = answer /\ found' = found /\ hurried' = hurried
      /\ run' = run /\ runRow' = runRow /\ rowWaits' = rowWaits
      /\ drive[Trigger] = "fanout" /\ Trigger \in Driver
  BY DEF FoldOutcomes, kids, reqs, parent, Driver
<1>2. /\ drive' = [drive EXCEPT ![Trigger] = "saving"]
      /\ waits' = [waits EXCEPT ![Trigger] = {b \in Branch : outcome[b] = "suspended"}]
      /\ ends' \in [Driver -> {"done", "failed"}]
  BY DEF FoldOutcomes, Found, TypeOK
<1>3. \A b \in Human : b \in waits'[Trigger]
  BY <1>1, <1>2 DEF FoldOutcomes, MembersSuspend, TypeOK, Branch
<1>4. TypeOK'
  BY <1>1, <1>2 DEF TypeOK
<1>5. RunDrivenOnce' /\ FreeIsIdle'
  BY <1>1, <1>2 DEF RunDrivenOnce, FreeIsIdle, TypeOK
<1>6. DriverKnows'
  BY <1>1, <1>2, <1>3 DEF DriverKnows, TypeOK
<1>7. MembersSuspend' /\ RowKnows' /\ NoAnswerNoProgress'
  BY <1>1 DEF MembersSuspend, RowKnows, NoAnswerNoProgress
<1> QED
  BY <1>4, <1>5, <1>6, <1>7

(* The driver lets go of the run: what it found goes into the row, or the  *)
(* run ends.                                                               *)
LEMMA SavedKeeps ==
  ASSUME IInv, NEW d \in Driver, Saved(d)
  PROVE  IInv'
<1> USE HumanStepsAssumption DEF IInv
<1>1. /\ child' = child /\ asked' = asked /\ rows' = rows /\ outcome' = outcome
      /\ found' = found /\ hurried' = hurried /\ waits' = waits /\ ends' = ends
      /\ drive[d] = "saving" /\ drive' = [drive EXCEPT ![d] = "off"]
  BY DEF Saved, kids
<1>2. \/ /\ waits[d] # {} /\ run' = "suspended" /\ runRow' = "free" /\ rowWaits' = waits[d]
      \/ /\ waits[d] = {} /\ run' = ends[d] /\ runRow' = "none" /\ rowWaits' = {}
  BY DEF Saved
<1>3. \A b \in Human : b \in waits[d] \/ child[b] = "ok"
  BY <1>1 DEF DriverKnows
<1>4. \A e \in Driver : drive'[e] = "off"
  BY <1>1 DEF RunDrivenOnce, TypeOK
<1>5. TypeOK'
  <2>1. answer' \in [Human -> {"none", "committing", "committed", "resumed", "over"}]
    BY DEF Saved, TypeOK
  <2> QED
    BY <1>1, <1>2, <2>1 DEF TypeOK
<1>6. RunDrivenOnce' /\ FreeIsIdle' /\ DriverKnows'
  BY <1>4 DEF RunDrivenOnce, FreeIsIdle, DriverKnows
<1>7. MembersSuspend' /\ RowKnows' /\ NoAnswerNoProgress'
  BY <1>1, <1>2, <1>3 DEF MembersSuspend, RowKnows, NoAnswerNoProgress
<1> QED
  BY <1>5, <1>6, <1>7

(* Who wins the row's claim looks the children up again.                   *)
LEMMA ResumeParentKeeps ==
  ASSUME IInv, NEW b \in Human, ResumeParent(b)
  PROVE  IInv'
<1> USE HumanStepsAssumption DEF IInv
<1>1. /\ child' = child /\ asked' = asked /\ rows' = rows /\ outcome' = outcome
      /\ found' = found /\ hurried' = hurried /\ run' = run /\ rowWaits' = rowWaits
      /\ b \in Driver
  BY DEF ResumeParent, kids, Driver
<1>2. CASE ~Claimable
  <2>1. /\ drive' = drive /\ waits' = waits /\ ends' = ends /\ runRow' = runRow
        /\ answer' = [answer EXCEPT ![b] = "over"]
    BY <1>2 DEF ResumeParent, driver
  <2>2. TypeOK'
    BY <1>1, <2>1 DEF TypeOK
  <2> QED
    BY <1>1, <2>1, <2>2 DEF RunDrivenOnce, FreeIsIdle, MembersSuspend, DriverKnows,
                            RowKnows, NoAnswerNoProgress
<1>3. CASE Claimable
  <2>1. /\ runRow = "free" /\ runRow' = "claimed" /\ answer' = answer
        /\ drive' = [drive EXCEPT ![b] = "saving"]
        /\ waits' = [waits EXCEPT ![b] = StillWaiting]
        /\ ends' \in [Driver -> {"done", "failed"}]
    BY <1>1, <1>3 DEF ResumeParent, Claimable, Found, TypeOK
  <2>2. \A e \in Driver : drive[e] = "off"
    BY <2>1 DEF FreeIsIdle
  <2>3. StillWaiting \in SUBSET Branch
    BY DEF StillWaiting, TypeOK
  <2>4. \A c \in Human : c \in StillWaiting \/ child[c] = "ok"
    BY <2>1 DEF StillWaiting, RowKnows, MembersSuspend, TypeOK, Branch
  <2>5. TypeOK'
    BY <1>1, <2>1, <2>3 DEF TypeOK
  <2>6. RunDrivenOnce' /\ FreeIsIdle'
    BY <1>1, <2>1, <2>2 DEF RunDrivenOnce, FreeIsIdle, TypeOK
  <2>7. DriverKnows'
    BY <1>1, <2>1, <2>2, <2>4 DEF DriverKnows, TypeOK
  <2>8. MembersSuspend' /\ RowKnows' /\ NoAnswerNoProgress'
    BY <1>1, <2>1 DEF MembersSuspend, RowKnows, NoAnswerNoProgress
  <2> QED
    BY <2>5, <2>6, <2>7, <2>8
<1> QED
  BY <1>2, <1>3

(* Every step keeps the run in one driver's hands and its members known.   *)
LEMMA NextKeeps == IInv /\ [Next]_vars => IInv'
<1> SUFFICES ASSUME IInv, [Next]_vars PROVE IInv'
  OBVIOUS
<1>1. CASE UNCHANGED vars
  BY <1>1 DEF vars, kids, reqs, driver, parent, IInv, TypeOK, RunDrivenOnce,
     FreeIsIdle, MembersSuspend, DriverKnows, RowKnows, NoAnswerNoProgress
<1>2. CASE Next
  BY <1>2, OthersKeep, FoldKeeps, SavedKeeps, ResumeParentKeeps DEF Next
<1> QED
  BY <1>1, <1>2

-----------------------------------------------------------------------------
(* The invariant on which the theorems rest.                               *)
THEOREM Known == Spec => []IInv
BY InitIInv, NextKeeps, PTL DEF Spec

(* Every state is one the types allow.                                     *)
THEOREM TypeCorrect == Spec => []TypeOK
<1>1. IInv => TypeOK
  BY DEF IInv
<1> QED
  BY <1>1, Known, PTL

(* However many answers arrive at once, one of them drives the run         *)
(* (resumeParent's claim and the parking that frees the row).              *)
THEOREM OneDriver == Spec => []RunDrivenOnce
<1>1. IInv => RunDrivenOnce
  BY DEF IInv
<1> QED
  BY <1>1, Known, PTL

(* The run does not end before every member's answer is its child's        *)
(* result (refreshSuspendedStepRecord).                                    *)
THEOREM MembersDecide == Spec => []NoAnswerNoProgress
<1>1. IInv => NoAnswerNoProgress
  BY DEF IInv
<1> QED
  BY <1>1, Known, PTL

-----------------------------------------------------------------------------
(* The run's row is a lease                                                *)

(* The row tells who drives: a request that claimed it, or the trigger     *)
(* before there is one.                                                    *)
RowInHand ==
  /\ \A b \in Human : drive[b] # "off" => runRow = "claimed"
  /\ drive[Trigger] # "off" => runRow = "none"
  /\ runRow = "claimed" => \E b \in Human : drive[b] # "off"

LInv == IInv /\ RowInHand

(* Nobody is at the row when the run starts.                               *)
LEMMA InitLInv == Init => LInv
<1>1. Init => RowInHand
  BY HumanStepsAssumption DEF Init, RowInHand, Driver, Branch
<1> QED
  BY <1>1, InitIInv DEF LInv

(* Claims are made and given back by those who drive.                      *)
LEMMA NextKeepsRow == LInv /\ [Next]_vars => RowInHand'
<1> SUFFICES ASSUME LInv, [Next]_vars PROVE RowInHand'
  OBVIOUS
<1> USE HumanStepsAssumption DEF LInv
<1>0. /\ drive \in [Driver -> {"off", "fanout", "saving"}] /\ Trigger \in Driver
      /\ Trigger \notin Human /\ \A b \in Human : b \in Driver
  BY DEF IInv, TypeOK, Driver, Branch
<1>1. CASE UNCHANGED <<drive, runRow>>
  BY <1>1 DEF RowInHand
<1>2. CASE FoldOutcomes
  <2>1. /\ drive' = [drive EXCEPT ![Trigger] = "saving"] /\ runRow' = runRow
        /\ drive[Trigger] = "fanout"
    BY <1>2 DEF FoldOutcomes, Found, parent
  <2> QED
    BY <1>0, <2>1 DEF RowInHand
<1>3. ASSUME NEW d \in Driver, Saved(d)
      PROVE  RowInHand'
  <2>1. /\ drive[d] # "off" /\ drive' = [drive EXCEPT ![d] = "off"]
        /\ runRow' \in {"free", "none"}
    BY <1>3 DEF Saved
  <2>2. \A e \in Driver : drive'[e] = "off"
    BY <1>0, <2>1 DEF IInv, RunDrivenOnce
  <2> QED
    BY <1>0, <2>1, <2>2 DEF RowInHand
<1>4. ASSUME NEW b \in Human, ResumeParent(b)
      PROVE  RowInHand'
  <2>1. CASE ~Claimable
    BY <1>1, <1>4, <2>1 DEF ResumeParent, driver
  <2>2. CASE Claimable
    <3>1. /\ runRow = "free" /\ runRow' = "claimed"
          /\ drive' = [drive EXCEPT ![b] = "saving"]
      BY <1>4, <2>2 DEF ResumeParent, Claimable, Found
    <3>2. drive[Trigger] = "off"
      BY <1>0, <3>1 DEF RowInHand
    <3> QED
      BY <1>0, <3>1, <3>2 DEF RowInHand
  <2> QED
    BY <2>1, <2>2
<1>5. CASE \/ UNCHANGED vars
           \/ \E b \in Branch, r \in {"ok", "failed"} : AgentReturns(b, r)
           \/ \E b \in Human : Ask(b) \/ ChildParks(b) \/ Answer(b) \/ Commit(b)
                               \/ ResumeChild(b)
  BY <1>1, <1>5 DEF vars, driver, parent, AgentReturns, Ask, ChildParks, Answer, Commit,
     ResumeChild
<1> QED
  BY <1>2, <1>3, <1>4, <1>5 DEF Next

(* What leaves the drivers and the row alone leaves the lease alone.       *)
LEMMA LeaseStutters ==
  ASSUME UNCHANGED <<drive, runRow>>
  PROVE  UNCHANGED RunLease!vars
<1>1. RowHolder' = RowHolder
  BY DEF RowHolder
<1> QED
  BY <1>1 DEF RunLease!vars

(* A request that drives is the holder.                                    *)
LEMMA DriverHolds ==
  ASSUME LInv, NEW b \in Human, drive[b] # "off"
  PROVE  RowHolder = b
<1>1. \A c \in Human : drive[c] # "off" => c = b
  BY DEF LInv, IInv, RunDrivenOnce, Driver
<1>2. runRow = "claimed"
  BY DEF LInv, RowInHand
<1> QED
  BY <1>1, <1>2 DEF RowHolder

(* The first parking makes the row, and later ones hand it back; the end   *)
(* of the run removes it.                                                  *)
LEMMA SavedMaps ==
  ASSUME LInv, LInv', NEW d \in Driver, Saved(d)
  PROVE  RunLease!Next \/ UNCHANGED RunLease!vars
<1>1. drive[d] # "off" /\ runRow' \in {"free", "none"} /\ RowHolder' = "nobody"
  BY DEF Saved, RowHolder
<1>2. CASE d = Trigger
  <2>1. runRow = "none" /\ RowHolder = "nobody"
    BY <1>1, <1>2 DEF LInv, RowInHand, RowHolder
  <2>2. CASE runRow' = "free"
    <3>1. RunLease!Enqueue(Trigger)
      BY <1>1, <2>1, <2>2 DEF RunLease!Enqueue
    <3> QED
      BY <3>1 DEF RunLease!Next
  <2>3. CASE runRow' = "none"
    BY <1>1, <2>1, <2>3 DEF RunLease!vars
  <2> QED
    BY <1>1, <2>2, <2>3
<1>3. CASE d \in Human
  <2>1. runRow = "claimed" /\ RowHolder = d
    BY <1>1, <1>3, DriverHolds DEF LInv, RowInHand
  <2>2. CASE runRow' = "free"
    <3>1. RunLease!Requeue(d, Trigger)
      BY <1>1, <2>1, <2>2 DEF RunLease!Requeue
    <3> QED
      BY <1>3, <3>1 DEF RunLease!Next
  <2>3. CASE runRow' = "none"
    <3>1. RunLease!Finish(d, Trigger)
      BY <1>1, <2>1, <2>3 DEF RunLease!Finish
    <3> QED
      BY <1>3, <3>1 DEF RunLease!Next
  <2> QED
    BY <1>1, <2>2, <2>3
<1> QED
  BY <1>2, <1>3 DEF Driver

(* A request acquires the free row, or leaves it alone.                    *)
LEMMA ResumeParentMaps ==
  ASSUME LInv, LInv', NEW b \in Human, ResumeParent(b)
  PROVE  RunLease!Next \/ UNCHANGED RunLease!vars
<1>1. CASE ~Claimable
  BY <1>1, LeaseStutters DEF ResumeParent, driver
<1>2. CASE Claimable
  <2>1. runRow = "free" /\ runRow' = "claimed" /\ RowHolder = "nobody"
    BY <1>2 DEF ResumeParent, Claimable, RowHolder
  <2>2. drive' = [drive EXCEPT ![b] = "saving"]
    BY <1>2 DEF ResumeParent, Found
  <2>3. drive'[b] # "off"
    BY <2>2 DEF LInv, IInv, TypeOK, Driver
  <2>4. RowHolder' = b
    <3>1. \A c \in Human : drive'[c] # "off" => c = b
      BY <2>3 DEF LInv, IInv, RunDrivenOnce, Driver
    <3> QED
      BY <2>1, <2>3, <3>1 DEF RowHolder
  <2>5. RunLease!Acquire(b, Trigger, {})
    BY <2>1, <2>4 DEF RunLease!Acquire
  <2> QED
    BY <2>5 DEF RunLease!Next
<1> QED
  BY <1>1, <1>2

(* The row of a run that waits for members is a lease: it belongs to the   *)
(* one request that claimed it until that hands it back or ends the run    *)
(* (claimSuspendedTask, parkSuspended and removeSuspendedTask around       *)
(* resumeParent).                                                          *)
THEOREM RowLease == Spec => RunRowIsLease
<1>1. Init => RunLease!Init
  BY DEF Init, RowHolder, RunLease!Init
<1>2. LInv /\ LInv' /\ [Next]_vars => [RunLease!Next]_(RunLease!vars)
  <2> SUFFICES ASSUME LInv, LInv', [Next]_vars
               PROVE  RunLease!Next \/ UNCHANGED RunLease!vars
    OBVIOUS
  <2>1. CASE FoldOutcomes
    <3>1. runRow = "none" /\ runRow' = runRow
      BY <2>1 DEF FoldOutcomes, parent, LInv, RowInHand
    <3>2. RowHolder = "nobody" /\ RowHolder' = "nobody"
      BY <3>1 DEF RowHolder
    <3> QED
      BY <3>1, <3>2 DEF RunLease!vars
  <2>2. CASE \/ UNCHANGED vars
             \/ \E b \in Branch, r \in {"ok", "failed"} : AgentReturns(b, r)
             \/ \E b \in Human : Ask(b) \/ ChildParks(b) \/ Answer(b) \/ Commit(b)
                                 \/ ResumeChild(b)
    BY <2>2, LeaseStutters DEF vars, driver, parent, AgentReturns, Ask, ChildParks,
       Answer, Commit, ResumeChild
  <2> QED
    BY <2>1, <2>2, SavedMaps, ResumeParentMaps DEF Next
<1>3. Spec => []LInv
  <2>1. LInv /\ [Next]_vars => LInv'
    BY NextKeeps, NextKeepsRow DEF LInv
  <2> QED
    BY <2>1, InitLInv, PTL DEF Spec
<1> QED
  BY <1>1, <1>2, <1>3, PTL DEF Spec, RunRowIsLease, RunLease!Spec
=============================================================================
