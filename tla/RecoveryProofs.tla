--------------------------- MODULE RecoveryProofs ---------------------------
(***************************************************************************)
(* Proofs about module Recovery, for any number of steps and crashes.      *)
(*                                                                         *)
(* A run does not lose its row because whoever leaves it leaves one: Kept  *)
(* says so of every moment at which all drivers are idle or about to       *)
(* return, and not only of the moments after boot, since what boot leaves  *)
(* alone must be in a row already.  A step is not dispatched too often     *)
(* because in each life of the host two things at most can dispatch it,    *)
(* the row (or its driver) and boot, and each passes it only once: Budget  *)
(* adds what they may still do to what was done.                           *)
(***************************************************************************)
EXTENDS Recovery, TLAPS

(* A state that waits for a child has a step to do.                        *)
Sane(s) == s \in State /\ (s.kid # NoChild => s.done < Steps)

SaneStates ==
  /\ \A d \in Driver : Sane(drive[d].state)
  /\ Sane(file.state) /\ Sane(row.state)

Stages ==
  \A d \in Driver :
    /\ drive[d].at = "step" => drive[d].state.done < Steps /\ drive[d].state.kid = NoChild
    /\ drive[d].at = "work" => drive[d].state.kid # NoChild

(* Who drives when: the trigger alone and before the first crash, the sweep*)
(* with a claimed row, boot once it has looked at the file.                *)
Roles ==
  /\ drive["trigger"].at # "off" =>
       booted /\ row.at = "none" /\ drive["sweep"].at = "off" /\ drive["boot"].at = "off"
  /\ drive["sweep"].at # "off" => row.at = "claimed"
  /\ drive["boot"].at # "off" => booted
  /\ ~up => \A d \in Driver : drive[d].at = "off"

Idle == \A d \in Driver : drive[d].at \in {"off", "return"}

Kept ==
  Idle /\ file.status = "running" /\ ~orphan /\ ((up /\ booted) \/ ParkedIndefinitely)
    => row.at # "none" /\ (drive["sweep"].at # "return" \/ ~loaded)

(* The steps that a state has put behind it.                               *)
Passed(s) == IF s.kid = NoChild THEN s.done ELSE s.done + 1

May(s, k) == IF Passed(s) < k THEN 1 ELSE 0

DriverMay(d, k) ==
  IF drive[d].at \in {"off", "fail", "return"} THEN 0 ELSE May(drive[d].state, k)

RowMay(k) ==
  IF drive["trigger"].at # "off" THEN DriverMay("trigger", k)
  ELSE IF drive["sweep"].at # "off" THEN DriverMay("sweep", k)
  ELSE IF row.at # "none" THEN May(row.state, k) ELSE 0

BootMay(k) == IF ~up \/ ~booted THEN 1 ELSE DriverMay("boot", k)

Budget == \A k \in 1..Steps : ran[k] + RowMay(k) + BootMay(k) <= 1 + 2 * crashes

Structure == TypeOK /\ SaneStates /\ Stages /\ Roles

IInv == Structure /\ Kept /\ Budget

(* The inductive invariant implies the properties.                         *)
LEMMA IInvGives == IInv => TypeOK /\ NotStranded /\ RerunsAreBounded
<1> SUFFICES ASSUME IInv PROVE TypeOK /\ NotStranded /\ RerunsAreBounded
  OBVIOUS
<1>1. TypeOK
  BY DEF IInv, Structure
<1>2. NotStranded
  BY DEF IInv, Kept, Idle, NotStranded, Driven
<1>3. RerunsAreBounded
  <2> SUFFICES ASSUME NEW k \in 1..Steps PROVE ran[k] <= 1 + 2 * crashes
    BY DEF RerunsAreBounded
  <2>1. ran[k] \in Nat /\ crashes \in Nat
    BY <1>1 DEF TypeOK
  <2>2. RowMay(k) \in {0, 1} /\ BootMay(k) \in {0, 1}
    BY DEF RowMay, BootMay, DriverMay, May
  <2>3. ran[k] + RowMay(k) + BootMay(k) <= 1 + 2 * crashes
    BY DEF IInv, Budget
  <2> QED
    BY <2>1, <2>2, <2>3
<1> QED
  BY <1>1, <1>2, <1>3

(* A run starts with its trigger, which will dispatch each step once.      *)
LEMMA InitIInv == Init => IInv
<1> SUFFICES ASSUME Init PROVE IInv
  OBVIOUS
<1> USE RecoveryAssumption
<1>1. Fresh \in State /\ Fresh.kid = NoChild /\ Fresh.done = 0
  BY DEF Fresh, State
<1>2. drive["trigger"] = [at |-> "save", state |-> Fresh] /\ drive["sweep"] = Off
      /\ drive["boot"] = Off
  BY DEF Init, Driver, Off
<1>3. TypeOK
  BY <1>1 DEF Init, TypeOK, Driver, Off, NoRow
<1>4. SaneStates /\ Stages /\ Roles /\ Kept
  BY <1>1, <1>2 DEF Init, SaneStates, Sane, Stages, Roles, Kept, Idle, Driver, Off, NoRow
<1>5. Budget
  BY <1>1, <1>2 DEF Init, Budget, RowMay, BootMay, DriverMay, May, Off, Passed
<1> QED
  BY <1>3, <1>4, <1>5 DEF IInv, Structure

-----------------------------------------------------------------------------
(* What timers, answers and the sweep do to a run that waits               *)

(* The row is claimed and the run driven on ...                            *)
Reenters ==
  /\ up /\ row.at = "free" /\ Reenter
  /\ UNCHANGED <<world, wait, file, ran, orphan>>

(* ... or nothing but its children changes.                                *)
OnlyChildren == UNCHANGED <<world, wait, drive, file, row, ran, orphan>>

(* The sweep, a child's timer and each step of a member's answer do one    *)
(* of the two, and keep the types of what else they change.                *)
LEMMA WaitingStep ==
  ASSUME TypeOK,
         \/ Resume
         \/ \E i \in ChildId : TimerFires(i) \/ Answer(i) \/ ResumeChild(i) \/ ResumeParent(i)
  PROVE  /\ Reenters \/ OnlyChildren
         /\ over' \in SUBSET ChildId /\ missed' \in BOOLEAN
         /\ answer' \in [ChildId -> {"none", "child", "parent", "past"}]
<1>1. CASE Resume
  BY <1>1 DEF Resume, Reenters, TypeOK, child, history
<1>2. ASSUME NEW i \in ChildId, TimerFires(i) \/ Answer(i) \/ ResumeChild(i)
      PROVE  /\ OnlyChildren
             /\ over' \in SUBSET ChildId /\ missed' \in BOOLEAN
             /\ answer' \in [ChildId -> {"none", "child", "parent", "past"}]
  BY <1>2 DEF TimerFires, Answer, ResumeChild, OnlyChildren, TypeOK, history
<1>3. ASSUME NEW i \in ChildId, ResumeParent(i)
      PROVE  /\ Reenters \/ OnlyChildren
             /\ over' \in SUBSET ChildId /\ missed' \in BOOLEAN
             /\ answer' \in [ChildId -> {"none", "child", "parent", "past"}]
  <2>1. answer' = [answer EXCEPT ![i] = "past"] /\ over' = over
    BY <1>3 DEF ResumeParent
  <2>2. missed' \in BOOLEAN /\ (Reenters \/ OnlyChildren)
    BY <1>3 DEF ResumeParent, Reenters, OnlyChildren, TypeOK
  <2> QED
    BY <2>1, <2>2 DEF TypeOK
<1> QED
  BY <1>1, <1>2, <1>3

-----------------------------------------------------------------------------
(* Structure                                                               *)

(* What a resumption makes of a state is a state that has put the same     *)
(* steps behind it.                                                        *)
LEMMA RefreshedFits ==
  ASSUME TypeOK, NEW s, Sane(s)
  PROVE  Sane(Refreshed(s)) /\ Passed(Refreshed(s)) = Passed(s)
<1> USE RecoveryAssumption
<1>1. s.done \in 0..Steps /\ s.kid \in ChildId \cup {NoChild}
  BY DEF Sane, State
<1>2. CASE s.kid \in over
  <2>1. s.kid # NoChild
    BY <1>2 DEF TypeOK
  <2>2. s.done + 1 \in 0..Steps
    BY <1>1, <2>1 DEF Sane
  <2> QED
    BY <1>1, <1>2, <2>1, <2>2 DEF Sane, State, Refreshed, Passed
<1>3. CASE s.kid \notin over
  BY <1>3 DEF Refreshed
<1> QED
  BY <1>2, <1>3

(* A driver that goes on keeps its place among the drivers.                *)
LEMMA GoesOn ==
  ASSUME Structure, NEW d \in Driver, up, drive[d].at # "off", UNCHANGED <<world, file, row>>,
         NEW stage \in {"save", "step", "work", "park", "end", "fail", "return"},
         NEW s, Sane(s), Goes(d, stage, s),
         stage = "step" => s.done < Steps /\ s.kid = NoChild,
         stage = "work" => s.kid # NoChild
  PROVE  /\ drive' \in [Driver ->
              [at : {"off", "save", "step", "work", "park", "end", "fail", "return"}, state : State]]
         /\ SaneStates' /\ Stages' /\ Roles'
<1>1. drive' \in [Driver ->
         [at : {"off", "save", "step", "work", "park", "end", "fail", "return"}, state : State]]
  BY DEF Structure, TypeOK, Goes, Sane
<1>2. \A e \in Driver : drive'[e] = IF e = d THEN [at |-> stage, state |-> s] ELSE drive[e]
  BY DEF Structure, TypeOK, Goes
<1>3. SaneStates' /\ Stages'
  BY <1>2 DEF Structure, SaneStates, Stages, Sane
<1>4. Roles'
  BY <1>2 DEF Structure, Roles, Driver, world
<1> QED
  BY <1>1, <1>3, <1>4

(* Every step keeps the types, and the drivers in their roles.             *)
LEMMA StructureStep ==
  ASSUME Structure, [Next]_vars
  PROVE  Structure'
<1> USE RecoveryAssumption DEF Structure
<1>0. ASSUME NEW d \in Driver, drive[d].at # "off"
      PROVE  Sane(drive[d].state) /\ drive[d].state.done \in 0..Steps
  BY DEF SaneStates, Sane, State
<1>1. ASSUME NEW d \in Driver, Save(d) PROVE Structure'
  <2> DEFINE s == drive[d].state
  <2>1. Sane(s) /\ s \in State /\ drive[d].at = "save" /\ up
    BY <1>1 DEF Save, At, SaneStates, Sane
  <2>2. \E stage \in {"park", "end", "step"} :
          Goes(d, stage, s) /\ (stage = "step" => s.done < Steps /\ s.kid = NoChild)
    BY <1>1, <2>1 DEF Save, Sane, State
  <2>3. \A e \in Driver : drive'[e].state = drive[e].state
    BY <2>2 DEF Goes, TypeOK
  <2>4. PICK stage \in {"park", "end", "step"} :
          Goes(d, stage, s) /\ (stage = "step" => s.done < Steps /\ s.kid = NoChild)
    BY <2>2
  <2>5. \A e \in Driver : drive'[e] = IF e = d THEN [at |-> stage, state |-> s] ELSE drive[e]
    BY <2>4 DEF TypeOK, Goes
  <2>6. file' = [status |-> "running", state |-> s] /\ UNCHANGED <<world, child, row, ran, history>>
    BY <1>1 DEF Save
  <2>7. TypeOK'
    <3>1. drive' \in [Driver ->
            [at : {"off", "save", "step", "work", "park", "end", "fail", "return"}, state : State]]
      BY <2>1, <2>4 DEF TypeOK, Goes
    <3> QED
      BY <2>1, <2>6, <3>1 DEF TypeOK, world, child, history
  <2>8. SaneStates'
    BY <2>1, <2>3, <2>6 DEF SaneStates, Sane
  <2>9. Stages'
    BY <2>4, <2>5 DEF Stages
  <2>10. Roles'
    BY <2>1, <2>5, <2>6 DEF Roles, Driver, world
  <2> QED
    BY <2>7, <2>8, <2>9, <2>10
<1>2. ASSUME NEW d \in Driver, DispatchStep(d) PROVE Structure'
  <2> DEFINE s == drive[d].state
             new == CHOOSE i \in ChildId : i \notin Remembered
             t == [s EXCEPT !.kid = new]
  <2>1. new \in ChildId
    BY <1>2 DEF DispatchStep
  <2>2. drive[d].at = "step" /\ up /\ s \in State /\ s.done < Steps /\ Goes(d, "work", t)
    BY <1>2 DEF DispatchStep, At, Stages, SaneStates, Sane
  <2>3. Sane(t) /\ t.kid # NoChild
    BY <2>1, <2>2 DEF Sane, State
  <2>4. UNCHANGED <<world, file, row, history>>
    BY <1>2 DEF DispatchStep
  <2> HIDE DEF t, new
  <2>5. /\ drive' \in [Driver ->
              [at : {"off", "save", "step", "work", "park", "end", "fail", "return"}, state : State]]
        /\ SaneStates' /\ Stages' /\ Roles'
    BY <2>2, <2>3, <2>4, GoesOn
  <2>6. wait' \in [ChildId -> {"nothing", "timer", "human"}] /\ over' \in SUBSET ChildId
        /\ answer' \in [ChildId -> {"none", "child", "parent", "past"}]
        /\ ran' \in [1..Steps -> Nat]
    <3>1. /\ wait' = [i \in ChildId |-> IF i \in Remembered THEN wait[i] ELSE "nothing"]
          /\ over' = over \cap Remembered
          /\ answer' = [i \in ChildId |-> IF i \in Remembered THEN answer[i] ELSE "none"]
      BY <1>2 DEF DispatchStep
    <3>2. ran' = [ran EXCEPT ![s.done + 1] = @ + 1] /\ s.done + 1 \in 1..Steps
      BY <1>2, <2>2 DEF DispatchStep, State
    <3>3. wait' \in [ChildId -> {"nothing", "timer", "human"}] /\ over' \in SUBSET ChildId
          /\ answer' \in [ChildId -> {"none", "child", "parent", "past"}]
      BY <3>1 DEF TypeOK
    <3>4. ran' \in [1..Steps -> Nat]
      BY <3>2 DEF TypeOK
    <3> QED
      BY <3>3, <3>4
  <2> QED
    BY <2>4, <2>5, <2>6 DEF TypeOK, world, history
<1>3. ASSUME NEW d \in Driver,
             StepOk(d) \/ StepFails(d) \/ \E w \in {"timer", "human"} : StepSuspends(d, w)
      PROVE  Structure'
  <2> DEFINE s == drive[d].state
  <2>1. drive[d].at = "work" /\ up /\ Sane(s) /\ s \in State /\ s.kid # NoChild /\ s.done < Steps
    BY <1>3 DEF StepOk, StepFails, StepSuspends, At, Stages, SaneStates, Sane
  <2>2. PICK stage \in {"save", "fail"}, t \in {[done |-> s.done + 1, kid |-> NoChild],
                                           [s EXCEPT !.kid = NoChild], s} : Goes(d, stage, t)
    BY <1>3 DEF StepOk, StepFails, StepSuspends
  <2>3. Sane(t)
    BY <2>1 DEF Sane, State
  <2>4. UNCHANGED <<world, file, row, history, ran, over, answer>>
    BY <1>3 DEF StepOk, StepFails, StepSuspends, child
  <2>5. wait' \in [ChildId -> {"nothing", "timer", "human"}]
    BY <1>3 DEF StepOk, StepFails, StepSuspends, child, TypeOK
  <2>6. /\ drive' \in [Driver ->
              [at : {"off", "save", "step", "work", "park", "end", "fail", "return"}, state : State]]
        /\ SaneStates' /\ Stages' /\ Roles'
    BY <2>1, <2>2, <2>3, <2>4, GoesOn
  <2> QED
    BY <2>4, <2>5, <2>6 DEF TypeOK, world, history
<1>4. ASSUME NEW d \in Driver, Finish(d) PROVE Structure'
  <2>1. PICK status \in {"done", "failed"} :
          At(d, IF status = "done" THEN "end" ELSE "fail")
          /\ file' = [status |-> status, state |-> drive[d].state]
          /\ Goes(d, "return", drive[d].state)
    BY <1>4 DEF Finish
  <2>2. UNCHANGED <<world, child, row, ran, history>>
    BY <1>4 DEF Finish
  <2>3. up /\ drive[d].at # "off" /\ Sane(drive[d].state) /\ drive[d].state \in State
    BY <2>1 DEF At, SaneStates, Sane
  <2>4. \A e \in Driver :
          drive'[e] = IF e = d THEN [at |-> "return", state |-> drive[d].state] ELSE drive[e]
    BY <2>1 DEF TypeOK, Goes
  <2>5. TypeOK'
    <3>1. drive' \in [Driver ->
            [at : {"off", "save", "step", "work", "park", "end", "fail", "return"}, state : State]]
      BY <2>1, <2>3 DEF TypeOK, Goes
    <3> QED
      BY <2>1, <2>2, <2>3, <3>1 DEF TypeOK, world, child, history
  <2>6. SaneStates' /\ Stages'
    BY <2>1, <2>2, <2>3, <2>4 DEF SaneStates, Stages, Sane
  <2>7. Roles'
    BY <2>2, <2>3, <2>4 DEF Roles, Driver, world
  <2> QED
    BY <2>5, <2>6, <2>7
<1>5. ASSUME NEW d \in Driver, Return(d) \/ Park(d) PROVE Structure'
  <2>1. up /\ drive[d].at # "off" /\ Sane(drive[d].state) /\ Stops(d)
    BY <1>5 DEF Return, Park, At, SaneStates
  <2>2. Off.at = "off" /\ Off.state \in State /\ Sane(Off.state) /\ Off \in
          [at : {"off", "save", "step", "work", "park", "end", "fail", "return"}, state : State]
    BY DEF Off, Fresh, State, Sane
  <2>3. \A e \in Driver : drive'[e] = IF e = d THEN Off ELSE drive[e]
    BY <2>1 DEF Stops, TypeOK
  <2>4. row' \in {row, NoRow, [at |-> "free", state |-> drive[d].state]}
    BY <1>5 DEF Return, Park
  <2>5. Sane(NoRow.state) /\ NoRow.at = "none"
    BY DEF NoRow, Fresh, Sane, State
  <2>6. UNCHANGED <<world, child, file, ran>> /\ orphan' \in BOOLEAN /\ missed' \in BOOLEAN
    BY <1>5 DEF Return, Park, TypeOK
  <2>7. Sane(row'.state) /\ row' \in [at : {"none", "free", "claimed"}, state : State]
    BY <2>1, <2>4, <2>5 DEF SaneStates, Sane, TypeOK, NoRow
  <2>8. TypeOK'
    <3>1. drive' \in [Driver ->
            [at : {"off", "save", "step", "work", "park", "end", "fail", "return"}, state : State]]
      BY <2>1, <2>2 DEF TypeOK, Stops
    <3> QED
      BY <2>6, <2>7, <3>1 DEF TypeOK, world, child
  <2>9. SaneStates' /\ Stages'
    BY <2>2, <2>3, <2>6, <2>7 DEF SaneStates, Stages, Sane
  <2>10. Roles'
    <3>1. d = "trigger" => row' \in {row, [at |-> "free", state |-> drive[d].state]}
          /\ drive["sweep"].at = "off"
      BY <1>5, <2>1 DEF Return, Park, Roles
    <3>2. d = "boot" => row' = row
      BY <1>5 DEF Return, Park
    <3> QED
      BY <2>1, <2>2, <2>3, <2>5, <2>6, <3>1, <3>2 DEF Roles, Driver, world
  <2> QED
    BY <2>8, <2>9, <2>10
<1>6. ASSUME \/ Resume
             \/ \E i \in ChildId :
                  TimerFires(i) \/ Answer(i) \/ ResumeChild(i) \/ ResumeParent(i)
      PROVE  Structure'
  <2>1. /\ Reenters \/ OnlyChildren
        /\ over' \in SUBSET ChildId /\ missed' \in BOOLEAN
        /\ answer' \in [ChildId -> {"none", "child", "parent", "past"}]
    BY <1>6, WaitingStep
  <2>2. CASE OnlyChildren
    <3>1. TypeOK'
      BY <2>1, <2>2 DEF OnlyChildren, TypeOK, world
    <3>2. SaneStates' /\ Stages' /\ Roles'
      BY <2>2 DEF OnlyChildren, SaneStates, Sane, Stages, Roles, world
    <3> QED
      BY <3>1, <3>2
  <2>3. CASE Reenters
    <3> DEFINE s == row.state
    <3>1. row.at = "free" /\ up /\ Sane(s) /\ UNCHANGED <<world, wait, file, ran, orphan>>
      BY <2>3 DEF Reenters, SaneStates
    <3>2. drive["sweep"].at = "off" /\ drive["trigger"].at = "off"
      BY <3>1 DEF Roles
    <3>3. Sane(Refreshed(s))
      BY <3>1, RefreshedFits
    <3>4. PICK stage \in {"save", "return"}, t \in {Refreshed(s), s} : Goes("sweep", stage, t)
      BY <2>3 DEF Reenters, Reenter
    <3>5. Sane(t) /\ t \in State
      BY <3>1, <3>3 DEF Sane
    <3>6. \A e \in Driver :
            drive'[e] = IF e = "sweep" THEN [at |-> stage, state |-> t] ELSE drive[e]
      BY <3>4 DEF TypeOK, Goes
    <3>7. drive' \in [Driver ->
            [at : {"off", "save", "step", "work", "park", "end", "fail", "return"}, state : State]]
      BY <3>4, <3>5 DEF TypeOK, Goes
    <3>8. row' \in [at : {"none", "free", "claimed"}, state : State] /\ row'.state = row.state
          /\ row'.at = "claimed"
      BY <2>3 DEF Reenters, Reenter, TypeOK
    <3>9. TypeOK'
      BY <2>1, <3>1, <3>7, <3>8 DEF TypeOK, world
    <3>10. SaneStates' /\ Stages'
      BY <3>1, <3>5, <3>6, <3>8 DEF SaneStates, Stages, Sane
    <3>11. Roles'
      BY <3>1, <3>2, <3>6, <3>8 DEF Roles, Driver, world
    <3> QED
      BY <3>9, <3>10, <3>11
  <2> QED
    BY <2>1, <2>2, <2>3
<1>7. ASSUME Reclaim PROVE Structure'
  <2>1. row' = [row EXCEPT !.at = "free"] /\ drive["sweep"].at = "off" /\ row.at = "claimed"
        /\ UNCHANGED <<world, child, drive, file, ran, history>>
    BY <1>7 DEF Reclaim
  <2>2. row' \in [at : {"none", "free", "claimed"}, state : State] /\ row'.state = row.state
    BY <2>1 DEF TypeOK
  <2> QED
    BY <2>1, <2>2 DEF TypeOK, SaneStates, Sane, Stages, Roles, world, child, history
<1>8. ASSUME Boot PROVE Structure'
  <2>1. up /\ ~booted /\ booted' = TRUE /\ UNCHANGED <<up, crashes, loaded, child, row, ran, history>>
    BY <1>8 DEF Boot
  <2>2. drive["boot"].at = "off" /\ drive["trigger"].at = "off"
    BY <2>1 DEF Roles
  <2>3. CASE UNCHANGED drive
    <3>1. file' \in [status : {"none", "running", "done", "failed"}, state : State]
          /\ file'.state = file.state
      BY <1>8 DEF Boot, TypeOK
    <3> QED
      BY <2>1, <2>3, <3>1 DEF TypeOK, SaneStates, Sane, Stages, Roles, child, history
  <2>4. CASE Goes("boot", "save", Refreshed(file.state)) /\ UNCHANGED file
    <3>1. Sane(Refreshed(file.state)) /\ Refreshed(file.state) \in State
      BY RefreshedFits DEF Sane, SaneStates
    <3>2. \A e \in Driver :
            drive'[e] = IF e = "boot" THEN [at |-> "save", state |-> Refreshed(file.state)]
                        ELSE drive[e]
      BY <2>4 DEF TypeOK, Goes
    <3>3. drive' \in [Driver ->
            [at : {"off", "save", "step", "work", "park", "end", "fail", "return"}, state : State]]
      BY <2>4, <3>1 DEF TypeOK, Goes
    <3>4. TypeOK'
      BY <2>1, <2>4, <3>3 DEF TypeOK, child, history
    <3>5. SaneStates' /\ Stages'
      BY <2>1, <2>4, <3>1, <3>2 DEF SaneStates, Stages, Sane
    <3>6. Roles'
      BY <2>1, <2>2, <3>2 DEF Roles, Driver
    <3> QED
      BY <3>4, <3>5, <3>6
  <2> QED
    BY <1>8, <2>3, <2>4 DEF Boot
<1>9. ASSUME Crash PROVE Structure'
  <2>1. \A d \in Driver : drive'[d] = Off
    BY <1>9 DEF Crash
  <2>2. Off.at = "off" /\ Sane(Off.state) /\ Off \in
          [at : {"off", "save", "step", "work", "park", "end", "fail", "return"}, state : State]
    BY DEF Off, Fresh, State, Sane
  <2>3. drive' \in [Driver ->
          [at : {"off", "save", "step", "work", "park", "end", "fail", "return"}, state : State]]
    BY <1>9, <2>2 DEF Crash
  <2>4. TypeOK'
    <3>1. orphan' \in BOOLEAN /\ missed' \in BOOLEAN
      BY <1>9 DEF Crash, TypeOK
    <3>2. UNCHANGED <<booted, loaded, wait, over, file, row, ran>>
      BY <1>9 DEF Crash
    <3>3. answer' \in [ChildId -> {"none", "child", "parent", "past"}]
      BY <1>9 DEF Crash
    <3>4. up' = FALSE /\ crashes' = crashes + 1
      BY <1>9 DEF Crash
    <3>5. up' \in BOOLEAN
      BY <3>4, Zenon
    <3> QED
      BY <2>3, <3>1, <3>2, <3>3, <3>4, <3>5 DEF TypeOK
  <2> QED
    BY <1>9, <2>1, <2>2, <2>4 DEF Crash, SaneStates, Sane, Stages, Roles, Driver
<1>10. ASSUME Restart PROVE Structure'
  BY <1>10 DEF Restart, TypeOK, SaneStates, Sane, Stages, Roles, Driver, child, history
<1>11. ASSUME UNCHANGED vars PROVE Structure'
  BY <1>11 DEF vars, world, child, history, TypeOK, SaneStates, Sane, Stages, Roles
<1> QED
  BY <1>1, <1>2, <1>3, <1>4, <1>5, <1>6, <1>7, <1>8, <1>9, <1>10, <1>11
     DEF Next, Drives

-----------------------------------------------------------------------------
(* Kept                                                                    *)

(* A step of a driver that stays at work keeps Kept.                       *)
LEMMA WorkKeeps ==
  ASSUME Structure, NEW d \in Driver, NEW stage \in {"save", "step", "work", "park", "end", "fail"},
         NEW s, Goes(d, stage, s)
  PROVE  Kept'
<1>1. drive'[d].at = stage
  BY DEF Structure, TypeOK, Goes
<1> QED
  BY <1>1 DEF Kept, Idle

(* Every step keeps what the idle drivers have left.                       *)
LEMMA KeptStep ==
  ASSUME Structure, Kept, [Next]_vars
  PROVE  Kept'
<1> USE DEF Structure
<1>1. ASSUME NEW d \in Driver, Save(d) PROVE Kept'
  <2>1. PICK stage \in {"park", "end", "step"} : Goes(d, stage, drive[d].state)
    BY <1>1 DEF Save
  <2> QED
    BY <2>1, WorkKeeps
<1>2. ASSUME NEW d \in Driver, DispatchStep(d) PROVE Kept'
  <2>1. \E s : Goes(d, "work", s)
    BY <1>2 DEF DispatchStep
  <2> QED
    BY <2>1, WorkKeeps
<1>3. ASSUME NEW d \in Driver,
             StepOk(d) \/ StepFails(d) \/ \E w \in {"timer", "human"} : StepSuspends(d, w)
      PROVE  Kept'
  <2>1. \E stage \in {"save", "fail"}, s \in {[done |-> drive[d].state.done + 1, kid |-> NoChild],
           [drive[d].state EXCEPT !.kid = NoChild], drive[d].state} : Goes(d, stage, s)
    BY <1>3 DEF StepOk, StepFails, StepSuspends
  <2> QED
    BY <2>1, WorkKeeps
<1>4. ASSUME NEW d \in Driver, Finish(d) PROVE Kept'
  BY <1>4 DEF Finish, Kept
<1>5. ASSUME NEW d \in Driver, Return(d) PROVE Kept'
  <2>1. drive[d].at = "return" /\ UNCHANGED <<world, child, file>>
    BY <1>5 DEF Return, At
  <2>2. \A e \in Driver : drive'[e] = IF e = d THEN Off ELSE drive[e]
    BY <1>5 DEF Return, Stops, TypeOK
  <2>3. Idle' => Idle
    BY <2>1, <2>2 DEF Idle
  <2>4. drive'["sweep"].at = "return" => drive["sweep"].at = "return"
    BY <2>2 DEF Driver, Off
  <2>5. CASE d # "sweep"
    <3>1. row' = row /\ orphan' = orphan
      BY <1>5, <2>5 DEF Return, TypeOK
    <3> QED
      BY <2>1, <2>3, <2>4, <3>1 DEF Kept, ParkedIndefinitely, world, child
  <2>6. CASE d = "sweep"
    <3>1. ~orphan' => ~orphan /\ (loaded \/ file.status # "running" \/ ~(booted \/ ParkedIndefinitely))
      BY <1>5, <2>6 DEF Return
    <3> QED
      BY <2>1, <2>3, <2>6, <3>1 DEF Kept, ParkedIndefinitely, world, child
  <2> QED
    BY <2>5, <2>6
<1>6. ASSUME NEW d \in Driver, Park(d) PROVE Kept'
  <2>1. \A e \in Driver : drive'[e] = IF e = d THEN Off ELSE drive[e]
    BY <1>6 DEF Park, Stops, TypeOK
  <2>2. drive[d].at # "off" /\ Off.at = "off"
    BY <1>6 DEF Park, At, Off
  <2>3. CASE d = "boot"
    BY <1>6, <2>1, <2>2, <2>3 DEF Park, Kept, Driver
  <2>4. CASE d # "boot"
    <3>1. row'.at = "free"
      BY <1>6, <2>4 DEF Park
    <3>2. drive'["sweep"].at = "off"
      BY <2>1, <2>2, <2>4 DEF Roles, Driver
    <3> QED
      BY <3>1, <3>2 DEF Kept
  <2> QED
    BY <2>3, <2>4
<1>7. ASSUME \/ Resume
             \/ \E i \in ChildId :
                  TimerFires(i) \/ Answer(i) \/ ResumeChild(i) \/ ResumeParent(i)
      PROVE  Kept'
  <2>1. Reenters \/ OnlyChildren
    BY <1>7, WaitingStep
  <2>2. CASE OnlyChildren
    BY <2>2 DEF OnlyChildren, Kept, Idle, ParkedIndefinitely, world
  <2>3. CASE Reenters /\ loaded
    <3>1. "sweep" \in Driver /\ Goes("sweep", "save", Refreshed(row.state))
      BY <2>3 DEF Reenters, Reenter, Driver
    <3> QED
      BY <3>1, WorkKeeps
  <2>4. CASE Reenters /\ ~loaded
    <3>1. row'.at = "claimed" /\ loaded' = loaded
      BY <2>4 DEF Reenters, Reenter, TypeOK, world
    <3> QED
      BY <2>4, <3>1 DEF Kept
  <2> QED
    BY <2>1, <2>2, <2>3, <2>4
<1>8. ASSUME Reclaim PROVE Kept'
  BY <1>8 DEF Reclaim, Kept, Idle, ParkedIndefinitely, world, child, history
<1>9. ASSUME Boot PROVE Kept'
  <2>1. CASE Goes("boot", "save", Refreshed(file.state))
    <3>1. "boot" \in Driver
      BY DEF Driver
    <3> QED
      BY <2>1, <3>1, WorkKeeps
  <2>2. CASE UNCHANGED drive /\ file' = [file EXCEPT !.status = "failed"]
    BY <2>2 DEF Kept, TypeOK
  <2>3. CASE UNCHANGED <<drive, file>> /\ (file.status # "running" \/ ParkedIndefinitely)
    BY <1>9, <2>3 DEF Boot, Kept, Idle, history
  <2> QED
    BY <1>9, <2>1, <2>2, <2>3 DEF Boot
<1>10. ASSUME Crash PROVE Kept'
  <2>1. drive'["sweep"].at = "off" /\ up' = FALSE /\ UNCHANGED <<wait, file, row>>
    BY <1>10 DEF Crash, Driver, Off
  <2>2. orphan' = (orphan \/ (file.status = "running" /\ ParkedIndefinitely /\ row.at = "none"))
    BY <1>10 DEF Crash
  <2> QED
    BY <2>1, <2>2 DEF Kept, ParkedIndefinitely
<1>11. ASSUME Restart PROVE Kept'
  <2>1. drive'["sweep"].at # "return"
    BY <1>11 DEF Restart, Roles, Driver
  <2> QED
    BY <1>11, <2>1 DEF Restart, Kept, Idle, ParkedIndefinitely, child, history
<1>12. ASSUME UNCHANGED vars PROVE Kept'
  BY <1>12 DEF vars, world, child, history, Kept, Idle, ParkedIndefinitely
<1> QED
  BY <1>1, <1>2, <1>3, <1>4, <1>5, <1>6, <1>7, <1>8, <1>9, <1>10, <1>11, <1>12
     DEF Next, Drives

-----------------------------------------------------------------------------
(* Budget                                                                  *)

(* When one driver goes on or stops, what may still happen changes as much *)
(* as what it may do.                                                      *)
LEMMA OneMoves ==
  ASSUME Structure, NEW d \in Driver, up, drive[d].at # "off",
         UNCHANGED <<up, booted, row>>,
         NEW r, r.at # "off", drive' = [drive EXCEPT ![d] = r],
         NEW k \in 1..Steps, NEW n \in {0, 1},
         n + (IF r.at \in {"fail", "return"} THEN 0 ELSE May(r.state, k)) <= DriverMay(d, k)
  PROVE  n + RowMay(k)' + BootMay(k)' <= RowMay(k) + BootMay(k)
<1>1. \A e \in Driver : drive'[e] = IF e = d THEN r ELSE drive[e]
  BY DEF Structure, TypeOK
<1>2. \A e \in Driver : e # d => DriverMay(e, k)' = DriverMay(e, k)
  BY <1>1 DEF DriverMay, May, Passed
<1>3. n + DriverMay(d, k)' <= DriverMay(d, k)
  BY <1>1 DEF DriverMay, May, Passed
<1>4. \A e \in Driver : DriverMay(e, k) \in {0, 1} /\ DriverMay(e, k)' \in {0, 1}
  BY DEF DriverMay, May
<1>5. May(row.state, k)' = May(row.state, k) /\ May(row.state, k) \in {0, 1}
  BY DEF May, Passed
<1>6. BootMay(k) \in {0, 1} /\ BootMay(k)' \in {0, 1} /\ RowMay(k) \in {0, 1} /\ RowMay(k)' \in {0, 1}
  BY <1>4, <1>5 DEF BootMay, RowMay, Driver
<1>7. CASE d = "trigger"
  <2>1. BootMay(k)' = BootMay(k)
    BY <1>2, <1>7 DEF BootMay, Driver
  <2>2. RowMay(k) = DriverMay(d, k) /\ RowMay(k)' = DriverMay(d, k)'
    BY <1>1, <1>7 DEF RowMay
  <2> QED
    BY <1>3, <1>4, <1>6, <2>1, <2>2
<1>8. CASE d = "sweep"
  <2>1. BootMay(k)' = BootMay(k)
    BY <1>2, <1>8 DEF BootMay, Driver
  <2>2. drive["trigger"].at = "off" /\ drive'["trigger"].at = "off"
    BY <1>1, <1>8 DEF Structure, Roles, Driver
  <2>3. RowMay(k) = DriverMay(d, k) /\ RowMay(k)' = DriverMay(d, k)'
    BY <1>1, <1>8, <2>2 DEF RowMay
  <2> QED
    BY <1>3, <1>4, <1>6, <2>1, <2>3
<1>9. CASE d = "boot"
  <2>1. drive'["sweep"] = drive["sweep"] /\ drive'["trigger"] = drive["trigger"]
    BY <1>1, <1>9 DEF Driver
  <2>2. RowMay(k)' = RowMay(k)
    BY <1>2, <1>5, <1>9, <2>1 DEF RowMay, Driver
  <2>3. BootMay(k) = DriverMay(d, k) /\ BootMay(k)' = DriverMay(d, k)'
    BY <1>9 DEF BootMay, Structure, Roles
  <2> QED
    BY <1>3, <1>4, <1>6, <2>2, <2>3
<1> QED
  BY <1>7, <1>8, <1>9 DEF Driver

(* No step exceeds what the crashes allow.                                 *)
LEMMA BudgetStep ==
  ASSUME Structure, Budget, [Next]_vars
  PROVE  Budget'
<1> USE RecoveryAssumption DEF Structure
<1>0. ASSUME NEW k \in 1..Steps
      PROVE  /\ ran[k] \in Nat /\ crashes \in Nat
             /\ RowMay(k) \in {0, 1} /\ BootMay(k) \in {0, 1}
             /\ RowMay(k)' \in {0, 1} /\ BootMay(k)' \in {0, 1}
             /\ ran[k] + RowMay(k) + BootMay(k) <= 1 + 2 * crashes
  <2>1. ran[k] \in Nat /\ crashes \in Nat
    BY <1>0 DEF TypeOK
  <2>2. RowMay(k) \in {0, 1} /\ BootMay(k) \in {0, 1} /\ RowMay(k)' \in {0, 1} /\ BootMay(k)' \in {0, 1}
    BY DEF RowMay, BootMay, DriverMay, May
  <2> QED
    BY <1>0, <2>1, <2>2 DEF Budget
<1>00. ASSUME UNCHANGED <<ran, crashes>>,
              \A k \in 1..Steps : RowMay(k)' + BootMay(k)' <= RowMay(k) + BootMay(k)
       PROVE  Budget'
  <2> SUFFICES ASSUME NEW k \in 1..Steps
               PROVE  ran[k] + RowMay(k)' + BootMay(k)' <= 1 + 2 * crashes
    BY <1>00 DEF Budget
  <2>1. RowMay(k)' + BootMay(k)' <= RowMay(k) + BootMay(k)
    BY <1>00
  <2> QED
    BY <1>0, <2>1
<1>1. ASSUME NEW d \in Driver, Save(d) PROVE Budget'
  <2> SUFFICES ASSUME NEW k \in 1..Steps PROVE RowMay(k)' + BootMay(k)' <= RowMay(k) + BootMay(k)
    BY <1>1, <1>00 DEF Save, world
  <2>1. PICK stage \in {"park", "end", "step"} : Goes(d, stage, drive[d].state)
    BY <1>1 DEF Save
  <2> DEFINE r == [at |-> stage, state |-> drive[d].state]
  <2>2. drive' = [drive EXCEPT ![d] = r] /\ r.at = stage /\ r.state = drive[d].state
    BY <2>1 DEF Goes
  <2>3. up /\ drive[d].at = "save" /\ UNCHANGED <<up, booted, row>>
    BY <1>1 DEF Save, At, world
  <2>4. 0 + (IF r.at \in {"fail", "return"} THEN 0 ELSE May(r.state, k)) <= DriverMay(d, k)
    BY <2>2, <2>3 DEF DriverMay, May
  <2> HIDE DEF r
  <2>5. 0 + RowMay(k)' + BootMay(k)' <= RowMay(k) + BootMay(k)
    BY <2>2, <2>3, <2>4, OneMoves
  <2> QED
    BY <1>0, <2>5
<1>2. ASSUME NEW d \in Driver, DispatchStep(d) PROVE Budget'
  <2> DEFINE s == drive[d].state
             new == CHOOSE i \in ChildId : i \notin Remembered
  <2>1. new \in ChildId /\ new # NoChild
    BY <1>2 DEF DispatchStep
  <2>2. drive[d].at = "step" /\ up /\ s \in State /\ s.done < Steps /\ s.kid = NoChild
        /\ UNCHANGED <<up, booted, crashes, row>>
    BY <1>2 DEF DispatchStep, At, Stages, SaneStates, Sane, world
  <2>3. PICK r : r = [at |-> "work", state |-> [s EXCEPT !.kid = new]]
    OBVIOUS
  <2>4. r.at = "work" /\ r.state.done = s.done /\ r.state.kid = new
        /\ drive' = [drive EXCEPT ![d] = r]
    BY <1>2, <2>2, <2>3 DEF DispatchStep, Goes, State
  <2>5. ran' = [ran EXCEPT ![s.done + 1] = @ + 1] /\ s.done + 1 \in 1..Steps
    BY <1>2, <2>2 DEF DispatchStep, State
  <2> SUFFICES ASSUME NEW k \in 1..Steps
               PROVE  ran'[k] + RowMay(k)' + BootMay(k)' <= 1 + 2 * crashes
    BY <2>2 DEF Budget
  <2> HIDE DEF new
  <2> DEFINE n == IF k = s.done + 1 THEN 1 ELSE 0
  <2>6. ran'[k] = ran[k] + n /\ n \in {0, 1}
    BY <2>5, <1>0 DEF TypeOK
  <2>7. n + (IF r.at \in {"fail", "return"} THEN 0 ELSE May(r.state, k)) <= DriverMay(d, k)
    BY <2>1, <2>2, <2>4 DEF DriverMay, May, Passed, State
  <2>8. drive[d].at # "off" /\ r.at # "off"
    BY <2>2, <2>4
  <2> HIDE DEF n
  <2>9. n + RowMay(k)' + BootMay(k)' <= RowMay(k) + BootMay(k)
    BY <2>2, <2>4, <2>6, <2>7, <2>8, OneMoves
  <2> QED
    BY <1>0, <2>6, <2>9
<1>3. ASSUME NEW d \in Driver, StepOk(d) \/ StepFails(d) PROVE Budget'
  <2> SUFFICES ASSUME NEW k \in 1..Steps PROVE RowMay(k)' + BootMay(k)' <= RowMay(k) + BootMay(k)
    BY <1>3, <1>00 DEF StepOk, StepFails, world
  <2> DEFINE s == drive[d].state
  <2>1. drive[d].at = "work" /\ up /\ s \in State /\ s.kid # NoChild /\ UNCHANGED <<up, booted, row>>
    BY <1>3 DEF StepOk, StepFails, At, Stages, SaneStates, Sane, world
  <2>2. PICK r : /\ drive' = [drive EXCEPT ![d] = r]
                 /\ \/ r = [at |-> "save", state |-> [done |-> s.done + 1, kid |-> NoChild]]
                    \/ r = [at |-> "fail", state |-> [s EXCEPT !.kid = NoChild]]
    BY <1>3 DEF StepOk, StepFails, Goes
  <2>3. 0 + (IF r.at \in {"fail", "return"} THEN 0 ELSE May(r.state, k)) <= DriverMay(d, k)
    BY <2>1, <2>2 DEF DriverMay, May, Passed, State
  <2>4. drive[d].at # "off" /\ r.at # "off"
    BY <2>1, <2>2
  <2>5. 0 + RowMay(k)' + BootMay(k)' <= RowMay(k) + BootMay(k)
    BY <2>1, <2>2, <2>3, <2>4, OneMoves
  <2> QED
    BY <1>0, <2>5
<1>4. ASSUME NEW d \in Driver, Finish(d) \/ \E w \in {"timer", "human"} : StepSuspends(d, w)
      PROVE  Budget'
  <2> SUFFICES ASSUME NEW k \in 1..Steps PROVE RowMay(k)' + BootMay(k)' <= RowMay(k) + BootMay(k)
    BY <1>4, <1>00 DEF Finish, StepSuspends, world
  <2>1. PICK stage \in {"return", "save"} :
          /\ Goes(d, stage, drive[d].state) /\ up /\ UNCHANGED <<up, booted, row>>
          /\ drive[d].at \in {"end", "fail", "work"}
          /\ stage = "save" => drive[d].at = "work"
    BY <1>4 DEF Finish, StepSuspends, At, world
  <2>2. PICK r : r = [at |-> stage, state |-> drive[d].state]
    OBVIOUS
  <2>3. drive' = [drive EXCEPT ![d] = r] /\ r.at = stage /\ r.state = drive[d].state
    BY <2>1, <2>2 DEF Goes
  <2>4. 0 + (IF r.at \in {"fail", "return"} THEN 0 ELSE May(r.state, k)) <= DriverMay(d, k)
    BY <2>1, <2>3 DEF DriverMay, May
  <2>5. 0 + RowMay(k)' + BootMay(k)' <= RowMay(k) + BootMay(k)
    BY <2>1, <2>3, <2>4, OneMoves
  <2> QED
    BY <1>0, <2>5
<1>5. ASSUME NEW d \in Driver, Return(d) \/ Park(d) PROVE Budget'
  <2> SUFFICES ASSUME NEW k \in 1..Steps PROVE RowMay(k)' + BootMay(k)' <= RowMay(k) + BootMay(k)
    BY <1>5, <1>00 DEF Return, Park, world
  <2>1. up /\ drive[d].at \in {"return", "park"} /\ UNCHANGED <<up, booted>>
    BY <1>5 DEF Return, Park, At, world
  <2>2. Off.at = "off" /\ \A e \in Driver : drive'[e] = IF e = d THEN Off ELSE drive[e]
    BY <1>5 DEF Return, Park, Stops, TypeOK, Off
  <2>3. \A e \in Driver : e # d => DriverMay(e, k)' = DriverMay(e, k)
    BY <2>2 DEF DriverMay, May, Passed
  <2>4. DriverMay(d, k)' = 0 /\ DriverMay(d, k) \in {0, 1} /\ May(row.state, k) \in {0, 1}
    BY <2>2 DEF DriverMay, May
  <2>5. CASE d = "boot"
    <3>1. row' = row
      BY <1>5, <2>5 DEF Return, Park
    <3>2. RowMay(k)' = RowMay(k)
      BY <2>2, <2>3, <2>5, <3>1 DEF RowMay, Driver, May, Passed
    <3>3. BootMay(k) = DriverMay(d, k) /\ BootMay(k)' = 0
      BY <2>1, <2>4, <2>5 DEF BootMay, Roles
    <3> QED
      BY <1>0, <2>4, <3>2, <3>3
  <2>6. CASE d # "boot"
    <3>1. BootMay(k)' = BootMay(k)
      BY <2>1, <2>3, <2>6 DEF BootMay, Driver
    <3>2. drive'["trigger"].at = "off" /\ drive'["sweep"].at = "off"
          /\ (d = "sweep" => drive["trigger"].at = "off")
      BY <2>1, <2>2, <2>6 DEF Roles, Driver
    <3>3. RowMay(k) = DriverMay(d, k)
      BY <2>1, <2>6, <3>2 DEF RowMay, Driver
    <3>4. RowMay(k)' = IF row'.at # "none" THEN May(row'.state, k) ELSE 0
      BY <3>2 DEF RowMay, May, Passed
    <3>5. CASE drive[d].at = "park"
      <4>1. row' = [at |-> "free", state |-> drive[d].state]
        BY <1>5, <2>6, <3>5 DEF Return, Park, At
      <4>2. RowMay(k)' = DriverMay(d, k)
        BY <3>4, <3>5, <4>1 DEF DriverMay
      <4> QED
        BY <1>0, <3>1, <3>3, <4>2
    <3>6. CASE drive[d].at = "return"
      <4>1. row'.at = "none"
        BY <1>5, <2>6, <3>6 DEF Return, Park, At, NoRow, Roles, Driver
      <4> QED
        BY <1>0, <3>1, <3>4, <4>1
    <3> QED
      BY <2>1, <3>5, <3>6
  <2> QED
    BY <2>5, <2>6
<1>6. ASSUME \/ Resume
             \/ \E i \in ChildId :
                  TimerFires(i) \/ Answer(i) \/ ResumeChild(i) \/ ResumeParent(i)
      PROVE  Budget'
  <2>1. Reenters \/ OnlyChildren
    BY <1>6, WaitingStep
  <2>2. CASE OnlyChildren
    BY <2>2 DEF OnlyChildren, Budget, RowMay, BootMay, DriverMay, May, Passed, world
  <2>3. CASE Reenters
    <3> SUFFICES ASSUME NEW k \in 1..Steps
                 PROVE  RowMay(k)' + BootMay(k)' <= RowMay(k) + BootMay(k)
      BY <2>3, <1>00 DEF Reenters, world
    <3>1. row.at = "free" /\ Sane(row.state) /\ UNCHANGED <<up, booted>>
      BY <2>3 DEF Reenters, SaneStates, world
    <3>2. drive["sweep"].at = "off" /\ drive["trigger"].at = "off"
      BY <3>1 DEF Roles
    <3>3. RowMay(k) = May(row.state, k)
      BY <3>1, <3>2 DEF RowMay
    <3>4. CASE loaded
      <4>1. Passed(Refreshed(row.state)) = Passed(row.state)
        BY <3>1, RefreshedFits
      <4>2. \A e \in Driver :
              drive'[e] = IF e = "sweep" THEN [at |-> "save", state |-> Refreshed(row.state)]
                          ELSE drive[e]
        BY <2>3, <3>4 DEF Reenters, Reenter, Goes, TypeOK
      <4>3. drive'["trigger"].at = "off" /\ drive'["boot"] = drive["boot"]
            /\ drive'["sweep"].at = "save" /\ drive'["sweep"].state = Refreshed(row.state)
        BY <3>2, <4>2 DEF Driver
      <4>4. BootMay(k)' = BootMay(k)
        BY <3>1, <4>3 DEF BootMay, DriverMay, May, Passed
      <4>5. RowMay(k)' = May(drive'["sweep"].state, k)
        BY <4>3 DEF RowMay, DriverMay, May, Passed
      <4>6. RowMay(k)' = RowMay(k)
        BY <3>3, <4>1, <4>3, <4>5 DEF May
      <4> QED
        BY <1>0, <4>4, <4>6
    <3>5. CASE ~loaded
      <4>1. \A e \in Driver :
              drive'[e] = IF e = "sweep" THEN [at |-> "return", state |-> row.state] ELSE drive[e]
        BY <2>3, <3>5 DEF Reenters, Reenter, Goes, TypeOK
      <4>2. drive'["trigger"].at = "off" /\ drive'["boot"] = drive["boot"]
            /\ drive'["sweep"].at = "return"
        BY <3>2, <4>1 DEF Driver
      <4>3. BootMay(k)' = BootMay(k)
        BY <3>1, <4>2 DEF BootMay, DriverMay, May, Passed
      <4>4. RowMay(k)' = 0
        BY <4>2 DEF RowMay, DriverMay
      <4> QED
        BY <1>0, <4>3, <4>4
    <3> QED
      BY <3>4, <3>5
  <2> QED
    BY <2>1, <2>2, <2>3
<1>7. ASSUME Reclaim PROVE Budget'
  <2>1. row' = [row EXCEPT !.at = "free"] /\ row.at = "claimed"
        /\ UNCHANGED <<world, drive, ran>>
    BY <1>7 DEF Reclaim
  <2>2. row'.at = "free" /\ row'.state = row.state
    BY <2>1 DEF TypeOK
  <2> QED
    BY <2>1, <2>2 DEF Budget, RowMay, BootMay, DriverMay, May, Passed, world
<1>8. ASSUME Boot PROVE Budget'
  <2> SUFFICES ASSUME NEW k \in 1..Steps PROVE RowMay(k)' + BootMay(k)' <= RowMay(k) + BootMay(k)
    BY <1>8, <1>00 DEF Boot
  <2>1. BootMay(k) = 1 /\ row' = row
    BY <1>8 DEF Boot, BootMay
  <2>2. drive'["sweep"] = drive["sweep"] /\ drive'["trigger"] = drive["trigger"]
    BY <1>8 DEF Boot, Goes, TypeOK, Driver
  <2>3. RowMay(k)' = RowMay(k)
    BY <2>1, <2>2 DEF RowMay, DriverMay, May, Passed
  <2> QED
    BY <1>0, <2>1, <2>3
<1>9. ASSUME Crash PROVE Budget'
  <2> SUFFICES ASSUME NEW k \in 1..Steps
               PROVE  ran[k] + RowMay(k)' + BootMay(k)' <= 1 + 2 * (crashes + 1)
    BY <1>9 DEF Crash, Budget
  <2> QED
    BY <1>0
<1>10. ASSUME Restart PROVE Budget'
  <2> SUFFICES ASSUME NEW k \in 1..Steps PROVE RowMay(k)' + BootMay(k)' <= RowMay(k) + BootMay(k)
    BY <1>10, <1>00 DEF Restart
  <2>1. BootMay(k) = 1
    BY <1>10 DEF Restart, BootMay
  <2>2. RowMay(k)' = RowMay(k)
    BY <1>10 DEF Restart, RowMay, DriverMay, May, Passed
  <2> QED
    BY <1>0, <2>1, <2>2
<1>11. ASSUME UNCHANGED vars PROVE Budget'
  BY <1>11 DEF vars, world, Budget, RowMay, BootMay, DriverMay, May, Passed
<1> QED
  BY <1>1, <1>2, <1>3, <1>4, <1>5, <1>6, <1>7, <1>8, <1>9, <1>10, <1>11
     DEF Next, Drives

-----------------------------------------------------------------------------
(* The theorems                                                            *)

(* What is behind the properties of module Recovery holds in every         *)
(* reachable state: executeStartingAt, resumeRun, the sweep and            *)
(* resumeRunningRuns keep it, and so does a crash at any await.            *)
THEOREM Bookkept == Spec => []IInv
<1>1. IInv /\ [Next]_vars => IInv'
  BY StructureStep, KeptStep, BudgetStep DEF IInv
<1> QED
  BY InitIInv, <1>1, PTL DEF Spec

(* The types, for any number of steps and of crashes.                      *)
THEOREM TypeCorrect == Spec => []TypeOK
<1> QED
  BY Bookkept, IInvGives, PTL

(* A run whose file says `running' is never left without a driver and      *)
(* without a row, except in the ways that `orphan' records, wherever the   *)
(* host dies.                                                              *)
THEOREM NeverStranded == Spec => []NotStranded
<1> QED
  BY Bookkept, IInvGives, PTL

(* Each crash lets a step be dispatched at most twice more.                *)
THEOREM FewReruns == Spec => []RerunsAreBounded
<1> QED
  BY Bookkept, IInvGives, PTL

-----------------------------------------------------------------------------
(* The row as a lease                                                      *)

(* What neither puts the sweep to work nor touches the row leaves the      *)
(* lease alone.                                                            *)
LEMMA LeaseStutters ==
  ASSUME UNCHANGED row, (drive["sweep"].at = "off") <=> (drive'["sweep"].at = "off")
  PROVE  UNCHANGED RunLease!vars
<1>1. RowHolder' = RowHolder
  BY DEF RowHolder
<1> QED
  BY <1>1 DEF RunLease!vars

(* A driver that goes on is neither more nor less at work.                 *)
LEMMA GoingOnStutters ==
  ASSUME Structure, NEW d \in Driver, drive[d].at # "off", UNCHANGED row,
         NEW stage, stage # "off", NEW s, Goes(d, stage, s)
  PROVE  UNCHANGED RunLease!vars
<1>1. drive'["sweep"] = IF d = "sweep" THEN [at |-> stage, state |-> s] ELSE drive["sweep"]
  BY DEF Structure, TypeOK, Goes, Driver
<1> QED
  BY <1>1, LeaseStutters

(* Park makes or hands back the row's lease, or has none (boot).           *)
LEMMA ParkMaps ==
  ASSUME Structure, NEW d \in Driver, Park(d)
  PROVE  RunLease!Next \/ UNCHANGED RunLease!vars
<1>1. up /\ drive[d].at # "off" /\ drive'["sweep"] = IF d = "sweep" THEN Off ELSE drive["sweep"]
  BY DEF Park, At, Stops, Structure, TypeOK, Driver
<1>2. CASE d = "boot"
  BY <1>1, <1>2, LeaseStutters DEF Park
<1>3. CASE d = "trigger"
  <2>1. row.at = "none" /\ row'.at = "free"
    BY <1>1, <1>3 DEF Park, Structure, Roles
  <2>2. RowHolder = "nobody" /\ RowHolder' = "nobody"
    BY <2>1 DEF RowHolder
  <2>3. RunLease!Enqueue("run")
    BY <2>1, <2>2 DEF RunLease!Enqueue
  <2> QED
    BY <2>3 DEF RunLease!Next
<1>4. CASE d = "sweep"
  <2>1. row.at = "claimed" /\ row'.at = "free"
    BY <1>1, <1>4 DEF Park, Structure, Roles
  <2>2. RowHolder = "sweep" /\ RowHolder' = "nobody"
    BY <1>1, <1>4, <2>1 DEF RowHolder
  <2>3. RunLease!Requeue("sweep", "run")
    BY <2>1, <2>2 DEF RunLease!Requeue
  <2> QED
    BY <2>3 DEF RunLease!Next
<1> QED
  BY <1>2, <1>3, <1>4 DEF Driver

(* Only the holder of the row removes it.                                  *)
LEMMA ReturnMaps ==
  ASSUME Structure, NEW d \in Driver, Return(d)
  PROVE  RunLease!Next \/ UNCHANGED RunLease!vars
<1>1. drive[d].at # "off" /\ drive'["sweep"] = IF d = "sweep" THEN Off ELSE drive["sweep"]
  BY DEF Return, At, Stops, Structure, TypeOK, Driver
<1>2. CASE d # "sweep"
  BY <1>1, <1>2, LeaseStutters DEF Return
<1>3. CASE d = "sweep"
  <2>1. row.at = "claimed" /\ row'.at = "none"
    BY <1>1, <1>3 DEF Return, Structure, Roles, NoRow
  <2>2. RowHolder = "sweep" /\ RowHolder' = "nobody"
    BY <1>1, <1>3, <2>1 DEF RowHolder
  <2>3. RunLease!Finish("sweep", "run")
    BY <2>1, <2>2 DEF RunLease!Finish
  <2> QED
    BY <2>3 DEF RunLease!Next
<1> QED
  BY <1>2, <1>3

(* A claim is an acquisition, its going stale a recovery, and a crash the  *)
(* death of the holder.                                                    *)
LEMMA ClaimsMap ==
  ASSUME Structure, Reenters \/ Reclaim \/ Crash
  PROVE  RunLease!Next
<1>1. CASE Reenters
  <2>1. row.at = "free" /\ row'.at = "claimed"
    BY <1>1 DEF Reenters, Reenter, Structure, TypeOK
  <2>2. drive'["sweep"].at # "off"
    BY <1>1 DEF Reenters, Reenter, Goes, Structure, TypeOK, Driver
  <2>3. RowHolder = "nobody" /\ RowHolder' = "sweep"
    BY <2>1, <2>2 DEF RowHolder
  <2>4. RunLease!Acquire("sweep", "run", {})
    BY <2>1, <2>3 DEF RunLease!Acquire
  <2> QED
    BY <2>4 DEF RunLease!Next
<1>2. CASE Reclaim
  <2>1. row.at = "claimed" /\ row'.at = "free" /\ drive["sweep"].at = "off"
    BY <1>2 DEF Reclaim, Structure, TypeOK
  <2>2. RowHolder = "dead" /\ RowHolder' = "nobody"
    BY <2>1 DEF RowHolder
  <2>3. RunLease!Recover({"run"})
    BY <2>1, <2>2 DEF RunLease!Recover
  <2> QED
    BY <2>3 DEF RunLease!Next
<1>3. CASE Crash
  <2>1. row' = row /\ drive'["sweep"].at = "off"
    BY <1>3 DEF Crash, Driver, Off
  <2>2. RowHolder' = IF RowHolder = "nobody" THEN "nobody" ELSE "dead"
    BY <2>1 DEF RowHolder
  <2>3. RunLease!Die
    BY <2>1, <2>2 DEF RunLease!Die
  <2> QED
    BY <2>3 DEF RunLease!Next
<1> QED
  BY <1>1, <1>2, <1>3

(* Nothing else that can happen concerns the lease.                        *)
LEMMA OthersStutter ==
  ASSUME Structure,
         \/ \E d \in Driver : \/ Save(d) \/ DispatchStep(d) \/ Finish(d) \/ StepOk(d) \/ StepFails(d)
                              \/ \E w \in {"timer", "human"} : StepSuspends(d, w)
         \/ OnlyChildren
         \/ Boot \/ Restart \/ UNCHANGED vars
  PROVE  UNCHANGED RunLease!vars
<1>1. ASSUME NEW d \in Driver,
             \/ Save(d) \/ DispatchStep(d) \/ Finish(d) \/ StepOk(d) \/ StepFails(d)
             \/ \E w \in {"timer", "human"} : StepSuspends(d, w)
      PROVE  UNCHANGED RunLease!vars
  <2>1. drive[d].at # "off" /\ UNCHANGED row
    BY <1>1 DEF Save, DispatchStep, Finish, StepOk, StepFails, StepSuspends, At
  <2>2. \E stage \in {"save", "step", "work", "park", "end", "fail", "return"} :
          \E s : Goes(d, stage, s)
    BY <1>1 DEF Save, DispatchStep, Finish, StepOk, StepFails, StepSuspends
  <2> QED
    BY <2>1, <2>2, GoingOnStutters
<1>2. ASSUME OnlyChildren \/ Restart \/ UNCHANGED vars
      PROVE  UNCHANGED RunLease!vars
  BY <1>2, LeaseStutters DEF OnlyChildren, Restart, vars
<1>3. ASSUME Boot PROVE UNCHANGED RunLease!vars
  <2>1. row' = row /\ drive'["sweep"] = drive["sweep"]
    BY <1>3 DEF Boot, Goes, Structure, TypeOK, Driver
  <2> QED
    BY <2>1, LeaseStutters
<1> QED
  BY <1>1, <1>2, <1>3

(* The row of a run's task is a lease through any number of crashes: the   *)
(* sweep and the inbox claim, renew and remove it, reclaimStaleSuspended-  *)
(* Claims takes it from the dead only, and boot has no part in it.         *)
THEOREM RowLease == Spec => RunRowIsLease
<1>1. Init => RunLease!Init
  BY DEF Init, NoRow, RowHolder, RunLease!Init
<1>2. Structure /\ [Next]_vars => [RunLease!Next]_(RunLease!vars)
  BY ParkMaps, ReturnMaps, ClaimsMap, OthersStutter, WaitingStep DEF Next, Drives, Structure
<1>3. Spec => []Structure
  BY Bookkept, PTL DEF IInv
<1> QED
  BY <1>1, <1>2, <1>3, PTL DEF Spec, RunRowIsLease, RunLease!Spec
=============================================================================
