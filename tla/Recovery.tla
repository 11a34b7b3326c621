------------------------------ MODULE Recovery ------------------------------
(***************************************************************************)
(* One run of a workflow across crashes of the host: the runner that works *)
(* through its steps, the run's file, the suspended_tasks row of its task, *)
(* the resumption of that row, and the boot that resumes the files of runs *)
(* that were interrupted.                                                  *)
(*                                                                         *)
(* Whoever drives the run keeps its state in memory (how many steps are    *)
(* done, and the child that the next one waits for) and saves it after     *)
(* each step; a save, a step's dispatch and the parking of the run are     *)
(* awaits, between which the host may die.  The row's claim makes sure     *)
(* that one resumer at most holds the row (module Parking); its drive is   *)
(* called `sweep' here, whether the sweep claimed the row or the request   *)
(* of a member who answered.                                               *)
(*                                                                         *)
(* The steps are sequential, and a child that was waited for ends well.    *)
(***************************************************************************)
EXTENDS Naturals, FiniteSets

CONSTANTS
  Steps,     \* the number of steps
  ChildId,   \* bound: ids of the steps' children, used again once forgotten
  NoChild,
  MaxItems,  \* bound: steps' items that members have yet to deal with
  MaxCrash   \* bound: crashes of the host

ASSUME RecoveryAssumption ==
  /\ Steps \in Nat \ {0} /\ NoChild \notin ChildId
  /\ MaxItems \in Nat /\ MaxCrash \in Nat

VARIABLES
  up,        \* the host is alive
  crashes,   \* how often it crashed
  booted,    \* resumeRunningRuns has dealt with the run in this life
  loaded,    \* the workflow is loaded in this life
  wait,      \* what each child that suspended waits for
  over,      \* the children that have ended since
  answer,    \* how far the request that answers it is, if that is a member
  drive,     \* what each driver of the run is doing, and its state
  file,      \* the run's file
  row,       \* the row of the run's task
  ran,       \* history: how often each step was dispatched
  orphan,    \* history: the run was parked in its file and not in a row
  missed     \* history: an answer that did not bring the run on

child   == <<wait, over, answer>>
world   == <<up, crashes, booted, loaded>>
history == <<orphan, missed>>
vars    == <<world, child, drive, file, row, ran, history>>

Driver == {"trigger", "sweep", "boot"}

(* The part of RunState that matters: `done' steps are done, and the next  *)
(* one, if it was dispatched, waits for the child `kid'.                   *)
State == [done : 0..Steps, kid : ChildId \cup {NoChild}]

Fresh == [done |-> 0, kid |-> NoChild]
Off   == [at |-> "off", state |-> Fresh]
NoRow == [at |-> "none", state |-> Fresh]

TypeOK ==
  /\ up \in BOOLEAN /\ crashes \in Nat
  /\ booted \in BOOLEAN /\ loaded \in BOOLEAN
  /\ wait \in [ChildId -> {"nothing", "timer", "human"}]
  /\ over \in SUBSET ChildId
  /\ answer \in [ChildId -> {"none", "child", "parent", "past"}]
  /\ drive \in [Driver ->
       [at : {"off", "save", "step", "work", "park", "end", "fail", "return"}, state : State]]
  /\ file \in [status : {"none", "running", "done", "failed"}, state : State]
  /\ row \in [at : {"none", "free", "claimed"}, state : State]
  /\ ran \in [1..Steps -> Nat]
  /\ orphan \in BOOLEAN /\ missed \in BOOLEAN

Init ==
  /\ up = TRUE /\ crashes = 0 /\ booted = TRUE /\ loaded = TRUE
  /\ wait = [i \in ChildId |-> "nothing"] /\ over = {}
  /\ answer = [i \in ChildId |-> "none"]
  /\ drive = [d \in Driver |-> IF d = "trigger" THEN [Off EXCEPT !.at = "save"]
                               ELSE Off]
  /\ file = [status |-> "none", state |-> Fresh]
  /\ row = NoRow
  /\ ran = [k \in 1..Steps |-> 0]
  /\ orphan = FALSE /\ missed = FALSE

-----------------------------------------------------------------------------
(* Driving: executeStartingAt                                              *)

At(d, stage) == up /\ drive[d].at = stage

Goes(d, stage, state) ==
  drive' = [drive EXCEPT ![d] = [at |-> stage, state |-> state]]

Stops(d) == drive' = [drive EXCEPT ![d] = Off]

(* The file is written; then the run goes on with what the state says.     *)
Save(d) ==
  LET s == drive[d].state IN
  /\ At(d, "save")
  /\ file' = [status |-> "running", state |-> s]
  /\ Goes(d, IF s.kid # NoChild THEN "park" ELSE IF s.done = Steps THEN "end" ELSE "step",
          s)
  /\ UNCHANGED <<world, child, row, ran, history>>

(* The child's item is open, or the request that answers it is under way.  *)
Pending(i) == wait[i] = "human" /\ answer[i] # "past"

(* The children that anything can still refer to.                          *)
Remembered ==
  {drive[d].state.kid : d \in Driver} \cup {file.state.kid, row.state.kid}
    \cup {i \in ChildId : Pending(i)}

(* The next step is dispatched, as a child with a new id; what the model   *)
(* knew of forgotten ones is cleared.                                      *)
DispatchStep(d) ==
  LET s == drive[d].state
      new == CHOOSE i \in ChildId : i \notin Remembered
  IN
  /\ At(d, "step") /\ ChildId \ Remembered # {}
  /\ wait' = [i \in ChildId |-> IF i \in Remembered THEN wait[i] ELSE "nothing"]
  /\ over' = over \cap Remembered
  /\ answer' = [i \in ChildId |-> IF i \in Remembered THEN answer[i] ELSE "none"]
  /\ ran' = [ran EXCEPT ![s.done + 1] = @ + 1]
  /\ Goes(d, "work", [s EXCEPT !.kid = new])
  /\ UNCHANGED <<world, file, row, history>>

(* Its child ends well, or fails and with it the run (`halt'), or suspends.*)
StepOk(d) ==
  /\ At(d, "work")
  /\ Goes(d, "save", [done |-> drive[d].state.done + 1, kid |-> NoChild])
  /\ UNCHANGED <<world, child, file, row, ran, history>>

StepFails(d) ==
  /\ At(d, "work")
  /\ Goes(d, "fail", [drive[d].state EXCEPT !.kid = NoChild])
  /\ UNCHANGED <<world, child, file, row, ran, history>>

StepSuspends(d, w) ==
  /\ At(d, "work")
  /\ w = "human" => Cardinality({i \in ChildId : Pending(i)}) < MaxItems
  /\ wait' = [wait EXCEPT ![drive[d].state.kid] = w]
  /\ Goes(d, "save", drive[d].state)
  /\ UNCHANGED <<world, over, answer, file, row, ran, history>>

(* The last save, with the final status; then the hub has its result.      *)
Finish(d) ==
  \E s \in {"done", "failed"} :
    /\ At(d, IF s = "done" THEN "end" ELSE "fail")
    /\ file' = [status |-> s, state |-> drive[d].state]
    /\ Goes(d, "return", drive[d].state)
    /\ UNCHANGED <<world, child, row, ran, history>>

(* The file says that the run waits for a member.                          *)
ParkedIndefinitely ==
  file.state.kid # NoChild /\ wait[file.state.kid] = "human"

(* Mutant: whoever ends a run removes the row of its task.                 *)
Return_Always(d) ==
  /\ At(d, "return")
  /\ row' = NoRow
  /\ Stops(d)
  /\ UNCHANGED <<world, child, file, ran, history>>

(* hub.resumeTask has returned a final result, and the sweep or the inbox  *)
(* removes the row, also when that result is that nobody takes the task.   *)
Return(d) ==
  /\ At(d, "return")
  /\ row' = IF d = "sweep" THEN NoRow ELSE row
  /\ orphan' = (orphan \/ (d = "sweep" /\ ~loaded /\ file.status = "running"
                           /\ (booted \/ ParkedIndefinitely)))
  /\ Stops(d)
  /\ UNCHANGED <<world, child, file, ran, missed>>

(* The state waits for a member whose answer has come and gone: only the   *)
(* answer to another item of the run still claims a row that holds it.     *)
Spent(s) == s.kid # NoChild /\ wait[s.kid] = "human" /\ answer[s.kid] = "past"

(* Mutant: a resumed run that parks again does not write its row again.    *)
Park_Once(d) ==
  /\ At(d, "park")
  /\ row' = IF d = "trigger" THEN [at |-> "free", state |-> drive[d].state]
            ELSE IF d = "sweep" THEN NoRow ELSE row
  /\ orphan' = (orphan \/ (d = "boot" /\ (row.at = "none" \/ drive["sweep"].at # "off")))
  /\ missed' = (missed \/ (Spent(row'.state) /\ ~Pending(drive[d].state.kid)))
  /\ Stops(d)
  /\ UNCHANGED <<world, child, file, ran>>

(* suspendWorkflow throws: the hub writes the row, but boot, which called  *)
(* resumeRun itself, only logs it.                                         *)
Park(d) ==
  /\ At(d, "park")
  /\ row' = IF d = "boot" THEN row ELSE [at |-> "free", state |-> drive[d].state]
  /\ orphan' = (orphan \/ (d = "boot" /\ (row.at = "none" \/ drive["sweep"].at # "off")))
  /\ missed' = (missed \/ (Spent(row'.state) /\ ~Pending(drive[d].state.kid)))
  /\ Stops(d)
  /\ UNCHANGED <<world, child, file, ran>>

-----------------------------------------------------------------------------
(* Resuming: resumeRun                                                     *)

(* The timer of a child fires: the sweep resumes the child itself.         *)
TimerFires(i) ==
  /\ up
  /\ wait[i] = "timer" /\ i \notin over /\ i \in Remembered
  /\ over' = over \cup {i}
  /\ UNCHANGED <<world, wait, answer, drive, file, row, ran, history>>

(* Mutant: the step that waited is run again.                              *)
Refreshed_Reruns(s) == [s EXCEPT !.kid = NoChild]

(* The done steps are kept, and so is the child's result if there is one.  *)
Refreshed(s) ==
  IF s.kid \in over THEN [done |-> s.done + 1, kid |-> NoChild] ELSE s

(* The row is claimed and its run re-entered.  If the workflow is gone the *)
(* hub answers no_participant.                                             *)
Reenter ==
  /\ row' = [row EXCEPT !.at = "claimed"]
  /\ IF loaded THEN Goes("sweep", "save", Refreshed(row.state))
     ELSE Goes("sweep", "return", row.state)

(* The sweep lists a row that has a time; one that waits for a member has  *)
(* none (NEVER_RESUME_AT), reclaimed or not.                               *)
Resume ==
  /\ up /\ row.at = "free" /\ wait[row.state.kid] = "timer"
  /\ Reenter
  /\ UNCHANGED <<world, child, file, ran, history>>

(* A member answers, once: the decision is on the item ...                 *)
Answer(i) ==
  /\ up /\ wait[i] = "human" /\ answer[i] = "none"
  /\ answer' = [answer EXCEPT ![i] = "child"]
  /\ UNCHANGED <<world, wait, over, drive, file, row, ran, history>>

(* ... the child is resumed with it and ends ...                           *)
ResumeChild(i) ==
  /\ up /\ answer[i] = "child"
  /\ answer' = [answer EXCEPT ![i] = "parent"]
  /\ over' = over \cup {i}
  /\ UNCHANGED <<world, wait, drive, file, row, ran, history>>

(* ... and the run's row is claimed and the run driven on, if the row is   *)
(* there to be claimed.  Nobody looks again: what a dead resumer had is    *)
(* reclaimed later, but the sweep does not list it.                        *)
ResumeParent(i) ==
  /\ up /\ answer[i] = "parent"
  /\ answer' = [answer EXCEPT ![i] = "past"]
  /\ IF row.at = "free"
     THEN Reenter /\ UNCHANGED missed
     ELSE /\ missed' = (missed \/ (row.at = "claimed" /\ drive["sweep"].at = "off"
                                 /\ (row.state.kid = i \/ Spent(row.state))))
          /\ UNCHANGED <<row, drive>>
  /\ UNCHANGED <<world, wait, over, file, ran, orphan>>


(* The claim of a dead resumer goes stale.                                 *)
Reclaim ==
  /\ up /\ row.at = "claimed" /\ drive["sweep"].at = "off"
  /\ row' = [row EXCEPT !.at = "free"]
  /\ UNCHANGED <<world, child, drive, file, ran, history>>

(* resumeRunningRuns, for this run: left alone, closed as failed when the  *)
(* workflow is gone, or resumed from its file.                             *)
Boot ==
  /\ up /\ ~booted
  /\ booted' = TRUE
  /\ IF file.status # "running" \/ ParkedIndefinitely
     THEN UNCHANGED <<drive, file>>
     ELSE IF loaded THEN /\ Goes("boot", "save", Refreshed(file.state))
                         /\ UNCHANGED file
     ELSE /\ file' = [file EXCEPT !.status = "failed"]
          /\ UNCHANGED drive
  /\ UNCHANGED <<up, crashes, loaded, child, row, ran, history>>

-----------------------------------------------------------------------------
(* Crash                                                                   *)

(* Files and rows survive.                                                 *)
Crash ==
  /\ up /\ crashes < MaxCrash
  /\ up' = FALSE /\ crashes' = crashes + 1
  /\ drive' = [d \in Driver |-> Off]
  /\ orphan' = (orphan \/ (file.status = "running" /\ ParkedIndefinitely /\ row.at = "none"))
  /\ missed' = (missed \/ (file.status = "running" /\ ParkedIndefinitely
                           /\ answer[file.state.kid] # "none"
                           /\ ~(row.at # "none" /\ wait[row.state.kid] = "timer")))
  /\ answer' = [i \in ChildId |-> IF answer[i] = "none" THEN "none" ELSE "past"]
  /\ UNCHANGED <<booted, loaded, wait, over, file, row, ran>>

Restart ==
  /\ ~up /\ up' = TRUE
  /\ booted' = FALSE
  /\ loaded' \in BOOLEAN
  /\ UNCHANGED <<crashes, child, drive, file, row, ran, history>>

Drives(d) ==
  \/ Save(d) \/ DispatchStep(d) \/ Finish(d) \/ Return(d) \/ Park(d)
  \/ StepOk(d) \/ StepFails(d) \/ \E w \in {"timer", "human"} : StepSuspends(d, w)

Next ==
  \/ \E d \in Driver : Drives(d)
  \/ \E i \in ChildId : TimerFires(i) \/ Answer(i) \/ ResumeChild(i) \/ ResumeParent(i)
  \/ Resume \/ Reclaim \/ Boot
  \/ Crash \/ Restart

Spec == Init /\ [][Next]_vars

(* What runs goes on, a member's request too, timers fire, the sweep keeps *)
(* ticking and a dead host is started again.  No member has to answer, and *)
(* nothing repeats a ResumeParent that came too early or too late.         *)
Fairness ==
  /\ \A d \in Driver : WF_vars(Drives(d))
  /\ WF_vars(\E i \in ChildId : TimerFires(i))
  /\ WF_vars(\E i \in ChildId : ResumeChild(i) \/ ResumeParent(i))
  /\ WF_vars(Resume) /\ WF_vars(Reclaim) /\ WF_vars(Boot) /\ WF_vars(Restart)

FairSpec == Spec /\ Fairness

-----------------------------------------------------------------------------
(* Properties                                                              *)

Driven == \E d \in Driver : drive[d].at # "off"

(* Once boot has looked at it, a run whose file says `running' is being    *)
(* driven or has a row, wherever the host died: between a save and the     *)
(* parking, between a claim and the next parking, between the last save    *)
(* and the removal of the row.  Exempt are the ways the code has of losing *)
(* the row, which `orphan' records.  That the row brings the run on is     *)
(* what RunMovesOn says.                                                   *)
NotStranded ==
  up /\ booted /\ file.status = "running" /\ ~orphan => Driven \/ row.at # "none"

(* A step is dispatched once, and at most twice more for each crash: by    *)
(* boot from the file and by the sweep from the row.  What is done before  *)
(* a park is never done again without a crash.                             *)
RerunsAreBounded == \A k \in 1..Steps : ran[k] <= 1 + 2 * crashes

(* The run waits for a member who has not answered, with a row that his    *)
(* answer can claim.                                                       *)
AwaitsMember ==
  /\ row.at = "free"
  /\ \E kid \in {row.state.kid, file.state.kid} \ {NoChild} :
       wait[kid] = "human" /\ answer[kid] = "none"


(* The run's row is a lease (module Lease), through crashes too: whoever   *)
(* claimed it holds it until he parks the run again, removes it or dies,   *)
(* and only a dead holder's claim is taken back.  Boot, which drives the   *)
(* run without the row, neither makes nor removes one.                     *)
RowHolder ==
  IF row.at # "claimed" THEN "nobody" ELSE IF drive["sweep"].at = "off" THEN "dead" ELSE "sweep"

RunLease == INSTANCE Lease WITH
  Task <- {"run"}, Resumer <- {"sweep"}, Nobody <- "nobody", Dead <- "dead",
  queued <- IF row.at = "none" THEN {} ELSE {"run"},
  holder <- [t \in {"run"} |-> RowHolder]

RunRowIsLease == RunLease!Spec
=============================================================================
