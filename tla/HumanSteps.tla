----------------------------- MODULE HumanSteps -----------------------------
(***************************************************************************)
(* A workflow run at a parallel step some of whose branches ask members:   *)
(* the runner, the human-inbox participant, the suspended_tasks rows of    *)
(* the run and of its children, and the two-step resume of an answered     *)
(* item (child first, then the run that dispatched it).                    *)
(*                                                                         *)
(* A run is driven by the task that triggered it, then by whoever resumes  *)
(* its row: the request that answers an item, if it wins the row's claim.  *)
(* Driving is: find out how the branches stand, save the run's file, and   *)
(* only then park again or end.  The awaits in that sequence, the ones of  *)
(* a request, and the fan-out of the branches are what interleaves here.   *)
(*                                                                         *)
(* The step is the last of its workflow and fails the run when it fails    *)
(* (the default, `halt'); its children are human items, which always end   *)
(* well, and agents, which may fail.                                       *)
(***************************************************************************)
EXTENDS Naturals, FiniteSets

CONSTANTS
  Human,     \* branches that ask a member
  Agent,     \* branches that an agent runs
  Trigger    \* the dispatch that started the run

Branch == Human \cup Agent
Driver == Human \cup {Trigger}  \* the resolve of a branch's item, by branch

ASSUME HumanStepsAssumption ==
  /\ Human \cap Agent = {} /\ Trigger \notin Branch
  /\ IsFiniteSet(Branch)

VARIABLES
  child,     \* each branch's task, as hub.taskResult shows it
  asked,     \* human branches whose item is written
  rows,      \* human branches whose task has a suspended_tasks row
  outcome,   \* what the fan-out's dispatch of each branch returned
  answer,    \* where the resolve of each item stands
  found,     \* answers that had seen the child's row when they committed
  hurried,   \* history: answers given before the run was parked, or while
             \* another answer was under way
  drive,     \* what each driver of the run is doing
  waits,     \* the branches each driver still found suspended
  ends,      \* whether each driver found the step done or failed
  run,       \* the result of the run's own task
  runRow,    \* the run's row: none, free or claimed
  rowWaits   \* the suspended branches in the state of that row

kids   == <<child, asked, rows, outcome>>
reqs   == <<answer, found, hurried>>
driver == <<drive, waits, ends>>
parent == <<run, runRow, rowWaits>>
vars   == <<kids, reqs, driver, parent>>

TypeOK ==
  /\ child \in [Branch -> {"running", "suspended", "ok", "failed"}]
  /\ asked \in SUBSET Human /\ rows \in SUBSET Human
  /\ outcome \in [Branch -> {"none", "suspended", "ok", "failed"}]
  /\ answer \in [Human -> {"none", "committing", "committed", "resumed", "over"}]
  /\ found \in SUBSET Human /\ hurried \in SUBSET Human
  /\ drive \in [Driver -> {"off", "fanout", "saving"}]
  /\ waits \in [Driver -> SUBSET Branch]
  /\ ends \in [Driver -> {"done", "failed"}]
  /\ run \in {"running", "suspended", "done", "failed"}
  /\ runRow \in {"none", "free", "claimed"}
  /\ rowWaits \in SUBSET Branch

Init ==
  /\ child = [b \in Branch |-> "running"]
  /\ asked = {} /\ rows = {}
  /\ outcome = [b \in Branch |-> "none"]
  /\ answer = [b \in Human |-> "none"]
  /\ found = {} /\ hurried = {}
  /\ drive = [d \in Driver |-> IF d = Trigger THEN "fanout" ELSE "off"]
  /\ waits = [d \in Driver |-> {}]
  /\ ends = [d \in Driver |-> "done"]
  /\ run = "running"
  /\ runRow = "none" /\ rowWaits = {}

-----------------------------------------------------------------------------
(* The fan-out                                                             *)

(* An agent's branch comes back.                                           *)
AgentReturns(b, result) ==
  /\ b \in Agent /\ child[b] = "running"
  /\ child' = [child EXCEPT ![b] = result]
  /\ outcome' = [outcome EXCEPT ![b] = result]
  /\ UNCHANGED <<asked, rows, reqs, driver, parent>>

(* The participant writes the item first ...                               *)
Ask(b) ==
  /\ b \in Human /\ b \notin asked
  /\ asked' = asked \cup {b}
  /\ UNCHANGED <<child, rows, outcome, reqs, driver, parent>>

(* ... and then suspends: the row, the result, the branch's outcome.       *)
ChildParks(b) ==
  /\ b \in asked /\ child[b] = "running"
  /\ rows' = rows \cup {b}
  /\ child' = [child EXCEPT ![b] = "suspended"]
  /\ outcome' = [outcome EXCEPT ![b] = "suspended"]
  /\ UNCHANGED <<asked, reqs, driver, parent>>

-----------------------------------------------------------------------------
(* Driving the run                                                         *)

(* d found the branches in W suspended and those in F failed.              *)
Found(d, W, F) ==
  /\ drive' = [drive EXCEPT ![d] = "saving"]
  /\ waits' = [waits EXCEPT ![d] = W]
  /\ ends' = [ends EXCEPT ![d] = IF F = {} THEN "done" ELSE "failed"]

(* Every branch came back: their outcomes are folded into the step.        *)
FoldOutcomes ==
  /\ drive[Trigger] = "fanout"
  /\ \A b \in Branch : outcome[b] # "none"
  /\ Found(Trigger, {b \in Branch : outcome[b] = "suspended"},
                    {b \in Branch : outcome[b] = "failed"})
  /\ UNCHANGED <<kids, reqs, parent>>

(* Mutant: the run's row is left claimed when it parks again.              *)
Saved_KeepsClaim(d) ==
  /\ drive[d] = "saving"
  /\ drive' = [drive EXCEPT ![d] = "off"]
  /\ IF waits[d] # {}
     THEN /\ run' = "suspended" /\ rowWaits' = waits[d]
          /\ runRow' = IF runRow = "none" THEN "free" ELSE runRow
     ELSE run' = ends[d] /\ runRow' = "none" /\ rowWaits' = {}
  /\ answer' = [b \in Human |-> IF b = d THEN "over" ELSE answer[b]]
  /\ UNCHANGED <<kids, found, hurried, waits, ends>>

(* The file is saved.  The run parks with a fresh, unclaimed row as long   *)
(* as a branch was found suspended, whatever the others were.              *)
Saved(d) ==
  /\ drive[d] = "saving"
  /\ drive' = [drive EXCEPT ![d] = "off"]
  /\ IF waits[d] # {}
     THEN run' = "suspended" /\ runRow' = "free" /\ rowWaits' = waits[d]
     ELSE run' = ends[d] /\ runRow' = "none" /\ rowWaits' = {}
  /\ answer' = [b \in Human |-> IF b = d THEN "over" ELSE answer[b]]
  /\ UNCHANGED <<kids, found, hurried, waits, ends>>

-----------------------------------------------------------------------------
(* Answers                                                                 *)

Underway(b) == answer[b] \in {"committing", "committed", "resumed"}

(* A member answers: the item is read and checked, and the child's row     *)
(* looked up.                                                              *)
Answer(b) ==
  /\ b \in asked /\ answer[b] = "none"
  /\ answer' = [answer EXCEPT ![b] = "committing"]
  /\ found' = IF b \in rows THEN found \cup {b} ELSE found
  /\ hurried' = IF run # "suspended" \/ \E c \in Human : Underway(c)
                THEN hurried \cup {b} ELSE hurried
  /\ UNCHANGED <<kids, driver, parent>>

(* markResolved: the item is resolved on disk.                             *)
Commit(b) ==
  /\ answer[b] = "committing"
  /\ answer' = [answer EXCEPT ![b] = "committed"]
  /\ UNCHANGED <<kids, found, hurried, driver, parent>>

(* resumeChild: the decision becomes the child's result, or is recorded    *)
(* only.                                                                   *)
ResumeChild(b) ==
  /\ answer[b] = "committed"
  /\ IF b \in found
     THEN /\ child' = [child EXCEPT ![b] = "ok"]
          /\ rows' = rows \ {b}
          /\ answer' = [answer EXCEPT ![b] = "resumed"]
     ELSE /\ answer' = [answer EXCEPT ![b] = "over"]
          /\ UNCHANGED <<child, rows>>
  /\ UNCHANGED <<asked, outcome, found, hurried, driver, parent>>

(* Mutant: the run is resumed whoever has claimed its row.                 *)
Claimable_Blind == runRow # "none"

(* claimSuspendedTask(parent.taskId)                                       *)
Claimable == runRow = "free"

(* Mutant: a branch with a result is enough to go on.                      *)
StillWaiting_Any ==
  IF \E b \in rowWaits : child[b] = "ok" THEN {} ELSE rowWaits

(* The suspended branches of the row's record, looked up again.            *)
StillWaiting == {b \in rowWaits : child[b] \in {"running", "suspended"}}

(* resumeParent: read, claim and re-enter the run; or, when there is no    *)
(* row yet or the claim is lost, leave it to somebody else.                *)
ResumeParent(b) ==
  /\ answer[b] = "resumed" /\ drive[b] = "off"
  /\ IF Claimable
     THEN /\ runRow' = "claimed"
          /\ Found(b, StillWaiting, {c \in rowWaits : child[c] = "failed"})
          /\ UNCHANGED answer
     ELSE /\ answer' = [answer EXCEPT ![b] = "over"]
          /\ UNCHANGED <<driver, runRow>>
  /\ UNCHANGED <<kids, found, hurried, run, rowWaits>>

Next ==
  \/ \E b \in Branch, result \in {"ok", "failed"} : AgentReturns(b, result)
  \/ \E b \in Human : \/ Ask(b) \/ ChildParks(b) \/ Answer(b) \/ Commit(b)
                      \/ ResumeChild(b) \/ ResumeParent(b)
  \/ FoldOutcomes
  \/ \E d \in Driver : Saved(d)

Spec == Init /\ [][Next]_vars

(* What was started is finished; members need not answer.                  *)
Fairness ==
  /\ \A b \in Human :
       /\ WF_vars(Ask(b)) /\ WF_vars(ChildParks(b))
       /\ WF_vars(Commit(b)) /\ WF_vars(ResumeChild(b))
       /\ WF_vars(ResumeParent(b))
  /\ \A b \in Agent : WF_vars(\E r \in {"ok", "failed"} : AgentReturns(b, r))
  /\ WF_vars(FoldOutcomes)
  /\ \A d \in Driver : WF_vars(Saved(d))

FairSpec == Spec /\ Fairness

-----------------------------------------------------------------------------
(* Properties                                                              *)

(* "the run advances twice off one parking" must not happen: one driver at *)
(* a time, whoever answers at the same second.                             *)
RunDrivenOnce ==
  \A d, e \in Driver : drive[d] # "off" /\ drive[e] # "off" => d = e

(* The run never gets past the step while a member has not answered, nor   *)
(* while the answer is committed but not yet the result of its child.      *)
NoAnswerNoProgress ==
  run \in {"done", "failed"} => \A b \in Human : child[b] = "ok"

(* A run ends once every member it asked has answered and every answer is  *)
(* in ("the run continues, or re-suspends on another human step"), if they *)
(* answered in an orderly way: once the run was parked, one at a time.     *)
OrderlyRunEnds ==
  (\A b \in Human : child[b] = "ok") ~> (run \in {"done", "failed"} \/ hurried # {})

(* The run's row is a lease, as the rows of the sweep are (module Lease):  *)
(* it is made when the run first parks, belongs to the one request that    *)
(* claimed it until that request hands it back or ends the run, and        *)
(* nobody else lets go of it or removes it.                                *)
RowHolder == IF runRow = "claimed" THEN CHOOSE b \in Human : drive[b] # "off" ELSE "nobody"

RunLease == INSTANCE Lease WITH
  Task <- {Trigger}, Resumer <- Human, Nobody <- "nobody", Dead <- "dead",
  queued <- IF runRow = "none" THEN {} ELSE {Trigger},
  holder <- [t \in {Trigger} |-> RowHolder]

RunRowIsLease == RunLease!Spec
=============================================================================
