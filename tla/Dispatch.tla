------------------------------ MODULE Dispatch ------------------------------
(***************************************************************************)
(* Dispatching tasks: Hub.dispatch, retry and resumeTask, the scheduler's  *)
(* three strategies, and the registry's load counters.                     *)
(*                                                                         *)
(* A call is one invocation of a participant for one task; many are in     *)
(* flight at once and each ends when its participant says so.  An action   *)
(* is what the code does between two awaits.  A parking takes two steps:   *)
(* the notifier writes the row first, and for a governed action of a       *)
(* butler it then awaits the writing of an inbox item.                     *)
(*                                                                         *)
(* Ties of equal score and load are broken by registration order in the    *)
(* code and in any way here.  Tasks that another hub executes, and what    *)
(* participants do with a notice that a broadcast race is lost, are left   *)
(* out; sweeps, claims that go stale and crashes are in module Parking.    *)
(***************************************************************************)
EXTENDS Naturals, FiniteSets, Sequences

CONSTANTS
  Task,      \* task ids
  Worker,    \* ids of participants that accept tasks
  Able,      \* those with the capabilities that are asked for
  Score,     \* their reputation
  MaxPark,   \* bound: parkings of one task
  MaxLeave   \* bound: departures from the registry

ASSUME DispatchAssumption ==
  /\ IsFiniteSet(Worker) /\ Able \in SUBSET Worker
  /\ Score \in [Worker -> Nat]
  /\ MaxPark \in Nat /\ MaxLeave \in Nat

VARIABLES
  here,      \* the registered participants
  leaves,    \* how many left the registry so far
  load,      \* the registry's load counters
  kind,      \* the strategy of each task, "none" before it is dispatched
  calls,     \* the invocations in flight
  race,      \* broadcasts: settled, and how many candidates remain
  rows,      \* the table of parked tasks
  parks,     \* how often each task was parked
  results,   \* the results of each task in the transcript, in order
  left,      \* history: ids that left with calls in flight, until these end
  overtaken, \* history: tasks resumed while their notifier was at work
  leaked     \* history: tasks whose notifier failed with the row written

registry == <<here, leaves, load>>
table    == <<rows, parks>>
vars     == <<registry, kind, calls, race, table, results, left, overtaken, leaked>>

Strategy == {"explicit", "capability", "broadcast"}

(* `failed' stands for every final result but ok.                          *)
Result == {"ok", "failed", "suspended"}

(* n is 0 for the call of a dispatch, else the number of the parking that  *)
(* is resumed.                                                             *)
Call == [task : Task, by : Worker, n : 0..MaxPark, at : {"running", "parking"}]

Row == [task : Task, by : Worker, n : 1..MaxPark, claimed : BOOLEAN]

TypeOK ==
  /\ here \in SUBSET Worker
  /\ leaves \in Nat
  /\ load \in [Worker -> Nat]
  /\ kind \in [Task -> Strategy \cup {"none"}]
  /\ calls \in SUBSET Call
  /\ race \in [Task -> [settled : BOOLEAN, remaining : Nat]]
  /\ rows \in SUBSET Row
  /\ parks \in [Task -> 0..MaxPark]
  /\ results \in [Task -> Seq(Result)]
  /\ left \in SUBSET Worker
  /\ overtaken \in SUBSET Task /\ leaked \in SUBSET Task

Init ==
  /\ here = {} /\ leaves = 0
  /\ load = [p \in Worker |-> 0]
  /\ kind = [t \in Task |-> "none"]
  /\ calls = {}
  /\ race = [t \in Task |-> [settled |-> FALSE, remaining |-> 0]]
  /\ rows = {}
  /\ parks = [t \in Task |-> 0]
  /\ results = [t \in Task |-> <<>>]
  /\ left = {} /\ overtaken = {} /\ leaked = {}

-----------------------------------------------------------------------------
(* The registry                                                            *)

On(p) == {c \in calls : c.by = p}

Register(p) ==
  /\ p \notin here
  /\ here' = here \cup {p}
  /\ load' = [load EXCEPT ![p] = 0]
  /\ UNCHANGED <<leaves, kind, calls, race, table, results, left, overtaken,
                 leaked>>

(* The counter goes with the registration (no counter reads as 0).         *)
Unregister(p) ==
  /\ p \in here
  /\ leaves < MaxLeave /\ leaves' = leaves + 1
  /\ here' = here \ {p}
  /\ load' = [load EXCEPT ![p] = 0]
  /\ left' = IF On(p) = {} THEN left ELSE left \cup {p}
  /\ UNCHANGED <<kind, calls, race, table, results, overtaken, leaked>>

(* Mutant: the counter is not decremented.                                 *)
DecLoad_Never(p) == load

DecLoad(p) == [load EXCEPT ![p] = IF @ = 0 THEN 0 ELSE @ - 1]

(* Call c has ended.                                                       *)
Ends(c) ==
  /\ calls' = calls \ {c}
  /\ load' = DecLoad(c.by)
  /\ left' = IF On(c.by) = {c} THEN left \ {c.by} ELSE left
  /\ UNCHANGED <<here, leaves, kind>>

-----------------------------------------------------------------------------
(* Dispatch                                                                *)

Record(t, r) == results' = [results EXCEPT ![t] = Append(@, r)]

CallOf(t, p, n) == [task |-> t, by |-> p, n |-> n, at |-> "running"]

(* Nobody is invoked: a gate refuses, the deadline has passed, or there is *)
(* no candidate.                                                           *)
Refused(t, s) ==
  /\ kind[t] = "none"
  /\ kind' = [kind EXCEPT ![t] = s]
  /\ Record(t, "failed")
  /\ UNCHANGED <<registry, calls, race, table, left, overtaken, leaked>>

(* p is called, for a dispatch or to resume parking n.                     *)
Invoke(t, p, n) ==
  /\ load' = [load EXCEPT ![p] = @ + 1]
  /\ calls' = calls \cup {CallOf(t, p, n)}
  /\ UNCHANGED <<here, leaves, race, parks, results, left, leaked>>

(* runOne                                                                  *)
DispatchTo(t, s, p) ==
  /\ kind[t] = "none"
  /\ kind' = [kind EXCEPT ![t] = s]
  /\ Invoke(t, p, 0)
  /\ UNCHANGED <<rows, overtaken>>

DispatchExplicit(t) == \E p \in here : DispatchTo(t, "explicit", p)

(* The best score first, then the least load.                              *)
Ranked(p, q) ==
  \/ Score[p] > Score[q]
  \/ Score[p] = Score[q] /\ load[p] <= load[q]

DispatchCapability(t) ==
  \E p \in here \cap Able :
    /\ \A q \in here \cap Able : Ranked(p, q)
    /\ DispatchTo(t, "capability", p)

DispatchBroadcast(t) ==
  LET candidates == here \cap Able IN
  /\ kind[t] = "none" /\ candidates # {}
  /\ kind' = [kind EXCEPT ![t] = "broadcast"]
  /\ load' = [p \in Worker |-> IF p \in candidates THEN load[p] + 1 ELSE load[p]]
  /\ calls' = calls \cup {CallOf(t, p, 0) : p \in candidates}
  /\ race' = [race EXCEPT ![t] = [settled |-> FALSE,
                                  remaining |-> Cardinality(candidates)]]
  /\ UNCHANGED <<here, leaves, table, results, left, overtaken, leaked>>

(* The view of a task: its latest result, `pending' when that is a park.   *)
View(t) ==
  LET r == results[t] IN
  IF r = <<>> \/ r[Len(r)] = "suspended" THEN "pending" ELSE "finished"

-----------------------------------------------------------------------------
(* A call of a dispatch to one participant, or of a resume, ends           *)

Alone(c) == c \in calls /\ kind[c.task] # "broadcast"

Cleared_Never(c) == rows  \* the row of a resume stays

(* hub.resumeTask returns a final result and the row is removed, by task   *)
(* id.                                                                     *)
Cleared(c) == IF c.n = 0 THEN rows ELSE {r \in rows : r.task # c.task}

(* The participant returns a result, or throws.                            *)
Returns(c, r) ==
  /\ Alone(c) /\ c.at = "running"
  /\ Ends(c)
  /\ Record(c.task, r)
  /\ rows' = Cleared(c)
  /\ UNCHANGED <<race, parks, overtaken, leaked>>

(* SuspendTaskError: the notifier writes the row, INSERT OR REPLACE.       *)
Suspends(c) ==
  /\ Alone(c) /\ c.at = "running"
  /\ parks[c.task] < MaxPark
  /\ calls' = (calls \ {c}) \cup {[c EXCEPT !.at = "parking"]}
  /\ parks' = [parks EXCEPT ![c.task] = @ + 1]
  /\ rows' = {r \in rows : r.task # c.task} \cup
             {[task |-> c.task, by |-> c.by, n |-> parks[c.task] + 1,
               claimed |-> FALSE]}
  /\ UNCHANGED <<registry, kind, race, results, left, overtaken, leaked>>

(* The notifier has returned: the task is reported `suspended'.            *)
Parked(c) ==
  /\ Alone(c) /\ c.at = "parking"
  /\ Ends(c)
  /\ Record(c.task, "suspended")
  /\ UNCHANGED <<race, table, overtaken, leaked>>

(* The row could not be written: `failed'.                                 *)
ParkFails(c) ==
  /\ Alone(c) /\ c.at = "running"
  /\ parks[c.task] < MaxPark
  /\ Ends(c)
  /\ Record(c.task, "failed")
  /\ rows' = Cleared(c)
  /\ UNCHANGED <<race, parks, overtaken, leaked>>

(* The row was written, the inbox item was not: `failed', and the row      *)
(* stays, unless this call was a resume, whose row is removed.             *)
NotifierFails(c) ==
  /\ Alone(c) /\ c.at = "parking"
  /\ Ends(c)
  /\ Record(c.task, "failed")
  /\ rows' = Cleared(c)
  /\ leaked' = leaked \cup {c.task}
  /\ UNCHANGED <<race, parks, overtaken>>

-----------------------------------------------------------------------------
(* A candidate of a broadcast ends                                         *)

Candidate(c) == c \in calls /\ kind[c.task] = "broadcast"

(* Mutant: a later ok answers again.                                       *)
CandidateOk_Again(c) ==
  /\ Candidate(c)
  /\ Ends(c)
  /\ race' = [race EXCEPT ![c.task].settled = TRUE]
  /\ Record(c.task, "ok")
  /\ UNCHANGED <<table, overtaken, leaked>>

(* The first ok settles the race; the rest run on and are ignored.         *)
CandidateOk(c) ==
  /\ Candidate(c)
  /\ Ends(c)
  /\ IF race[c.task].settled THEN UNCHANGED <<race, results>>
     ELSE /\ race' = [race EXCEPT ![c.task].settled = TRUE]
          /\ Record(c.task, "ok")
  /\ UNCHANGED <<table, overtaken, leaked>>

(* Mutant: the first miss settles the race.                                *)
CandidateMisses_Hasty(c) ==
  /\ Candidate(c)
  /\ Ends(c)
  /\ IF race[c.task].settled THEN UNCHANGED <<race, results>>
     ELSE /\ race' = [race EXCEPT ![c.task].settled = TRUE,
                                  ![c.task].remaining = @ - 1]
          /\ Record(c.task, "failed")
  /\ UNCHANGED <<table, overtaken, leaked>>

(* It fails, declines, throws or suspends (no row is written then): the    *)
(* last one to do so settles the race.                                     *)
CandidateMisses(c) ==
  LET r == race[c.task] IN
  /\ Candidate(c)
  /\ Ends(c)
  /\ IF r.settled THEN UNCHANGED <<race, results>>
     ELSE /\ race' = [race EXCEPT ![c.task] =
                       [settled |-> r.remaining = 1, remaining |-> r.remaining - 1]]
          /\ IF r.remaining = 1 THEN Record(c.task, "failed") ELSE UNCHANGED results
  /\ UNCHANGED <<table, overtaken, leaked>>

-----------------------------------------------------------------------------
(* Resume                                                                  *)

(* A resumer claims the row and calls hub.resumeTask.                      *)
Resume(r) ==
  /\ r \in rows /\ ~r.claimed
  /\ overtaken' = IF \E c \in calls : c.task = r.task /\ c.at = "parking"
                  THEN overtaken \cup {r.task} ELSE overtaken
  /\ \/ /\ r.by \in here
        /\ rows' = (rows \ {r}) \cup {[r EXCEPT !.claimed = TRUE]}
        /\ Invoke(r.task, r.by, r.n)
     \/ /\ r.by \notin here
        /\ rows' = rows \ {r}
        /\ Record(r.task, "failed")
        /\ UNCHANGED <<registry, calls, race, parks, left, leaked>>
  /\ UNCHANGED kind

Next ==
  \/ \E p \in Worker : Register(p) \/ Unregister(p)
  \/ \E t \in Task, s \in Strategy : Refused(t, s)
  \/ \E t \in Task :
       DispatchExplicit(t) \/ DispatchCapability(t) \/ DispatchBroadcast(t)
  \/ \E c \in calls, r \in {"ok", "failed"} : Returns(c, r)
  \/ \E c \in calls : Suspends(c) \/ Parked(c) \/ ParkFails(c) \/ NotifierFails(c)
  \/ \E c \in calls : CandidateOk(c) \/ CandidateMisses(c)
  \/ \E r \in rows : Resume(r)

Spec == Init /\ [][Next]_vars

-----------------------------------------------------------------------------
(* Properties                                                              *)

(* The load that ranks a participant never counts a call that has ended,   *)
(* and counts every call in flight, except for an id that left while calls *)
(* were in flight, until the last of these has ended: whichever way calls  *)
(* end, and however registrations and calls overlap (incLoad, decLoad,     *)
(* register, unregister).                                                  *)
LoadCounts ==
  \A p \in Worker :
    /\ load[p] <= Cardinality(On(p))
    /\ p \notin left => load[p] = Cardinality(On(p))

Racing(t) == {c \in calls : c.task = t}

(* A broadcast is answered once: by the first ok, or as a failure when     *)
(* every candidate has missed, never before; until then the count of       *)
(* remaining candidates is the number of those at work.                    *)
RaceWaits ==
  \A t \in Task : kind[t] = "broadcast" =>
    \/ results[t] = <<>> /\ Racing(t) # {}
       /\ race[t].remaining = Cardinality(Racing(t))
    \/ results[t] = <<"ok">>
    \/ results[t] = <<"failed">> /\ Racing(t) = {}

(* A task that its view calls finished is over: it has no row that a sweep *)
(* could resume and no call that could report again, so hub.retry, which   *)
(* only refuses pending tasks, never starts a twin of a task at work.  The *)
(* losers of a broadcast run on; a failed notifier is the other exception. *)
FinishedIsOver ==
  \A t \in Task \ (overtaken \cup leaked) : View(t) = "finished" =>
    /\ \A r \in rows : r.task # t
    /\ kind[t] # "broadcast" => Racing(t) = {}

(* "a later resume overwrites it to done/failed when it terminates": a     *)
(* task that its view calls pending still has a call or a row that will    *)
(* settle it; unless it was resumed before its park was reported.          *)
PendingIsAlive ==
  \A t \in Task \ overtaken : kind[t] # "none" /\ View(t) = "pending" =>
    Racing(t) # {} \/ \E r \in rows : r.task = t

(* The view of a task that hub.tasks computes from the transcript tells    *)
(* whether the task is still at work.                                      *)
ViewIsTrue == FinishedIsOver /\ PendingIsAlive

(* A task that has its answer keeps it: no candidate that comes late, no   *)
(* resume of a row left behind and no second park reports again.  Exempt   *)
(* are the tasks that were resumed before their park was reported and      *)
(* those whose notifier failed.                                            *)
AnswerStands ==
  [][\A t \in Task \ (overtaken' \cup leaked') :
       View(t) = "finished" => results'[t] = results[t]]_vars
=============================================================================
