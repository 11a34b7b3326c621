------------------------------- MODULE Inbox -------------------------------
(***************************************************************************)
(* One approval of the member inbox, answered and handed on by concurrent  *)
(* requests while the task behind it parks again and again under one id.   *)
(*                                                                         *)
(* A governed action of a member's agent (the "butler") parks its task:    *)
(* the suspended_tasks row and a pending inbox item, both keyed by the     *)
(* task id.  The member's answer is committed to the item under the item's *)
(* lock, and then the task is resumed with it; the resumed task may park a *)
(* different action under the same id.  So an id is not a generation: the  *)
(* requests of this module are told apart by what they pin when they       *)
(* commit.                                                                 *)
(*                                                                         *)
(* A parking is its number 1, 2, ... (the code's createdAt, title and      *)
(* prompt); 0 is none.  Every await of the code is a gap between two       *)
(* actions.  All parkings ask for an approval, so kind and parent, which   *)
(* the code pins as well, never differ and are left out.                   *)
(***************************************************************************)
EXTENDS Naturals, Sequences, FiniteSets

CONSTANTS
  User,        \* members
  Approver,    \* the member the task belongs to (task.origin.userId)
  Web,         \* resolves by item id, from the /me page
  Im,          \* resolves by short code, from an IM chat
  HandOff,     \* delegate requests
  Dispatcher,  \* the dispatch that ran the task first
  MaxPark,     \* bound: parkings of the task
  MaxCrash     \* bound: crashes of the host

Resolve == Web \cup Im
Request == Resolve \cup HandOff
Runner  == Resolve \cup {Dispatcher}

ASSUME InboxAssumption ==
  /\ Approver \in User
  /\ Web \cap Im = {} /\ Resolve \cap HandOff = {}
  /\ Dispatcher \notin Request
  /\ MaxPark \in Nat /\ MaxCrash \in Nat

VARIABLES
  item,      \* the inbox file: the parking it is about, its owner, its status
  row,       \* the parking in the suspended_tasks row, 0 when there is none
  parks,     \* parkings so far
  lock,      \* the mutations waiting for the item's lock, oldest first
  running,   \* who is inside the task's participant
  storing,   \* who awaits the write of the item it parked
  pc,        \* where each request stands
  user,      \* the member who makes the request
  shown,     \* the parking the member was looking at
  seen,      \* the item as the request read it, outside the lock
  parked,    \* the row as the request read it (0: no row)
  crashes,   \* crashes so far
  answers,   \* answers committed: who, and to which parking (history)
  resumes    \* resumes: by whom, and of which parking (history)

disk  == <<item, row, parks>>
task  == <<running, storing>>
reqs  == <<pc, user, shown, seen, parked>>
hist  == <<answers, resumes>>
vars  == <<disk, lock, task, reqs, crashes, hist>>

NoItem == [gen |-> 0, owner |-> Approver, status |-> "none"]
Item   == [gen : Nat, owner : User, status : {"none", "pending", "resolved"}]
Pc     == {"idle", "looking", "matched", "read", "waiting", "resuming", "done"}

TypeOK ==
  /\ item \in Item /\ row \in Nat /\ parks \in Nat
  /\ lock \in Seq([by : Request, gen : {0}] \cup [by : Runner, gen : Nat \ {0}])
  /\ running \in SUBSET Runner /\ storing \in SUBSET Runner
  /\ pc \in [Request -> Pc]
  /\ user \in [Request -> User]
  /\ shown \in [Request -> Nat]
  /\ seen \in [Request -> Item]
  /\ parked \in [Request -> Nat]
  /\ crashes \in Nat
  /\ answers \in SUBSET [by : Resolve, gen : Nat]
  /\ resumes \in SUBSET [by : Resolve, gen : Nat]

Init ==
  /\ item = NoItem /\ row = 0 /\ parks = 0
  /\ lock = <<>>
  /\ running = {Dispatcher} /\ storing = {}
  /\ pc = [q \in Request |-> "idle"]
  /\ user = [q \in Request |-> Approver]
  /\ shown = [q \in Request |-> 0]
  /\ seen = [q \in Request |-> NoItem]
  /\ parked = [q \in Request |-> 0]
  /\ crashes = 0
  /\ answers = {} /\ resumes = {}

-----------------------------------------------------------------------------
(* Members and requests                                                    *)

Goto(q, place) == pc' = [pc EXCEPT ![q] = place]

(* listPending: a member sees a pending item of theirs.  The page or the   *)
(* chat line may be acted on much later.                                   *)
Look(q) ==
  /\ pc[q] = "idle"
  /\ item.status = "pending"
  /\ user' = [user EXCEPT ![q] = item.owner]
  /\ shown' = [shown EXCEPT ![q] = item.gen]
  /\ Goto(q, "looking")
  /\ UNCHANGED <<disk, lock, task, seen, parked, crashes, hist>>

(* A short code is a fingerprint of the parking: it is matched against the *)
(* member's pending items.                                                 *)
Match(q) ==
  /\ q \in Im /\ pc[q] = "looking"
  /\ IF item = [gen |-> shown[q], owner |-> user[q], status |-> "pending"]
     THEN Goto(q, "matched")
     ELSE Goto(q, "done")
  /\ UNCHANGED <<disk, lock, task, user, shown, seen, parked, crashes, hist>>

(* store.get, by item id and outside the lock.                             *)
Read(q) ==
  /\ pc[q] = IF q \in Im THEN "matched" ELSE "looking"
  /\ seen' = [seen EXCEPT ![q] = item]
  /\ Goto(q, "read")
  /\ UNCHANGED <<disk, lock, task, user, shown, parked, crashes, hist>>

(* The checks on what was read, the look at the parked row, and the queue  *)
(* for the lock are one uninterrupted stretch of code.                     *)
Check(q) ==
  /\ pc[q] = "read"
  /\ IF seen[q].owner = user[q] /\ seen[q].status = "pending"
     THEN /\ parked' = [parked EXCEPT ![q] = row]
          /\ lock' = Append(lock, [by |-> q, gen |-> 0])
          /\ Goto(q, "waiting")
     ELSE /\ Goto(q, "done")
          /\ UNCHANGED <<parked, lock>>
  /\ UNCHANGED <<disk, task, user, shown, seen, crashes, hist>>

-----------------------------------------------------------------------------
(* The item's lock: mutations run one at a time, in the order they came    *)

(* Mutants: ownership is not pinned; the short code is not pinned.         *)
Expects_AnyOwner(q) ==
  /\ q \in Im => item.gen = shown[q]
  /\ q \in HandOff => item.gen = seen[q].gen

Expects_AnyCode(q) ==
  /\ item.owner = user[q]
  /\ q \in HandOff => item.gen = seen[q].gen

(* What a request pins on the item as it is under the lock.                *)
Expects(q) ==
  /\ item.owner = user[q]
  /\ q \in Im => item.gen = shown[q]
  /\ q \in HandOff => item.gen = seen[q].gen

(* Mutant: an item that is no longer pending is resolved again.            *)
Accepts_Resolved(q) == item.status # "none" /\ Expects(q)

Accepts(q) == item.status = "pending" /\ Expects(q)

Turn(q) == lock # <<>> /\ Head(lock) = [by |-> q, gen |-> 0]

(* Mutant: the item stays pending until the task has been resumed.         *)
Commit_Later(q) ==
  /\ q \in Resolve /\ Turn(q)
  /\ Accepts(q)
  /\ answers' = answers \cup {[by |-> q, gen |-> item.gen]}
  /\ lock' = Tail(lock)
  /\ Goto(q, "resuming")
  /\ UNCHANGED <<disk, task, user, shown, seen, parked, crashes, resumes>>

(* markResolved                                                            *)
Commit(q) ==
  /\ q \in Resolve /\ Turn(q)
  /\ Accepts(q)
  /\ item' = [item EXCEPT !.status = "resolved"]
  /\ answers' = answers \cup {[by |-> q, gen |-> item.gen]}
  /\ lock' = Tail(lock)
  /\ Goto(q, "resuming")
  /\ UNCHANGED <<row, parks, task, user, shown, seen, parked, crashes, resumes>>

(* delegate: to another member, and the item stays pending.                *)
Transfer(q) ==
  /\ q \in HandOff /\ Turn(q)
  /\ Accepts(q)
  /\ \E to \in User \ {user[q]} : item' = [item EXCEPT !.owner = to]
  /\ lock' = Tail(lock)
  /\ Goto(q, "done")
  /\ UNCHANGED <<row, parks, task, user, shown, seen, parked, crashes, hist>>

(* The request is refused, or its write fails.                             *)
Refuse(q) ==
  /\ Turn(q)
  /\ lock' = Tail(lock)
  /\ Goto(q, "done")
  /\ UNCHANGED <<disk, task, user, shown, seen, parked, crashes, hist>>

(* Mutant: the row goes away although the resumed task parked again.       *)
Store_DropsRow(r) ==
  /\ lock # <<>> /\ Head(lock).by = r /\ r \in storing
  /\ item' = [gen |-> Head(lock).gen, owner |-> Approver, status |-> "pending"]
  /\ lock' = Tail(lock)
  /\ storing' = storing \ {r}
  /\ row' = IF r \in Resolve THEN 0 ELSE row
  /\ UNCHANGED <<parks, running, reqs, crashes, hist>>

(* The item of a parking is stored.                                        *)
Store(r) ==
  /\ lock # <<>> /\ Head(lock).by = r /\ r \in storing
  /\ item' = [gen |-> Head(lock).gen, owner |-> Approver, status |-> "pending"]
  /\ lock' = Tail(lock)
  /\ storing' = storing \ {r}
  /\ UNCHANGED <<row, parks, running, reqs, crashes, hist>>

-----------------------------------------------------------------------------
(* The task                                                                *)

(* The row read by Check is resumed, or the decision is only recorded.     *)
Resume(q) ==
  /\ pc[q] = "resuming"
  /\ Goto(q, "done")
  /\ IF parked[q] = 0
     THEN UNCHANGED <<running, resumes>>
     ELSE /\ running' = running \cup {q}
          /\ resumes' = resumes \cup {[by |-> q, gen |-> parked[q]]}
  /\ UNCHANGED <<disk, lock, storing, user, shown, seen, parked, crashes,
                 answers>>

(* A governed action: the row is replaced, and the item's write queues for *)
(* the lock, before anything else runs.                                    *)
Park(r) ==
  /\ r \in running
  /\ parks < MaxPark
  /\ parks' = parks + 1
  /\ row' = parks'
  /\ lock' = Append(lock, [by |-> r, gen |-> parks'])
  /\ running' = running \ {r}
  /\ storing' = storing \cup {r}
  /\ UNCHANGED <<item, reqs, crashes, hist>>

(* A run that settles takes the row away, by bare task id, when a request  *)
(* had resumed it; the first run never had a row.                          *)
DropRow(r) == row' = IF r \in Resolve THEN 0 ELSE row

Finish(r) ==
  /\ r \in running
  /\ running' = running \ {r}
  /\ DropRow(r)
  /\ UNCHANGED <<item, parks, lock, storing, reqs, crashes, hist>>

(* The write of the item fails: the parking degrades to a failed result.   *)
StoreFails(r) ==
  /\ lock # <<>> /\ Head(lock).by = r /\ r \in storing
  /\ lock' = Tail(lock)
  /\ storing' = storing \ {r}
  /\ DropRow(r)
  /\ UNCHANGED <<item, parks, running, reqs, crashes, hist>>

(* The file and the row survive, and so does what is on a member's screen. *)
Crash ==
  /\ crashes < MaxCrash
  /\ crashes' = crashes + 1
  /\ lock' = <<>>
  /\ running' = {} /\ storing' = {}
  /\ pc' = [q \in Request |-> IF pc[q] \in {"idle", "looking"} THEN pc[q]
                              ELSE "done"]
  /\ UNCHANGED <<disk, user, shown, seen, parked, hist>>

Next ==
  \/ \E q \in Request : Look(q) \/ Match(q) \/ Read(q) \/ Check(q)
                        \/ Transfer(q) \/ Refuse(q)
  \/ \E q \in Resolve : Commit(q) \/ Resume(q)
  \/ \E r \in Runner : Park(r) \/ Store(r) \/ StoreFails(r) \/ Finish(r)
  \/ Crash

Spec == Init /\ [][Next]_vars

-----------------------------------------------------------------------------
(* Properties                                                              *)

(* However many members, tabs and chats answer, and however often the task *)
(* parks again, each parking is resumed at most once (the "race guard" of  *)
(* HostInboxService.resolve), and by the answer that was committed to it:  *)
(* "the generation I approved and the one I resume are the same".          *)
ParkingResumedOnce ==
  /\ \A a, b \in resumes : a.gen = b.gen => a = b
  /\ resumes \subseteq answers

(* The task is driven from one place: while somebody runs it, stores the   *)
(* approval it asks for next or is about to resume it, nobody else does,   *)
(* across all parkings and crashes.  The resume and its clean-up go by the *)
(* bare task id and could not tell two drivers apart.                      *)
TaskDrivenOnce ==
  LET drivers == running \cup storing \cup {q \in Resolve : pc[q] = "resuming"} IN
  /\ \A r, s \in drivers : r = s
  /\ running \cap storing = {}

(* An answer from a chat runs the action the member was shown there, never *)
(* one that was parked later under the same id (InboxExpectation).         *)
ImResumesWhatWasShown ==
  \A a \in resumes : a.by \in Im => a.gen = shown[a.by]

(* The same for the page, which sends the item id and nothing else: the    *)
(* action the request validated is the action it resumes.                  *)
WebResumesWhatWasRead ==
  \A a \in resumes : a.by \in Web => a.gen = seen[a.by].gen

(* A pending item always has its parked task behind it, at rest and of the *)
(* same parking, also after a crash between the two writes or a failed     *)
(* write: an answer never finds nothing to resume.                         *)
PendingIsParked ==
  item.status = "pending" =>
    row = item.gen /\ running = {} /\ storing = {}

(* A hand-off moves the parking its author read, and an answer lands only  *)
(* on an item that its author still owns when it lands.                    *)
ActsOnOwnItem ==
  [][/\ item'.owner # item.owner /\ item'.gen = item.gen =>
          \E q \in HandOff : /\ pc[q] = "waiting" /\ pc'[q] = "done"
                             /\ user[q] = item.owner /\ seen[q].gen = item.gen
     /\ item'.status = "resolved" /\ item.status # "resolved" =>
          \E q \in Resolve : /\ pc[q] = "waiting" /\ pc'[q] = "resuming"
                             /\ user[q] = item.owner]_vars
=============================================================================
