---------------------------- MODULE InboxProofs ----------------------------
(***************************************************************************)
(* Proofs about module Inbox, for any number of members, pages, chats and  *)
(* hand-offs, any number of parkings and crashes.                          *)
(*                                                                         *)
(* The argument: the parked task is in one pair of hands at a time.  It is *)
(* run, or its new item waits to be stored, or the item is pending, or one *)
(* request holds the decision; each hands it to the next.                  *)
(***************************************************************************)
EXTENDS Inbox, TLAPS

Slot == 1..Len(lock)  \* the places in the queue for the lock

(* A request whose answer is committed and not yet spent.                  *)
Holds(q) == q \in Resolve /\ pc[q] = "resuming"

(* The lock: a request waits in one place; at most one new item waits, of  *)
(* the present parking, and who comes after it has read that parking's     *)
(* row, as has everybody who finds the item pending.                       *)
WaitersWait == \A i \in Slot : lock[i].gen = 0 => pc[lock[i].by] = "waiting"
OnePlace    == \A i, j \in Slot : lock[i].by = lock[j].by => i = j
StoresNow   == \A i \in Slot : lock[i].gen # 0 =>
                 lock[i].by \in storing /\ lock[i].gen = row
ReadAfter   == \A i, j \in Slot : i < j /\ lock[i].gen # 0 =>
                 lock[j].gen = 0 /\ parked[lock[j].by] = row
ReadPending == item.status = "pending" =>
                 \A i \in Slot : lock[i].gen = 0 /\ parked[lock[i].by] = row
LockOK == WaitersWait /\ OnePlace /\ StoresNow /\ ReadAfter /\ ReadPending

(* Whose hands the task is in.                                             *)
Pending ==
  item.status = "pending" =>
    /\ row = item.gen /\ row # 0 /\ running = {} /\ storing = {}
    /\ \A q \in Request : ~Holds(q)
Decided ==
  \A q \in Request : Holds(q) =>
    /\ item.status = "resolved" /\ row = item.gen /\ row # 0
    /\ parked[q] = row /\ [by |-> q, gen |-> row] \in answers
    /\ q \in Im => shown[q] = row
    /\ running = {} /\ storing = {}
    /\ \A p \in Request : Holds(p) => p = q
AtWork ==
  /\ running \cap storing = {}
  /\ \A r, s \in running \cup storing : r = s
  /\ \A r \in running \cup storing : r \in Request => pc[r] = "done"
InHand == Pending /\ Decided /\ AtWork

(* Parkings are numbered on; one that is not resumed yet is the present.   *)
Numbers ==
  /\ row \in {0, parks} /\ item.gen <= parks
  /\ storing # {} => item.gen # parks /\ row = parks
Fresh ==
  (item.status = "pending" \/ storing # {} \/ \E q \in Request : Holds(q)) =>
    \A a \in resumes : a.gen # row
Past ==
  /\ \A a \in resumes : a.gen <= parks /\ pc[a.by] = "done"
  /\ \A a \in resumes : a.by \in Im => a.gen = shown[a.by]
Count == Numbers /\ Fresh /\ Past

IInv == TypeOK /\ LockOK /\ InHand /\ Count /\ ParkingResumedOnce

-----------------------------------------------------------------------------
(* The lock's queue                                                        *)

(* What waits for the lock.                                                *)
Entry == [by : Request, gen : {0}] \cup [by : Runner, gen : Nat \ {0}]

(* Joining the queue leaves the places of the others.                      *)
LEMMA Joining ==
  ASSUME NEW s \in Seq(Entry), NEW e \in Entry
  PROVE  /\ Append(s, e) \in Seq(Entry) /\ Len(Append(s, e)) = Len(s) + 1
         /\ \A i \in 1..Len(s) : Append(s, e)[i] = s[i]
         /\ Append(s, e)[Len(s) + 1] = e
OBVIOUS

(* The head leaves, and all others move up.                                *)
LEMMA Leaving ==
  ASSUME NEW s \in Seq(Entry), s # <<>>
  PROVE  /\ Tail(s) \in Seq(Entry) /\ Len(Tail(s)) = Len(s) - 1
         /\ \A i \in 1..Len(Tail(s)) : i + 1 \in 1..Len(s) /\ Tail(s)[i] = s[i + 1]
         /\ 1 \in 1..Len(s) /\ Head(s) = s[1] /\ s[1] \in Entry
OBVIOUS

(* At first the dispatch runs the task, and there is no item.              *)
LEMMA InitIInv == Init => IInv
<1> SUFFICES ASSUME Init PROVE IInv
  OBVIOUS
<1> USE InboxAssumption DEF Init, NoItem, Request, Resolve, Runner
<1>1. TypeOK
  BY DEF TypeOK, Item, Pc
<1>2. LockOK
  BY DEF LockOK, WaitersWait, OnePlace, StoresNow, ReadAfter, ReadPending, Slot
<1>3. InHand
  BY DEF InHand, Pending, Decided, AtWork, Holds
<1>4. Count /\ ParkingResumedOnce
  BY DEF Count, Numbers, Fresh, Past, ParkingResumedOnce
<1> QED
  BY <1>1, <1>2, <1>3, <1>4 DEF IInv

-----------------------------------------------------------------------------
(* Requests outside the lock                                               *)

(* A request that neither waits nor decides goes on by itself.             *)
LEMMA GoingKeeps ==
  ASSUME IInv, NEW q \in Request, Look(q) \/ Match(q) \/ Read(q)
  PROVE  IInv'
<1> USE DEF IInv
<1>1. /\ UNCHANGED <<disk, lock, task, parked, crashes, hist>>
      /\ pc[q] \in {"idle", "looking", "matched"}
      /\ \E place \in {"looking", "matched", "done", "read"} :
           pc' = [pc EXCEPT ![q] = place]
      /\ shown' = shown \/ (pc[q] = "idle" /\ \E g \in Nat : shown' = [shown EXCEPT ![q] = g])
  BY DEF Look, Match, Read, Goto, TypeOK, Item
<1>2. /\ item' = item /\ row' = row /\ parks' = parks /\ lock' = lock
      /\ running' = running /\ storing' = storing /\ parked' = parked
      /\ answers' = answers /\ resumes' = resumes /\ crashes' = crashes
  BY <1>1 DEF disk, task, hist
<1>3. TypeOK'
  <2>0. item.owner \in User
    BY DEF TypeOK, Item
  <2>1. user' \in [Request -> User] /\ seen' \in [Request -> Item]
    <3>1. CASE Look(q)
      BY <2>0, <3>1 DEF Look, TypeOK
    <3>2. CASE Match(q)
      BY <3>2 DEF Match, TypeOK
    <3>3. CASE Read(q)
      BY <3>3 DEF Read, TypeOK
    <3> QED
      BY <3>1, <3>2, <3>3
  <2>2. shown' \in [Request -> Nat] /\ pc' \in [Request -> Pc]
    BY <1>1 DEF TypeOK, Pc
  <2> QED
    BY <1>2, <2>1, <2>2 DEF TypeOK
<1>4. \A p \in Request :
        /\ pc'[p] = "waiting" <=> pc[p] = "waiting"
        /\ Holds(p)' <=> Holds(p)
        /\ pc[p] = "done" => pc'[p] = "done"
        /\ pc[p] \in {"resuming", "done"} => shown'[p] = shown[p]
  BY <1>1 DEF TypeOK, Holds
<1>5. LockOK'
  <2>1. \A i \in Slot : lock[i].by \in Request \/ lock[i].gen # 0
    BY DEF TypeOK, Slot
  <2> QED
    BY <1>2, <1>4, <2>1
       DEF LockOK, WaitersWait, OnePlace, StoresNow, ReadAfter, ReadPending, Slot
<1>6. InHand'
  BY <1>2, <1>4 DEF InHand, Pending, Decided, AtWork, Holds
<1>7. Count' /\ ParkingResumedOnce'
  <2>1. \A a \in resumes : a.by \in Request
    BY DEF TypeOK, Request
  <2> QED
    BY <1>2, <1>4, <2>1 DEF Count, Numbers, Fresh, Past, ParkingResumedOnce
<1> QED
  BY <1>3, <1>5, <1>6, <1>7

(* The row is read and the lock is asked for in one go.                    *)
LEMMA CheckKeeps ==
  ASSUME IInv, NEW q \in Request, Check(q)
  PROVE  IInv'
<1> USE DEF IInv
<1>1. /\ item' = item /\ row' = row /\ parks' = parks
      /\ running' = running /\ storing' = storing /\ shown' = shown
      /\ user' = user /\ seen' = seen
      /\ answers' = answers /\ resumes' = resumes /\ crashes' = crashes
  BY DEF Check, disk, task, hist
<1>2. /\ pc[q] = "read"
      /\ \/ /\ pc' = [pc EXCEPT ![q] = "waiting"]
            /\ lock' = Append(lock, [by |-> q, gen |-> 0])
            /\ parked' = [parked EXCEPT ![q] = row]
         \/ /\ pc' = [pc EXCEPT ![q] = "done"] /\ lock' = lock /\ parked' = parked
  BY DEF Check, Goto
<1>3. lock \in Seq(Entry) /\ [by |-> q, gen |-> 0] \in Entry
  BY DEF TypeOK, Entry
<1>4. TypeOK'
  <2>1. lock' \in Seq(Entry)
    BY <1>2, <1>3, Joining
  <2>2. pc' \in [Request -> Pc] /\ parked' \in [Request -> Nat]
    BY <1>2 DEF TypeOK, Pc
  <2> QED
    BY <1>1, <2>1, <2>2 DEF TypeOK, Entry
<1>5. \A p \in Request :
        /\ Holds(p)' <=> Holds(p)
        /\ pc[p] # "read" => pc'[p] = pc[p] /\ parked'[p] = parked[p]
  BY <1>2 DEF TypeOK, Holds
<1>6. \A i \in Slot : /\ lock[i] \in Entry
                      /\ lock[i].by \in Request \/ lock[i].gen # 0
                      /\ lock[i].by # q
  <2>1. \A i \in Slot : lock[i] \in Entry
    BY <1>3 DEF Slot
  <2> QED
    BY <1>2, <2>1 DEF Entry, LockOK, WaitersWait, StoresNow, InHand, AtWork
<1>7. LockOK'
  <2>1. CASE lock' = lock
    BY <1>1, <1>2, <1>5, <1>6, <2>1
       DEF LockOK, WaitersWait, OnePlace, StoresNow, ReadAfter, ReadPending, Slot, TypeOK
  <2>2. CASE /\ lock' = Append(lock, [by |-> q, gen |-> 0])
             /\ pc' = [pc EXCEPT ![q] = "waiting"]
             /\ parked' = [parked EXCEPT ![q] = row]
    <3>1. Len(lock') = Len(lock) + 1 /\ Len(lock) \in Nat
      BY <1>3, <2>2, Joining
    <3>2. /\ \A i \in Slot : lock'[i] = lock[i]
          /\ lock'[Len(lock) + 1] = [by |-> q, gen |-> 0]
      BY <1>3, <2>2, Joining DEF Slot
    <3>3. \A i \in Slot' : i \in Slot \/ i = Len(lock) + 1
      BY <3>1 DEF Slot
    <3>a. pc'[q] = "waiting" /\ parked'[q] = row
      BY <2>2 DEF TypeOK
    <3>b. \A i \in Slot : lock[i].gen = 0 =>
            pc'[lock[i].by] = "waiting" /\ parked'[lock[i].by] = parked[lock[i].by]
      BY <1>5, <1>6 DEF LockOK, WaitersWait
    <3>c. WaitersWait'
      BY <3>a, <3>b, <3>2, <3>3 DEF WaitersWait
    <3>d. StoresNow'
      BY <1>1, <3>2, <3>3 DEF LockOK, StoresNow
    <3>e. OnePlace'
      BY <1>6, <3>2, <3>3 DEF LockOK, OnePlace
    <3>4. WaitersWait' /\ StoresNow' /\ OnePlace'
      BY <3>c, <3>d, <3>e
    <3>5. ReadPending'
      BY <1>1, <3>a, <3>b, <3>2, <3>3 DEF LockOK, ReadPending
    <3>6. ReadAfter'
      <4> SUFFICES ASSUME NEW i \in Slot', NEW j \in Slot', i < j, lock'[i].gen # 0
                   PROVE  lock'[j].gen = 0 /\ parked'[lock'[j].by] = row'
        BY DEF ReadAfter
      <4>1. i \in Slot
        BY <3>1, <3>2, <3>3 DEF Slot
      <4>2. CASE j \in Slot
        BY <1>1, <3>b, <3>2, <4>1, <4>2 DEF LockOK, ReadAfter
      <4>3. CASE j = Len(lock) + 1
        BY <1>1, <2>2, <3>2, <4>3 DEF TypeOK
      <4> QED
        BY <3>3, <4>2, <4>3
    <3> QED
      BY <3>4, <3>5, <3>6 DEF LockOK
  <2> QED
    BY <1>2, <2>1, <2>2
<1>8. InHand'
  BY <1>1, <1>2, <1>5 DEF InHand, Pending, Decided, AtWork, Holds
<1>9. Count' /\ ParkingResumedOnce'
  <2>1. \A a \in resumes : a.by \in Request
    BY DEF TypeOK, Request
  <2> QED
    BY <1>1, <1>2, <1>5, <2>1 DEF Count, Numbers, Fresh, Past, ParkingResumedOnce
<1> QED
  BY <1>4, <1>7, <1>8, <1>9

-----------------------------------------------------------------------------
(* Under the lock                                                          *)

(* The queue without its head, said of places.                             *)
MovesUp ==
  /\ lock' \in Seq(Entry) /\ 1 \in Slot
  /\ \A i \in Slot' : i + 1 \in Slot /\ i \in Nat \ {0} /\ lock'[i] = lock[i + 1]

(* That is what Tail does.                                                 *)
LEMMA TailMovesUp ==
  ASSUME TypeOK, lock # <<>>, lock' = Tail(lock)
  PROVE  MovesUp
<1>1. lock \in Seq(Entry)
  BY DEF TypeOK, Entry
<1> QED
  BY <1>1, Leaving DEF MovesUp, Slot

(* Who had the lock is gone; the others move up and know what they knew.   *)
LEMMA HeadLeaves ==
  ASSUME TypeOK, LockOK, MovesUp, parked' = parked,
         \A p \in Request \ {lock[1].by} : pc'[p] = pc[p],
         storing' \in {storing, storing \ {lock[1].by}},
         row' = row \/ lock[1].gen # 0,
         item'.status = "pending" =>
           row' = row /\ (item.status = "pending" \/ lock[1].gen # 0)
  PROVE  LockOK' /\ lock' \in Seq(Entry)
<1>1. lock \in Seq(Entry)
  BY DEF TypeOK, Entry
<1>2. /\ lock' \in Seq(Entry) /\ 1 \in Slot
      /\ \A i \in Slot' : i + 1 \in Slot /\ i \in Nat \ {0} /\ lock'[i] = lock[i + 1]
  BY DEF MovesUp
<1>3. \A i \in Slot' : lock'[i] \in Entry /\ lock'[i].by # lock[1].by
  <2>1. \A i \in Slot' : lock[i + 1] \in Entry
    BY <1>1, <1>2 DEF Slot
  <2> QED
    BY <1>2, <2>1 DEF LockOK, OnePlace
<1>4. \A i \in Slot' : lock'[i].gen = 0 =>
        lock'[i].by \in Request /\ pc'[lock'[i].by] = pc[lock'[i].by]
  BY <1>3 DEF Entry
<1>5. WaitersWait'
  BY <1>2, <1>4 DEF LockOK, WaitersWait
<1>6. OnePlace'
  <2> SUFFICES ASSUME NEW i \in Slot', NEW j \in Slot', lock'[i].by = lock'[j].by
               PROVE  i = j
    BY DEF OnePlace
  <2>1. i + 1 = j + 1
    BY <1>2 DEF LockOK, OnePlace
  <2> QED
    BY <1>2, <2>1
<1>7. lock[1].gen # 0 => \A i \in Slot' : lock'[i].gen = 0 /\ parked[lock'[i].by] = row
  <2> SUFFICES ASSUME lock[1].gen # 0, NEW i \in Slot'
               PROVE  lock'[i].gen = 0 /\ parked[lock'[i].by] = row
    OBVIOUS
  <2>1. 1 < i + 1 /\ i + 1 \in Slot /\ lock'[i] = lock[i + 1]
    BY <1>2
  <2> QED
    BY <1>2, <2>1 DEF LockOK, ReadAfter
<1>8. StoresNow'
  BY <1>2, <1>3, <1>7 DEF LockOK, StoresNow
<1>9. ReadAfter'
  <2> SUFFICES ASSUME NEW i \in Slot', NEW j \in Slot', i < j, lock'[i].gen # 0
               PROVE  lock'[j].gen = 0 /\ parked'[lock'[j].by] = row'
    BY DEF ReadAfter
  <2>1. i + 1 < j + 1 /\ lock[i + 1].gen # 0 /\ row' = row
    BY <1>2, <1>7
  <2> QED
    BY <1>2, <2>1 DEF LockOK, ReadAfter
<1>10. ReadPending'
  BY <1>2, <1>7 DEF LockOK, ReadPending
<1> QED
  BY <1>2, <1>5, <1>6, <1>8, <1>9, <1>10 DEF LockOK

(* Whose turn it is has the head of the queue, and waits for it.           *)
LEMMA TurnWaits ==
  ASSUME IInv, NEW q \in Request, Turn(q)
  PROVE  /\ lock # <<>> /\ lock[1].by = q /\ lock[1].gen = 0 /\ pc[q] = "waiting"
         /\ item.status = "pending" => parked[q] = row
<1>1. lock \in Seq(Entry)
  BY DEF IInv, TypeOK, Entry
<1>2. lock # <<>> /\ lock[1] = [by |-> q, gen |-> 0] /\ 1 \in Slot
  BY <1>1, Leaving DEF Turn, Slot
<1> QED
  BY <1>2 DEF IInv, LockOK, WaitersWait, ReadPending

(* An answer is committed: its author holds the decision.                  *)
LEMMA CommitKeeps ==
  ASSUME IInv, NEW q \in Resolve, Commit(q)
  PROVE  IInv'
<1> USE DEF IInv
<1>0. q \in Request
  BY DEF Request
<1>1. /\ row' = row /\ parks' = parks /\ running' = running /\ storing' = storing
      /\ user' = user /\ shown' = shown /\ seen' = seen /\ parked' = parked
      /\ crashes' = crashes /\ resumes' = resumes
      /\ item' = [item EXCEPT !.status = "resolved"]
      /\ answers' = answers \cup {[by |-> q, gen |-> item.gen]}
      /\ lock' = Tail(lock) /\ pc' = [pc EXCEPT ![q] = "resuming"]
      /\ item.status = "pending" /\ Expects(q) /\ Turn(q)
  BY DEF Commit, task, Goto, Accepts
<1>2. /\ lock # <<>> /\ lock[1].by = q /\ pc[q] = "waiting" /\ parked[q] = row
  BY <1>0, <1>1, TurnWaits
<1>3. item'.status = "resolved" /\ item'.gen = item.gen /\ item' \in Item
  BY <1>1 DEF TypeOK, Item
<1>4. /\ \A p \in Request \ {q} : pc'[p] = pc[p]
      /\ pc'[q] = "resuming" /\ pc' \in [Request -> Pc]
  BY <1>0, <1>1 DEF TypeOK, Pc
<1>5. LockOK' /\ lock' \in Seq(Entry)
  <2>1. MovesUp
    BY <1>1, <1>2, TailMovesUp
  <2> QED
    BY <1>1, <1>2, <1>3, <1>4, <2>1, HeadLeaves
<1>6. TypeOK'
  <2>1. answers' \in SUBSET [by : Resolve, gen : Nat]
    BY <1>1 DEF TypeOK, Item
  <2> QED
    BY <1>1, <1>3, <1>4, <1>5, <2>1 DEF TypeOK, Entry
<1>7. \A p \in Request : Holds(p)' <=> p = q
  BY <1>1, <1>4 DEF InHand, Pending, Holds
<1>8. InHand'
  <2>1. Pending'
    BY <1>3 DEF Pending
  <2>2. Decided'
    BY <1>0, <1>1, <1>2, <1>3, <1>7 DEF InHand, Pending, Decided, Expects
  <2>3. AtWork'
    BY <1>1 DEF InHand, Pending, AtWork
  <2> QED
    BY <2>1, <2>2, <2>3 DEF InHand
<1>9. Count' /\ ParkingResumedOnce'
  <2>1. \A a \in resumes : a.by \in Request
    BY DEF TypeOK, Request
  <2>2. Numbers' /\ Past'
    BY <1>1, <1>2, <1>3, <1>4, <2>1 DEF Count, Numbers, Past
  <2>3. Fresh' /\ ParkingResumedOnce'
    BY <1>1 DEF Count, Fresh, ParkingResumedOnce
  <2> QED
    BY <2>2, <2>3 DEF Count
<1> QED
  BY <1>5, <1>6, <1>8, <1>9

(* A hand-off, or a refusal: the item stays what it is, or changes owner.  *)
LEMMA PassingKeeps ==
  ASSUME IInv, NEW q \in Request, Transfer(q) \/ Refuse(q)
  PROVE  IInv'
<1> USE DEF IInv
<1>1. /\ row' = row /\ parks' = parks /\ running' = running /\ storing' = storing
      /\ user' = user /\ shown' = shown /\ seen' = seen /\ parked' = parked
      /\ crashes' = crashes /\ answers' = answers /\ resumes' = resumes
      /\ lock' = Tail(lock) /\ pc' = [pc EXCEPT ![q] = "done"] /\ Turn(q)
  BY DEF Transfer, Refuse, disk, task, hist, Goto
<1>2. /\ lock # <<>> /\ lock[1].by = q /\ pc[q] = "waiting"
  BY <1>1, TurnWaits
<1>3. item'.status = item.status /\ item'.gen = item.gen /\ item' \in Item
  <2>1. CASE Transfer(q)
    BY <2>1 DEF Transfer, TypeOK, Item
  <2>2. CASE Refuse(q)
    BY <2>2 DEF Refuse, TypeOK, disk
  <2> QED
    BY <2>1, <2>2
<1>4. /\ \A p \in Request \ {q} : pc'[p] = pc[p]
      /\ pc'[q] = "done" /\ pc' \in [Request -> Pc]
  BY <1>1 DEF TypeOK, Pc
<1>5. LockOK' /\ lock' \in Seq(Entry)
  <2>1. MovesUp
    BY <1>1, <1>2, TailMovesUp
  <2> QED
    BY <1>1, <1>2, <1>3, <1>4, <2>1, HeadLeaves
<1>6. TypeOK'
  BY <1>1, <1>3, <1>4, <1>5 DEF TypeOK, Entry
<1>7. \A p \in Request : Holds(p)' <=> Holds(p)
  BY <1>2, <1>4 DEF Holds
<1>8. InHand'
  BY <1>1, <1>3, <1>4, <1>7 DEF InHand, Pending, Decided, AtWork
<1>9. Count' /\ ParkingResumedOnce'
  <2>1. \A a \in resumes : a.by \in Request
    BY DEF TypeOK, Request
  <2> QED
    BY <1>1, <1>2, <1>3, <1>4, <1>7, <2>1
       DEF Count, Numbers, Fresh, Past, ParkingResumedOnce
<1> QED
  BY <1>5, <1>6, <1>8, <1>9

(* The new item is stored: it is pending, and its parking is the row.      *)
LEMMA StoreKeeps ==
  ASSUME IInv, NEW r \in Runner, Store(r)
  PROVE  IInv'
<1> USE DEF IInv
<1>1. /\ row' = row /\ parks' = parks /\ running' = running
      /\ pc' = pc /\ user' = user /\ shown' = shown /\ seen' = seen /\ parked' = parked
      /\ crashes' = crashes /\ answers' = answers /\ resumes' = resumes
      /\ lock # <<>> /\ Head(lock).by = r /\ r \in storing
      /\ item' = [gen |-> Head(lock).gen, owner |-> Approver, status |-> "pending"]
      /\ lock' = Tail(lock) /\ storing' = storing \ {r}
  BY DEF Store, reqs, hist
<1>2. lock \in Seq(Entry) /\ 1 \in Slot /\ Head(lock) = lock[1] /\ lock[1] \in Entry
  BY <1>1, Leaving DEF TypeOK, Entry, Slot
<1>3. lock[1].gen = row /\ row # 0 /\ row = parks
  <2>1. lock[1].gen # 0
    BY <1>1, <1>2 DEF LockOK, WaitersWait, InHand, AtWork, Entry
  <2> QED
    BY <1>1, <1>2, <2>1 DEF LockOK, StoresNow, Count, Numbers
<1>4. item'.status = "pending" /\ item'.gen = row /\ item' \in Item
  BY <1>1, <1>2, <1>3, InboxAssumption DEF TypeOK, Item
<1>5. LockOK' /\ lock' \in Seq(Entry)
  <2>1. MovesUp
    BY <1>1, TailMovesUp
  <2> QED
    BY <1>1, <1>2, <1>3, <1>4, <2>1, HeadLeaves
<1>6. TypeOK'
  BY <1>1, <1>4, <1>5 DEF TypeOK, Entry
<1>7. \A p \in Request : ~Holds(p) /\ ~Holds(p)'
  BY <1>1 DEF InHand, Decided, Holds
<1>8. running' = {} /\ storing' = {}
  BY <1>1 DEF InHand, AtWork
<1>9. InHand'
  BY <1>1, <1>3, <1>4, <1>7, <1>8 DEF InHand, Pending, Decided, AtWork
<1>10. Count' /\ ParkingResumedOnce'
  <2>1. Numbers' /\ Past' /\ ParkingResumedOnce'
    BY <1>1, <1>3, <1>4, <1>8 DEF Count, Numbers, Past, ParkingResumedOnce, TypeOK
  <2>2. Fresh'
    BY <1>1 DEF Count, Fresh
  <2> QED
    BY <2>1, <2>2 DEF Count
<1> QED
  BY <1>5, <1>6, <1>9, <1>10

(* The write fails: the item is left as it was, the row may go.            *)
LEMMA StoreFailsKeeps ==
  ASSUME IInv, NEW r \in Runner, StoreFails(r)
  PROVE  IInv'
<1> USE DEF IInv
<1>1. /\ item' = item /\ parks' = parks /\ running' = running
      /\ pc' = pc /\ user' = user /\ shown' = shown /\ seen' = seen /\ parked' = parked
      /\ crashes' = crashes /\ answers' = answers /\ resumes' = resumes
      /\ lock # <<>> /\ Head(lock).by = r /\ r \in storing
      /\ lock' = Tail(lock) /\ storing' = storing \ {r} /\ row' \in {row, 0}
  BY DEF StoreFails, reqs, hist, DropRow
<1>2. lock \in Seq(Entry) /\ 1 \in Slot /\ Head(lock) = lock[1] /\ lock[1] \in Entry
  BY <1>1, Leaving DEF TypeOK, Entry, Slot
<1>3. lock[1].gen # 0 /\ item.status # "pending"
  BY <1>1, <1>2 DEF LockOK, WaitersWait, InHand, Pending, AtWork, Entry
<1>4. LockOK' /\ lock' \in Seq(Entry)
  <2>1. MovesUp
    BY <1>1, TailMovesUp
  <2> QED
    BY <1>1, <1>2, <1>3, <2>1, HeadLeaves
<1>5. TypeOK'
  BY <1>1, <1>4 DEF TypeOK, Entry
<1>6. \A p \in Request : ~Holds(p) /\ ~Holds(p)'
  BY <1>1 DEF InHand, Decided, Holds
<1>7. running' = {} /\ storing' = {}
  BY <1>1 DEF InHand, AtWork
<1>8. InHand'
  BY <1>1, <1>3, <1>6, <1>7 DEF InHand, Pending, Decided, AtWork
<1>9. Count' /\ ParkingResumedOnce'
  BY <1>1, <1>3, <1>6, <1>7 DEF Count, Numbers, Fresh, Past, ParkingResumedOnce
<1> QED
  BY <1>4, <1>5, <1>8, <1>9

-----------------------------------------------------------------------------
(* The task                                                                *)

(* The decision is spent on the parking it was committed to.               *)
LEMMA ResumeKeeps ==
  ASSUME IInv, NEW q \in Resolve, Resume(q)
  PROVE  IInv'
<1> USE DEF IInv
<1>0. q \in Request /\ q \in Runner /\ Holds(q)
  BY DEF Request, Runner, Resume, Holds
<1>1. /\ item' = item /\ row' = row /\ parks' = parks /\ lock' = lock /\ storing' = storing
      /\ user' = user /\ shown' = shown /\ seen' = seen /\ parked' = parked
      /\ crashes' = crashes /\ answers' = answers
      /\ pc' = [pc EXCEPT ![q] = "done"] /\ parked[q] = row /\ row # 0
  BY <1>0 DEF Resume, disk, Goto, InHand, Decided
<1>2. /\ running' = running \cup {q}
      /\ resumes' = resumes \cup {[by |-> q, gen |-> row]}
  BY <1>1 DEF Resume
<1>3. /\ item.status = "resolved" /\ running = {} /\ storing = {}
      /\ [by |-> q, gen |-> row] \in answers
      /\ q \in Im => shown[q] = row
      /\ \A p \in Request : Holds(p) => p = q
  BY <1>0 DEF InHand, Decided
<1>e. PICK e : /\ e.by = q /\ e.gen = row
               /\ resumes' = resumes \cup {e} /\ e \in answers
  <2> DEFINE f == [by |-> q, gen |-> row]
  <2>1. f.by = q /\ f.gen = row
    OBVIOUS
  <2>2. resumes' = resumes \cup {f}
    BY <1>2
  <2>3. f \in answers
    BY <1>3
  <2> HIDE DEF f
  <2> QED
    BY <2>1, <2>2, <2>3
<1>4. /\ pc'[q] = "done" /\ pc' \in [Request -> Pc]
      /\ \A p \in Request \ {q} : pc'[p] = pc[p]
  BY <1>0, <1>1 DEF TypeOK, Pc
<1>5. \A p \in Request : ~Holds(p)'
  BY <1>3, <1>4 DEF Holds
<1>6. TypeOK'
  BY <1>0, <1>1, <1>2, <1>4 DEF TypeOK
<1>7. LockOK'
  <2>1. \A i \in Slot : lock[i].by \in Request \/ lock[i].gen # 0
    BY DEF TypeOK, Slot
  <2>2. WaitersWait'
    BY <1>0, <1>1, <1>4, <2>1 DEF LockOK, WaitersWait, Slot, Holds
  <2> QED
    BY <1>1, <2>2 DEF LockOK, OnePlace, StoresNow, ReadAfter, ReadPending, Slot
<1>8. InHand'
  BY <1>1, <1>2, <1>3, <1>4, <1>5 DEF InHand, Pending, Decided, AtWork
<1>9. Count'
  <2>1. \A a \in resumes : a.by \in Request
    BY DEF TypeOK, Request
  <2>2. Numbers' /\ Fresh'
    BY <1>1, <1>3, <1>5 DEF Count, Numbers, Fresh
  <2>3. ASSUME NEW a \in resumes'
        PROVE  a.gen <= parks' /\ pc'[a.by] = "done" /\ (a.by \in Im => a.gen = shown'[a.by])
    <3>1. CASE a \in resumes
      BY <1>1, <1>4, <2>1, <3>1 DEF Count, Past
    <3>2. CASE a = e
      <4>1. row <= parks
        BY DEF Count, Numbers, TypeOK
      <4>2. a.gen <= parks'
        BY <1>1, <1>e, <3>2, <4>1
      <4>3. pc'[a.by] = "done" /\ (a.by \in Im => a.gen = shown'[a.by])
        BY <1>1, <1>3, <1>4, <1>e, <3>2
      <4> QED
        BY <4>2, <4>3
    <3> QED
      BY <1>e, <3>1, <3>2
  <2> QED
    BY <2>2, <2>3 DEF Count, Past
<1>10. ParkingResumedOnce'
  <2>1. \A a \in resumes : a.gen # row
    BY <1>0 DEF Count, Fresh
  <2>3. resumes' \subseteq answers'
    BY <1>1, <1>e DEF ParkingResumedOnce
  <2>4. \A a, b \in resumes' : a.gen = b.gen => a = b
    BY <1>e, <2>1 DEF ParkingResumedOnce
  <2> QED
    BY <2>3, <2>4 DEF ParkingResumedOnce
<1> QED
  BY <1>6, <1>7, <1>8, <1>9, <1>10

(* The task parks again: a new number, a new row, and the item's write     *)
(* waits behind those who have the lock or wait for it.                    *)
LEMMA ParkKeeps ==
  ASSUME IInv, NEW r \in Runner, Park(r)
  PROVE  IInv'
<1> USE DEF IInv
<1>1. /\ item' = item /\ pc' = pc /\ user' = user /\ shown' = shown /\ seen' = seen
      /\ parked' = parked /\ crashes' = crashes /\ answers' = answers /\ resumes' = resumes
      /\ r \in running /\ parks' = parks + 1 /\ row' = parks'
      /\ lock' = Append(lock, [by |-> r, gen |-> parks'])
      /\ running' = running \ {r} /\ storing' = storing \cup {r}
  BY DEF Park, reqs, hist
<1>2. /\ running' = {} /\ storing' = {r} /\ storing = {} /\ item.status # "pending"
      /\ r \in Request => pc[r] = "done"
  BY <1>1 DEF InHand, Pending, AtWork
<1>3. lock \in Seq(Entry) /\ [by |-> r, gen |-> parks'] \in Entry /\ parks' \in Nat \ {0}
  BY <1>1 DEF TypeOK, Entry
<1>4. \A p \in Request : ~Holds(p) /\ ~Holds(p)'
  BY <1>1 DEF InHand, Decided, Holds
<1>5. TypeOK'
  <2>1. lock' \in Seq(Entry)
    BY <1>1, <1>3, Joining
  <2> QED
    BY <1>1, <2>1 DEF TypeOK, Entry
<1>6. LockOK'
  <2>1. Len(lock') = Len(lock) + 1 /\ Len(lock) \in Nat
    BY <1>1, <1>3, Joining
  <2>2. /\ \A i \in Slot : lock'[i] = lock[i]
        /\ lock'[Len(lock) + 1].by = r /\ lock'[Len(lock) + 1].gen = row'
    BY <1>1, <1>3, Joining DEF Slot
  <2>3. \A i \in Slot' : i \in Slot \/ i = Len(lock) + 1
    BY <2>1 DEF Slot
  <2>4. \A i \in Slot : lock[i].gen = 0 /\ lock[i].by # r
    BY <1>2, <1>3 DEF LockOK, StoresNow, WaitersWait, Slot, Entry
  <2>a. WaitersWait' /\ ReadPending'
    BY <1>1, <1>2, <1>3, <2>2, <2>3 DEF LockOK, WaitersWait, ReadPending
  <2>b. OnePlace'
    BY <2>2, <2>3, <2>4 DEF LockOK, OnePlace
  <2>c. StoresNow'
    BY <1>2, <2>2, <2>3, <2>4 DEF StoresNow
  <2>5. WaitersWait' /\ OnePlace' /\ StoresNow' /\ ReadPending'
    BY <2>a, <2>b, <2>c
  <2>6. ReadAfter'
    BY <2>1, <2>2, <2>3, <2>4 DEF ReadAfter, Slot
  <2> QED
    BY <2>5, <2>6 DEF LockOK
<1>7. InHand'
  BY <1>1, <1>2, <1>4 DEF InHand, Pending, Decided, AtWork
<1>8. Count' /\ ParkingResumedOnce'
  <2>1. item.gen <= parks /\ item.gen \in Nat /\ parks \in Nat
    BY DEF TypeOK, Item, Count, Numbers
  <2>2. Numbers'
    BY <1>1, <2>1 DEF Numbers
  <2>3. Fresh' /\ Past' /\ ParkingResumedOnce'
    <3>1. \A a \in resumes : a.gen \in Nat /\ a.gen <= parks
      BY DEF TypeOK, Count, Past
    <3> QED
      BY <1>1, <2>1, <3>1 DEF Count, Fresh, Past, ParkingResumedOnce
  <2> QED
    BY <2>2, <2>3 DEF Count
<1> QED
  BY <1>5, <1>6, <1>7, <1>8

(* The task settles: its row goes if there was one.                        *)
LEMMA FinishKeeps ==
  ASSUME IInv, NEW r \in Runner, Finish(r)
  PROVE  IInv'
<1> USE DEF IInv
<1>1. /\ item' = item /\ parks' = parks /\ lock' = lock /\ storing' = storing
      /\ pc' = pc /\ user' = user /\ shown' = shown /\ seen' = seen /\ parked' = parked
      /\ crashes' = crashes /\ answers' = answers /\ resumes' = resumes
      /\ r \in running /\ running' = running \ {r} /\ row' \in {row, 0}
  BY DEF Finish, reqs, hist, DropRow
<1>2. /\ running' = {} /\ storing = {} /\ item.status # "pending"
      /\ \A p \in Request : ~Holds(p) /\ ~Holds(p)'
  <2>1. \A p \in Request : ~Holds(p) /\ ~Holds(p)'
    BY <1>1 DEF InHand, Decided, Holds
  <2>2. running' = {} /\ storing = {} /\ item.status # "pending"
    BY <1>1 DEF InHand, Pending, AtWork
  <2> QED
    BY <2>1, <2>2
<1>3. TypeOK'
  BY <1>1 DEF TypeOK
<1>4. LockOK'
  BY <1>1, <1>2 DEF LockOK, WaitersWait, OnePlace, StoresNow, ReadAfter, ReadPending, Slot
<1>5. InHand'
  BY <1>1, <1>2 DEF InHand, Pending, Decided, AtWork
<1>6. Count' /\ ParkingResumedOnce'
  BY <1>1, <1>2 DEF Count, Numbers, Fresh, Past, ParkingResumedOnce
<1> QED
  BY <1>3, <1>4, <1>5, <1>6

(* Nobody waits, runs or decides after a crash.                            *)
LEMMA CrashKeeps ==
  ASSUME IInv, Crash
  PROVE  IInv'
<1> USE DEF IInv
<1>1. /\ item' = item /\ row' = row /\ parks' = parks
      /\ user' = user /\ shown' = shown /\ seen' = seen /\ parked' = parked
      /\ answers' = answers /\ resumes' = resumes
      /\ lock' = <<>> /\ running' = {} /\ storing' = {} /\ crashes' = crashes + 1
      /\ pc' = [q \in Request |-> IF pc[q] \in {"idle", "looking"} THEN pc[q] ELSE "done"]
  BY DEF Crash, disk, hist
<1>2. \A p \in Request : ~Holds(p)' /\ (pc[p] = "done" => pc'[p] = "done")
  BY <1>1 DEF Holds
<1>3. TypeOK'
  BY <1>1 DEF TypeOK, Pc
<1>4. LockOK'
  BY <1>1 DEF LockOK, WaitersWait, OnePlace, StoresNow, ReadAfter, ReadPending, Slot
<1>5. InHand'
  BY <1>1, <1>2 DEF InHand, Pending, Decided, AtWork
<1>6. Count' /\ ParkingResumedOnce'
  <2>1. \A a \in resumes : a.by \in Request
    BY DEF TypeOK, Request
  <2> QED
    BY <1>1, <1>2, <2>1 DEF Count, Numbers, Fresh, Past, ParkingResumedOnce
<1> QED
  BY <1>3, <1>4, <1>5, <1>6

-----------------------------------------------------------------------------
(* The theorems                                                            *)

(* Every step keeps the task in one pair of hands.                         *)
LEMMA NextKeeps == IInv /\ [Next]_vars => IInv'
<1> SUFFICES ASSUME IInv, [Next]_vars PROVE IInv'
  OBVIOUS
<1>1. CASE UNCHANGED vars
  BY <1>1 DEF vars, disk, task, reqs, hist, IInv, TypeOK,
     LockOK, WaitersWait, OnePlace, StoresNow, ReadAfter, ReadPending, Slot,
     InHand, Pending, Decided, AtWork, Holds, Count, Numbers, Fresh, Past,
     ParkingResumedOnce
<1>2. ASSUME NEW q \in Request,
             Look(q) \/ Match(q) \/ Read(q) \/ Check(q) \/ Transfer(q) \/ Refuse(q)
      PROVE  IInv'
  BY <1>2, GoingKeeps, CheckKeeps, PassingKeeps
<1>3. ASSUME NEW q \in Resolve, Commit(q) \/ Resume(q)
      PROVE  IInv'
  BY <1>3, CommitKeeps, ResumeKeeps
<1>4. ASSUME NEW r \in Runner, Park(r) \/ Store(r) \/ StoreFails(r) \/ Finish(r)
      PROVE  IInv'
  BY <1>4, ParkKeeps, StoreKeeps, StoreFailsKeeps, FinishKeeps
<1> QED
  BY <1>1, <1>2, <1>3, <1>4, CrashKeeps DEF Next

(* The task is in one pair of hands, through every interleaving of         *)
(* answers, hand-offs, re-parks, failed writes and crashes.                *)
THEOREM OneHand == Spec => []IInv
BY InitIInv, NextKeeps, PTL DEF Spec

(* Every state of the model is one the types allow.                        *)
THEOREM TypeCorrect == Spec => []TypeOK
<1>1. IInv => TypeOK
  BY DEF IInv
<1> QED
  BY <1>1, OneHand, PTL

(* The task is in one pair of hands: running it, storing its new item or   *)
(* about to resume it.                                                     *)
THEOREM DrivenOnce == Spec => []TaskDrivenOnce
<1>1. IInv => TaskDrivenOnce
  BY DEF IInv, InHand, Decided, AtWork, Holds, Request, TaskDrivenOnce
<1> QED
  BY <1>1, OneHand, PTL

(* Each parking is resumed once at most, by the answer committed to it     *)
(* (HostInboxService.resolve and FileInboxStore.resolveLocked).            *)
THEOREM ResumedOnce == Spec => []ParkingResumedOnce
<1>1. IInv => ParkingResumedOnce
  BY DEF IInv
<1> QED
  BY <1>1, OneHand, PTL

(* What a chat answers is what it showed (ImApprovalService).              *)
THEOREM ShownIsResumed == Spec => []ImResumesWhatWasShown
<1>1. IInv => ImResumesWhatWasShown
  BY DEF IInv, Count, Past, ImResumesWhatWasShown
<1> QED
  BY <1>1, OneHand, PTL

(* A pending item has its row, at rest (suspendNotifier, write).           *)
THEOREM ItemHasRow == Spec => []PendingIsParked
<1>1. IInv => PendingIsParked
  BY DEF IInv, InHand, Pending, PendingIsParked
<1> QED
  BY <1>1, OneHand, PTL

(* Who changes an item's owner, or resolves it, waited for its lock and    *)
(* found it to be theirs, and the same parking (InboxExpectation).         *)
THEOREM OwnItem == Spec => ActsOnOwnItem
<1> DEFINE Moves ==
      item'.owner # item.owner /\ item'.gen = item.gen =>
        \E q \in HandOff : /\ pc[q] = "waiting" /\ pc'[q] = "done"
                           /\ user[q] = item.owner /\ seen[q].gen = item.gen
<1> DEFINE Lands ==
      item'.status = "resolved" /\ item.status # "resolved" =>
        \E q \in Resolve : /\ pc[q] = "waiting" /\ pc'[q] = "resuming"
                           /\ user[q] = item.owner
<1>1. IInv /\ [Next]_vars => [Moves /\ Lands]_vars
  <2> SUFFICES ASSUME IInv, Next PROVE Moves /\ Lands
    OBVIOUS
  <2>1. ASSUME NEW q \in Request, Look(q) \/ Match(q) \/ Read(q) \/ Check(q) \/ Refuse(q)
        PROVE  Moves /\ Lands
    BY <2>1 DEF Look, Match, Read, Check, Refuse, disk
  <2>2. ASSUME NEW q \in Request, Transfer(q)
        PROVE  Moves /\ Lands
    <3>1. /\ q \in HandOff /\ pc[q] = "waiting" /\ pc'[q] = "done"
          /\ user[q] = item.owner /\ seen[q].gen = item.gen
      BY <2>2, TurnWaits DEF Transfer, Goto, Accepts, Expects, IInv, TypeOK
    <3>2. item'.status = item.status
      BY <2>2 DEF Transfer, IInv, TypeOK, Item
    <3> QED
      BY <3>1, <3>2
  <2>3. ASSUME NEW q \in Resolve, Commit(q)
        PROVE  Moves /\ Lands
    <3>1. /\ pc[q] = "waiting" /\ pc'[q] = "resuming" /\ user[q] = item.owner
      BY <2>3, TurnWaits DEF Commit, Goto, Accepts, Expects, IInv, TypeOK, Request
    <3>2. item'.owner = item.owner
      BY <2>3 DEF Commit, IInv, TypeOK, Item
    <3> QED
      BY <3>1, <3>2
  <2>4. ASSUME NEW q \in Resolve, Resume(q)
        PROVE  Moves /\ Lands
    BY <2>4 DEF Resume, disk
  <2>5. ASSUME NEW r \in Runner, Park(r) \/ StoreFails(r) \/ Finish(r)
        PROVE  Moves /\ Lands
    BY <2>5 DEF Park, StoreFails, Finish
  <2>6. ASSUME NEW r \in Runner, Store(r)
        PROVE  Moves /\ Lands
    <3>1. /\ lock # <<>> /\ r \in storing /\ Head(lock).by = r
          /\ item' = [gen |-> Head(lock).gen, owner |-> Approver, status |-> "pending"]
      BY <2>6 DEF Store
    <3>2. lock \in Seq(Entry) /\ 1 \in Slot /\ Head(lock) = lock[1] /\ lock[1] \in Entry
      BY <3>1, Leaving DEF IInv, TypeOK, Entry, Slot
    <3>3. lock[1].gen # item.gen
      BY <3>1, <3>2 DEF IInv, LockOK, WaitersWait, StoresNow, InHand, AtWork, Count, Numbers, Entry
    <3> QED
      BY <3>1, <3>2, <3>3
  <2>7. CASE Crash
    BY <2>7 DEF Crash, disk
  <2> QED
    BY <2>1, <2>2, <2>3, <2>4, <2>5, <2>6, <2>7 DEF Next
<1> QED
  BY <1>1, OneHand, PTL DEF Spec, ActsOnOwnItem
=============================================================================
