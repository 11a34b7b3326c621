--------------------------- MODULE DispatchProofs ---------------------------
(***************************************************************************)
(* Proofs about module Dispatch, for any tasks, participants and bounds.   *)
(*                                                                         *)
(* The counters are right because two calls are never confused: a resume   *)
(* carries the number of a parking that no call has yet (Numbered).  A     *)
(* race is settled by the last candidate because the count of candidates   *)
(* is that of the calls at work (RaceOK).  The view of a task is true      *)
(* because it has one call at a time, which agrees with its row (Sound).   *)
(***************************************************************************)
EXTENDS Dispatch, FiniteSetTheorems, TLAPS

Racers(t)  == {c \in calls : c.task = t}
RowsOf(t)  == {r \in rows : r.task = t}
Single     == {"explicit", "capability"}

(* Rows and calls are numbered by the parkings of their task.              *)
Numbered ==
  /\ \A r, q \in rows : r.task = q.task => r = q
  /\ \A r \in rows : r.n <= parks[r.task] /\ kind[r.task] \in Single
  /\ \A c \in calls : c.n <= parks[c.task] /\ kind[c.task] # "none"
  /\ \A c \in calls, r \in rows : c.task = r.task /\ ~r.claimed => c.n < r.n
  /\ \A c, d \in calls : c.task = d.task /\ c.by = d.by /\ c.n = d.n => c = d
  /\ \A t \in Task : kind[t] = "none" => results[t] = <<>>

LoadOK ==
  \A p \in Worker :
    /\ IsFiniteSet(On(p))
    /\ load[p] <= Cardinality(On(p))
    /\ p \notin left => load[p] = Cardinality(On(p))
    /\ p \notin here /\ p \notin left => On(p) = {}

Settles(t) ==
  /\ IsFiniteSet(Racers(t))
  /\ Racers(t) # {} => (race[t].settled <=> results[t] # <<>>)
  /\ \/ /\ results[t] = <<>> /\ Racers(t) # {}
        /\ race[t].remaining = Cardinality(Racers(t))
     \/ results[t] = <<"ok">>
     \/ results[t] = <<"failed">> /\ Racers(t) = {}

RaceOK == \A t \in Task : kind[t] = "broadcast" => Settles(t)

Sound(t) ==
  /\ \A c, d \in Racers(t) : c = d
  /\ \A c \in Racers(t), r \in RowsOf(t) : r.claimed <=> c.at = "running"
  /\ \A c \in Racers(t) :
       IF c.at = "running" THEN c.n > 0 <=> RowsOf(t) # {} ELSE RowsOf(t) # {}
  /\ \A r \in RowsOf(t) : r.claimed => Racers(t) # {}
  /\ View(t) = "finished" /\ t \notin leaked => RowsOf(t) = {} /\ Racers(t) = {}
  /\ View(t) = "pending" => RowsOf(t) # {} \/ Racers(t) # {}

SoundOK == \A t \in Task : kind[t] \in Single /\ t \notin overtaken => Sound(t)

Structure == TypeOK /\ Numbered

IInv == Structure /\ LoadOK /\ RaceOK /\ SoundOK

(* The inductive invariant implies the properties.                         *)
LEMMA IInvGives == IInv => TypeOK /\ LoadCounts /\ RaceWaits /\ ViewIsTrue
<1> SUFFICES ASSUME IInv PROVE TypeOK /\ LoadCounts /\ RaceWaits /\ ViewIsTrue
  OBVIOUS
<1>1. \A t : Racing(t) = Racers(t)
  BY DEF Racing, Racers
<1>2. LoadCounts
  BY DEF IInv, LoadOK, LoadCounts
<1>3. RaceWaits
  BY <1>1 DEF IInv, RaceOK, Settles, RaceWaits
<1>4. FinishedIsOver
  <2> SUFFICES ASSUME NEW t \in Task \ (overtaken \cup leaked), View(t) = "finished"
               PROVE  (\A r \in rows : r.task # t) /\ (kind[t] # "broadcast" => Racing(t) = {})
    BY DEF FinishedIsOver
  <2>1. kind[t] \in Strategy \cup {"none"}
    BY DEF IInv, Structure, TypeOK
  <2>2. CASE kind[t] \in Single
    BY <1>1, <2>2 DEF IInv, SoundOK, Sound, RowsOf
  <2>3. CASE kind[t] = "broadcast"
    BY <2>3 DEF IInv, Structure, Numbered, Single
  <2>4. CASE kind[t] = "none"
    BY <2>4, <1>1 DEF IInv, Structure, Numbered, Single, Racers
  <2> QED
    BY <2>1, <2>2, <2>3, <2>4 DEF Strategy, Single
<1>5. PendingIsAlive
  <2> SUFFICES ASSUME NEW t \in Task \ overtaken, kind[t] # "none", View(t) = "pending"
               PROVE  Racing(t) # {} \/ \E r \in rows : r.task = t
    BY DEF PendingIsAlive
  <2>1. kind[t] \in Strategy \cup {"none"}
    BY DEF IInv, Structure, TypeOK
  <2>2. CASE kind[t] \in Single
    BY <1>1, <2>2 DEF IInv, SoundOK, Sound, RowsOf
  <2>3. CASE kind[t] = "broadcast"
    BY <2>3, <1>1 DEF IInv, RaceOK, Settles, View
  <2> QED
    BY <2>1, <2>2, <2>3 DEF Strategy, Single
<1> QED
  BY <1>2, <1>3, <1>4, <1>5 DEF IInv, Structure, ViewIsTrue

(* Nothing is in flight at first.                                          *)
LEMMA InitIInv == Init => IInv
<1> SUFFICES ASSUME Init PROVE IInv
  OBVIOUS
<1>1. TypeOK
  BY DispatchAssumption DEF Init, TypeOK, Result
<1>2. Numbered
  BY DEF Init, Numbered
<1>3. LoadOK
  <2>1. \A p \in Worker : On(p) = {}
    BY DEF Init, On
  <2>2. IsFiniteSet({}) /\ Cardinality({}) = 0
    BY FS_EmptySet
  <2> SUFFICES ASSUME NEW p \in Worker
               PROVE  IsFiniteSet(On(p)) /\ load[p] = 0 /\ Cardinality(On(p)) = 0 /\ On(p) = {}
    BY DEF LoadOK
  <2>3. load[p] = 0
    BY DEF Init
  <2> QED
    BY <2>1, <2>2, <2>3
<1>4. RaceOK /\ SoundOK
  BY DEF Init, RaceOK, SoundOK, Single
<1> QED
  BY <1>1, <1>2, <1>3, <1>4 DEF IInv, Structure

-----------------------------------------------------------------------------
(* Structure                                                               *)

(* A call that ends, or goes on to its parking, leaves the others alone.   *)
LEMMA EndsTypes ==
  ASSUME TypeOK, NEW c \in calls, Ends(c)
  PROVE  load' \in [Worker -> Nat] /\ calls' \in SUBSET Call /\ left' \in SUBSET Worker
<1>1. c.by \in Worker /\ load \in [Worker -> Nat]
  BY DEF TypeOK, Call
<1>2. load[c.by] \in Nat /\ (load[c.by] # 0 => load[c.by] - 1 \in Nat)
  BY <1>1
<1>3. load' = [load EXCEPT ![c.by] = IF load[c.by] = 0 THEN 0 ELSE load[c.by] - 1]
  BY DEF Ends, DecLoad
<1>4. load' \in [Worker -> Nat]
  BY <1>1, <1>2, <1>3
<1> QED
  BY <1>4 DEF TypeOK, Ends

(* A result is added to the transcript.                                    *)
LEMMA RecordTypes ==
  ASSUME TypeOK, NEW t \in Task, NEW r \in Result, Record(t, r)
  PROVE  /\ results' \in [Task -> Seq(Result)]
         /\ \A u \in Task : results'[u] = IF u = t THEN Append(results[t], r) ELSE results[u]
         /\ View(t)' = IF r = "suspended" THEN "pending" ELSE "finished"
         /\ results'[t] # <<>>
<1>1. results' = [results EXCEPT ![t] = Append(results[t], r)] /\ results[t] \in Seq(Result)
  BY DEF TypeOK, Record
<1>2. /\ Append(results[t], r) \in Seq(Result)
      /\ Append(results[t], r)[Len(results[t]) + 1] = r
      /\ Len(Append(results[t], r)) = Len(results[t]) + 1
      /\ Append(results[t], r) # <<>>
  BY <1>1
<1>3. \A u \in Task : results'[u] = IF u = t THEN Append(results[t], r) ELSE results[u]
  BY <1>1 DEF TypeOK
<1>4. results' \in [Task -> Seq(Result)]
  BY <1>1, <1>2 DEF TypeOK
<1>5. View(t)' = IF r = "suspended" THEN "pending" ELSE "finished"
  BY <1>2, <1>3 DEF View
<1> QED
  BY <1>2, <1>3, <1>4, <1>5

(* A call ends, with or without a result; its rows may be cleared.         *)
LEMMA EndsNumbered ==
  ASSUME Structure, NEW c \in calls, Ends(c), rows' \in SUBSET rows, UNCHANGED parks,
         \A t \in Task : kind[t] = "none" => results'[t] = results[t]
  PROVE  Numbered'
<1>1. calls' \in SUBSET calls /\ kind' = kind
  BY DEF Ends
<1> QED
  BY <1>1 DEF Structure, TypeOK, Call, Row, Numbered

(* A participant is called for a task, with a number of its own.           *)
LEMMA InvokeNumbered ==
  ASSUME Structure, NEW t \in Task, NEW p \in Worker, NEW n \in 0..MaxPark,
         Invoke(t, p, n), n <= parks[t], kind'[t] # "none",
         \A u \in Task \ {t} : kind'[u] = kind[u],
         \A c \in calls : c.task = t => c.n # n,
         \A r \in rows' : r \in Row /\ r.n <= parks[r.task] /\ kind'[r.task] \in Single,
         \A r \in rows' : r.task = t => r.claimed,
         \A r, q \in rows' : r.task = q.task => r = q,
         \A r \in rows' : r.task # t => r \in rows
  PROVE  Numbered'
<1> DEFINE new == CallOf(t, p, n)
<1>1. calls' = calls \cup {new} /\ UNCHANGED <<parks, results>>
  BY DEF Invoke
<1>2. new.task = t /\ new.by = p /\ new.n = n
  BY DEF CallOf
<1>3. \A c \in calls : c.task \in Task /\ c.n \in 0..MaxPark
  BY DEF Structure, TypeOK, Call
<1> HIDE DEF new
<1>4. \A c \in calls' : c.n <= parks[c.task] /\ kind'[c.task] # "none"
  BY <1>1, <1>2, <1>3 DEF Structure, Numbered
<1>5. \A c \in calls', r \in rows' : c.task = r.task /\ ~r.claimed => c.n < r.n
  BY <1>1, <1>2 DEF Structure, Numbered
<1>6. \A c, d \in calls' : c.task = d.task /\ c.by = d.by /\ c.n = d.n => c = d
  BY <1>1, <1>2 DEF Structure, Numbered
<1>7. \A u \in Task : kind'[u] = "none" => results'[u] = <<>>
  BY <1>1 DEF Structure, Numbered
<1> QED
  BY <1>1, <1>4, <1>5, <1>6, <1>7 DEF Numbered

(* A call being opened keeps the types.                                    *)
LEMMA InvokeTypes ==
  ASSUME Structure, NEW t \in Task, NEW p \in Worker, NEW n \in 0..MaxPark, Invoke(t, p, n)
  PROVE  load' \in [Worker -> Nat] /\ calls' \in SUBSET Call
<1>1. CallOf(t, p, n) \in Call
  BY DEF CallOf, Call
<1>2. load' \in [Worker -> Nat]
  BY DEF Structure, TypeOK, Invoke
<1> QED
  BY <1>1, <1>2 DEF Structure, TypeOK, Invoke

(* Every step keeps the types and the numbers.                             *)
LEMMA StructureStep ==
  ASSUME Structure, RaceOK, [Next]_vars
  PROVE  Structure'
<1> USE DispatchAssumption DEF Structure
<1>1. ASSUME NEW p \in Worker, Register(p) \/ Unregister(p) PROVE Structure'
  <2>1. UNCHANGED <<kind, calls, race, table, results, overtaken, leaked>>
        /\ here' \in SUBSET Worker /\ load' = [load EXCEPT ![p] = 0]
        /\ left' \in SUBSET Worker /\ leaves' \in Nat
    BY <1>1 DEF Register, Unregister, TypeOK
  <2>2. load' \in [Worker -> Nat]
    BY <2>1 DEF TypeOK
  <2> QED
    BY <2>1, <2>2 DEF TypeOK, Numbered, table
<1>2. ASSUME NEW t \in Task, NEW s \in Strategy, Refused(t, s) PROVE Structure'
  <2>1. "failed" \in Result /\ Record(t, "failed") /\ kind[t] = "none" /\ kind' = [kind EXCEPT ![t] = s]
        /\ UNCHANGED <<registry, calls, race, table, left, overtaken, leaked>>
    BY <1>2 DEF Refused, Result
  <2>2. results' \in [Task -> Seq(Result)] /\ results'[t] # <<>>
        /\ \A u \in Task : u # t => results'[u] = results[u]
    BY <2>1, RecordTypes
  <2>3. kind' \in [Task -> Strategy \cup {"none"}]
        /\ \A u \in Task : kind'[u] = IF u = t THEN s ELSE kind[u]
    BY <2>1 DEF TypeOK
  <2>4. s # "none"
    BY DEF Strategy
  <2>5. \A r \in rows : r.task # t
    BY <2>1 DEF Numbered, Single
  <2>6. Numbered'
    BY <2>1, <2>2, <2>3, <2>4, <2>5 DEF TypeOK, Row, Call, Numbered, table
  <2> QED
    BY <2>1, <2>2, <2>3, <2>6 DEF TypeOK, registry, table
<1>3. ASSUME NEW t \in Task, DispatchExplicit(t) \/ DispatchCapability(t) PROVE Structure'
  <2>1. PICK s \in Single, p \in here : DispatchTo(t, s, p)
    BY <1>3 DEF DispatchExplicit, DispatchCapability, Single
  <2>2. p \in Worker /\ 0 \in 0..MaxPark /\ parks[t] \in 0..MaxPark
    BY DEF TypeOK
  <2>3. Invoke(t, p, 0) /\ kind[t] = "none" /\ kind' = [kind EXCEPT ![t] = s]
        /\ UNCHANGED <<rows, overtaken>>
    BY <2>1 DEF DispatchTo
  <2>4. load' \in [Worker -> Nat] /\ calls' \in SUBSET Call
    BY <2>2, <2>3, InvokeTypes
  <2>5. kind' \in [Task -> Strategy \cup {"none"}] /\ s # "none"
        /\ \A u \in Task : kind'[u] = IF u = t THEN s ELSE kind[u]
    BY <2>3 DEF TypeOK, Strategy, Single
  <2>6. (\A r \in rows : r.task # t) /\ (\A c \in calls : c.task # t)
    BY <2>3 DEF Numbered, Single
  <2>7. /\ \A r \in rows' : r \in Row /\ r.n <= parks[r.task] /\ kind'[r.task] \in Single
        /\ \A r \in rows' : r.task = t => r.claimed
    BY <2>3, <2>5, <2>6 DEF TypeOK, Row, Numbered
  <2>8. Numbered'
    BY <2>2, <2>3, <2>5, <2>6, <2>7, InvokeNumbered DEF Numbered
  <2> QED
    BY <2>3, <2>4, <2>5, <2>8 DEF TypeOK, Invoke
<1>4. ASSUME NEW t \in Task, DispatchBroadcast(t) PROVE Structure'
  <2> DEFINE candidates == here \cap Able
             new == {CallOf(t, p, 0) : p \in candidates}
  <2>1. /\ kind[t] = "none" /\ kind' = [kind EXCEPT ![t] = "broadcast"]
        /\ load' = [p \in Worker |-> IF p \in candidates THEN load[p] + 1 ELSE load[p]]
        /\ calls' = calls \cup new
        /\ race' = [race EXCEPT ![t] = [settled |-> FALSE, remaining |-> Cardinality(candidates)]]
        /\ UNCHANGED <<here, leaves, table, results, left, overtaken, leaked>>
    BY <1>4 DEF DispatchBroadcast
  <2>2. candidates \in SUBSET Worker
    BY DEF TypeOK
  <2>3. IsFiniteSet(candidates) /\ Cardinality(candidates) \in Nat
    BY <2>2, FS_Subset, FS_CardinalityType
  <2>4. \A c \in new : c \in Call /\ c.task = t /\ c.n = 0
    BY <2>2 DEF CallOf, Call
  <2>5. \A c, d \in new : c.by = d.by => c = d
    BY DEF CallOf
  <2>6. (\A r \in rows : r.task # t) /\ (\A c \in calls : c.task # t)
    BY <2>1 DEF Numbered, Single
  <2>7. kind' \in [Task -> Strategy \cup {"none"}]
        /\ \A u \in Task : kind'[u] = IF u = t THEN "broadcast" ELSE kind[u]
    BY <2>1 DEF TypeOK, Strategy
  <2>8. race' \in [Task -> [settled : BOOLEAN, remaining : Nat]]
    BY <2>1, <2>3 DEF TypeOK
  <2> HIDE DEF new, candidates
  <2>9. load' \in [Worker -> Nat]
    BY <2>1 DEF TypeOK
  <2>10. Numbered'
    <3>1. \A r, q \in rows' : r.task = q.task => r = q
      BY <2>1 DEF Numbered, table
    <3>2. \A r \in rows' : r.n <= parks'[r.task] /\ kind'[r.task] \in Single
      BY <2>1, <2>6, <2>7 DEF TypeOK, Row, Numbered, table
    <3>3. \A c \in calls' : c.n <= parks'[c.task] /\ kind'[c.task] # "none"
      BY <2>1, <2>4, <2>7 DEF TypeOK, Call, Numbered, table
    <3>4. \A c \in calls', r \in rows' : c.task = r.task /\ ~r.claimed => c.n < r.n
      BY <2>1, <2>4, <2>6 DEF Numbered, table
    <3>5. \A c, d \in calls' : c.task = d.task /\ c.by = d.by /\ c.n = d.n => c = d
      BY <2>1, <2>4, <2>5, <2>6 DEF Numbered
    <3>6. \A u \in Task : kind'[u] = "none" => results'[u] = <<>>
      BY <2>1, <2>7 DEF Numbered
    <3> QED
      BY <3>1, <3>2, <3>3, <3>4, <3>5, <3>6 DEF Numbered
  <2> QED
    BY <2>1, <2>4, <2>7, <2>8, <2>9, <2>10 DEF TypeOK, table
<1>5. ASSUME NEW c \in calls, NEW r \in {"ok", "failed", "suspended"}, Alone(c), Ends(c),
             Record(c.task, r), rows' \in SUBSET rows, leaked' \in SUBSET Task,
             UNCHANGED <<race, parks, overtaken>>
      PROVE  Structure'
  <2>1. c.task \in Task /\ r \in Result /\ kind[c.task] # "none"
    BY DEF TypeOK, Call, Result, Numbered
  <2>2. results' \in [Task -> Seq(Result)] /\ \A u \in Task : u # c.task => results'[u] = results[u]
    BY <1>5, <2>1, RecordTypes
  <2>3. load' \in [Worker -> Nat] /\ calls' \in SUBSET Call /\ left' \in SUBSET Worker
    BY <1>5, EndsTypes
  <2>4. Numbered'
    BY <1>5, <2>1, <2>2, EndsNumbered
  <2> QED
    BY <1>5, <2>2, <2>3, <2>4 DEF TypeOK, Ends
<1>6. ASSUME NEW c \in calls, (\E r \in {"ok", "failed"} : Returns(c, r)) \/ Parked(c)
                             \/ ParkFails(c) \/ NotifierFails(c)
      PROVE  Structure'
  <2>1. \E r \in {"ok", "failed", "suspended"} : Record(c.task, r)
    BY <1>6 DEF Returns, Parked, ParkFails, NotifierFails
  <2>2. Alone(c) /\ Ends(c) /\ UNCHANGED <<race, parks, overtaken>>
    BY <1>6 DEF Returns, Parked, ParkFails, NotifierFails, table
  <2>3. rows' \in SUBSET rows
    BY <1>6 DEF Returns, Parked, ParkFails, NotifierFails, table, Cleared
  <2>4. leaked' \in SUBSET Task
    BY <1>6 DEF Returns, Parked, ParkFails, NotifierFails, TypeOK, Call
  <2> QED
    BY <1>5, <2>1, <2>2, <2>3, <2>4
<1>7. ASSUME NEW c \in calls, Suspends(c) PROVE Structure'
  <2> DEFINE t == c.task
             row == [task |-> t, by |-> c.by, n |-> parks[t] + 1, claimed |-> FALSE]
             park == [c EXCEPT !.at = "parking"]
  <2>1. /\ c.at = "running" /\ parks[t] < MaxPark /\ kind[t] # "broadcast"
        /\ calls' = (calls \ {c}) \cup {park}
        /\ parks' = [parks EXCEPT ![t] = @ + 1]
        /\ rows' = {r \in rows : r.task # t} \cup {row}
        /\ UNCHANGED <<registry, kind, race, results, left, overtaken, leaked>>
    BY <1>7 DEF Suspends, Alone
  <2>2. t \in Task /\ c.by \in Worker /\ c.n \in 0..MaxPark /\ c \in Call /\ parks[t] \in 0..MaxPark
    BY DEF TypeOK, Call
  <2>3. park \in Call /\ park.task = t /\ park.by = c.by /\ park.n = c.n
    BY <2>2 DEF Call
  <2>4. parks[t] + 1 \in 1..MaxPark
    BY <2>1, <2>2
  <2>5. row \in Row /\ row.task = t /\ row.n = parks[t] + 1 /\ row.claimed = FALSE
    BY <2>2, <2>4 DEF Row
  <2>6. kind[t] \in Single
    BY <2>1, <2>2 DEF TypeOK, Strategy, Single, Numbered
  <2> HIDE DEF row, park
  <2>7. parks' \in [Task -> 0..MaxPark] /\ \A u \in Task : parks'[u] = IF u = t THEN parks[t] + 1 ELSE parks[u]
    BY <2>1, <2>2, <2>4 DEF TypeOK
  <2>8. TypeOK'
    BY <2>1, <2>3, <2>5, <2>7 DEF TypeOK, registry
  <2>9. Numbered'
    <3>1. \A r, q \in rows' : r.task = q.task => r = q
      BY <2>1, <2>5 DEF Numbered
    <3>2. \A r \in rows' : r.n <= parks'[r.task] /\ kind'[r.task] \in Single
      BY <2>1, <2>2, <2>5, <2>6, <2>7 DEF TypeOK, Row, Numbered
    <3>3. \A d \in calls : d.n <= parks[d.task] /\ d.n \in 0..MaxPark /\ d.task \in Task
      BY DEF TypeOK, Call, Numbered
    <3>4. \A d \in calls' : d.n <= parks'[d.task] /\ kind'[d.task] # "none"
      BY <2>1, <2>2, <2>3, <2>7, <3>3 DEF Numbered
    <3>5. \A d \in calls', r \in rows' : d.task = r.task /\ ~r.claimed => d.n < r.n
      <4>1. \A d \in calls' : d.task = t => d.n < parks[t] + 1
        BY <2>1, <2>2, <2>3, <3>3
      <4> QED
        BY <2>1, <2>3, <2>5, <4>1 DEF Numbered
    <3>6. \A d, e \in calls' : d.task = e.task /\ d.by = e.by /\ d.n = e.n => d = e
      BY <2>1, <2>3 DEF Numbered
    <3> QED
      BY <2>1, <3>1, <3>2, <3>4, <3>5, <3>6 DEF Numbered
  <2> QED
    BY <2>8, <2>9
<1>8. ASSUME NEW c \in calls, CandidateOk(c) \/ CandidateMisses(c) PROVE Structure'
  <2>1. Ends(c) /\ kind[c.task] = "broadcast" /\ UNCHANGED <<table, overtaken, leaked>>
    BY <1>8 DEF CandidateOk, CandidateMisses, Candidate
  <2>2. c.task \in Task
    BY DEF TypeOK, Call
  <2>3. load' \in [Worker -> Nat] /\ calls' \in SUBSET Call /\ left' \in SUBSET Worker
    BY <2>1, EndsTypes
  <2>4. results' = results \/ \E r \in {"ok", "failed"} : Record(c.task, r)
    BY <1>8 DEF CandidateOk, CandidateMisses
  <2>5. results' \in [Task -> Seq(Result)] /\ \A u \in Task : u # c.task => results'[u] = results[u]
    <3>1. CASE results' = results
      BY <3>1 DEF TypeOK
    <3>2. CASE \E r \in {"ok", "failed"} : Record(c.task, r)
      <4>1. PICK r \in Result : Record(c.task, r)
        BY <3>2 DEF Result
      <4> QED
        BY <2>2, <4>1, RecordTypes
    <3> QED
      BY <2>4, <3>1, <3>2
  <2>6. race' \in [Task -> [settled : BOOLEAN, remaining : Nat]]
    <3>1. race[c.task] \in [settled : BOOLEAN, remaining : Nat]
      BY <2>2 DEF TypeOK
    <3>2. CASE UNCHANGED race
      BY <3>2 DEF TypeOK
    <3>3. CASE race' = [race EXCEPT ![c.task].settled = TRUE]
      BY <3>1, <3>3 DEF TypeOK
    <3>4. CASE /\ ~race[c.task].settled
               /\ race' = [race EXCEPT ![c.task] =
                     [settled |-> race[c.task].remaining = 1, remaining |-> race[c.task].remaining - 1]]
      <4>1. IsFiniteSet(Racers(c.task)) /\ Racers(c.task) # {}
            /\ race[c.task].remaining = Cardinality(Racers(c.task))
        <5>3. c \in Racers(c.task) /\ Settles(c.task)
          BY <2>1, <2>2 DEF RaceOK, Racers
        <5>1. results[c.task] = <<>> /\ c \in Racers(c.task)
          BY <3>4, <5>3 DEF Settles
        <5>2. <<>> # <<"ok">> /\ <<>> # <<"failed">>
          OBVIOUS
        <5> QED
          BY <5>1, <5>2, <5>3 DEF Settles
      <4>2. race[c.task].remaining # 0
        BY <4>1, FS_EmptySet
      <4>3. race[c.task].remaining - 1 \in Nat
        BY <3>1, <4>2
      <4>4. (race[c.task].remaining = 1) \in BOOLEAN
        OBVIOUS
      <4> QED
        BY <3>4, <4>3, <4>4 DEF TypeOK
    <3> QED
      BY <1>8, <3>2, <3>3, <3>4 DEF CandidateOk, CandidateMisses
  <2>7. Numbered'
    BY <2>1, <2>2, <2>5, EndsNumbered DEF table
  <2> QED
    BY <2>1, <2>3, <2>5, <2>6, <2>7 DEF TypeOK, Ends, table
<1>9. ASSUME NEW r \in rows, Resume(r) PROVE Structure'
  <2> DEFINE claim == [r EXCEPT !.claimed = TRUE]
  <2>1. r \in Row /\ r.task \in Task /\ r.by \in Worker /\ r.n \in 1..MaxPark /\ r.n <= parks[r.task]
        /\ kind[r.task] \in Single /\ ~r.claimed
    BY <1>9 DEF TypeOK, Row, Numbered, Resume
  <2>2. overtaken' \in SUBSET Task /\ UNCHANGED kind
    BY <1>9, <2>1 DEF Resume, TypeOK
  <2>3. CASE r.by \in here
    <3>1. rows' = (rows \ {r}) \cup {claim} /\ Invoke(r.task, r.by, r.n)
      BY <1>9, <2>3 DEF Resume
    <3>2. claim \in Row /\ claim.task = r.task /\ claim.n = r.n /\ claim.claimed = TRUE
      BY <2>1 DEF Row
    <3> HIDE DEF claim
    <3>3. rows' \in SUBSET Row
      BY <3>1, <3>2 DEF TypeOK
    <3>4. load' \in [Worker -> Nat] /\ calls' \in SUBSET Call
      BY <2>1, <3>1, InvokeTypes
    <3>5. /\ \A q \in rows' : q \in Row /\ q.n <= parks[q.task] /\ kind'[q.task] \in Single
          /\ \A q \in rows' : q.task = r.task => q.claimed
      BY <2>1, <2>2, <3>1, <3>2, <3>3 DEF Numbered
    <3>6. \A q, o \in rows' : q.task = o.task => q = o
      BY <3>1, <3>2 DEF Numbered
    <3>7. \A q \in rows' : q.task # r.task => q \in rows
      BY <3>1, <3>2
    <3>8. \A c \in calls : c.task = r.task => c.n # r.n
      <4>1. \A c \in calls : c.n \in Nat /\ (c.task = r.task => c.n < r.n)
        BY <2>1 DEF Numbered, TypeOK, Call
      <4> QED
        BY <2>1, <4>1
    <3>9. r.n \in 0..MaxPark /\ kind'[r.task] # "none"
      BY <2>1, <2>2 DEF Single
    <3>10. Numbered'
      BY <2>1, <2>2, <3>1, <3>5, <3>6, <3>7, <3>8, <3>9, InvokeNumbered
    <3> QED
      BY <2>2, <3>1, <3>3, <3>4, <3>10 DEF TypeOK, Invoke
  <2>4. CASE r.by \notin here
    <3>1. rows' = rows \ {r} /\ Record(r.task, "failed") /\ UNCHANGED <<registry, calls, race, parks, left, leaked>>
      BY <1>9, <2>4 DEF Resume
    <3>2. results' \in [Task -> Seq(Result)] /\ \A u \in Task : u # r.task => results'[u] = results[u]
      BY <2>1, <3>1, RecordTypes DEF Result
    <3>3. Numbered'
      BY <2>1, <2>2, <3>1, <3>2 DEF Numbered, Single
    <3> QED
      BY <2>2, <3>1, <3>2, <3>3 DEF TypeOK, registry
  <2> QED
    BY <2>3, <2>4
<1>10. ASSUME UNCHANGED vars PROVE Structure'
  BY <1>10 DEF vars, registry, table, TypeOK, Numbered
<1> QED
  BY <1>1, <1>2, <1>3, <1>4, <1>6, <1>7, <1>8, <1>9, <1>10 DEF Next

-----------------------------------------------------------------------------
(* LoadOK                                                                  *)

(* The end of a call is counted.                                           *)
LEMMA EndsLoad ==
  ASSUME Structure, LoadOK, NEW c \in calls, Ends(c)
  PROVE  LoadOK'
<1>1. c.by \in Worker /\ load \in [Worker -> Nat]
  BY DEF Structure, TypeOK, Call
<1>2. \A p \in Worker : On(p)' = On(p) \ {c}
  BY DEF Ends, On
<1>3. c \in On(c.by) /\ \A p \in Worker : p # c.by => c \notin On(p)
  BY DEF On
<1>4. load' = [load EXCEPT ![c.by] = IF load[c.by] = 0 THEN 0 ELSE load[c.by] - 1]
      /\ left' = (IF On(c.by) = {c} THEN left \ {c.by} ELSE left) /\ here' = here
  BY DEF Ends, DecLoad
<1> SUFFICES ASSUME NEW p \in Worker
             PROVE  /\ IsFiniteSet(On(p))'
                    /\ load'[p] <= Cardinality(On(p)')
                    /\ p \notin left' => load'[p] = Cardinality(On(p)')
                    /\ p \notin here' /\ p \notin left' => On(p)' = {}
  BY DEF LoadOK
<1>5. CASE p # c.by
  <2>1. On(p)' = On(p)
    BY <1>2, <1>3, <1>5
  <2>2. load'[p] = load[p] /\ (p \in left' <=> p \in left)
    BY <1>1, <1>4, <1>5
  <2> QED
    BY <1>4, <2>1, <2>2 DEF LoadOK
<1>6. CASE p = c.by
  <2>1. IsFiniteSet(On(p)) /\ c \in On(p) /\ On(p)' = On(p) \ {c}
    BY <1>2, <1>3, <1>6 DEF LoadOK
  <2>2. IsFiniteSet(On(p)') /\ Cardinality(On(p)') = Cardinality(On(p)) - 1
        /\ Cardinality(On(p)') \in Nat /\ Cardinality(On(p)) \in Nat
    BY <2>1, FS_RemoveElement, FS_CardinalityType
  <2>3. load[p] \in Nat /\ load'[p] = IF load[p] = 0 THEN 0 ELSE load[p] - 1
    BY <1>1, <1>4, <1>6
  <2>4. load[p] <= Cardinality(On(p)) /\ (p \notin left => load[p] = Cardinality(On(p)))
        /\ (p \notin here /\ p \notin left => On(p) = {})
    BY DEF LoadOK
  <2>5. load'[p] <= Cardinality(On(p)') /\ (p \notin left => load'[p] = Cardinality(On(p)'))
    BY <2>2, <2>3, <2>4
  <2>6. CASE On(p) = {c}
    <3>1. On(p)' = {} /\ Cardinality(On(p)') = 0
      BY <2>1, <2>6, FS_EmptySet
    <3> QED
      BY <2>2, <2>3, <2>5, <3>1
  <2>7. CASE On(p) # {c}
    <3>1. left' = left
      BY <1>4, <1>6, <2>7
    <3> QED
      BY <1>4, <2>1, <2>2, <2>4, <2>5, <3>1
  <2> QED
    BY <2>6, <2>7
<1> QED
  BY <1>5, <1>6

(* New calls, one for each participant of a set, are counted.              *)
LEMMA CallsLoad ==
  ASSUME Structure, LoadOK, NEW P \in SUBSET here, NEW t \in Task, NEW n \in 0..MaxPark,
         calls' = calls \cup {CallOf(t, p, n) : p \in P},
         \A p \in P : CallOf(t, p, n) \notin calls,
         \A p \in Worker : load'[p] = IF p \in P THEN load[p] + 1 ELSE load[p],
         UNCHANGED <<here, left>>
  PROVE  LoadOK'
<1> SUFFICES ASSUME NEW p \in Worker
             PROVE  /\ IsFiniteSet(On(p))'
                    /\ load'[p] <= Cardinality(On(p)')
                    /\ p \notin left => load'[p] = Cardinality(On(p)')
                    /\ p \notin here /\ p \notin left => On(p)' = {}
  BY DEF LoadOK
<1> DEFINE new == CallOf(t, p, n)
<1>1. \A q : CallOf(t, q, n).by = q
  BY DEF CallOf
<1>2. load[p] \in Nat /\ IsFiniteSet(On(p)) /\ load[p] <= Cardinality(On(p))
      /\ (p \notin left => load[p] = Cardinality(On(p)))
      /\ (p \notin here /\ p \notin left => On(p) = {})
  BY DEF LoadOK, Structure, TypeOK
<1>3. CASE p \in P
  <2>1. On(p)' = On(p) \cup {new} /\ new \notin On(p)
    BY <1>1, <1>3 DEF On
  <2> HIDE DEF new
  <2>2. IsFiniteSet(On(p)') /\ Cardinality(On(p)') = Cardinality(On(p)) + 1
    <3>1. /\ IsFiniteSet(On(p) \cup {new})
          /\ Cardinality(On(p) \cup {new}) = IF new \in On(p) THEN Cardinality(On(p))
                                             ELSE Cardinality(On(p)) + 1
      BY <1>2, FS_AddElement
    <3> QED
      BY <2>1, <3>1
  <2>3. Cardinality(On(p)) \in Nat /\ load'[p] = load[p] + 1
    BY <1>2, <1>3, FS_CardinalityType
  <2>4. load'[p] <= Cardinality(On(p)') /\ (p \notin left => load'[p] = Cardinality(On(p)'))
    BY <1>2, <2>2, <2>3
  <2> QED
    BY <1>3, <2>2, <2>4
<1>4. CASE p \notin P
  <2>1. On(p)' = On(p) /\ load'[p] = load[p]
    BY <1>1, <1>4 DEF On
  <2> QED
    BY <1>2, <2>1
<1> QED
  BY <1>3, <1>4

(* A participant is called once more.                                      *)
LEMMA InvokeLoad ==
  ASSUME Structure, LoadOK, NEW t \in Task, NEW p \in here, NEW n \in 0..MaxPark,
         Invoke(t, p, n), \A c \in calls : c.task = t => c.n # n
  PROVE  LoadOK'
<1>1. {p} \in SUBSET here
  OBVIOUS
<1>2. calls' = calls \cup {CallOf(t, q, n) : q \in {p}} /\ UNCHANGED <<here, left>>
  BY DEF Invoke
<1>3. \A q \in {p} : CallOf(t, q, n) \notin calls
  BY DEF CallOf
<1>4. \A q \in Worker : load'[q] = IF q \in {p} THEN load[q] + 1 ELSE load[q]
  BY DEF Invoke, Structure, TypeOK
<1> QED
  BY <1>1, <1>2, <1>3, <1>4, CallsLoad

(* Every step keeps the counters right.                                    *)
LEMMA LoadStep ==
  ASSUME Structure, LoadOK, [Next]_vars
  PROVE  LoadOK'
<1>1. ASSUME NEW p \in Worker, Register(p) PROVE LoadOK'
  <2>1. /\ p \notin here /\ here' = here \cup {p} /\ load' = [load EXCEPT ![p] = 0]
        /\ UNCHANGED <<calls, left>>
    BY <1>1 DEF Register
  <2>2. \A q \in Worker : On(q)' = On(q) /\ load'[q] = IF q = p THEN 0 ELSE load[q]
    BY <2>1 DEF On, Structure, TypeOK
  <2>3. IsFiniteSet(On(p)) /\ Cardinality(On(p)) \in Nat /\ (p \notin left => Cardinality(On(p)) = 0)
    BY <2>1, FS_CardinalityType, FS_EmptySet DEF LoadOK
  <2> SUFFICES ASSUME NEW q \in Worker
               PROVE  /\ IsFiniteSet(On(q))
                      /\ load'[q] <= Cardinality(On(q))
                      /\ q \notin left => load'[q] = Cardinality(On(q))
                      /\ q \notin here' /\ q \notin left => On(q) = {}
    BY <2>1, <2>2 DEF LoadOK
  <2>4. CASE q = p
    BY <2>1, <2>2, <2>3, <2>4
  <2>5. CASE q # p
    BY <2>1, <2>2, <2>5 DEF LoadOK
  <2> QED
    BY <2>4, <2>5
<1>2. ASSUME NEW p \in Worker, Unregister(p) PROVE LoadOK'
  <2>1. /\ p \in here /\ here' = here \ {p} /\ load' = [load EXCEPT ![p] = 0]
        /\ left' = (IF On(p) = {} THEN left ELSE left \cup {p}) /\ UNCHANGED calls
    BY <1>2 DEF Unregister
  <2>2. \A q \in Worker : On(q)' = On(q) /\ load'[q] = IF q = p THEN 0 ELSE load[q]
    BY <2>1 DEF On, Structure, TypeOK
  <2>3. IsFiniteSet(On(p)) /\ Cardinality(On(p)) \in Nat /\ (On(p) = {} => Cardinality(On(p)) = 0)
    BY <2>1, FS_CardinalityType, FS_EmptySet DEF LoadOK
  <2> SUFFICES ASSUME NEW q \in Worker
               PROVE  /\ IsFiniteSet(On(q))
                      /\ load'[q] <= Cardinality(On(q))
                      /\ q \notin left' => load'[q] = Cardinality(On(q))
                      /\ q \notin here' /\ q \notin left' => On(q) = {}
    BY <2>2 DEF LoadOK
  <2>4. CASE q = p
    BY <2>1, <2>2, <2>3, <2>4
  <2>5. CASE q # p
    BY <2>1, <2>2, <2>5 DEF LoadOK
  <2> QED
    BY <2>4, <2>5
<1>3. ASSUME UNCHANGED <<registry, calls, left>> PROVE LoadOK'
  <2>1. \A p \in Worker : On(p)' = On(p)
    BY <1>3 DEF On
  <2> QED
    BY <1>3, <2>1 DEF LoadOK, registry
<1>4. ASSUME NEW t \in Task, DispatchExplicit(t) \/ DispatchCapability(t) PROVE LoadOK'
  <2>1. \E s \in Single, p \in here : DispatchTo(t, s, p)
    BY <1>4 DEF DispatchExplicit, DispatchCapability, Single
  <2>2. PICK p \in here : Invoke(t, p, 0) /\ kind[t] = "none"
    BY <2>1 DEF DispatchTo
  <2>3. \A c \in calls : c.task = t => c.n # 0
    BY <2>2 DEF Structure, Numbered
  <2>4. 0 \in 0..MaxPark
    BY DispatchAssumption DEF DispatchAssumption
  <2> QED
    BY <2>2, <2>3, <2>4, InvokeLoad
<1>5. ASSUME NEW t \in Task, DispatchBroadcast(t) PROVE LoadOK'
  <2> DEFINE P == here \cap Able
  <2>1. /\ kind[t] = "none" /\ calls' = calls \cup {CallOf(t, p, 0) : p \in P}
        /\ load' = [p \in Worker |-> IF p \in P THEN load[p] + 1 ELSE load[p]]
        /\ UNCHANGED <<here, left>>
    BY <1>5 DEF DispatchBroadcast
  <2>2. P \in SUBSET here /\ 0 \in 0..MaxPark
    BY DispatchAssumption DEF DispatchAssumption
  <2>3. \A p \in P : CallOf(t, p, 0) \notin calls
    BY <2>1 DEF CallOf, Structure, Numbered
  <2> HIDE DEF P
  <2> QED
    BY <2>1, <2>2, <2>3, CallsLoad
<1>6. ASSUME NEW c \in calls, Ends(c) PROVE LoadOK'
  BY <1>6, EndsLoad
<1>7. ASSUME NEW c \in calls, Suspends(c) PROVE LoadOK'
  <2> DEFINE park == [c EXCEPT !.at = "parking"]
  <2>1. calls' = (calls \ {c}) \cup {park} /\ UNCHANGED <<here, leaves, load, left>> /\ c.at = "running"
    BY <1>7 DEF Suspends, registry
  <2>2. c \in Call /\ c.by \in Worker
    BY DEF Structure, TypeOK, Call
  <2>3. park.by = c.by /\ park.task = c.task /\ park.n = c.n /\ park.at = "parking"
    BY <2>2 DEF Call
  <2> HIDE DEF park
  <2>4. park \notin calls
    BY <2>1, <2>3 DEF Structure, Numbered
  <2> SUFFICES ASSUME NEW p \in Worker
               PROVE  IsFiniteSet(On(p)') /\ Cardinality(On(p)') = Cardinality(On(p))
                      /\ (On(p) = {} => On(p)' = {})
    BY <2>1 DEF LoadOK
  <2>5. CASE p = c.by
    <3>1. On(p)' = (On(p) \ {c}) \cup {park} /\ c \in On(p) /\ park \notin On(p) \ {c}
      BY <2>1, <2>3, <2>4, <2>5 DEF On
    <3>2. IsFiniteSet(On(p)) /\ Cardinality(On(p)) \in Nat
      BY FS_CardinalityType DEF LoadOK
    <3>3. IsFiniteSet(On(p) \ {c}) /\ Cardinality(On(p) \ {c}) = Cardinality(On(p)) - 1
      BY <3>1, <3>2, FS_RemoveElement
    <3>4. IsFiniteSet((On(p) \ {c}) \cup {park})
          /\ Cardinality((On(p) \ {c}) \cup {park}) = Cardinality(On(p) \ {c}) + 1
      BY <3>1, <3>3, FS_AddElement
    <3> QED
      BY <3>1, <3>2, <3>3, <3>4
  <2>6. CASE p # c.by
    <3>1. On(p)' = On(p)
      BY <2>1, <2>3, <2>6 DEF On
    <3> QED
      BY <3>1 DEF LoadOK
  <2> QED
    BY <2>5, <2>6
<1>8. ASSUME NEW r \in rows, Resume(r) PROVE LoadOK'
  <2>1. CASE r.by \in here
    <3>1. Invoke(r.task, r.by, r.n) /\ r.task \in Task /\ r.n \in 0..MaxPark /\ ~r.claimed
      BY <1>8, <2>1 DEF Resume, Structure, TypeOK, Row
    <3>2. \A c \in calls : c.n \in Nat /\ (c.task = r.task => c.n < r.n)
      BY <3>1 DEF Structure, Numbered, TypeOK, Call
    <3>3. \A c \in calls : c.task = r.task => c.n # r.n
      BY <3>1, <3>2
    <3> QED
      BY <2>1, <3>1, <3>3, InvokeLoad
  <2>2. CASE r.by \notin here
    BY <1>3, <1>8, <2>2 DEF Resume
  <2> QED
    BY <2>1, <2>2
<1> QED
  BY <1>1, <1>2, <1>3, <1>4, <1>5, <1>6, <1>7, <1>8
     DEF Next, Refused, Returns, Parked, ParkFails, NotifierFails, CandidateOk, CandidateMisses, vars

-----------------------------------------------------------------------------
(* RaceOK                                                                  *)

(* A race that a step does not touch.                                      *)
LEMMA RaceFrame ==
  ASSUME RaceOK, NEW t \in Task, kind[t] = "broadcast", Racers(t)' = Racers(t),
         race'[t] = race[t], results'[t] = results[t]
  PROVE  Settles(t)'
BY DEF RaceOK, Settles

(* The candidates are as many as the calls.                                *)
LEMMA CandidatesCount ==
  ASSUME NEW t, NEW P, IsFiniteSet(P)
  PROVE  LET C == {CallOf(t, p, 0) : p \in P}
         IN  IsFiniteSet(C) /\ Cardinality(C) = Cardinality(P)
<1> DEFINE C == {CallOf(t, p, 0) : p \in P}
           f == [p \in P |-> CallOf(t, p, 0)]
<1>1. \A p, q \in P : CallOf(t, p, 0) = CallOf(t, q, 0) => p = q
  BY DEF CallOf
<1>2. f \in Bijection(P, C)
  <2>1. f \in [P -> C] /\ \A p \in P : f[p] = CallOf(t, p, 0)
    OBVIOUS
  <2>2. \A c \in C : \E p \in P : f[p] = c
    BY <2>1
  <2>3. \A p, q \in P : f[p] = f[q] => p = q
    BY <1>1, <2>1
  <2> HIDE DEF f, C
  <2>4. f \in Injection(P, C)
    BY <2>1, <2>3 DEF Injection, IsInjective
  <2>5. f \in Surjection(P, C)
    BY <2>1, <2>2 DEF Surjection
  <2> QED
    BY <2>4, <2>5 DEF Bijection
<1>3. ExistsBijection(P, C)
  BY <1>2 DEF ExistsBijection
<1> HIDE DEF C
<1>4. IsFiniteSet(C) /\ Cardinality(C) = Cardinality(P)
  BY <1>3, FS_Bijection
<1> QED
  BY <1>4 DEF C

(* Every step keeps the count of a race.                                   *)
LEMMA RaceStep ==
  ASSUME Structure, RaceOK, [Next]_vars
  PROVE  RaceOK'
<1> USE DispatchAssumption DEF Structure
<1>1. ASSUME UNCHANGED <<kind, calls, race, results>> PROVE RaceOK'
  BY <1>1 DEF RaceOK, Settles, Racers
<1>2. ASSUME NEW t \in Task, NEW s \in Strategy, Refused(t, s) PROVE RaceOK'
  <2>1. Record(t, "failed") /\ kind[t] = "none" /\ kind' = [kind EXCEPT ![t] = s] /\ UNCHANGED <<calls, race>>
    BY <1>2 DEF Refused
  <2>2. results[t] = <<>> /\ Racers(t) = {}
    BY <2>1 DEF Numbered, Racers
  <2> SUFFICES ASSUME NEW u \in Task, kind'[u] = "broadcast" PROVE Settles(u)'
    BY DEF RaceOK
  <2>3. Racers(u)' = Racers(u)
    BY <2>1 DEF Racers
  <2>4. CASE u = t
    <3>1. results'[t] = Append(<<>>, "failed")
      BY <2>1, <2>2 DEF TypeOK, Record
    <3>2. results'[t] = <<"failed">>
      BY <3>1
    <3>3. IsFiniteSet({})
      BY FS_EmptySet
    <3> QED
      BY <2>2, <2>3, <2>4, <3>2, <3>3 DEF Settles
  <2>5. CASE u # t
    <3>1. kind[u] = "broadcast" /\ results'[u] = results[u]
      BY <2>1, <2>5 DEF TypeOK, Record
    <3> QED
      BY <2>1, <2>3, <3>1, RaceFrame
  <2> QED
    BY <2>4, <2>5
<1>3. ASSUME NEW t \in Task, DispatchExplicit(t) \/ DispatchCapability(t) PROVE RaceOK'
  <2>1. PICK s \in Single, p \in here : DispatchTo(t, s, p)
    BY <1>3 DEF DispatchExplicit, DispatchCapability, Single
  <2>2. kind' = [kind EXCEPT ![t] = s] /\ calls' = calls \cup {CallOf(t, p, 0)}
        /\ UNCHANGED <<race, results>> /\ CallOf(t, p, 0).task = t
    BY <2>1 DEF DispatchTo, Invoke, CallOf
  <2> SUFFICES ASSUME NEW u \in Task, kind'[u] = "broadcast" PROVE Settles(u)'
    BY DEF RaceOK
  <2>3. u # t /\ kind[u] = "broadcast"
    BY <2>2 DEF TypeOK, Single
  <2>4. Racers(u)' = Racers(u)
    BY <2>2, <2>3 DEF Racers
  <2> QED
    BY <2>2, <2>3, <2>4, RaceFrame
<1>4. ASSUME NEW t \in Task, DispatchBroadcast(t) PROVE RaceOK'
  <2> DEFINE P == here \cap Able
             C == {CallOf(t, p, 0) : p \in P}
  <2>1. /\ kind[t] = "none" /\ P # {} /\ kind' = [kind EXCEPT ![t] = "broadcast"]
        /\ calls' = calls \cup C
        /\ race' = [race EXCEPT ![t] = [settled |-> FALSE, remaining |-> Cardinality(P)]]
        /\ UNCHANGED results
    BY <1>4 DEF DispatchBroadcast
  <2>2. P \in SUBSET Worker
    BY DEF TypeOK
  <2>3. IsFiniteSet(P)
    BY <2>2, FS_Subset
  <2>4. IsFiniteSet(C) /\ Cardinality(C) = Cardinality(P)
    BY <2>3, CandidatesCount
  <2>5. C # {} /\ \A c \in C : c.task = t
    <3>1. \A p : CallOf(t, p, 0).task = t
      BY DEF CallOf
    <3>2. PICK p : p \in P
      BY <2>1
    <3>3. CallOf(t, p, 0) \in C
      BY <3>2
    <3> QED
      BY <3>1, <3>3
  <2> HIDE DEF P, C
  <2> SUFFICES ASSUME NEW u \in Task, kind'[u] = "broadcast" PROVE Settles(u)'
    BY DEF RaceOK
  <2>6. CASE u = t
    <3>1. Racers(t) = {} /\ results[t] = <<>>
      BY <2>1 DEF Numbered, Racers
    <3>2. Racers(t)' = C
      BY <2>1, <2>5, <3>1 DEF Racers
    <3>3. race'[t].settled = FALSE /\ race'[t].remaining = Cardinality(P)
      BY <2>1 DEF TypeOK
    <3> QED
      BY <2>1, <2>4, <2>5, <2>6, <3>1, <3>2, <3>3 DEF Settles
  <2>7. CASE u # t
    <3>1. kind[u] = "broadcast" /\ race'[u] = race[u] /\ results'[u] = results[u]
      BY <2>1, <2>7 DEF TypeOK
    <3>2. Racers(u)' = Racers(u)
      BY <2>1, <2>5, <2>7 DEF Racers
    <3> QED
      BY <3>1, <3>2, RaceFrame
  <2> QED
    BY <2>6, <2>7
<1>5. ASSUME NEW c \in calls, kind[c.task] # "broadcast", UNCHANGED <<kind, race>>,
             \A u \in Task : u # c.task => results'[u] = results[u] /\ Racers(u)' = Racers(u)
      PROVE  RaceOK'
  <2> SUFFICES ASSUME NEW u \in Task, kind[u] = "broadcast" PROVE Settles(u)'
    BY <1>5 DEF RaceOK
  <2> QED
    BY <1>5, RaceFrame
<1>6. ASSUME NEW c \in calls, (\E r \in {"ok", "failed"} : Returns(c, r)) \/ Parked(c)
                             \/ ParkFails(c) \/ NotifierFails(c)
      PROVE  RaceOK'
  <2>1. \E r \in {"ok", "failed", "suspended"} : Record(c.task, r)
    BY <1>6 DEF Returns, Parked, ParkFails, NotifierFails
  <2>2. kind[c.task] # "broadcast" /\ calls' = calls \ {c} /\ UNCHANGED <<kind, race>>
    BY <1>6 DEF Returns, Parked, ParkFails, NotifierFails, Alone, Ends
  <2>3. \A u \in Task : u # c.task => results'[u] = results[u] /\ Racers(u)' = Racers(u)
    BY <2>1, <2>2 DEF Racers, Record, TypeOK
  <2> QED
    BY <1>5, <2>2, <2>3
<1>7. ASSUME NEW c \in calls, Suspends(c) PROVE RaceOK'
  <2>1. kind[c.task] # "broadcast" /\ calls' = (calls \ {c}) \cup {[c EXCEPT !.at = "parking"]}
        /\ UNCHANGED <<kind, race, results>>
    BY <1>7 DEF Suspends, Alone
  <2>2. [c EXCEPT !.at = "parking"].task = c.task
    BY DEF TypeOK, Call
  <2>3. \A u \in Task : u # c.task => results'[u] = results[u] /\ Racers(u)' = Racers(u)
    BY <2>1, <2>2 DEF Racers
  <2> QED
    BY <1>5, <2>1, <2>3
<1>8. ASSUME NEW c \in calls, CandidateOk(c) \/ CandidateMisses(c) PROVE RaceOK'
  <2> DEFINE t == c.task
  <2>1. t \in Task /\ kind[t] = "broadcast" /\ kind' = kind /\ calls' = calls \ {c}
    BY <1>8 DEF CandidateOk, CandidateMisses, Candidate, Ends, TypeOK, Call
  <2>2. Racers(t)' = Racers(t) \ {c} /\ c \in Racers(t)
    BY <2>1 DEF Racers
  <2>3. \A u \in Task : u # t => Racers(u)' = Racers(u)
    BY <2>1 DEF Racers
  <2>4. Settles(t)
    BY <2>1 DEF RaceOK
  <2>5. IsFiniteSet(Racers(t)) /\ IsFiniteSet(Racers(t)') /\ Cardinality(Racers(t)) \in Nat
        /\ Cardinality(Racers(t)') = Cardinality(Racers(t)) - 1
    BY <2>2, <2>4, FS_RemoveElement, FS_CardinalityType DEF Settles
  <2>6. Racers(t)' = {} <=> Cardinality(Racers(t)) = 1
    <3>1. Racers(t)' = {} <=> Cardinality(Racers(t)') = 0
      BY <2>5, FS_EmptySet
    <3> QED
      BY <2>5, <3>1
  <2>7. <<>> # <<"ok">> /\ <<>> # <<"failed">> /\ <<"ok">> # <<"failed">>
        /\ Append(<<>>, "ok") = <<"ok">> /\ Append(<<>>, "failed") = <<"failed">>
    OBVIOUS
  <2>8. \A u \in Task : u # t => results'[u] = results[u] /\ race'[u] = race[u]
    BY <1>8, <2>1 DEF CandidateOk, CandidateMisses, Record, TypeOK
  <2>9. Settles(t)'
    <3>1. CASE race[t].settled
      <4>1. UNCHANGED <<race, results>>
        BY <1>8, <3>1 DEF CandidateOk, CandidateMisses
      <4>2. results[t] # <<>>
        BY <2>2, <2>4, <3>1 DEF Settles
      <4>3. results[t] = <<"ok">>
        BY <2>2, <2>4, <4>2 DEF Settles
      <4> QED
        BY <2>5, <2>7, <3>1, <4>1, <4>3 DEF Settles
    <3>2. CASE ~race[t].settled
      <4>1. results[t] = <<>> /\ race[t].remaining = Cardinality(Racers(t))
        BY <2>2, <2>4, <2>7, <3>2 DEF Settles
      <4>2. CASE CandidateOk(c)
        <5>1. race' = [race EXCEPT ![t].settled = TRUE] /\ Record(t, "ok")
          BY <3>2, <4>2 DEF CandidateOk
        <5>2. race'[t].settled = TRUE /\ results'[t] = <<"ok">>
          BY <2>1, <2>7, <4>1, <5>1 DEF TypeOK, Record
        <5> QED
          BY <2>5, <2>7, <5>2 DEF Settles
      <4>3. CASE CandidateMisses(c) /\ Cardinality(Racers(t)) = 1
        <5>1. Record(t, "failed")
          BY <3>2, <4>1, <4>3 DEF CandidateMisses
        <5>2. results'[t] = <<"failed">> /\ Racers(t)' = {}
          BY <2>1, <2>6, <2>7, <4>1, <4>3, <5>1 DEF TypeOK, Record
        <5> QED
          BY <2>5, <5>2 DEF Settles
      <4>4. CASE CandidateMisses(c) /\ Cardinality(Racers(t)) # 1
        <5>1. results' = results
              /\ race' = [race EXCEPT ![t] = [settled |-> Cardinality(Racers(t)) = 1,
                                             remaining |-> Cardinality(Racers(t)) - 1]]
          BY <3>2, <4>1, <4>4 DEF CandidateMisses
        <5>2. race'[t].settled = FALSE /\ race'[t].remaining = Cardinality(Racers(t)')
          BY <2>1, <2>5, <4>4, <5>1 DEF TypeOK
        <5> QED
          BY <2>5, <2>6, <4>1, <4>4, <5>1, <5>2 DEF Settles
      <4> QED
        BY <1>8, <4>2, <4>3, <4>4
    <3> QED
      BY <3>1, <3>2
  <2> SUFFICES ASSUME NEW u \in Task, kind[u] = "broadcast" PROVE Settles(u)'
    BY <2>1 DEF RaceOK
  <2>10. CASE u # t
    BY <2>3, <2>8, <2>10, RaceFrame
  <2> QED
    BY <2>9, <2>10
<1>9. ASSUME NEW r \in rows, Resume(r) PROVE RaceOK'
  <2>1. r.task \in Task /\ kind[r.task] \in Single /\ UNCHANGED <<kind, race>>
    BY <1>9 DEF TypeOK, Row, Numbered, Resume, Invoke
  <2>2. \A u \in Task : u # r.task => results'[u] = results[u] /\ Racers(u)' = Racers(u)
    <3>1. CASE r.by \in here
      <4>1. results' = results /\ calls' = calls \cup {CallOf(r.task, r.by, r.n)}
            /\ CallOf(r.task, r.by, r.n).task = r.task
        BY <1>9, <3>1 DEF Resume, Invoke, CallOf
      <4> QED
        BY <4>1 DEF Racers
    <3>2. CASE r.by \notin here
      BY <1>9, <2>1, <3>2 DEF Resume, Record, TypeOK, Racers
    <3> QED
      BY <3>1, <3>2
  <2> SUFFICES ASSUME NEW u \in Task, kind[u] = "broadcast" PROVE Settles(u)'
    BY <2>1 DEF RaceOK
  <2>3. u # r.task
    BY <2>1 DEF Single
  <2> QED
    BY <2>1, <2>2, <2>3, RaceFrame
<1> QED
  BY <1>1, <1>2, <1>3, <1>4, <1>6, <1>7, <1>8, <1>9
     DEF Next, Register, Unregister, vars

-----------------------------------------------------------------------------
(* SoundOK                                                                 *)

(* A task that a step does not touch.                                      *)
LEMMA SoundFrame ==
  ASSUME NEW t \in Task, Sound(t), Racers(t)' = Racers(t), RowsOf(t)' = RowsOf(t),
         results'[t] = results[t], t \notin leaked' => t \notin leaked
  PROVE  Sound(t)'
<1>1. View(t)' = View(t)
  BY DEF View
<1> QED
  BY <1>1 DEF Sound

(* Only one task is touched.                                               *)
LEMMA SoundAt ==
  ASSUME Structure, SoundOK, NEW t \in Task, kind' = kind,
         overtaken \in SUBSET overtaken', leaked \in SUBSET leaked',
         \A u \in Task : u # t => /\ Racers(u)' = Racers(u) /\ RowsOf(u)' = RowsOf(u)
                                 /\ results'[u] = results[u],
         kind[t] \in Single /\ t \notin overtaken' => Sound(t)'
  PROVE  SoundOK'
<1> SUFFICES ASSUME NEW u \in Task, kind[u] \in Single, u \notin overtaken' PROVE Sound(u)'
  BY DEF SoundOK
<1>1. CASE u = t
  BY <1>1
<1>2. CASE u # t
  BY <1>2, SoundFrame DEF SoundOK
<1> QED
  BY <1>1, <1>2

(* A task is dispatched that nobody has touched.                           *)
LEMMA SoundNew ==
  ASSUME Structure, SoundOK, NEW t \in Task, kind[t] = "none",
         \A u \in Task : u # t => kind'[u] = kind[u] /\ Racers(u)' = Racers(u),
         UNCHANGED <<rows, overtaken, leaked>>,
         \A u \in Task : u # t => results'[u] = results[u],
         kind'[t] \in Single => Sound(t)'
  PROVE  SoundOK'
<1> SUFFICES ASSUME NEW u \in Task, kind'[u] \in Single, u \notin overtaken' PROVE Sound(u)'
  BY DEF SoundOK
<1>1. CASE u = t
  BY <1>1
<1>2. CASE u # t
  <2>1. RowsOf(u)' = RowsOf(u)
    BY DEF RowsOf
  <2> QED
    BY <1>2, <2>1, SoundFrame DEF SoundOK
<1> QED
  BY <1>1, <1>2

(* The only call of a task ends and its rows are cleared, or it has none.  *)
LEMMA SoundEnd ==
  ASSUME Structure, NEW c \in calls, Sound(c.task), Ends(c), c.at = "running",
         NEW r \in {"ok", "failed"}, Record(c.task, r), rows' = Cleared(c)
  PROVE  Sound(c.task)'
<1> DEFINE t == c.task
<1>1. t \in Task /\ c \in Racers(t) /\ c.n \in Nat
  BY DEF Structure, TypeOK, Call, Racers
<1>2. Racers(t)' = {}
  BY <1>1 DEF Ends, Racers, Sound
<1>3. RowsOf(t)' = {}
  <2>1. CASE c.n = 0
    BY <1>1, <2>1 DEF Cleared, RowsOf, Sound
  <2>2. CASE c.n # 0
    BY <2>2 DEF Cleared, RowsOf
  <2> QED
    BY <2>1, <2>2
<1>4. View(t)' = "finished"
  <2>1. r \in Result
    BY DEF Result
  <2> QED
    BY <1>1, <2>1, RecordTypes DEF Structure
<1> QED
  BY <1>2, <1>3, <1>4 DEF Sound

(* Every step keeps the view of every task true.                           *)
LEMMA SoundStep ==
  ASSUME Structure, SoundOK, [Next]_vars
  PROVE  SoundOK'
<1> USE DEF Structure
<1>1. ASSUME UNCHANGED <<kind, calls, rows, results, overtaken, leaked>> PROVE SoundOK'
  BY <1>1 DEF SoundOK, Sound, Racers, RowsOf, View
<1>2. ASSUME NEW t \in Task, NEW s \in Strategy, Refused(t, s) PROVE SoundOK'
  <2>1. Record(t, "failed") /\ kind[t] = "none" /\ kind' = [kind EXCEPT ![t] = s]
        /\ UNCHANGED <<calls, rows, overtaken, leaked>>
    BY <1>2 DEF Refused, table
  <2>2. "failed" \in Result
    BY DEF Result
  <2>3. View(t)' = "finished" /\ \A u \in Task : u # t => results'[u] = results[u]
    BY <2>1, <2>2, RecordTypes
  <2>4. Racers(t)' = {} /\ RowsOf(t)' = {}
    BY <2>1 DEF Racers, RowsOf, Numbered, Single
  <2>5. Sound(t)'
    BY <2>3, <2>4 DEF Sound
  <2>6. \A u \in Task : u # t => kind'[u] = kind[u] /\ Racers(u)' = Racers(u)
    BY <2>1 DEF TypeOK, Racers
  <2> QED
    BY <2>1, <2>3, <2>5, <2>6, SoundNew
<1>3. ASSUME NEW t \in Task, DispatchExplicit(t) \/ DispatchCapability(t) PROVE SoundOK'
  <2>1. PICK s \in Single, p \in here : DispatchTo(t, s, p)
    BY <1>3 DEF DispatchExplicit, DispatchCapability, Single
  <2>2. PICK c : c = CallOf(t, p, 0)
    OBVIOUS
  <2>3. c.task = t /\ c.n = 0 /\ c.at = "running"
    BY <2>2 DEF CallOf
  <2>4. kind[t] = "none" /\ kind' = [kind EXCEPT ![t] = s] /\ calls' = calls \cup {c}
        /\ UNCHANGED <<rows, results, overtaken, leaked>>
    BY <2>1, <2>2 DEF DispatchTo, Invoke
  <2>5. Racers(t)' = {c} /\ RowsOf(t)' = {}
    BY <2>3, <2>4 DEF Racers, RowsOf, Numbered, Single
  <2>6. View(t)' = "pending"
    BY <2>4 DEF View, Numbered
  <2>7. Sound(t)'
    BY <2>3, <2>5, <2>6 DEF Sound
  <2>8. \A u \in Task : u # t => kind'[u] = kind[u] /\ Racers(u)' = Racers(u)
    BY <2>3, <2>4 DEF TypeOK, Racers
  <2> QED
    BY <2>4, <2>7, <2>8, SoundNew
<1>4. ASSUME NEW t \in Task, DispatchBroadcast(t) PROVE SoundOK'
  <2>1. /\ kind[t] = "none" /\ kind' = [kind EXCEPT ![t] = "broadcast"]
        /\ calls' = calls \cup {CallOf(t, p, 0) : p \in here \cap Able}
        /\ UNCHANGED <<rows, results, overtaken, leaked>>
    BY <1>4 DEF DispatchBroadcast, table
  <2>2. \A p : CallOf(t, p, 0).task = t
    BY DEF CallOf
  <2>3. \A u \in Task : u # t => kind'[u] = kind[u] /\ Racers(u)' = Racers(u)
    BY <2>1, <2>2 DEF TypeOK, Racers
  <2>4. kind'[t] \notin Single
    BY <2>1 DEF TypeOK, Single
  <2> QED
    BY <2>1, <2>3, <2>4, SoundNew
<1>5. ASSUME NEW c \in calls, Alone(c), Ends(c), NEW r \in Result, Record(c.task, r),
             rows' \in {rows, Cleared(c)}, UNCHANGED overtaken, leaked \in SUBSET leaked',
             kind[c.task] \in Single /\ c.task \notin overtaken => Sound(c.task)'
      PROVE  SoundOK'
  <2>1. c.task \in Task /\ kind' = kind /\ calls' = calls \ {c}
    BY <1>5 DEF TypeOK, Call, Ends
  <2>2. \A u \in Task : u # c.task => results'[u] = results[u]
    BY <1>5, <2>1, RecordTypes
  <2>3. \A u \in Task : u # c.task => RowsOf(u)' = RowsOf(u) /\ Racers(u)' = Racers(u)
    BY <1>5, <2>1 DEF Racers, RowsOf, Cleared
  <2> QED
    BY <1>5, <2>1, <2>2, <2>3, SoundAt
<1>6. ASSUME NEW c \in calls, (\E r \in {"ok", "failed"} : Returns(c, r)) \/ ParkFails(c)
      PROVE  SoundOK'
  <2>1. PICK r \in {"ok", "failed"} : Record(c.task, r)
    BY <1>6 DEF Returns, ParkFails
  <2>2. Alone(c) /\ Ends(c) /\ c.at = "running" /\ rows' = Cleared(c) /\ UNCHANGED <<overtaken, leaked>>
    BY <1>6 DEF Returns, ParkFails
  <2>3. c.task \in Task /\ r \in Result
    BY DEF TypeOK, Call, Result
  <2>4. kind[c.task] \in Single /\ c.task \notin overtaken => Sound(c.task)'
    BY <2>1, <2>2, <2>3, SoundEnd DEF SoundOK
  <2> QED
    BY <1>5, <2>1, <2>2, <2>3, <2>4
<1>7. ASSUME NEW c \in calls, Parked(c) PROVE SoundOK'
  <2>1. Alone(c) /\ Ends(c) /\ c.at = "parking" /\ Record(c.task, "suspended")
        /\ UNCHANGED <<rows, overtaken, leaked>>
    BY <1>7 DEF Parked, table
  <2>2. c.task \in Task /\ c \in Racers(c.task) /\ "suspended" \in Result /\ calls' = calls \ {c}
    BY <2>1 DEF TypeOK, Call, Result, Racers, Ends
  <2>3. ASSUME Sound(c.task) PROVE Sound(c.task)'
    <3>1. View(c.task)' = "pending"
      BY <2>1, <2>2, RecordTypes
    <3>2. Racers(c.task)' = {}
      BY <2>2, <2>3 DEF Racers, Sound
    <3>3. RowsOf(c.task)' = RowsOf(c.task) /\ RowsOf(c.task) # {} /\ \A r \in RowsOf(c.task) : ~r.claimed
      BY <2>1, <2>2, <2>3 DEF RowsOf, Sound
    <3> QED
      BY <3>1, <3>2, <3>3 DEF Sound
  <2>4. kind[c.task] \in Single /\ c.task \notin overtaken => Sound(c.task)'
    BY <2>2, <2>3 DEF SoundOK
  <2> QED
    BY <1>5, <2>1, <2>2, <2>4
<1>8. ASSUME NEW c \in calls, NotifierFails(c) PROVE SoundOK'
  <2>1. Alone(c) /\ Ends(c) /\ c.at = "parking" /\ Record(c.task, "failed") /\ rows' = Cleared(c)
        /\ leaked' = leaked \cup {c.task} /\ UNCHANGED overtaken
    BY <1>8 DEF NotifierFails
  <2>2. c.task \in Task /\ c \in Racers(c.task) /\ "failed" \in Result /\ calls' = calls \ {c}
    BY <2>1 DEF TypeOK, Call, Result, Racers, Ends
  <2>3. ASSUME Sound(c.task) PROVE Sound(c.task)'
    <3>1. View(c.task)' = "finished" /\ c.task \in leaked'
      BY <2>1, <2>2, RecordTypes
    <3>2. Racers(c.task)' = {}
      BY <2>2, <2>3 DEF Racers, Sound
    <3>3. RowsOf(c.task)' \in SUBSET RowsOf(c.task) /\ \A r \in RowsOf(c.task) : ~r.claimed
      BY <2>1, <2>2, <2>3 DEF RowsOf, Sound, Cleared
    <3> QED
      BY <3>1, <3>2, <3>3 DEF Sound
  <2>4. kind[c.task] \in Single /\ c.task \notin overtaken => Sound(c.task)'
    BY <2>2, <2>3 DEF SoundOK
  <2> QED
    BY <1>5, <2>1, <2>2, <2>4
<1>9. ASSUME NEW c \in calls, Suspends(c) PROVE SoundOK'
  <2> DEFINE t == c.task
             row == [task |-> t, by |-> c.by, n |-> parks[t] + 1, claimed |-> FALSE]
             park == [c EXCEPT !.at = "parking"]
  <2>1. /\ calls' = (calls \ {c}) \cup {park}
        /\ rows' = {r \in rows : r.task # t} \cup {row}
        /\ UNCHANGED <<kind, results, overtaken, leaked>>
    BY <1>9 DEF Suspends
  <2>2. t \in Task /\ c \in Racers(t)
    BY DEF TypeOK, Call, Racers
  <2>3. park.task = t /\ park.at = "parking"
    BY DEF TypeOK, Call
  <2>4. row.task = t /\ row.claimed = FALSE
    OBVIOUS
  <2> HIDE DEF row, park
  <2>5. RowsOf(t)' = {row}
    BY <2>1, <2>4 DEF RowsOf
  <2>6. ASSUME Sound(t) PROVE Sound(t)'
    <3>1. Racers(t)' = {park}
      BY <2>1, <2>2, <2>3, <2>6 DEF Racers, Sound
    <3>2. View(t)' = View(t)
      BY <2>1 DEF View
    <3>3. t \notin leaked' => View(t) # "finished"
      BY <2>1, <2>2, <2>6 DEF Sound
    <3> QED
      BY <2>3, <2>4, <2>5, <3>1, <3>2, <3>3 DEF Sound
  <2>7. \A u \in Task : u # t => Racers(u)' = Racers(u) /\ RowsOf(u)' = RowsOf(u) /\ results'[u] = results[u]
    BY <2>1, <2>3, <2>4 DEF Racers, RowsOf
  <2>8. kind[t] \in Single /\ t \notin overtaken' => Sound(t)'
    BY <2>1, <2>2, <2>6 DEF SoundOK
  <2> QED
    BY <2>1, <2>2, <2>7, <2>8, SoundAt
<1>10. ASSUME NEW c \in calls, CandidateOk(c) \/ CandidateMisses(c) PROVE SoundOK'
  <2>1. Ends(c) /\ kind[c.task] = "broadcast" /\ UNCHANGED <<table, overtaken, leaked>>
    BY <1>10 DEF CandidateOk, CandidateMisses, Candidate
  <2>2. c.task \in Task /\ kind' = kind /\ calls' = calls \ {c}
    BY <2>1 DEF TypeOK, Call, Ends
  <2>3. \A u \in Task : u # c.task => results'[u] = results[u]
    BY <1>10, <2>2 DEF CandidateOk, CandidateMisses, Record, TypeOK
  <2>4. \A u \in Task : u # c.task => RowsOf(u)' = RowsOf(u) /\ Racers(u)' = Racers(u)
    BY <2>1, <2>2 DEF Racers, RowsOf, table
  <2>5. kind[c.task] \notin Single
    BY <2>1 DEF Single
  <2> QED
    BY <2>1, <2>2, <2>3, <2>4, <2>5, SoundAt
<1>11. ASSUME NEW r \in rows, Resume(r) PROVE SoundOK'
  <2> DEFINE t == r.task
  <2>1. t \in Task /\ ~r.claimed /\ r.n \in Nat /\ r.n > 0 /\ r \in RowsOf(t) /\ RowsOf(t) = {r}
    BY <1>11 DEF Resume, TypeOK, Row, RowsOf, Numbered
  <2>2. overtaken' = (IF \E c \in calls : c.task = t /\ c.at = "parking" THEN overtaken \cup {t} ELSE overtaken)
        /\ UNCHANGED <<kind, leaked>>
    BY <1>11 DEF Resume, Invoke
  <2>3. ASSUME Sound(t), t \notin overtaken' PROVE Racers(t) = {}
    <3>1. \A c \in Racers(t) : c.at # "parking"
      BY <2>2, <2>3 DEF Racers
    <3>2. \A c \in Racers(t) : c.at \in {"running", "parking"}
      BY DEF TypeOK, Call, Racers
    <3> QED
      BY <2>1, <2>3, <3>1, <3>2 DEF Sound
  <2>4. CASE r.by \in here
    <3>1. PICK c : c = CallOf(t, r.by, r.n)
      OBVIOUS
    <3>2. c.task = t /\ c.n = r.n /\ c.at = "running"
      BY <3>1 DEF CallOf
    <3>3. PICK q : q = [r EXCEPT !.claimed = TRUE]
      OBVIOUS
    <3>4. q.task = t /\ q.claimed = TRUE
      BY <3>3 DEF TypeOK, Row
    <3>5. calls' = calls \cup {c} /\ rows' = (rows \ {r}) \cup {q} /\ results' = results
      BY <1>11, <2>4, <3>1, <3>3 DEF Resume, Invoke
    <3>6. RowsOf(t)' = {q}
      BY <2>1, <3>4, <3>5 DEF RowsOf
    <3>7. ASSUME Sound(t), t \notin overtaken' PROVE Sound(t)'
      <4>1. Racers(t)' = {c}
        BY <2>3, <3>2, <3>5, <3>7 DEF Racers
      <4>2. View(t)' = View(t)
        BY <3>5 DEF View
      <4>3. t \notin leaked' => View(t) # "finished"
        BY <2>1, <2>2, <3>7 DEF Sound
      <4> QED
        BY <2>1, <3>2, <3>4, <3>6, <4>1, <4>2, <4>3 DEF Sound
    <3>8. \A u \in Task : u # t => Racers(u)' = Racers(u) /\ RowsOf(u)' = RowsOf(u) /\ results'[u] = results[u]
      BY <3>2, <3>4, <3>5 DEF Racers, RowsOf
    <3>9. kind[t] \in Single /\ t \notin overtaken' => Sound(t)'
      BY <2>1, <2>2, <3>7 DEF SoundOK
    <3> QED
      BY <2>1, <2>2, <3>8, <3>9, SoundAt
  <2>5. CASE r.by \notin here
    <3>1. calls' = calls /\ rows' = rows \ {r} /\ Record(t, "failed") /\ "failed" \in Result
      BY <1>11, <2>5 DEF Resume, Result
    <3>2. RowsOf(t)' = {} /\ Racers(t)' = Racers(t)
      BY <2>1, <3>1 DEF RowsOf, Racers
    <3>3. View(t)' = "finished" /\ \A u \in Task : u # t => results'[u] = results[u]
      BY <2>1, <3>1, RecordTypes
    <3>4. ASSUME Sound(t), t \notin overtaken' PROVE Sound(t)'
      BY <2>3, <3>2, <3>3, <3>4 DEF Sound
    <3>5. \A u \in Task : u # t => Racers(u)' = Racers(u) /\ RowsOf(u)' = RowsOf(u)
      BY <3>1 DEF Racers, RowsOf
    <3>6. kind[t] \in Single /\ t \notin overtaken' => Sound(t)'
      BY <2>1, <2>2, <3>4 DEF SoundOK
    <3> QED
      BY <2>1, <2>2, <3>3, <3>5, <3>6, SoundAt
  <2> QED
    BY <2>4, <2>5
<1> QED
  BY <1>1, <1>2, <1>3, <1>4, <1>6, <1>7, <1>8, <1>9, <1>10, <1>11
     DEF Next, Register, Unregister, vars, table

-----------------------------------------------------------------------------
(* The theorems                                                            *)

(* What is behind the properties of module Dispatch holds in every         *)
(* reachable state: the hub, the scheduler, the notifier and the registry  *)
(* keep it, however calls overlap.                                         *)
THEOREM InOrder == Spec => []IInv
<1>1. IInv /\ [Next]_vars => IInv'
  BY StructureStep, LoadStep, RaceStep, SoundStep DEF IInv
<1> QED
  BY InitIInv, <1>1, PTL DEF Spec

(* The types, for any tasks and participants.                              *)
THEOREM TypeCorrect == Spec => []TypeOK
<1> QED
  BY InOrder, IInvGives, PTL

(* The load counters count the calls in flight.                            *)
THEOREM LoadIsCounted == Spec => []LoadCounts
<1> QED
  BY InOrder, IInvGives, PTL

(* A broadcast is settled by the first ok or by the last miss.             *)
THEOREM RaceIsSettled == Spec => []RaceWaits
<1> QED
  BY InOrder, IInvGives, PTL

(* What hub.tasks says of a task is true of its calls and its row.         *)
THEOREM ViewHolds == Spec => []ViewIsTrue
<1> QED
  BY InOrder, IInvGives, PTL

-----------------------------------------------------------------------------
(* The answer of a task                                                    *)

(* A task with an answer has no call of its own that could report again.   *)
LEMMA AnsweredIsIdle ==
  ASSUME IInv, NEW t \in Task, t \notin overtaken, t \notin leaked, View(t) = "finished"
  PROVE  /\ kind[t] # "none" /\ results[t] # <<>>
         /\ kind[t] # "broadcast" => Racers(t) = {} /\ RowsOf(t) = {}
<1>1. results[t] # <<>>
  BY DEF View
<1>2. kind[t] # "none"
  BY <1>1 DEF IInv, Structure, Numbered
<1>3. kind[t] # "broadcast" => kind[t] \in Single
  BY <1>2 DEF IInv, Structure, TypeOK, Strategy, Single
<1> QED
  BY <1>1, <1>2, <1>3 DEF IInv, SoundOK, Sound

(* No step reports a second time on a task that has its answer.            *)
LEMMA AnswerStays ==
  ASSUME IInv, [Next]_vars, NEW t \in Task, t \notin overtaken', t \notin leaked',
         View(t) = "finished"
  PROVE  results'[t] = results[t]
<1> USE DEF IInv, Structure
<1>1. ASSUME t \notin overtaken, t \notin leaked
      PROVE  /\ kind[t] # "none" /\ results[t] # <<>>
             /\ kind[t] # "broadcast" => Racers(t) = {} /\ RowsOf(t) = {}
  BY <1>1, AnsweredIsIdle
<1>2. CASE results' = results
  BY <1>2
<1>3. ASSUME NEW u \in Task, NEW s \in Strategy, Refused(u, s)
      PROVE  results'[t] = results[t]
  <2>1. kind[u] = "none" /\ Record(u, "failed") /\ UNCHANGED <<overtaken, leaked>>
    BY <1>3 DEF Refused
  <2>2. u # t
    BY <1>1, <2>1
  <2> QED
    BY <2>1, <2>2 DEF Record, TypeOK
<1>4. ASSUME NEW c \in calls,
             (\E r \in {"ok", "failed"} : Returns(c, r)) \/ Parked(c) \/ ParkFails(c)
             \/ NotifierFails(c)
      PROVE  results'[t] = results[t]
  <2>1. Alone(c) /\ overtaken' = overtaken /\ leaked \in SUBSET leaked'
        /\ \E r : Record(c.task, r)
    BY <1>4 DEF Returns, Parked, ParkFails, NotifierFails
  <2>2. c.task # t
    BY <1>1, <2>1 DEF Alone, Racers
  <2> QED
    BY <2>1, <2>2 DEF Record, TypeOK
<1>5. ASSUME NEW c \in calls, CandidateOk(c) \/ CandidateMisses(c)
      PROVE  results'[t] = results[t]
  <2>1. /\ kind[c.task] = "broadcast" /\ overtaken' = overtaken /\ leaked' = leaked
        /\ race[c.task].settled => results' = results
        /\ results' = results \/ \E r : Record(c.task, r)
    BY <1>5 DEF CandidateOk, CandidateMisses, Candidate
  <2>2. CASE c.task = t
    <3>1. c \in Racers(t) /\ Settles(t)
      BY <2>1, <2>2 DEF Racers, RaceOK
    <3>2. race[t].settled
      BY <1>1, <2>1, <3>1 DEF Settles
    <3> QED
      BY <2>1, <2>2, <3>2
  <2>3. CASE c.task # t
    BY <2>1, <2>3 DEF Record, TypeOK
  <2> QED
    BY <2>2, <2>3
<1>6. ASSUME NEW r \in rows, Resume(r) PROVE results'[t] = results[t]
  <2>1. overtaken \in SUBSET overtaken' /\ kind[r.task] \in Single
    BY <1>6 DEF Resume, Numbered
  <2>2. leaked' = leaked /\ (results' = results \/ Record(r.task, "failed"))
    BY <1>6 DEF Resume, Invoke
  <2>3. r.task # t
    BY <1>1, <2>1, <2>2 DEF RowsOf, Single
  <2> QED
    BY <2>2, <2>3 DEF Record, TypeOK
<1>7. CASE \/ UNCHANGED vars
           \/ \E p \in Worker : Register(p) \/ Unregister(p)
           \/ \E u \in Task : DispatchExplicit(u) \/ DispatchCapability(u) \/ DispatchBroadcast(u)
           \/ \E c \in calls : Suspends(c)
  BY <1>2, <1>7 DEF vars, Register, Unregister, DispatchExplicit, DispatchCapability,
     DispatchBroadcast, DispatchTo, Invoke, Suspends
<1> QED
  BY <1>3, <1>4, <1>5, <1>6, <1>7 DEF Next

(* A task that has its answer keeps it, whatever calls, races and resumes  *)
(* end after it, except for the tasks that were resumed too early or whose *)
(* notifier failed (runOne, dispatchBroadcast, resumeTask).                *)
THEOREM AnswersStand == Spec => AnswerStands
<1>1. IInv /\ [Next]_vars =>
        [\A t \in Task \ (overtaken' \cup leaked') :
           View(t) = "finished" => results'[t] = results[t]]_vars
  BY AnswerStays
<1> QED
  BY InOrder, <1>1, PTL DEF Spec, AnswerStands
=============================================================================
