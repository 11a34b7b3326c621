--------------------------- MODULE JournalProofs ---------------------------
(***************************************************************************)
(* Proofs about module Journal, for any segment size, retention and        *)
(* bounds: the files implement an append-only log, what a boot loads is in *)
(* order, and no number is given to two entries.                           *)
(*                                                                         *)
(* One fact carries all of them (Fresh): what is queued has a higher       *)
(* number than what is on disk.  It survives a boot since the last entry   *)
(* loaded has the highest number not archived (LoadedInOrder) and what is  *)
(* archived comes before it, or nothing is loaded and the checkpoint       *)
(* covers the archive (Covered).  Even where a sweep was overtaken it      *)
(* holds among the entries of one life of the process, and that is enough  *)
(* for the log.                                                            *)
(***************************************************************************)
EXTENDS Journal, FiniteSetTheorems, WellFoundedInduction, TLAPS

Segs == DOMAIN sealed \cup DOMAIN archive

(* Segments have distinct numbers, and a sweep holds numbers of segments   *)
(* that are there.                                                         *)
Segmented ==
  /\ DOMAIN sealed \cap DOMAIN archive = {}
  /\ \E b \in Nat : \A n \in Segs : n <= b
  /\ phase = "up" => \A n \in Segs : n < segNo
  /\ sweep.at \in {"listed", "read"} => sweep.listed \subseteq DOMAIN sealed
  /\ sweep.at = "move" => sweep.todo \subseteq DOMAIN sealed
  /\ phase = "down" => sweep.at = "off"
  /\ phase # "up" => queue = <<>>
  /\ life <= MaxCrash

(* The queue is in order, and of this life.                                *)
Queued ==
  \A i \in DOMAIN queue :
    /\ queue[i].life = life /\ queue[i].seq <= seq
    /\ \A j \in DOMAIN queue : i < j => queue[i].seq < queue[j].seq

Below(E) == \A e \in E : e.seq <= seq /\ \A i \in DOMAIN queue : e.seq < queue[i].seq

Clean == ~raced /\ ~unsaved

Fresh ==
  /\ \A e \in OnDisk : e.life <= life /\ (e.life = life => phase = "up")
  /\ phase = "up" => /\ Below(Loadable)
                     /\ Below({e \in OnDisk : e.life = life})
                     /\ Clean => Below(OnDisk)

UpTo(E, n) == \A e \in E : e.seq <= n

(* Without the segments in todo, there is nothing that stays (Stay).       *)
Bare(segs, todo, file) ==
  Finished(file) = {} /\ \A n \in DOMAIN segs \ todo : Parsed(segs[n]) = {}

(* What a sweep moves comes before what it leaves.                         *)
Foremost ==
  sweep.at = "move" =>
    \A n \in sweep.todo, k \in DOMAIN sealed \ sweep.todo :
      n < k \/ Parsed(sealed[k]) = {}

(* What is archived comes before what is not; where nothing stays, the     *)
(* checkpoint covers the archive and what is about to go there.            *)
Covered ==
  Clean =>
    /\ Before(In(archive), Loadable)
    /\ Bare(sealed, {}, active) => UpTo(In(archive), hwm)
    /\ sweep.at = "read" => /\ UpTo(In(archive), sweep.saw)
                            /\ \A n \in sweep.listed : UpTo(Parsed(sealed[n]), sweep.saw)
    /\ sweep.at = "move" /\ Bare(sealed, sweep.todo, active) =>
         UpTo(In(archive), hwm) /\ \A n \in sweep.todo : UpTo(Parsed(sealed[n]), hwm)

IInv ==
  /\ TypeOK /\ Segmented /\ Queued /\ Fresh
  /\ LoadedInOrder /\ SeqIssuedOnce /\ Foremost /\ Covered

-----------------------------------------------------------------------------
(* Numbers                                                                 *)

(* A set of naturals has a least element.                                  *)
LEMMA Least ==
  ASSUME NEW T, T \subseteq Nat, T # {}
  PROVE  \E x \in T : \A y \in T : x <= y
<1> DEFINE R == OpToRel(<, Nat)
<1>1. IsWellFoundedOn(R, Nat)
  BY NatLessThanWellFounded
<1>2. \A x, y \in Nat : y < x => <<y, x>> \in R
  BY DEF OpToRel
<1> HIDE DEF R
<1>3. PICK x \in T : \A y \in T : ~ (<<y, x>> \in R)
  BY <1>1, WFMin
<1>4. \A y \in T : y \in Nat /\ ~(y < x)
  BY <1>2, <1>3
<1>5. x \in Nat
  BY <1>4
<1> QED
  BY <1>4, <1>5

(* A bounded one has a greatest.                                           *)
LEMMA Greatest ==
  ASSUME NEW T, NEW b \in Nat, T # {}, \A x \in T : x \in Nat /\ x <= b
  PROVE  \E x \in T : \A y \in T : y <= x
<1> DEFINE U == {b - x : x \in T}
<1>1. U \subseteq Nat /\ U # {}
  OBVIOUS
<1>2. PICK u \in U : \A y \in U : u <= y
  BY <1>1, Least
<1>3. PICK x \in T : u = b - x
  OBVIOUS
<1>4. ASSUME NEW y \in T PROVE y <= x
  <2>1. b - x <= b - y
    BY <1>2, <1>3
  <2>2. x \in Nat /\ y \in Nat
    OBVIOUS
  <2> HIDE DEF U
  <2> QED
    BY <2>1, <2>2
<1> QED
  BY <1>4

(* Highest is the highest.                                                 *)
LEMMA HighestFits ==
  ASSUME NEW m \in Nat, NEW E, NEW b \in Nat, \A e \in E : e.seq \in Nat /\ e.seq <= b
  PROVE  Highest(m, E) \in Nat /\ m <= Highest(m, E) /\ UpTo(E, Highest(m, E))
<1> DEFINE T == {m} \cup {e.seq : e \in E}
<1>1. PICK c \in Nat : m <= c /\ b <= c
  <2>1. CASE m <= b
    BY <2>1
  <2>2. CASE ~(m <= b)
    BY <2>2
  <2> QED
    BY <2>1, <2>2
<1>2. T # {} /\ \A x \in T : x \in Nat /\ x <= c
  BY <1>1
<1>3. PICK x \in T : \A y \in T : y <= x
  <2> HIDE DEF T
  <2> QED
    BY <1>2, Greatest
<1>4. x \in Nat /\ m \in T /\ \A e \in E : e.seq \in T
  BY <1>2
<1>5. x >= m /\ \A e \in E : x >= e.seq
  BY <1>2, <1>3, <1>4
<1>6. Highest(m, E) \in T /\ Highest(m, E) >= m /\ \A e \in E : Highest(m, E) >= e.seq
  BY <1>5 DEF Highest
<1>7. Highest(m, E) \in Nat
  BY <1>2, <1>6
<1> QED
  BY <1>6, <1>7 DEF UpTo

-----------------------------------------------------------------------------
(* Files                                                                   *)

Has == {{}} \cup {{e} : e \in Entry}

(* What entries and lines are made of.                                     *)
LEMMA Shapes ==
  /\ \A e \in Entry : e.seq \in Nat /\ e.seq <= MaxSeq /\ e.life \in Nat /\ e.life <= MaxCrash
  /\ \A k \in Line : k.has \in Has /\ k.has \subseteq Entry /\ k.nl \in BOOLEAN
  /\ \A has \in Has, nl \in BOOLEAN : [has |-> has, nl |-> nl] \in Line
  /\ \A e \in Entry : {e} \in Has
  /\ {} \in Has
BY JournalAssumption DEF JournalAssumption, Entry, Line, Has

(* What a file holds.                                                      *)
LEMMA Holds ==
  ASSUME NEW file \in Seq(Line)
  PROVE  /\ \A e : e \in Parsed(file) <=> \E i \in DOMAIN file : e \in file[i].has
         /\ \A e : e \in Finished(file) <=> \E i \in DOMAIN file : file[i].nl /\ e \in file[i].has
         /\ Parsed(file) \subseteq Entry /\ Finished(file) \subseteq Parsed(file)
<1>1. \A i \in DOMAIN file : file[i] \in Line
  OBVIOUS
<1>2. \A e : e \in Parsed(file) <=> \E i \in DOMAIN file : e \in file[i].has
  BY DEF Parsed
<1>3. \A e : e \in Finished(file) <=> \E i \in DOMAIN file : file[i].nl /\ e \in file[i].has
  BY DEF Finished
<1>4. Parsed(file) \subseteq Entry
  BY <1>1, <1>2, Shapes
<1> QED
  BY <1>2, <1>3, <1>4

(* What may come of a file when e is written behind it.                    *)
Grown(file, e, f) ==
  /\ f \in Seq(Line)
  /\ Parsed(f) \subseteq Parsed(file) \cup {e}
  /\ Finished(f) \in {Finished(file), Finished(file) \cup {e}}
  /\ InOrder(file) /\ Before(Parsed(file), {e}) => InOrder(f)

(* A line is put behind a file.                                            *)
LEMMA PutFits ==
  ASSUME NEW file \in Seq(Line), NEW e \in Entry, NEW has \in {{}, {e}}, NEW nl \in BOOLEAN
  PROVE  Grown(file, e, Put(file, has, nl))
<1> USE Shapes
<1> DEFINE f == Put(file, has, nl)
<1>0. has \in Has /\ [has |-> has, nl |-> nl] \in Line /\ [has |-> {}, nl |-> nl] \in Line
  OBVIOUS
<1>1. CASE Unfinished(file)
  <2>1. Len(file) \in DOMAIN file /\ ~file[Len(file)].nl
    BY <1>1 DEF Unfinished, NoFile
  <2>2. f = [file EXCEPT ![Len(file)] = [has |-> {}, nl |-> nl]]
    BY <1>1 DEF Put
  <2>3. /\ f \in Seq(Line) /\ DOMAIN f = DOMAIN file
        /\ \A i \in DOMAIN file : f[i] = IF i = Len(file) THEN [has |-> {}, nl |-> nl] ELSE file[i]
    BY <1>0, <2>1, <2>2
  <2> HIDE DEF f
  <2>4. Parsed(f) \subseteq Parsed(file)
    BY <2>3, Holds
  <2>5. Finished(f) = Finished(file)
    <3>1. \A x : x \in Finished(f) => x \in Finished(file)
      BY <2>3, Holds
    <3>2. \A x : x \in Finished(file) => x \in Finished(f)
      BY <2>1, <2>3, Holds
    <3> QED
      BY <3>1, <3>2
  <2>6. InOrder(file) => InOrder(f)
    BY <2>3 DEF InOrder, Before
  <2>7. Grown(file, e, f)
    BY <2>3, <2>4, <2>5, <2>6 DEF Grown
  <2> QED
    BY <2>7 DEF f
<1>2. CASE ~Unfinished(file)
  <2>1. f = Append(file, [has |-> has, nl |-> nl])
    BY <1>2 DEF Put
  <2>2. PICK n : n = Len(file) + 1
    OBVIOUS
  <2>3. /\ f \in Seq(Line) /\ DOMAIN f = DOMAIN file \cup {n} /\ n \notin DOMAIN file
        /\ \A i \in DOMAIN file : f[i] = file[i] /\ i < n
        /\ f[n] = [has |-> has, nl |-> nl]
    BY <1>0, <2>1, <2>2
  <2> HIDE DEF f
  <2>4. Parsed(f) \subseteq Parsed(file) \cup {e}
    BY <2>3, Holds
  <2>5. Finished(f) \in {Finished(file), Finished(file) \cup {e}}
    <3>1. CASE has = {} \/ ~nl
      <4>1. \A x : x \in Finished(f) => x \in Finished(file)
        BY <2>3, <3>1, Holds
      <4>2. \A x : x \in Finished(file) => x \in Finished(f)
        BY <2>3, Holds
      <4> QED
        BY <4>1, <4>2
    <3>2. CASE has = {e} /\ nl
      <4>1. \A x : x \in Finished(f) => x \in Finished(file) \cup {e}
        BY <2>3, <3>2, Holds
      <4>2. \A x : x \in Finished(file) => x \in Finished(f)
        BY <2>3, Holds
      <4>3. e \in Finished(f)
        BY <2>3, <3>2, Holds
      <4> QED
        BY <4>1, <4>2, <4>3
    <3> QED
      BY <3>1, <3>2
  <2>6. InOrder(file) /\ Before(Parsed(file), {e}) => InOrder(f)
    <3> SUFFICES ASSUME InOrder(file), Before(Parsed(file), {e}), NEW i \in DOMAIN f, NEW j \in DOMAIN f, i < j
                 PROVE  Before(f[i].has, f[j].has)
      BY DEF InOrder
    <3>1. i \in DOMAIN file
      BY <2>3
    <3>2. f[i].has \subseteq Parsed(file)
      BY <2>3, <3>1, Holds
    <3>3. CASE j = n
      BY <2>3, <3>2, <3>3 DEF Before
    <3>4. CASE j \in DOMAIN file
      BY <2>3, <3>1, <3>4 DEF InOrder
    <3> QED
      BY <2>3, <3>3, <3>4
  <2>7. Grown(file, e, f)
    BY <2>3, <2>4, <2>5, <2>6 DEF Grown
  <2> QED
    BY <2>7 DEF f
<1> QED
  BY <1>1, <1>2

(* The last entry of a file in order has its highest number.               *)
LEMMA LastFits ==
  ASSUME NEW file \in Seq(Line), InOrder(file), Parsed(file) # {}
  PROVE  LastIn(file) \in Nat /\ UpTo(Parsed(file), LastIn(file))
<1> USE Shapes
<1> DEFINE T == {i \in DOMAIN file : file[i].has # {}}
<1>1. T # {} /\ \A i \in T : i \in Nat /\ i <= Len(file)
  BY Holds
<1>2. PICK k \in T : \A i \in T : i <= k
  <2> HIDE DEF T
  <2> QED
    BY <1>1, Greatest
<1>3. \E i \in DOMAIN file : file[i].has # {} /\ \A j \in DOMAIN file : j > i => file[j].has = {}
  <2>1. k \in Nat /\ \A j \in DOMAIN file : j \in Nat
    BY <1>1
  <2>2. \A j \in DOMAIN file : j > k => j \notin T
    BY <1>2, <2>1
  <2> QED
    BY <1>1, <2>2
<1>4. PICK last : last = CHOOSE i \in DOMAIN file :
                           file[i].has # {} /\ \A j \in DOMAIN file : j > i => file[j].has = {}
  OBVIOUS
<1>5. last \in DOMAIN file /\ file[last].has # {} /\ \A j \in DOMAIN file : j > last => file[j].has = {}
  BY <1>3, <1>4
<1>6. file[last] \in Line
  BY <1>5
<1>7. PICK e \in Entry : file[last].has = {e}
  BY <1>5, <1>6 DEF Has
<1>8. LastIn(file) = e.seq
  <2>1. LastIn(file) = (CHOOSE d \in file[last].has : TRUE).seq
    BY <1>4 DEF LastIn
  <2> QED
    BY <1>7, <2>1
<1>9. ASSUME NEW d \in Parsed(file) PROVE d.seq <= e.seq
  <2>1. PICK i \in DOMAIN file : d \in file[i].has
    BY Holds
  <2>2. i \in Nat /\ last \in Nat /\ d \in Entry
    BY <1>5, Holds
  <2>3. ~(i > last)
    BY <1>5, <2>1
  <2>4. CASE i = last
    BY <1>7, <2>1, <2>4
  <2>5. CASE i < last
    <3>1. d.seq < e.seq
      BY <1>5, <1>7, <2>1, <2>5 DEF InOrder, Before
    <3> QED
      BY <2>2, <3>1
  <2> QED
    BY <2>2, <2>3, <2>4, <2>5
<1> QED
  BY <1>8, <1>9 DEF UpTo

-----------------------------------------------------------------------------
(* Segments                                                                *)

Segment(segs) == DOMAIN segs \subseteq Nat /\ segs \in [DOMAIN segs -> Seq(Line)]

(* What segments hold.                                                     *)
LEMMA SegsHold ==
  ASSUME NEW segs, Segment(segs)
  PROVE  /\ \A e : e \in In(segs) <=> \E n \in DOMAIN segs : e \in Parsed(segs[n])
         /\ \A e : e \in FinishedIn(segs) <=> \E n \in DOMAIN segs : e \in Finished(segs[n])
         /\ \A n \in DOMAIN segs : segs[n] \in Seq(Line)
         /\ In(segs) \subseteq Entry /\ FinishedIn(segs) \subseteq In(segs)
<1>1. \A e : e \in In(segs) <=> \E n \in DOMAIN segs : e \in Parsed(segs[n])
  BY DEF In
<1>2. \A e : e \in FinishedIn(segs) <=> \E n \in DOMAIN segs : e \in Finished(segs[n])
  BY DEF FinishedIn
<1>3. \A n \in DOMAIN segs : segs[n] \in Seq(Line)
  BY DEF Segment
<1>4. In(segs) \subseteq Entry /\ FinishedIn(segs) \subseteq In(segs)
  BY <1>1, <1>2, <1>3, Holds
<1> QED
  BY <1>1, <1>2, <1>3, <1>4

(* A segment is added.                                                     *)
LEMMA WithFits ==
  ASSUME NEW segs, Segment(segs), NEW n \in Nat, n \notin DOMAIN segs, NEW file \in Seq(Line),
         NEW w, w = With(segs, n, file)
  PROVE  /\ Segment(w)
         /\ \A k : k \in DOMAIN w <=> k \in DOMAIN segs \/ k = n
         /\ \A e : e \in In(w) <=> e \in In(segs) \/ e \in Parsed(file)
         /\ \A e : e \in FinishedIn(w) <=> e \in FinishedIn(segs) \/ e \in Finished(file)
<1>1. DOMAIN w = DOMAIN segs \cup {n} /\ \A k \in DOMAIN w : w[k] = IF k = n THEN file ELSE segs[k]
  BY DEF With
<1>2. Segment(w)
  <2>1. w = [k \in DOMAIN w |-> w[k]]
    BY DEF With
  <2>2. \A k \in DOMAIN w : w[k] \in Seq(Line)
    BY <1>1 DEF Segment
  <2>3. w \in [DOMAIN w -> Seq(Line)]
    BY <2>1, <2>2
  <2> QED
    BY <1>1, <2>3 DEF Segment
<1>3. In(w) = In(segs) \cup Parsed(file)
  <2>1. \A e : e \in In(w) => e \in In(segs) \cup Parsed(file)
    BY <1>1, <1>2, SegsHold
  <2>2. \A e : e \in In(segs) => e \in In(w)
    BY <1>1, <1>2, SegsHold
  <2>3. \A e : e \in Parsed(file) => e \in In(w)
    BY <1>1, <1>2, SegsHold
  <2> QED
    BY <2>1, <2>2, <2>3
<1>4. FinishedIn(w) = FinishedIn(segs) \cup Finished(file)
  <2>1. \A e : e \in FinishedIn(w) => e \in FinishedIn(segs) \cup Finished(file)
    BY <1>1, <1>2, SegsHold
  <2>2. \A e : e \in FinishedIn(segs) => e \in FinishedIn(w)
    BY <1>1, <1>2, SegsHold
  <2>3. \A e : e \in Finished(file) => e \in FinishedIn(w)
    BY <1>1, <1>2, SegsHold
  <2> QED
    BY <2>1, <2>2, <2>3
<1> QED
  BY <1>1, <1>2, <1>3, <1>4

(* A segment is taken away.                                                *)
LEMMA WithoutFits ==
  ASSUME NEW segs, Segment(segs), NEW n \in DOMAIN segs, NEW w, w = Without(segs, n)
  PROVE  /\ Segment(w) /\ DOMAIN w = DOMAIN segs \ {n}
         /\ In(segs) = In(w) \cup Parsed(segs[n]) /\ FinishedIn(segs) = FinishedIn(w) \cup Finished(segs[n])
<1>1. DOMAIN w = DOMAIN segs \ {n} /\ \A k \in DOMAIN w : w[k] = segs[k]
  BY DEF Without
<1>2. Segment(w)
  <2>1. w = [k \in DOMAIN w |-> w[k]]
    BY DEF Without
  <2>2. \A k \in DOMAIN w : w[k] \in Seq(Line)
    BY <1>1 DEF Segment
  <2>3. w \in [DOMAIN w -> Seq(Line)]
    BY <2>1, <2>2
  <2> QED
    BY <1>1, <2>3 DEF Segment
<1>3. In(segs) = In(w) \cup Parsed(segs[n])
  <2>1. \A e : e \in In(segs) => e \in In(w) \cup Parsed(segs[n])
    BY <1>1, <1>2, SegsHold
  <2>2. \A e : e \in In(w) => e \in In(segs)
    BY <1>1, <1>2, SegsHold
  <2>3. \A e : e \in Parsed(segs[n]) => e \in In(segs)
    BY SegsHold
  <2> QED
    BY <2>1, <2>2, <2>3
<1>4. FinishedIn(segs) = FinishedIn(w) \cup Finished(segs[n])
  <2>1. \A e : e \in FinishedIn(segs) => e \in FinishedIn(w) \cup Finished(segs[n])
    BY <1>1, <1>2, SegsHold
  <2>2. \A e : e \in FinishedIn(w) => e \in FinishedIn(segs)
    BY <1>1, <1>2, SegsHold
  <2>3. \A e : e \in Finished(segs[n]) => e \in FinishedIn(segs)
    BY SegsHold
  <2> QED
    BY <2>1, <2>2, <2>3
<1> QED
  BY <1>1, <1>2, <1>3, <1>4

-----------------------------------------------------------------------------
(* The disk                                                                *)

(* What is on it.                                                          *)
LEMMA OnIt ==
  ASSUME TypeOK
  PROVE  /\ Segment(sealed) /\ Segment(archive) /\ active \in Seq(Line)
         /\ OnRecord = Finished(active) \cup FinishedIn(sealed) \cup FinishedIn(archive)
         /\ OnDisk = In(archive) \cup In(sealed) \cup Parsed(active)
         /\ Loadable = In(sealed) \cup Parsed(active) /\ Loadable \subseteq OnDisk
         /\ In(archive) \subseteq OnDisk
         /\ OnRecord \subseteq OnDisk /\ OnDisk \subseteq Entry
<1>1. Segment(sealed) /\ Segment(archive) /\ active \in Seq(Line)
  BY DEF TypeOK, Segment
<1>2. OnRecord = Finished(active) \cup FinishedIn(sealed) \cup FinishedIn(archive)
  BY DEF OnRecord, FinishedIn
<1>3. OnDisk = In(archive) \cup In(sealed) \cup Parsed(active) /\ Loadable = In(sealed) \cup Parsed(active)
  BY DEF OnDisk, Loadable
<1> QED
  BY <1>1, <1>2, <1>3, Holds, SegsHold

(* A line is written behind the active file, or a part of it, or nothing.  *)
LEMMA GrowFits ==
  ASSUME TypeOK, NEW e \in Entry, Grown(active, e, active'), UNCHANGED <<sealed, archive>>
  PROVE  /\ active' \in Seq(Line)
         /\ OnDisk' \subseteq OnDisk \cup {e} /\ Loadable' \subseteq Loadable \cup {e}
         /\ OnRecord' \in {OnRecord, OnRecord \cup {e}}
         /\ Finished(active') = {} => Finished(active) = {}
         /\ LoadedInOrder /\ Before(Loadable, {e}) => LoadedInOrder'
<1>1. /\ active' \in Seq(Line) /\ Parsed(active') \subseteq Parsed(active) \cup {e}
      /\ Finished(active') \in {Finished(active), Finished(active) \cup {e}}
      /\ InOrder(active) /\ Before(Parsed(active), {e}) => InOrder(active')
  BY DEF Grown
<1>2. /\ OnRecord' = Finished(active') \cup FinishedIn(sealed) \cup FinishedIn(archive)
      /\ OnDisk' = In(archive) \cup In(sealed) \cup Parsed(active')
      /\ Loadable' = In(sealed) \cup Parsed(active')
  BY DEF OnRecord, FinishedIn, OnDisk, Loadable, In
<1>3. OnDisk' \subseteq OnDisk \cup {e} /\ Loadable' \subseteq Loadable \cup {e}
  BY <1>1, <1>2, OnIt
<1>4. OnRecord' \in {OnRecord, OnRecord \cup {e}}
  <2>1. CASE Finished(active') = Finished(active)
    <3>1. OnRecord' = OnRecord
      BY <1>2, <2>1, OnIt
    <3> QED
      BY <3>1
  <2>2. CASE Finished(active') = Finished(active) \cup {e}
    <3>1. OnRecord' = OnRecord \cup {e}
      BY <1>2, <2>2, OnIt
    <3> QED
      BY <3>1
  <2> QED
    BY <1>1, <2>1, <2>2
<1>5. ASSUME LoadedInOrder, Before(Loadable, {e}) PROVE LoadedInOrder'
  <2>1. Before(Parsed(active), {e}) /\ Before(In(sealed), {e})
    BY <1>5, OnIt DEF Before
  <2>2. InOrder(active')
    BY <1>1, <1>5, <2>1 DEF LoadedInOrder
  <2>3. Before(In(sealed), Parsed(active'))
    BY <1>1, <1>5, <2>1 DEF Before, LoadedInOrder
  <2>4. sealed' = sealed /\ In(sealed)' = In(sealed)
    BY DEF In
  <2> QED
    BY <1>5, <2>2, <2>3, <2>4 DEF LoadedInOrder
<1>6. Finished(active') = {} => Finished(active) = {}
  BY <1>1
<1> QED
  BY <1>1, <1>3, <1>4, <1>5, <1>6

(* The active file is sealed.                                              *)
LEMMA SealFits ==
  ASSUME TypeOK, \A n \in Segs : n < segNo,
         sealed' = With(sealed, segNo, active), active' = NoFile, archive' = archive
  PROVE  /\ Segment(sealed') /\ active' \in Seq(Line) /\ DOMAIN sealed' = DOMAIN sealed \cup {segNo}
         /\ \A n \in DOMAIN sealed : sealed'[n] = sealed[n]
         /\ segNo \notin DOMAIN sealed /\ sealed'[segNo] = active
         /\ OnDisk' = OnDisk /\ Loadable' = Loadable /\ OnRecord' = OnRecord
         /\ LoadedInOrder => LoadedInOrder'
<1>0. segNo \in Nat /\ segNo \notin DOMAIN sealed /\ Segment(sealed) /\ Segment(archive) /\ active \in Seq(Line)
  BY OnIt DEF TypeOK, Segs
<1>1. /\ Segment(sealed') /\ DOMAIN sealed' = DOMAIN sealed \cup {segNo}
      /\ \A k \in DOMAIN sealed' : sealed'[k] = IF k = segNo THEN active ELSE sealed[k]
      /\ In(sealed') = In(sealed) \cup Parsed(active) /\ FinishedIn(sealed') = FinishedIn(sealed) \cup Finished(active)
  <2>1. PICK w : w = With(sealed, segNo, active)
    OBVIOUS
  <2>2. /\ Segment(w) /\ DOMAIN w = DOMAIN sealed \cup {segNo}
        /\ In(w) = In(sealed) \cup Parsed(active) /\ FinishedIn(w) = FinishedIn(sealed) \cup Finished(active)
    BY <1>0, <2>1, WithFits
  <2>3. sealed' = w
    BY <2>1
  <2>4. \A k \in DOMAIN w : w[k] = IF k = segNo THEN active ELSE sealed[k]
    BY <2>1 DEF With
  <2> QED
    BY <2>2, <2>3, <2>4
<1>2. active' \in Seq(Line) /\ Parsed(active') = {} /\ Finished(active') = {} /\ DOMAIN active' = {}
  BY DEF NoFile, Parsed, Finished
<1>3. /\ OnRecord' = Finished(active') \cup FinishedIn(sealed') \cup FinishedIn(archive)
      /\ OnDisk' = In(archive) \cup In(sealed') \cup Parsed(active')
      /\ Loadable' = In(sealed') \cup Parsed(active')
  BY DEF OnRecord, FinishedIn, OnDisk, Loadable, In
<1>4. OnDisk' = OnDisk /\ Loadable' = Loadable /\ OnRecord' = OnRecord
  BY <1>1, <1>2, <1>3, OnIt
<1>5. \A n \in DOMAIN sealed : sealed'[n] = sealed[n]
  BY <1>0, <1>1
<1>6. ASSUME LoadedInOrder PROVE LoadedInOrder'
  <2>1. InOrder(active') /\ Before(In(sealed'), Parsed(active'))
    BY <1>2 DEF InOrder, Before
  <2>2. \A n \in DOMAIN sealed' : InOrder(sealed'[n])
    BY <1>1, <1>6 DEF LoadedInOrder
  <2>3. ASSUME NEW m \in DOMAIN sealed', NEW n \in DOMAIN sealed', m < n
        PROVE  Before(Parsed(sealed'[m]), Parsed(sealed'[n]))
    <3>1. m \in DOMAIN sealed
      BY <1>0, <1>1, <2>3 DEF Segs, Segment
    <3>2. CASE n = segNo
      <4>1. Parsed(sealed[m]) \subseteq In(sealed)
        BY <1>0, <3>1, SegsHold
      <4>2. sealed'[m] = sealed[m] /\ sealed'[n] = active
        BY <1>1, <1>5, <3>1, <3>2
      <4>3. Before(In(sealed), Parsed(active))
        BY <1>6 DEF LoadedInOrder
      <4> QED
        BY <4>1, <4>2, <4>3 DEF Before
    <3>3. CASE n \in DOMAIN sealed
      BY <1>5, <1>6, <2>3, <3>1, <3>3 DEF LoadedInOrder
    <3> QED
      BY <1>1, <3>2, <3>3
  <2>4. In(sealed)' = In(sealed')
    BY DEF In
  <2> QED
    BY <2>1, <2>2, <2>3, <2>4 DEF LoadedInOrder
<1> QED
  BY <1>0, <1>1, <1>2, <1>4, <1>5, <1>6

(* A segment goes to the archive.                                          *)
LEMMA ArchiveFits ==
  ASSUME TypeOK, NEW n \in DOMAIN sealed, n \notin DOMAIN archive,
         archive' = With(archive, n, sealed[n]), sealed' = Without(sealed, n), active' = active
  PROVE  /\ Segment(sealed') /\ DOMAIN sealed' = DOMAIN sealed \ {n}
         /\ \A k \in DOMAIN sealed' : sealed'[k] = sealed[k]
         /\ Segment(archive') /\ DOMAIN archive' = DOMAIN archive \cup {n}
         /\ In(archive') = In(archive) \cup Parsed(sealed[n])
         /\ OnDisk' = OnDisk /\ Loadable' \subseteq Loadable /\ OnRecord' = OnRecord
         /\ LoadedInOrder => LoadedInOrder'
<1>0. n \in Nat /\ Segment(sealed) /\ Segment(archive) /\ sealed[n] \in Seq(Line)
  BY OnIt DEF Segment
<1>1. /\ Segment(archive') /\ DOMAIN archive' = DOMAIN archive \cup {n}
      /\ In(archive') = In(archive) \cup Parsed(sealed[n]) /\ FinishedIn(archive') = FinishedIn(archive) \cup Finished(sealed[n])
  <2>1. PICK w, file : w = With(archive, n, file) /\ file = sealed[n]
    OBVIOUS
  <2>2. /\ Segment(w) /\ DOMAIN w = DOMAIN archive \cup {n}
        /\ In(w) = In(archive) \cup Parsed(file) /\ FinishedIn(w) = FinishedIn(archive) \cup Finished(file)
    <3>1. file \in Seq(Line)
      BY <1>0, <2>1
    <3>2. Segment(w)
      BY <1>0, <2>1, <3>1, WithFits
    <3>3. DOMAIN w = DOMAIN archive \cup {n}
      <4>1. \A k : k \in DOMAIN w <=> k \in DOMAIN archive \/ k = n
        BY <1>0, <2>1, <3>1, WithFits
      <4> QED
        BY <4>1
    <3>4. In(w) = In(archive) \cup Parsed(file)
      BY <1>0, <2>1, <3>1, WithFits
    <3>5. FinishedIn(w) = FinishedIn(archive) \cup Finished(file)
      BY <1>0, <2>1, <3>1, WithFits
    <3> QED
      BY <3>2, <3>3, <3>4, <3>5
  <2>3. archive' = w /\ file = sealed[n]
    BY <2>1
  <2> QED
    BY <2>2, <2>3
<1>2. /\ Segment(sealed') /\ DOMAIN sealed' = DOMAIN sealed \ {n}
      /\ \A k \in DOMAIN sealed' : sealed'[k] = sealed[k]
      /\ In(sealed) = In(sealed') \cup Parsed(sealed[n]) /\ FinishedIn(sealed) = FinishedIn(sealed') \cup Finished(sealed[n])
  <2>1. PICK w : w = Without(sealed, n)
    OBVIOUS
  <2>2. /\ Segment(w) /\ DOMAIN w = DOMAIN sealed \ {n}
        /\ In(sealed) = In(w) \cup Parsed(sealed[n])
        /\ FinishedIn(sealed) = FinishedIn(w) \cup Finished(sealed[n])
    BY <1>0, <2>1, WithoutFits
  <2>3. sealed' = w
    BY <2>1
  <2>4. \A k \in DOMAIN w : w[k] = sealed[k]
    BY <2>1 DEF Without
  <2> QED
    BY <2>2, <2>3, <2>4
<1>3. /\ OnRecord' = Finished(active) \cup FinishedIn(sealed') \cup FinishedIn(archive')
      /\ OnDisk' = In(archive') \cup In(sealed') \cup Parsed(active)
      /\ Loadable' = In(sealed') \cup Parsed(active)
  BY DEF OnRecord, FinishedIn, OnDisk, Loadable, In
<1>4. OnDisk' = OnDisk /\ Loadable' \subseteq Loadable
  BY <1>1, <1>2, <1>3, OnIt
<1>5. OnRecord' = OnRecord
  BY <1>1, <1>2, <1>3, OnIt
<1>6. ASSUME LoadedInOrder PROVE LoadedInOrder'
  <2>1. In(sealed)' = In(sealed') /\ In(sealed') \subseteq In(sealed)
    BY <1>2 DEF In
  <2>2. Before(In(sealed'), Parsed(active))
    BY <1>6, <2>1 DEF LoadedInOrder, Before
  <2> QED
    BY <1>2, <1>6, <2>1, <2>2 DEF LoadedInOrder
<1> QED
  BY <1>1, <1>2, <1>4, <1>5, <1>6

(* What boot takes for the last number is the highest that can be loaded.  *)
LEMMA LoadFits ==
  ASSUME TypeOK, Segmented, LoadedInOrder
  PROVE  /\ LoadedSeq \in Nat /\ hwm <= LoadedSeq /\ UpTo(Loadable, LoadedSeq)
         /\ NextSegment \in Nat /\ \A n \in Segs : n < NextSegment
<1> USE Shapes
<1>0. Segment(sealed) /\ active \in Seq(Line) /\ hwm \in Nat /\ Segs \subseteq Nat
  BY OnIt DEF TypeOK, Segs, Segment
<1>1. LastLoaded \in Nat /\ UpTo(Loadable, LastLoaded)
  <2>1. CASE Parsed(active) # {}
    <3>1. LastLoaded = LastIn(active)
      BY <2>1 DEF LastLoaded
    <3>2. LastIn(active) \in Nat /\ UpTo(Parsed(active), LastIn(active))
      BY <1>0, <2>1, LastFits DEF LoadedInOrder
    <3>3. PICK d \in Parsed(active) : TRUE
      BY <2>1
    <3>4. ASSUME NEW e \in In(sealed) PROVE e.seq <= LastIn(active)
      <4>1. e.seq < d.seq /\ d.seq <= LastIn(active)
        BY <3>2, <3>3 DEF LoadedInOrder, Before, UpTo
      <4>2. e \in Entry /\ d \in Entry
        BY <1>0, <3>3, Holds, SegsHold
      <4> QED
        BY <3>2, <4>1, <4>2
    <3> QED
      BY <3>1, <3>2, <3>4, OnIt DEF UpTo
  <2>2. CASE Parsed(active) = {}
    <3> DEFINE filled == {n \in DOMAIN sealed : Parsed(sealed[n]) # {}}
    <3>1. CASE filled = {}
      <4>1. LastLoaded = 0
        BY <2>2, <3>1 DEF LastLoaded
      <4>2. Loadable = {}
        BY <1>0, <2>2, <3>1, OnIt, SegsHold
      <4> QED
        BY <4>1, <4>2 DEF UpTo
    <3>2. CASE filled # {}
      <4>1. PICK b \in Nat : \A n \in Segs : n <= b
        BY DEF Segmented
      <4>2. \A n \in filled : n \in Nat /\ n <= b
        BY <1>0, <4>1 DEF Segs
      <4>3. \E k \in filled : \A n \in filled : n <= k
        <5> HIDE DEF filled
        <5> QED
          BY <3>2, <4>2, Greatest
      <4>4. PICK last : last = CHOOSE n \in filled : \A k \in filled : k <= n
        OBVIOUS
      <4>5. last \in filled /\ \A k \in filled : k <= last
        <5> HIDE DEF filled
        <5> QED
          BY <4>3, <4>4
      <4>6. LastLoaded = LastIn(sealed[last])
        BY <2>2, <3>2, <4>4 DEF LastLoaded
      <4>7. sealed[last] \in Seq(Line) /\ last \in DOMAIN sealed /\ last \in Nat
        BY <1>0, <4>2, <4>5, SegsHold
      <4>8. LastIn(sealed[last]) \in Nat /\ UpTo(Parsed(sealed[last]), LastIn(sealed[last]))
        BY <4>5, <4>7, LastFits DEF LoadedInOrder
      <4>9. PICK d \in Parsed(sealed[last]) : TRUE
        BY <4>5
      <4>10. ASSUME NEW e \in Loadable PROVE e.seq <= LastLoaded
        <5>1. PICK n \in DOMAIN sealed : e \in Parsed(sealed[n])
          BY <1>0, <2>2, OnIt, SegsHold
        <5>2. n \in filled /\ n \in Nat /\ n <= last
          BY <4>2, <4>5, <5>1
        <5>3. CASE n = last
          BY <4>6, <4>8, <5>1, <5>3 DEF UpTo
        <5>4. CASE n < last
          <6>1. e.seq < d.seq
            BY <4>7, <4>9, <5>1, <5>4 DEF LoadedInOrder, Before
          <6>2. d.seq <= LastLoaded
            BY <4>6, <4>8, <4>9 DEF UpTo
          <6>3. e \in Entry /\ d \in Entry
            BY <1>0, <4>7, <4>9, <5>1, Holds, SegsHold
          <6> QED
            BY <4>6, <4>8, <6>1, <6>2, <6>3
        <5> QED
          BY <4>7, <5>2, <5>3, <5>4
      <4> QED
        BY <4>6, <4>8, <4>10 DEF UpTo
    <3> QED
      BY <3>1, <3>2
  <2> QED
    BY <2>1, <2>2
<1>2. LoadedSeq \in Nat /\ hwm <= LoadedSeq /\ LastLoaded <= LoadedSeq
  BY <1>0, <1>1 DEF LoadedSeq
<1>3. UpTo(Loadable, LoadedSeq)
  <2>1. \A e \in Loadable : e \in Entry
    BY OnIt
  <2> QED
    BY <1>1, <1>2, <2>1 DEF UpTo
<1>4. NextSegment \in Nat /\ \A n \in Segs : n < NextSegment
  <2> DEFINE E == {[seq |-> n] : n \in DOMAIN sealed \cup DOMAIN archive}
  <2>1. PICK b \in Nat : \A n \in Segs : n <= b
    BY DEF Segmented
  <2>2. \A e \in E : e.seq \in Nat /\ e.seq <= b
    BY <1>0, <2>1 DEF Segs
  <2>3. \A n \in Segs : [seq |-> n] \in E
    BY DEF Segs
  <2>4. NextSegment = 1 + Highest(0, E)
    BY DEF NextSegment
  <2> HIDE DEF E
  <2>5. Highest(0, E) \in Nat /\ UpTo(E, Highest(0, E))
    BY <2>2, HighestFits
  <2>6. \A n \in Segs : n <= Highest(0, E)
    BY <2>3, <2>5 DEF UpTo
  <2>7. PICK top : top = Highest(0, E)
    OBVIOUS
  <2>8. \A n \in Segs : n \in Nat /\ n <= top
    BY <1>0, <2>6, <2>7
  <2>9. top \in Nat /\ NextSegment = 1 + top
    BY <2>4, <2>5, <2>7
  <2> QED
    BY <2>8, <2>9
<1> QED
  BY <1>2, <1>3, <1>4

-----------------------------------------------------------------------------
(* Steps                                                                   *)

SweepType == [at : {"off", "listed", "read", "move"}, listed : SUBSET Nat, saw : Nat, todo : SUBSET Nat]

(* TypeOK with the names above, now ...                                    *)
LEMMA Types ==
  TypeOK <=>
    /\ phase \in {"down", "boot", "up"} /\ life \in Nat /\ faults \in Nat
    /\ seq \in Nat /\ queue \in Seq(Entry) /\ rotated \in BOOLEAN /\ lines \in Nat /\ segNo \in Nat
    /\ active \in Seq(Line) /\ Segment(sealed) /\ Segment(archive) /\ hwm \in Nat
    /\ sweep \in SweepType /\ raced \in BOOLEAN /\ unsaved \in BOOLEAN
BY DEF TypeOK, SweepType, Segment

(* ... and in the next state.                                              *)
LEMMA TypesNext ==
  TypeOK' <=>
    /\ phase' \in {"down", "boot", "up"} /\ life' \in Nat /\ faults' \in Nat
    /\ seq' \in Nat /\ queue' \in Seq(Entry) /\ rotated' \in BOOLEAN /\ lines' \in Nat /\ segNo' \in Nat
    /\ active' \in Seq(Line) /\ Segment(sealed') /\ Segment(archive') /\ hwm' \in Nat
    /\ sweep' \in SweepType /\ raced' \in BOOLEAN /\ unsaved' \in BOOLEAN
BY DEF TypeOK, SweepType, Segment

(* A step that leaves the files alone leaves what is on them.              *)
LEMMA Untouched ==
  ASSUME UNCHANGED <<active, sealed, archive>>
  PROVE  /\ OnDisk' = OnDisk /\ Loadable' = Loadable /\ OnRecord' = OnRecord
         /\ In(archive)' = In(archive)
         /\ LoadedInOrder => LoadedInOrder'
BY DEF OnDisk, Loadable, OnRecord, In, FinishedIn, LoadedInOrder

(* Nor does it disturb the sweep.                                          *)
LEMMA SweepStays ==
  ASSUME Foremost, Covered, UNCHANGED <<active, sealed, archive, hwm, sweep, raced, unsaved>>
  PROVE  Foremost' /\ Covered'
<1>1. In(archive)' = In(archive) /\ Loadable' = Loadable
  BY DEF In, Loadable
<1>2. Bare(sealed, {}, active)' = Bare(sealed, {}, active)
  BY DEF Bare
<1>3. Bare(sealed, sweep.todo, active)' = Bare(sealed, sweep.todo, active)
  BY DEF Bare
<1>4. Foremost'
  BY DEF Foremost
<1> QED
  BY <1>1, <1>2, <1>3, <1>4 DEF Covered, Clean

(* Nor does a line more in the active file.                                *)
LEMMA SweepCopes ==
  ASSUME TypeOK, Foremost, Covered, NEW E, Clean => Before(OnDisk, E),
         Loadable' \subseteq Loadable \cup E, Finished(active') = {} => Finished(active) = {},
         UNCHANGED <<sealed, archive, hwm, raced, unsaved>>,
         sweep' = sweep \/ sweep'.at = "off"
  PROVE  Foremost' /\ Covered'
<1>1. In(archive)' = In(archive) /\ (Clean' => Clean)
  BY DEF In, Clean
<1>2. Bare(sealed, {}, active)' => Bare(sealed, {}, active)
  BY DEF Bare
<1>3. sweep' = sweep /\ Bare(sealed, sweep.todo, active)' => Bare(sealed, sweep.todo, active)
  BY DEF Bare
<1>4. Foremost'
  BY DEF Foremost
<1>5. Clean' => Before(In(archive), Loadable)'
  <2>1. In(archive) \subseteq OnDisk
    BY OnIt
  <2> QED
    BY <1>1, <2>1 DEF Covered, Before
<1>6. Covered'
  <2>1. CASE sweep' = sweep
    BY <1>1, <1>2, <1>3, <1>5, <2>1 DEF Covered
  <2>2. CASE sweep'.at = "off"
    BY <1>1, <1>2, <1>5, <2>2 DEF Covered
  <2> QED
    BY <2>1, <2>2
<1> QED
  BY <1>4, <1>6

(* What stays, told apart.                                                 *)
LEMMA Staying ==
  ASSUME TypeOK, NEW todo
  PROVE  Stay(todo) = {} <=> Bare(sealed, todo, active)
<1> DEFINE rest == [n \in DOMAIN sealed \ todo |-> sealed[n]]
<1>1. Stay(todo) = In(rest) \cup Finished(active)
  BY DEF Stay
<1>2. DOMAIN rest = DOMAIN sealed \ todo /\ \A n \in DOMAIN rest : rest[n] = sealed[n]
  OBVIOUS
<1> HIDE DEF rest
<1>3. In(rest) = {} <=> \A n \in DOMAIN rest : Parsed(rest[n]) = {}
  BY DEF In
<1> QED
  BY <1>1, <1>2, <1>3 DEF Bare

(* A boot numbers on past the archive.                                     *)
LEMMA Covers ==
  ASSUME IInv
  PROVE  CheckpointCovers
<1> USE Shapes DEF IInv
<1> SUFFICES ASSUME Clean, NEW e \in In(archive) PROVE e.seq <= LoadedSeq
  BY DEF CheckpointCovers, Clean
<1>1. LoadedSeq \in Nat /\ hwm <= LoadedSeq /\ UpTo(Loadable, LoadedSeq) /\ hwm \in Nat
  BY LoadFits, Types
<1>2. e \in Entry /\ Loadable \subseteq Entry
  BY OnIt
<1>3. CASE Loadable = {}
  <2>1. Bare(sealed, {}, active)
    BY <1>3, OnIt, Holds, SegsHold DEF Bare
  <2>2. e.seq <= hwm
    BY <2>1 DEF Covered, UpTo
  <2> QED
    BY <1>1, <1>2, <2>2
<1>4. ASSUME NEW d \in Loadable PROVE e.seq <= LoadedSeq
  <2>1. e.seq < d.seq
    BY DEF Covered, Before
  <2>2. d.seq <= LoadedSeq /\ d \in Entry
    BY <1>1, <1>2 DEF UpTo
  <2> QED
    BY <1>1, <1>2, <2>1, <2>2
<1> QED
  BY <1>3, <1>4

(* The rest of the queue.                                                  *)
LEMMA TailFits ==
  ASSUME TypeOK, Queued, queue # <<>>
  PROVE  /\ Head(queue) \in Entry /\ Head(queue).life = life /\ Head(queue).seq <= seq
         /\ Tail(queue) \in Seq(Entry)
         /\ \A i \in DOMAIN Tail(queue) : i + 1 \in DOMAIN queue /\ Tail(queue)[i] = queue[i + 1] /\ i \in Nat
         /\ \A i \in DOMAIN Tail(queue) : Head(queue).seq < Tail(queue)[i].seq
         /\ 1 \in DOMAIN queue /\ Head(queue) = queue[1]
<1>1. queue \in Seq(Entry)
  BY DEF TypeOK
<1>2. Head(queue) = queue[1] /\ 1 \in DOMAIN queue /\ Head(queue) \in Entry
  BY <1>1
<1>3. /\ Tail(queue) \in Seq(Entry)
      /\ \A i \in DOMAIN Tail(queue) : i + 1 \in DOMAIN queue /\ Tail(queue)[i] = queue[i + 1] /\ i \in Nat /\ 1 < i + 1
  BY <1>1
<1>4. Head(queue).life = life /\ Head(queue).seq <= seq
  BY <1>2 DEF Queued
<1>5. \A i \in DOMAIN Tail(queue) : Head(queue).seq < Tail(queue)[i].seq
  BY <1>2, <1>3 DEF Queued
<1> QED
  BY <1>2, <1>3, <1>4, <1>5

(* The abstract log's steps.                                               *)
Logged == OnRecord' = OnRecord \/ \E e \in Entry \ OnRecord : OnRecord' = OnRecord \cup {e}

(* The head of the queue leaves it, and may have come to the disk.         *)
LEMMA Leaves ==
  ASSUME IInv, Writing, queue' = Tail(queue),
         Grown(active, Head(queue), active') \/ active' = active,
         UNCHANGED <<phase, life, seq, segNo, sealed, archive, hwm, sweep, raced, unsaved>>,
         faults' \in Nat, lines' \in Nat, rotated' \in BOOLEAN
  PROVE  IInv' /\ Logged
<1> USE Shapes DEF IInv
<1> DEFINE e == Head(queue)
<1>0. queue # <<>> /\ phase = "up"
  BY DEF Writing
<1>1. /\ e \in Entry /\ e.life = life /\ e.seq <= seq /\ queue' \in Seq(Entry)
      /\ \A i \in DOMAIN queue' : i + 1 \in DOMAIN queue /\ queue'[i] = queue[i + 1] /\ i \in Nat
      /\ \A i \in DOMAIN queue' : e.seq < queue'[i].seq
      /\ 1 \in DOMAIN queue /\ e = queue[1]
  BY <1>0, TailFits
<1>2. Below(Loadable) /\ Below({d \in OnDisk : d.life = life}) /\ (Clean => Below(OnDisk))
  BY <1>0 DEF Fresh
<1>3. Before(Loadable, {e}) /\ (Clean => Before(OnDisk, {e}))
  BY <1>1, <1>2 DEF Below, Before
<1> HIDE DEF e
<1>4. /\ active' \in Seq(Line)
      /\ OnDisk' \subseteq OnDisk \cup {e} /\ Loadable' \subseteq Loadable \cup {e}
      /\ OnRecord' \in {OnRecord, OnRecord \cup {e}} /\ LoadedInOrder'
      /\ Finished(active') = {} => Finished(active) = {}
  <2>1. CASE active' = active
    BY <2>1, Untouched, OnIt
  <2>2. CASE Grown(active, e, active')
    BY <1>1, <1>3, <2>2, GrowFits
  <2> QED
    BY <2>1, <2>2 DEF e
<1>5. OnDisk \subseteq Entry
  BY OnIt
<1>6. TypeOK'
  BY <1>1, <1>4, Types, TypesNext
<1>7. Segmented'
  <2>1. Segs' = Segs
    BY DEF Segs
  <2> QED
    BY <1>0, <2>1 DEF Segmented
<1>8. Queued'
  <2> SUFFICES ASSUME NEW i \in DOMAIN queue'
               PROVE  /\ queue'[i].life = life /\ queue'[i].seq <= seq
                      /\ \A j \in DOMAIN queue' : i < j => queue'[i].seq < queue'[j].seq
    BY DEF Queued
  <2>1. queue'[i].life = life /\ queue'[i].seq <= seq
    BY <1>1 DEF Queued
  <2>2. ASSUME NEW j \in DOMAIN queue', i < j PROVE queue'[i].seq < queue'[j].seq
    <3>1. i + 1 < j + 1
      BY <1>1, <2>2
    <3> QED
      BY <1>1, <3>1 DEF Queued
  <2> QED
    BY <2>1, <2>2
<1>9. \A d : d.seq <= seq /\ (\A i \in DOMAIN queue : d.seq < queue[i].seq)
        => d.seq <= seq' /\ \A i \in DOMAIN queue' : d.seq < queue'[i].seq
  BY <1>1
<1>10. e.seq <= seq' /\ \A i \in DOMAIN queue' : e.seq < queue'[i].seq
  BY <1>1
<1>11. Fresh'
  <2>1. \A d \in OnDisk' : d.life <= life' /\ (d.life = life' => phase' = "up")
    BY <1>0, <1>1, <1>4 DEF Fresh
  <2>2. Below(Loadable)'
    BY <1>2, <1>4, <1>9, <1>10 DEF Below
  <2>3. Below({d \in OnDisk : d.life = life})'
    BY <1>2, <1>4, <1>9, <1>10 DEF Below
  <2>4. Clean' => Below(OnDisk)'
    BY <1>2, <1>4, <1>9, <1>10 DEF Below, Clean
  <2> QED
    BY <2>1, <2>2, <2>3, <2>4 DEF Fresh
<1>12. SeqIssuedOnce'
  BY <1>1, <1>3, <1>4, <1>5 DEF SeqIssuedOnce, Clean, Before
<1>13. Foremost' /\ Covered'
  BY <1>3, <1>4, SweepCopes
<1>14. Logged
  <2>1. e \notin OnRecord
    BY <1>1, <1>2, OnIt DEF Below
  <2> QED
    BY <1>1, <1>4, <2>1 DEF Logged
<1> QED
  BY <1>4, <1>6, <1>7, <1>8, <1>11, <1>12, <1>13, <1>14

(* An entry is numbered, or a number is spent.                             *)
LEMMA Numbers ==
  ASSUME IInv, AppendEntry \/ EmitEphemeral
  PROVE  IInv' /\ Logged
<1> USE Shapes DEF IInv
<1>1. /\ phase = "up" /\ seq < MaxSeq /\ seq' = seq + 1 /\ seq \in Nat /\ life \in Nat /\ life <= MaxCrash
      /\ UNCHANGED <<phase, life, faults, rotated, lines, segNo, active, sealed, archive, hwm, sweep, raced, unsaved>>
  BY Types DEF AppendEntry, EmitEphemeral, disk, history, Segmented
<1>2. PICK e : e = [seq |-> seq + 1, life |-> life]
  OBVIOUS
<1>3. e \in Entry /\ e.seq = seq + 1 /\ e.life = life
  BY <1>1, <1>2, JournalAssumption DEF Entry, JournalAssumption
<1>4. queue' = queue \/ queue' = Append(queue, e)
  BY <1>2 DEF AppendEntry, EmitEphemeral, Numbered
<1>5. queue \in Seq(Entry)
  BY Types
<1>6. /\ queue' \in Seq(Entry)
      /\ \A i \in DOMAIN queue' : i \in Nat /\ ((i \in DOMAIN queue /\ queue'[i] = queue[i]) \/ queue'[i] = e)
      /\ \A i \in DOMAIN queue', j \in DOMAIN queue' : i < j => i \in DOMAIN queue /\ queue'[i] = queue[i]
  <2>1. CASE queue' = queue
    BY <1>5, <2>1
  <2>2. CASE queue' = Append(queue, e)
    BY <1>3, <1>5, <2>2
  <2> QED
    BY <1>4, <2>1, <2>2
<1>7. \A i \in DOMAIN queue : queue[i].seq \in Nat /\ queue[i].seq <= seq /\ queue[i].life = life
  BY <1>5 DEF Queued
<1>8. /\ OnDisk' = OnDisk /\ Loadable' = Loadable /\ OnRecord' = OnRecord
      /\ In(archive)' = In(archive) /\ LoadedInOrder'
  BY <1>1, Untouched
<1>9. TypeOK'
  BY <1>1, <1>6, Types, TypesNext
<1>10. Segmented'
  BY <1>1 DEF Segmented, Segs
<1>11. Queued'
  <2> SUFFICES ASSUME NEW i \in DOMAIN queue'
               PROVE  /\ queue'[i].life = life' /\ queue'[i].seq <= seq'
                      /\ \A j \in DOMAIN queue' : i < j => queue'[i].seq < queue'[j].seq
    BY DEF Queued
  <2>1. queue'[i].life = life' /\ queue'[i].seq <= seq'
    BY <1>1, <1>3, <1>6, <1>7
  <2>2. ASSUME NEW j \in DOMAIN queue', i < j PROVE queue'[i].seq < queue'[j].seq
    <3>1. i \in DOMAIN queue /\ queue'[i] = queue[i]
      BY <1>6, <2>2
    <3>2. CASE queue'[j] = e
      BY <1>1, <1>3, <1>7, <3>1, <3>2
    <3>3. CASE j \in DOMAIN queue /\ queue'[j] = queue[j]
      BY <2>2, <3>1, <3>3 DEF Queued
    <3> QED
      BY <1>6, <3>2, <3>3
  <2> QED
    BY <2>1, <2>2
<1>12. \A d \in Entry : d.seq <= seq /\ (\A i \in DOMAIN queue : d.seq < queue[i].seq)
         => d.seq <= seq' /\ \A i \in DOMAIN queue' : d.seq < queue'[i].seq
  <2> SUFFICES ASSUME NEW d \in Entry, d.seq <= seq, \A i \in DOMAIN queue : d.seq < queue[i].seq
               PROVE  d.seq <= seq' /\ \A i \in DOMAIN queue' : d.seq < queue'[i].seq
    OBVIOUS
  <2>1. d.seq < e.seq /\ d.seq <= seq'
    BY <1>1, <1>3
  <2> QED
    BY <1>6, <2>1
<1>13. Fresh'
  <2>1. OnDisk \subseteq Entry /\ Loadable \subseteq Entry
    BY OnIt
  <2>2. Below(Loadable)' /\ Below({d \in OnDisk : d.life = life})' /\ (Clean' => Below(OnDisk)')
    BY <1>1, <1>8, <1>12, <2>1 DEF Fresh, Below, Clean
  <2> QED
    BY <1>1, <1>8, <2>2 DEF Fresh
<1>14. SeqIssuedOnce'
  BY <1>1, <1>8 DEF SeqIssuedOnce, Clean
<1>15. Foremost' /\ Covered'
  BY <1>1, SweepStays
<1>16. Logged
  BY <1>8 DEF Logged
<1> QED
  BY <1>8, <1>9, <1>10, <1>11, <1>13, <1>14, <1>15, <1>16

(* The active file is sealed, or not yet full.                             *)
LEMMA Rotates ==
  ASSUME IInv, Rotate
  PROVE  IInv' /\ Logged
<1> USE Shapes DEF IInv
<1>1. /\ phase = "up" /\ rotated' = TRUE /\ UNCHANGED <<phase, life, faults, seq, queue, archive, hwm, sweep, raced, unsaved>>
  BY DEF Rotate, Writing, history
<1>2. lines' \in Nat
  BY Types DEF Rotate
<1>3. CASE UNCHANGED <<segNo, active, sealed>>
  <2>1. /\ OnDisk' = OnDisk /\ Loadable' = Loadable /\ OnRecord' = OnRecord
        /\ In(archive)' = In(archive) /\ LoadedInOrder'
    BY <1>1, <1>3, Untouched
  <2>2. TypeOK'
    BY <1>1, <1>2, <1>3, Types, TypesNext
  <2>3. Segmented' /\ Queued'
    BY <1>1, <1>3 DEF Segmented, Segs, Queued
  <2>4. Fresh' /\ SeqIssuedOnce' /\ Logged
    BY <1>1, <1>3, <2>1 DEF Fresh, Below, SeqIssuedOnce, Clean, Logged
  <2>5. Foremost' /\ Covered'
    BY <1>1, <1>3, SweepStays
  <2> QED
    BY <2>1, <2>2, <2>3, <2>4, <2>5
<1>4. CASE sealed' = With(sealed, segNo, active) /\ segNo' = segNo + 1 /\ active' = NoFile
  <2>1. \A n \in Segs : n < segNo
    BY <1>1 DEF Segmented
  <2>2. /\ Segment(sealed') /\ active' \in Seq(Line) /\ DOMAIN sealed' = DOMAIN sealed \cup {segNo}
        /\ \A n \in DOMAIN sealed : sealed'[n] = sealed[n]
        /\ segNo \notin DOMAIN sealed /\ sealed'[segNo] = active
        /\ OnDisk' = OnDisk /\ Loadable' = Loadable /\ OnRecord' = OnRecord
        /\ LoadedInOrder'
    BY <1>1, <1>4, <2>1, SealFits
  <2>3. segNo \in Nat /\ Segment(archive) /\ Segment(sealed)
    BY Types
  <2>4. TypeOK'
    BY <1>1, <1>2, <1>4, <2>2, <2>3, Types, TypesNext
  <2>5. Segmented'
    <3>1. Segs' = Segs \cup {segNo} /\ Segs \subseteq Nat
      BY <1>1, <2>2, <2>3 DEF Segs, Segment
    <3>2. \A n \in Segs' : n <= segNo /\ n < segNo'
      BY <1>4, <2>1, <2>3, <3>1
    <3>3. DOMAIN sealed' \cap DOMAIN archive' = {}
      BY <1>1, <2>1, <2>2, <2>3 DEF Segmented, Segs, Segment
    <3>4. /\ sweep'.at \in {"listed", "read"} => sweep'.listed \subseteq DOMAIN sealed'
          /\ sweep'.at = "move" => sweep'.todo \subseteq DOMAIN sealed'
      BY <1>1, <2>2 DEF Segmented
    <3>5. life' <= MaxCrash
      BY <1>1 DEF Segmented
    <3> QED
      BY <1>1, <2>3, <3>2, <3>3, <3>4, <3>5 DEF Segmented
  <2>6. Queued' /\ Fresh' /\ SeqIssuedOnce' /\ Logged
    BY <1>1, <2>2 DEF Queued, Fresh, Below, SeqIssuedOnce, Clean, Logged
  <2>7. Foremost'
    <3>1. ASSUME sweep.at = "move", NEW n \in sweep.todo, NEW k \in DOMAIN sealed' \ sweep.todo
          PROVE  n < k \/ Parsed(sealed'[k]) = {}
      <4>1. n \in DOMAIN sealed
        BY <3>1 DEF Segmented
      <4>2. CASE k = segNo
        BY <2>1, <4>1, <4>2 DEF Segs
      <4>3. CASE k \in DOMAIN sealed
        BY <2>2, <3>1, <4>3 DEF Foremost
      <4> QED
        BY <2>2, <4>2, <4>3
    <3> QED
      BY <1>1, <3>1 DEF Foremost
  <2>8. Covered'
    <3>1. In(archive)' = In(archive) /\ (Clean' => Clean)
      BY <1>1 DEF In, Clean
    <3>2. /\ sweep.at = "read" => \A n \in sweep.listed : sealed'[n] = sealed[n]
          /\ sweep.at = "move" => \A n \in sweep.todo : sealed'[n] = sealed[n]
      BY <2>2 DEF Segmented
    <3>3. ASSUME NEW todo, segNo \notin todo, Bare(sealed', todo, active')
          PROVE  Bare(sealed, todo, active)
      <4>1. Parsed(active) = {}
        BY <2>2, <3>3 DEF Bare
      <4>2. Finished(active) = {}
        BY <4>1, OnIt, Holds
      <4>3. \A n \in DOMAIN sealed \ todo : Parsed(sealed[n]) = {}
        BY <2>2, <3>3 DEF Bare
      <4> QED
        BY <4>2, <4>3 DEF Bare
    <3>4. Bare(sealed', {}, active') => Bare(sealed, {}, active)
      BY <3>3
    <3>5. sweep.at = "move" /\ Bare(sealed', sweep.todo, active') => Bare(sealed, sweep.todo, active)
      BY <2>2, <3>3 DEF Segmented
    <3>6. Clean' => Before(In(archive), Loadable)'
      BY <2>2, <3>1 DEF Covered, Before
    <3> QED
      BY <1>1, <3>1, <3>2, <3>4, <3>5, <3>6 DEF Covered
  <2> QED
    BY <2>2, <2>4, <2>5, <2>6, <2>7, <2>8
<1> QED
  BY <1>3, <1>4 DEF Rotate

(* The files are as they were; a sweep begins, reads, or gives up.         *)
LEMMA Sweeps ==
  ASSUME IInv, SweepBegins \/ SweepReads \/ SweepMissesFile
  PROVE  IInv' /\ Logged
<1> USE Shapes DEF IInv
<1>1. /\ UNCHANGED <<phase, life, faults, seq, queue, rotated, lines, segNo, active, sealed, archive, hwm, raced, unsaved>>
      /\ phase # "down"
  BY DEF SweepBegins, SweepReads, SweepMissesFile, mem, disk, history, Segmented
<1>2. /\ OnDisk' = OnDisk /\ Loadable' = Loadable /\ OnRecord' = OnRecord
      /\ In(archive)' = In(archive) /\ LoadedInOrder'
  BY <1>1, Untouched
<1>3. /\ sweep' \in SweepType
      /\ sweep'.at \in {"listed", "read"} => sweep'.listed \subseteq DOMAIN sealed
      /\ sweep'.at # "move"
      /\ sweep'.at = "read" => /\ UpTo(In(archive), sweep'.saw)
                               /\ \A n \in sweep'.listed : UpTo(Parsed(sealed[n]), sweep'.saw)
  <2>1. sweep \in SweepType /\ Segment(sealed) /\ DOMAIN sealed \subseteq Nat /\ hwm \in Nat
    BY Types DEF Segment
  <2>2. CASE SweepBegins
    <3>1. sweep' = [at |-> "listed", listed |-> DOMAIN sealed, saw |-> 0, todo |-> {}]
      BY <2>2 DEF SweepBegins, Idle
    <3> QED
      BY <2>1, <3>1 DEF SweepType
  <2>3. CASE SweepMissesFile
    BY <2>3 DEF SweepMissesFile, Idle, SweepType
  <2>4. CASE SweepReads
    <3> DEFINE E == In(archive) \cup Parsed(active) \cup UNION {Parsed(sealed[n]) : n \in sweep.listed}
    <3>1. sweep.at = "listed" /\ sweep' = [sweep EXCEPT !.at = "read", !.saw = Highest(hwm, E)]
      BY <2>4 DEF SweepReads
    <3>2. sweep.listed \subseteq DOMAIN sealed
      BY <3>1 DEF Segmented
    <3>3. E \subseteq Entry
      BY <2>1, <3>2, OnIt, Holds, SegsHold
    <3>4. In(archive) \subseteq E /\ \A n \in sweep.listed : Parsed(sealed[n]) \subseteq E
      OBVIOUS
    <3> HIDE DEF E
    <3>5. MaxSeq \in Nat
      BY JournalAssumption DEF JournalAssumption
    <3>6. PICK saw : saw = Highest(hwm, E)
      OBVIOUS
    <3>7. saw \in Nat /\ UpTo(E, saw)
      BY <2>1, <3>3, <3>5, <3>6, HighestFits
    <3>8. sweep' \in SweepType /\ sweep'.at = "read" /\ sweep'.listed = sweep.listed /\ sweep'.saw = saw
      BY <2>1, <3>1, <3>6, <3>7 DEF SweepType
    <3> QED
      BY <3>2, <3>4, <3>7, <3>8 DEF UpTo
  <2> QED
    BY <2>2, <2>3, <2>4
<1>4. TypeOK'
  BY <1>1, <1>3, Types, TypesNext
<1>5. Segmented' /\ Queued'
  BY <1>1, <1>3 DEF Segmented, Segs, Queued
<1>6. Fresh' /\ SeqIssuedOnce' /\ Logged
  BY <1>1, <1>2 DEF Fresh, Below, SeqIssuedOnce, Clean, Logged
<1>7. Foremost'
  BY <1>3 DEF Foremost
<1>8. Covered'
  <2>1. Bare(sealed, {}, active)' = Bare(sealed, {}, active) /\ (Clean' => Clean)
    BY <1>1 DEF Bare, Clean
  <2> QED
    BY <1>1, <1>2, <1>3, <2>1 DEF Covered
<1> QED
  BY <1>2, <1>4, <1>5, <1>6, <1>7, <1>8

(* The newest segments are protected.                                      *)
LEMMA Newest ==
  ASSUME TypeOK, Segmented, NEW n \in DOMAIN sealed \ Protected, NEW k \in Protected
  PROVE  n < k
<1> DEFINE From(m) == {j \in DOMAIN sealed : j >= m}
<1>0. IsFiniteSet(DOMAIN sealed) /\ DOMAIN sealed \subseteq Nat
  <2>1. PICK b \in Nat : \A m \in DOMAIN sealed : m <= b
    BY DEF Segmented, Segs
  <2>2. DOMAIN sealed \subseteq 0..b /\ DOMAIN sealed \subseteq Nat
    BY <2>1, Types DEF Segment
  <2>3. IsFiniteSet(0..b)
    <3>1. 0 \in Int /\ b \in Int
      OBVIOUS
    <3> QED
      BY <3>1, FS_Interval
  <2> QED
    BY <2>2, <2>3, FS_Subset
<1>1. PICK count : /\ Protected = {m \in DOMAIN sealed : Cardinality(From(m)) <= count}
                   /\ count \in Int
  <2>1. Cardinality(DOMAIN sealed) \in Nat /\ KeepLast \in Nat
    BY <1>0, FS_CardinalityType, JournalAssumption DEF JournalAssumption
  <2> QED
    BY <2>1 DEF Protected
<1>2. n \in Nat /\ k \in Nat /\ k \in DOMAIN sealed
  BY <1>0, <1>1
<1>3. SUFFICES ASSUME k <= n PROVE FALSE
  BY <1>2
<1>4. From(n) \subseteq From(k)
  BY <1>0, <1>2, <1>3
<1>5. IsFiniteSet(From(k)) /\ IsFiniteSet(From(n))
  BY <1>0, FS_Subset
<1>6. Cardinality(From(n)) <= Cardinality(From(k)) /\ Cardinality(From(n)) \in Nat /\ Cardinality(From(k)) \in Nat
  BY <1>4, <1>5, FS_Subset, FS_CardinalityType
<1>7. Cardinality(From(k)) <= count /\ ~(Cardinality(From(n)) <= count)
  BY <1>1
<1> HIDE DEF From
<1> QED
  BY <1>1, <1>6, <1>7

(* The checkpoint is written, or not, and the segments to go are chosen.   *)
LEMMA Flushes ==
  ASSUME IInv, SweepFlushes
  PROVE  IInv' /\ Logged
<1> USE Shapes DEF IInv
<1>1. /\ UNCHANGED <<phase, life, seq, queue, rotated, lines, segNo, active, sealed, archive>>
      /\ sweep.at = "read" /\ phase # "down"
  BY DEF SweepFlushes, mem, Segmented
<1>2. /\ OnDisk' = OnDisk /\ Loadable' = Loadable /\ OnRecord' = OnRecord
      /\ In(archive)' = In(archive) /\ LoadedInOrder'
  BY <1>1, Untouched
<1>3. PICK todo \in SUBSET DOMAIN sealed :
        /\ Chooses(todo)
        /\ \/ hwm' = sweep.saw /\ UNCHANGED <<faults, unsaved>>
           \/ faults' = faults + 1 /\ unsaved' = (unsaved \/ Stay(todo) = {}) /\ UNCHANGED hwm
  BY DEF SweepFlushes
<1>4. /\ faults' \in Nat /\ hwm' \in Nat /\ unsaved' \in BOOLEAN /\ (unsaved => unsaved')
      /\ ~unsaved' /\ Stay(todo) = {} => hwm' = sweep.saw
  <2>1. sweep.saw \in Nat /\ hwm \in Nat /\ faults \in Nat /\ unsaved \in BOOLEAN
    BY Types DEF SweepType
  <2>2. CASE hwm' = sweep.saw /\ UNCHANGED <<faults, unsaved>>
    BY <2>1, <2>2
  <2>3. CASE faults' = faults + 1 /\ unsaved' = (unsaved \/ Stay(todo) = {}) /\ UNCHANGED hwm
    <3>1. faults' \in Nat /\ hwm' \in Nat
      BY <2>1, <2>3
    <3>2. unsaved' \in BOOLEAN /\ (unsaved => unsaved') /\ (Stay(todo) = {} => unsaved')
      BY <2>3
    <3> QED
      BY <3>1, <3>2
  <2> QED
    BY <1>3, <2>2, <2>3
<1>5. raced' = (raced \/ (~(todo \subseteq sweep.listed) /\ Stay(todo) = {}))
  BY <1>3 DEF Chooses
<1>6. raced' \in BOOLEAN
  BY <1>5
<1>7. sweep' \in SweepType /\ sweep'.at \in {"off", "move"} /\ (sweep'.at = "move" => sweep'.todo = todo)
  <2>1. sweep \in SweepType /\ todo \in SUBSET Nat
    BY <1>3, Types DEF Segment
  <2>2. sweep' = Idle \/ sweep' = [sweep EXCEPT !.at = "move", !.todo = todo]
    BY <1>3 DEF Chooses
  <2>3. CASE sweep' = Idle
    BY <2>3 DEF SweepType, Idle
  <2>4. CASE sweep' = [sweep EXCEPT !.at = "move", !.todo = todo]
    <3>1. [sweep EXCEPT !.at = "move", !.todo = todo] \in SweepType
      BY <2>1 DEF SweepType
    <3>2. sweep'.at = "move" /\ sweep'.todo = todo
      BY <2>1, <2>4 DEF SweepType
    <3> QED
      BY <2>4, <3>1, <3>2
  <2> QED
    BY <2>2, <2>3, <2>4
<1>8. TypeOK'
  BY <1>1, <1>4, <1>6, <1>7, Types, TypesNext
<1>9. Segmented' /\ Queued'
  BY <1>1, <1>3, <1>7 DEF Segmented, Segs, Queued
<1>10. Clean' => Clean /\ (Bare(sealed, todo, active) => todo \subseteq sweep.listed /\ hwm' = sweep.saw)
  <2>1. raced' = FALSE => raced = FALSE /\ (Stay(todo) = {} => todo \subseteq sweep.listed)
    BY <1>5, Types
  <2> QED
    BY <1>4, <1>6, <2>1, Types, Staying DEF Clean
<1>11. Fresh' /\ SeqIssuedOnce' /\ Logged
  BY <1>1, <1>2, <1>10 DEF Fresh, Below, SeqIssuedOnce, Clean, Logged
<1>12. Foremost'
  <2>1. ASSUME NEW n \in todo, NEW k \in DOMAIN sealed \ todo
        PROVE  n < k \/ Parsed(sealed[k]) = {}
    <3>1. n \in DOMAIN sealed /\ n \in Nat /\ k \in Nat
      BY <1>3, Types DEF Segment
    <3>2. CASE k \in Protected
      <4>1. n \notin Protected
        BY <1>3 DEF Chooses
      <4> QED
        BY <3>1, <3>2, <4>1, Newest
    <3>3. CASE k \notin Protected
      <4>1. PICK cut \in {0} \cup DOMAIN sealed :
              todo = {m \in DOMAIN sealed \ Protected : m <= cut /\ Parsed(sealed[m]) # {}}
        BY <1>3, <3>3 DEF Chooses
      <4>2. cut \in Nat /\ n <= cut
        BY <4>1, Types DEF Segment
      <4>3. ~(k <= cut) \/ Parsed(sealed[k]) = {}
        BY <3>3, <4>1
      <4> QED
        BY <3>1, <4>2, <4>3
    <3> QED
      BY <3>2, <3>3
  <2> QED
    BY <1>1, <1>7, <2>1 DEF Foremost
<1>13. Covered'
  <2>1. Bare(sealed, {}, active)' = Bare(sealed, {}, active)
    BY <1>1 DEF Bare
  <2>2. Bare(sealed, {}, active) => Bare(sealed, todo, active)
    BY DEF Bare
  <2>3. sweep'.at = "move" /\ Bare(sealed, sweep.todo, active)' => Bare(sealed, todo, active)
    BY <1>1, <1>7 DEF Bare
  <2>4. Clean' => Before(In(archive), Loadable)'
    BY <1>2, <1>10 DEF Covered
  <2>5. Clean' /\ Bare(sealed, todo, active) => UpTo(In(archive), hwm')
    BY <1>1, <1>10 DEF Covered
  <2>6. Clean' /\ Bare(sealed, todo, active) => \A n \in todo : UpTo(Parsed(sealed[n]), hwm')
    BY <1>1, <1>10 DEF Covered
  <2> QED
    BY <1>1, <1>2, <1>7, <2>1, <2>2, <2>3, <2>4, <2>5, <2>6 DEF Covered
<1> QED
  BY <1>2, <1>8, <1>9, <1>11, <1>12, <1>13

(* A segment goes to the archive.                                          *)
LEMMA Archives ==
  ASSUME IInv, SweepMoves
  PROVE  IInv' /\ Logged
<1> USE Shapes DEF IInv
<1>1. /\ UNCHANGED <<phase, life, faults, seq, queue, rotated, lines, segNo, active, hwm, raced, unsaved>>
      /\ sweep.at = "move" /\ phase # "down"
  BY DEF SweepMoves, mem, history, Segmented
<1>2. PICK n \in sweep.todo :
        /\ \A k \in sweep.todo : n <= k
        /\ archive' = With(archive, n, sealed[n]) /\ sealed' = Without(sealed, n)
        /\ sweep' = IF sweep.todo = {n} THEN Idle ELSE [sweep EXCEPT !.todo = @ \ {n}]
  BY DEF SweepMoves
<1>3. n \in DOMAIN sealed /\ n \notin DOMAIN archive /\ sweep.todo \subseteq DOMAIN sealed
  BY <1>1, <1>2 DEF Segmented
<1>4. /\ Segment(sealed') /\ DOMAIN sealed' = DOMAIN sealed \ {n}
      /\ \A k \in DOMAIN sealed' : sealed'[k] = sealed[k]
      /\ Segment(archive') /\ DOMAIN archive' = DOMAIN archive \cup {n}
      /\ In(archive') = In(archive) \cup Parsed(sealed[n])
      /\ OnDisk' = OnDisk /\ Loadable' \subseteq Loadable /\ OnRecord' = OnRecord
      /\ LoadedInOrder'
  BY <1>1, <1>2, <1>3, ArchiveFits
<1>5. /\ sweep' \in SweepType /\ sweep'.at \in {"off", "move"}
      /\ sweep'.at = "move" => sweep'.todo = sweep.todo \ {n}
  <2>1. sweep \in SweepType
    BY Types
  <2>2. CASE sweep' = Idle
    BY <2>2 DEF SweepType, Idle
  <2>3. CASE sweep' = [sweep EXCEPT !.todo = @ \ {n}]
    <3>1. PICK todo : todo = sweep.todo \ {n}
      OBVIOUS
    <3>2. todo \in SUBSET Nat /\ sweep' = [sweep EXCEPT !.todo = todo]
      BY <2>1, <2>3, <3>1 DEF SweepType
    <3>3. [sweep EXCEPT !.todo = todo] \in SweepType
      BY <2>1, <3>2 DEF SweepType
    <3>4. sweep'.at = sweep.at /\ sweep'.todo = todo
      BY <2>1, <3>2 DEF SweepType
    <3> QED
      BY <1>1, <3>1, <3>2, <3>3, <3>4
  <2> QED
    BY <1>2, <2>2, <2>3
<1>6. TypeOK'
  BY <1>1, <1>4, <1>5, Types, TypesNext
<1>7. Segmented'
  <2>1. Segs' = Segs
    BY <1>3, <1>4 DEF Segs
  <2>2. DOMAIN sealed' \cap DOMAIN archive' = {}
    BY <1>4 DEF Segmented
  <2>3. sweep'.at = "move" => sweep'.todo \subseteq DOMAIN sealed'
    BY <1>3, <1>4, <1>5
  <2> QED
    BY <1>1, <1>5, <2>1, <2>2, <2>3 DEF Segmented
<1>8. Queued' /\ SeqIssuedOnce' /\ Logged
  BY <1>1, <1>4 DEF Queued, SeqIssuedOnce, Clean, Logged
<1>9. Fresh'
  BY <1>1, <1>4 DEF Fresh, Below, Clean
<1>10. Foremost'
  <2>1. ASSUME NEW m \in sweep.todo \ {n}, NEW k \in DOMAIN sealed' \ (sweep.todo \ {n})
        PROVE  m < k \/ Parsed(sealed'[k]) = {}
    BY <1>1, <1>4, <2>1 DEF Foremost
  <2> QED
    BY <1>5, <2>1 DEF Foremost
<1>11. Before(Parsed(sealed[n]), Loadable')
  <2>1. Loadable' = In(sealed') \cup Parsed(active)
    BY <1>1 DEF Loadable, In
  <2>2. Parsed(sealed[n]) \subseteq In(sealed) /\ Segment(sealed)
    BY <1>3, OnIt, SegsHold
  <2>3. Before(Parsed(sealed[n]), Parsed(active))
    BY <2>2 DEF LoadedInOrder, Before
  <2>4. ASSUME NEW k \in DOMAIN sealed' PROVE Before(Parsed(sealed[n]), Parsed(sealed[k]))
    <3>1. k \in DOMAIN sealed /\ k # n /\ k \in Nat /\ n \in Nat
      BY <1>3, <1>4, <2>2 DEF Segment
    <3>2. n < k \/ Parsed(sealed[k]) = {}
      <4>1. CASE k \in sweep.todo
        BY <1>2, <3>1, <4>1
      <4>2. CASE k \notin sweep.todo
        BY <1>1, <3>1, <4>2 DEF Foremost
      <4> QED
        BY <4>1, <4>2
    <3>3. CASE n < k
      BY <1>3, <3>1, <3>3 DEF LoadedInOrder
    <3>4. CASE Parsed(sealed[k]) = {}
      BY <3>4 DEF Before
    <3> QED
      BY <3>2, <3>3, <3>4
  <2>5. Before(Parsed(sealed[n]), In(sealed'))
    <3> SUFFICES ASSUME NEW d \in Parsed(sealed[n]), NEW e \in In(sealed') PROVE d.seq < e.seq
      BY DEF Before
    <3>1. PICK k \in DOMAIN sealed' : e \in Parsed(sealed'[k])
      BY <1>4, SegsHold
    <3> QED
      BY <1>4, <2>4, <3>1 DEF Before
  <2> QED
    BY <2>1, <2>3, <2>5 DEF Before
<1>12. Covered'
  <2>1. In(archive)' = In(archive')
    BY DEF In
  <2>2. Clean' => Clean
    BY <1>1 DEF Clean
  <2>3. Clean => Before(In(archive'), Loadable')
    BY <1>4, <1>11 DEF Covered, Before
  <2>4. ASSUME NEW todo, n \notin todo, todo \subseteq sweep.todo, Bare(sealed', todo, active')
        PROVE  Bare(sealed, sweep.todo, active)
    BY <1>1, <1>2, <1>4, <2>4 DEF Bare
  <2>5. /\ Bare(sealed', {}, active') => Bare(sealed, sweep.todo, active)
        /\ sweep'.at = "move" /\ Bare(sealed', sweep'.todo, active') => Bare(sealed, sweep.todo, active)
    BY <1>5, <2>4
  <2>6. Clean /\ Bare(sealed, sweep.todo, active) => UpTo(In(archive'), hwm)
    BY <1>1, <1>2, <1>4 DEF Covered, UpTo
  <2>7. Clean /\ Bare(sealed, sweep.todo, active) /\ sweep'.at = "move" =>
          \A k \in sweep'.todo : UpTo(Parsed(sealed'[k]), hwm)
    <3>1. sweep'.at = "move" => \A k \in sweep'.todo : k \in sweep.todo /\ sealed'[k] = sealed[k]
      BY <1>3, <1>4, <1>5
    <3> QED
      BY <1>1, <3>1 DEF Covered
  <2> QED
    BY <1>1, <1>5, <2>1, <2>2, <2>3, <2>5, <2>6, <2>7 DEF Covered
<1> QED
  BY <1>4, <1>6, <1>7, <1>8, <1>9, <1>10, <1>12

(* The process dies.                                                       *)
LEMMA Crashes ==
  ASSUME IInv, Crash
  PROVE  IInv' /\ Logged
<1> USE Shapes DEF IInv
<1>1. /\ phase' = "down" /\ life' = life + 1 /\ life < MaxCrash /\ phase # "down"
      /\ seq' = 0 /\ queue' = <<>> /\ rotated' = FALSE /\ lines' = 0 /\ segNo' = 1 /\ sweep' = Idle
      /\ UNCHANGED <<faults, sealed, archive, hwm, raced, unsaved>>
      /\ active' \in IF Writing /\ rotated
                     THEN Interrupted \cup {Put(active, {Head(queue)}, TRUE)}
                     ELSE {active}
  BY DEF Crash, history
<1>2. life \in Nat /\ MaxCrash \in Nat /\ OnDisk \subseteq Entry /\ active \in Seq(Line)
  BY OnIt, JournalAssumption DEF TypeOK, JournalAssumption
<1>3. /\ active' \in Seq(Line) /\ LoadedInOrder' /\ Logged
      /\ \A d \in OnDisk' : d \in Entry /\ d.life <= life
      /\ SeqIssuedOnce' /\ Foremost' /\ Covered'
  <2>0. sweep'.at = "off"
    BY <1>1 DEF Idle
  <2>1. CASE active' = active
    <3>1. OnDisk' = OnDisk /\ Loadable' = Loadable /\ OnRecord' = OnRecord /\ LoadedInOrder'
      BY <1>1, <2>1, Untouched
    <3>2. Before(OnDisk, {}) /\ Loadable' \subseteq Loadable \cup {}
      BY <3>1 DEF Before
    <3>3. Foremost' /\ Covered'
      BY <1>1, <2>0, <2>1, <3>2, SweepCopes
    <3> QED
      BY <1>1, <1>2, <2>1, <3>1, <3>3 DEF Fresh, SeqIssuedOnce, Logged
  <2>2. CASE Writing /\ Grown(active, Head(queue), active')
    <3> DEFINE e == Head(queue)
    <3>1. queue # <<>> /\ phase = "up"
      BY <2>2 DEF Writing
    <3>2. e \in Entry /\ e.life = life /\ 1 \in DOMAIN queue /\ e = queue[1]
      BY <3>1, TailFits
    <3>3. /\ Before(Loadable, {e}) /\ (Clean => Before(OnDisk, {e}))
          /\ Before({d \in OnDisk : d.life = life}, {e})
      BY <3>1, <3>2 DEF Fresh, Below, Before
    <3> HIDE DEF e
    <3>4. /\ active' \in Seq(Line) /\ OnDisk' \subseteq OnDisk \cup {e}
          /\ OnRecord' \in {OnRecord, OnRecord \cup {e}} /\ LoadedInOrder'
          /\ Loadable' \subseteq Loadable \cup {e}
          /\ Finished(active') = {} => Finished(active) = {}
      BY <1>1, <2>2, <3>2, <3>3, GrowFits DEF e
    <3>5. \A d \in OnDisk' : d \in Entry /\ d.life <= life
      BY <1>2, <3>2, <3>4 DEF Fresh
    <3>6. SeqIssuedOnce'
      BY <1>1, <1>2, <3>2, <3>3, <3>4 DEF SeqIssuedOnce, Clean, Before
    <3>7. Logged
      <4>1. e \notin OnRecord
        BY <3>2, <3>3, OnIt DEF Before
      <4> QED
        BY <3>2, <3>4, <4>1 DEF Logged
    <3>8. Foremost' /\ Covered'
      BY <1>1, <2>0, <3>3, <3>4, SweepCopes
    <3> QED
      BY <3>4, <3>5, <3>6, <3>7, <3>8
  <2>3. ASSUME Writing, NEW has \in {{}, {Head(queue)}}, NEW nl \in BOOLEAN,
               active' = Put(active, has, nl)
        PROVE  Grown(active, Head(queue), active')
    <3>1. Head(queue) \in Entry
      BY <2>3, TailFits DEF Writing
    <3>2. PICK f, e : f = Put(active, has, nl) /\ e = Head(queue)
      OBVIOUS
    <3>3. Grown(active, e, f)
      BY <1>2, <3>1, <3>2, PutFits
    <3> QED
      BY <2>3, <3>2, <3>3
  <2> QED
    BY <1>1, <2>1, <2>2, <2>3 DEF Interrupted
<1>4. TypeOK'
  <2>1. Idle \in SweepType /\ queue' \in Seq(Entry)
    BY <1>1 DEF Idle, SweepType
  <2>2. Segment(sealed') /\ Segment(archive') /\ sweep' \in SweepType
    BY <1>1, <2>1, Types
  <2>3. faults' \in Nat /\ hwm' \in Nat /\ raced' \in BOOLEAN /\ unsaved' \in BOOLEAN
    BY <1>1, Types
  <2>4. life' \in Nat /\ seq' \in Nat /\ lines' \in Nat /\ segNo' \in Nat
    BY <1>1, <1>2
  <2>5. rotated' \in BOOLEAN
    BY <1>1
  <2>6. phase' \in {"down", "boot", "up"}
    BY <1>1
  <2> QED
    BY <1>3, <2>1, <2>2, <2>3, <2>4, <2>5, <2>6, TypesNext
<1>5. Segmented'
  BY <1>1, <1>2 DEF Segmented, Segs, Idle
<1>6. Queued'
  BY <1>1 DEF Queued
<1>7. Fresh'
  BY <1>1, <1>2, <1>3 DEF Fresh
<1> QED
  BY <1>3, <1>4, <1>5, <1>6, <1>7

(* The process comes back, and numbers on.                                 *)
LEMMA Loads ==
  ASSUME IInv, Restart \/ Load
  PROVE  IInv' /\ Logged
<1> USE Shapes DEF IInv
<1>1. /\ phase \in {"down", "boot"} /\ phase' \in {"boot", "up"} /\ queue = <<>>
      /\ UNCHANGED <<life, faults, queue, rotated, active, sealed, archive, hwm, sweep, raced, unsaved>>
  BY DEF Restart, Load, mem, disk, history, Segmented
<1>2. phase' = "up" => seq' = LoadedSeq /\ segNo' = NextSegment /\ lines' = Len(active)
  BY DEF Restart, Load
<1>3. phase' = "boot" => UNCHANGED <<seq, segNo, lines>>
  BY DEF Restart, Load, mem
<1>4. /\ LoadedSeq \in Nat /\ hwm <= LoadedSeq /\ UpTo(Loadable, LoadedSeq)
      /\ NextSegment \in Nat /\ \A n \in Segs : n < NextSegment
  BY LoadFits
<1>5. /\ OnDisk' = OnDisk /\ Loadable' = Loadable /\ OnRecord' = OnRecord
      /\ In(archive)' = In(archive) /\ LoadedInOrder'
  BY <1>1, Untouched
<1>6. seq' \in Nat /\ segNo' \in Nat /\ lines' \in Nat
  BY <1>1, <1>2, <1>3, <1>4, Types
<1>7. TypeOK'
  BY <1>1, <1>6, Types, TypesNext
<1>8. Segmented'
  <2>1. Segs' = Segs
    BY <1>1 DEF Segs
  <2> QED
    BY <1>1, <1>2, <1>4, <2>1 DEF Segmented
<1>9. Queued'
  BY <1>1 DEF Queued
<1>10. Fresh'
  <2>1. \A d \in OnDisk' : d.life <= life' /\ d.life # life'
    BY <1>1, <1>5 DEF Fresh
  <2>2. phase' = "up" => Below(Loadable)' /\ Below({d \in OnDisk : d.life = life})'
    BY <1>1, <1>2, <1>4, <1>5, <2>1 DEF Below, UpTo
  <2>3. phase' = "up" /\ Clean' => Below(OnDisk)'
    <3> SUFFICES ASSUME phase' = "up", Clean', NEW d \in OnDisk PROVE d.seq <= seq'
      BY <1>1, <1>5 DEF Below
    <3>0. phase' = "up" /\ Clean'
      OBVIOUS
    <3>1. CASE d \in Loadable
      BY <1>2, <1>4, <3>1 DEF UpTo
    <3>2. CASE d \in In(archive)
      <4>1. Clean
        BY <1>1, <3>0 DEF Clean
      <4> QED
        BY <1>2, <3>0, <3>2, <4>1, Covers DEF CheckpointCovers, Clean
    <3> QED
      BY <3>1, <3>2, OnIt
  <2> QED
    BY <2>1, <2>2, <2>3 DEF Fresh
<1>11. SeqIssuedOnce' /\ Logged
  BY <1>1, <1>5 DEF SeqIssuedOnce, Clean, Logged
<1>12. Foremost' /\ Covered'
  BY <1>1, SweepStays
<1> QED
  BY <1>5, <1>7, <1>8, <1>9, <1>10, <1>11, <1>12

(* IInv is inductive, and every step is a step of the abstract log.        *)
LEMMA Inductive == IInv /\ [Next]_vars => IInv' /\ Logged
<1> SUFFICES ASSUME IInv, [Next]_vars PROVE IInv' /\ Logged
  OBVIOUS
<1>1. ASSUME WriteLine \/ WriteFails \/ RotateFails PROVE IInv' /\ Logged
  <2>0. /\ TypeOK /\ Queued /\ faults \in Nat /\ lines \in Nat /\ rotated \in BOOLEAN /\ active \in Seq(Line)
    BY Types DEF IInv
  <2>1. /\ Writing /\ queue' = Tail(queue)
        /\ UNCHANGED <<phase, life, seq, segNo, sealed, archive, hwm, sweep, raced, unsaved>>
        /\ faults' \in {faults, faults + 1} /\ lines' \in {lines, lines + 1} /\ rotated' \in {rotated, FALSE}
    BY <1>1 DEF WriteLine, WriteFails, RotateFails, HeadDone, disk, history
  <2>2. faults' \in Nat /\ lines' \in Nat /\ rotated' \in BOOLEAN
    <3>1. faults' \in Nat
      BY <2>0, <2>1
    <3>2. lines' \in Nat
      BY <2>0, <2>1
    <3>3. rotated' = rotated \/ rotated' = FALSE
      BY <2>1
    <3>4. rotated' \in BOOLEAN
      BY <2>0, <3>3
    <3> QED
      BY <3>1, <3>2, <3>4
  <2>3. Head(queue) \in Entry
    BY <2>0, <2>1, TailFits DEF Writing
  <2>4. ASSUME NEW has \in {{}, {Head(queue)}}, NEW nl \in BOOLEAN, active' = Put(active, has, nl)
        PROVE  Grown(active, Head(queue), active')
    <3>1. PICK f, e : f = Put(active, has, nl) /\ e = Head(queue)
      OBVIOUS
    <3>2. Grown(active, e, f)
      BY <2>0, <2>3, <3>1, PutFits
    <3> QED
      BY <2>4, <3>1, <3>2
  <2>5. Grown(active, Head(queue), active') \/ active' = active
    BY <1>1, <2>4 DEF WriteLine, WriteFails, RotateFails, Interrupted, disk
  <2> QED
    BY <2>1, <2>2, <2>5, Leaves
<1>2. ASSUME UNCHANGED vars PROVE IInv' /\ Logged
  <2>1. UNCHANGED <<phase, life, faults, seq, queue, rotated, lines, segNo, active, sealed, archive,
                    hwm, sweep, raced, unsaved>>
    BY <1>2 DEF vars, mem, disk, history
  <2>2. /\ OnDisk' = OnDisk /\ Loadable' = Loadable /\ OnRecord' = OnRecord
        /\ In(archive)' = In(archive) /\ LoadedInOrder'
    BY <2>1, Untouched DEF IInv
  <2>3. TypeOK'
    BY <2>1, Types, TypesNext DEF IInv
  <2>4. Segmented' /\ Queued'
    BY <2>1 DEF IInv, Segmented, Segs, Queued
  <2>5. Fresh' /\ SeqIssuedOnce' /\ Logged
    BY <2>1, <2>2 DEF IInv, Fresh, Below, SeqIssuedOnce, Clean, Logged
  <2>6. Foremost' /\ Covered'
    BY <2>1, SweepStays DEF IInv
  <2> QED
    BY <2>2, <2>3, <2>4, <2>5, <2>6 DEF IInv
<1> QED
  BY <1>1, <1>2, Numbers, Rotates, Sweeps, Flushes, Archives, Crashes, Loads DEF Next

(* Nothing is there at first.                                              *)
LEMMA InitIInv == Init => IInv /\ OnRecord = {}
<1> SUFFICES ASSUME Init PROVE IInv /\ OnRecord = {}
  OBVIOUS
<1>1. /\ DOMAIN sealed = {} /\ DOMAIN archive = {} /\ active = <<>> /\ queue = <<>>
      /\ phase = "down" /\ sweep.at = "off" /\ life = 0 /\ hwm = 0
  BY DEF Init, NoSegments, NoFile, Idle
<1>2. Segment(sealed) /\ Segment(archive)
  BY <1>1 DEF Init, NoSegments, Segment
<1>3. TypeOK
  <2>1. sweep \in SweepType
    BY DEF Init, Idle, SweepType
  <2>2. faults \in Nat /\ seq \in Nat /\ lines \in Nat /\ segNo \in Nat /\ hwm \in Nat /\ life \in Nat
    BY <1>1 DEF Init
  <2>3. rotated \in BOOLEAN /\ raced \in BOOLEAN /\ unsaved \in BOOLEAN
    BY DEF Init
  <2>4. queue \in Seq(Entry) /\ active \in Seq(Line)
    BY <1>1
  <2>5. phase \in {"down", "boot", "up"}
    BY <1>1
  <2> QED
    BY <1>2, <2>1, <2>2, <2>3, <2>4, <2>5, Types
<1>4. Parsed(active) = {} /\ Finished(active) = {}
  BY <1>1 DEF Parsed, Finished
<1>5. In(sealed) = {} /\ In(archive) = {} /\ FinishedIn(sealed) = {} /\ FinishedIn(archive) = {}
  BY <1>1 DEF In, FinishedIn
<1>6. OnDisk = {} /\ Loadable = {} /\ OnRecord = {}
  BY <1>4, <1>5 DEF OnDisk, Loadable, OnRecord
<1>7. LoadedInOrder
  BY <1>1, <1>4, <1>5 DEF LoadedInOrder, InOrder, Before
<1>8. Segmented /\ Queued
  <2>1. \A n \in Segs : n <= 0
    BY <1>1 DEF Segs
  <2> QED
    BY <1>1, <2>1, JournalAssumption DEF Segmented, Segs, Queued, JournalAssumption
<1>9. Fresh /\ SeqIssuedOnce /\ Foremost /\ Covered
  BY <1>1, <1>5, <1>6 DEF Fresh, SeqIssuedOnce, Foremost, Covered, UpTo, Before
<1> QED
  BY <1>3, <1>6, <1>7, <1>8, <1>9 DEF IInv

-----------------------------------------------------------------------------
(* The theorems                                                            *)

(* IInv holds throughout.                                                  *)
THEOREM Numbering == Spec => []IInv
  BY InitIInv, Inductive, PTL DEF Spec

(* Types are as declared.                                                  *)
THEOREM TypeCorrect == Spec => []TypeOK
<1>1. IInv => TypeOK
  BY DEF IInv
<1> QED
  BY <1>1, Numbering, PTL

(* A boot loads the transcript in the order of its numbers.                *)
THEOREM InSeqOrder == Spec => []LoadedInOrder
<1>1. IInv => LoadedInOrder
  BY DEF IInv
<1> QED
  BY <1>1, Numbering, PTL

(* No number is given twice, unless a sweep took all that a boot could     *)
(* count on and had been overtaken or could not write its checkpoint.      *)
THEOREM NumberedOnce == Spec => []SeqIssuedOnce
<1>1. IInv => SeqIssuedOnce
  BY DEF IInv
<1> QED
  BY <1>1, Numbering, PTL

(* What a boot numbers on from is never behind the archive, with the same  *)
(* exceptions (archiveSegments writes the checkpoint before it moves       *)
(* anything, and takes the oldest first).                                  *)
THEOREM CheckpointAhead == Spec => []CheckpointCovers
<1>1. IInv => CheckpointCovers
  BY Covers
<1> QED
  BY <1>1, Numbering, PTL

(* The file storage implements the append-only log.                        *)
THEOREM Implements == Spec => AppendOnlySpec
<1>1. Init => Record!Init
  BY InitIInv DEF Record!Init
<1>2. IInv /\ [Next]_vars => [Record!Next]_OnRecord
  BY Inductive DEF Logged, Record!Next, Record!Write
<1> QED
  BY <1>1, <1>2, Numbering, PTL DEF Spec, AppendOnlySpec, Record!Spec
=============================================================================
