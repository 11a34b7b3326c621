------------------------------ MODULE Journal ------------------------------
(***************************************************************************)
(* The transcript and its file storage: entries are numbered and kept in   *)
(* memory at once and written behind, one line each, to an active file     *)
(* that is sealed as a numbered segment when it is full; a retention sweep *)
(* with a storage object of its own moves old segments into archive/ after *)
(* saving the highest number on disk; a crash loses what was not written   *)
(* and may tear the line being written.                                    *)
(*                                                                         *)
(* Writing a line, a rename and a read of the active file are awaits: what *)
(* interleaves is the write queue of the live storage with the sweep.      *)
(* Sealed segments do not change and are read by the one sweep that also   *)
(* moves them, so their reads are left out.  The size of a file is its     *)
(* number of lines.                                                        *)
(***************************************************************************)
EXTENDS Naturals, FiniteSets, Sequences

CONSTANTS
  SegmentCap,  \* lines at which the active file is sealed
  KeepLast,    \* newest sealed segments that a sweep leaves alone
  MaxSeq,      \* bound: the highest number given out
  MaxCrash,    \* bound: crashes
  MaxFault     \* bound: writes that fail

ASSUME JournalAssumption ==
  /\ SegmentCap \in Nat \ {0} /\ KeepLast \in Nat
  /\ MaxSeq \in Nat /\ MaxCrash \in Nat /\ MaxFault \in Nat

VARIABLES
  phase,     \* the process: down, booting (retention may run), up
  life,      \* how often it crashed
  faults,    \* how many writes failed
  seq,       \* the last number given out (Transcript.seq)
  queue,     \* entries whose write is queued (FileStorage.writeQueue)
  rotated,   \* the head of the queue has passed maybeRotate
  lines,     \* activeBytes, in lines
  segNo,     \* nextSegmentNo
  active,    \* the active file
  sealed,    \* the sealed segments, by number
  archive,   \* the archived segments, by number
  hwm,       \* the checkpoint file of the highest number
  sweep,     \* the retention sweep
  raced,     \* history: a sweep that met a segment sealed since it began
             \* took all a boot could count on
  unsaved    \* history: so did one that could not write the checkpoint

mem     == <<seq, queue, rotated, lines, segNo>>
disk    == <<active, sealed, archive, hwm>>
history == <<raced, unsaved>>
vars    == <<phase, life, faults, mem, disk, sweep, history>>

Entry == [seq : 1..MaxSeq, life : 0..MaxCrash]

(* A line holds an entry that parses, or none; it may lack its newline.    *)
Line == [has : {{}} \cup {{e} : e \in Entry}, nl : BOOLEAN]

NoFile == <<>>  \* a missing file reads like an empty one

(* The entries a reader finds in a file (parseInto).                       *)
Parsed(file) == UNION {file[i].has : i \in DOMAIN file}

In(segs) == UNION {Parsed(segs[n]) : n \in DOMAIN segs}

(* Those whose line ends in a newline: no later append can spoil them.     *)
Finished(file) == UNION {file[i].has : i \in {j \in DOMAIN file : file[j].nl}}

Loadable == In(sealed) \cup Parsed(active)
OnDisk   == In(archive) \cup Loadable

(* The largest of m and the numbers of the entries in E.                   *)
Highest(m, E) ==
  CHOOSE n \in {m} \cup {e.seq : e \in E} :
    n >= m /\ \A e \in E : n >= e.seq

Idle == [at |-> "off", listed |-> {}, saw |-> 0, todo |-> {}]

TypeOK ==
  /\ phase \in {"down", "boot", "up"}
  /\ life \in Nat /\ faults \in Nat
  /\ seq \in Nat /\ queue \in Seq(Entry) /\ rotated \in BOOLEAN
  /\ lines \in Nat /\ segNo \in Nat
  /\ active \in Seq(Line)
  /\ DOMAIN sealed \in SUBSET Nat /\ DOMAIN archive \in SUBSET Nat
  /\ sealed \in [DOMAIN sealed -> Seq(Line)]
  /\ archive \in [DOMAIN archive -> Seq(Line)]
  /\ hwm \in Nat
  /\ sweep \in [at : {"off", "listed", "read", "move"}, listed : SUBSET Nat,
                saw : Nat, todo : SUBSET Nat]
  /\ raced \in BOOLEAN /\ unsaved \in BOOLEAN

NoSegments == [n \in {} |-> NoFile]

Init ==
  /\ phase = "down" /\ life = 0 /\ faults = 0
  /\ seq = 0 /\ queue = <<>> /\ rotated = FALSE /\ lines = 0 /\ segNo = 1
  /\ active = NoFile /\ sealed = NoSegments /\ archive = NoSegments
  /\ hwm = 0
  /\ sweep = Idle
  /\ raced = FALSE /\ unsaved = FALSE

-----------------------------------------------------------------------------
(* The transcript in memory                                                *)

Numbered(n) == [seq |-> n, life |-> life]

(* append: numbered, in memory, and queued for the disk; nobody waits.     *)
AppendEntry ==
  /\ phase = "up" /\ seq < MaxSeq
  /\ seq' = seq + 1
  /\ queue' = Append(queue, Numbered(seq + 1))
  /\ UNCHANGED <<phase, life, faults, rotated, lines, segNo, disk, sweep, history>>

(* emitEphemeral: a number for the live observers only.                    *)
EmitEphemeral ==
  /\ phase = "up" /\ seq < MaxSeq
  /\ seq' = seq + 1
  /\ UNCHANGED <<phase, life, faults, queue, rotated, lines, segNo, disk, sweep,
                 history>>

-----------------------------------------------------------------------------
(* The write queue                                                         *)

Unfinished(file) == file # NoFile /\ ~file[Len(file)].nl

(* What an append leaves: behind an unfinished line, one that parses no    *)
(* more.                                                                   *)
Put(file, has, nl) ==
  IF Unfinished(file)
  THEN [file EXCEPT ![Len(file)] = [has |-> {}, nl |-> nl]]
  ELSE Append(file, [has |-> has, nl |-> nl])

With(segs, n, file) ==
  [k \in DOMAIN segs \cup {n} |-> IF k = n THEN file ELSE segs[k]]

Without(segs, n) == [k \in DOMAIN segs \ {n} |-> segs[k]]

Writing == phase = "up" /\ queue # <<>>

(* maybeRotate: a full active file is sealed before the next line.         *)
Rotate ==
  /\ Writing /\ ~rotated
  /\ rotated' = TRUE
  /\ IF lines < SegmentCap THEN UNCHANGED <<lines, segNo, active, sealed>>
     ELSE /\ lines' = 0
          /\ IF active = NoFile THEN UNCHANGED <<segNo, active, sealed>>
             ELSE /\ sealed' = With(sealed, segNo, active)
                  /\ segNo' = segNo + 1
                  /\ active' = NoFile
  /\ UNCHANGED <<phase, life, faults, seq, queue, archive, hwm, sweep, history>>

(* The rename fails: the entry is not written, the queue goes on.          *)
RotateFails ==
  /\ Writing /\ ~rotated
  /\ lines >= SegmentCap /\ active # NoFile
  /\ faults < MaxFault /\ faults' = faults + 1
  /\ queue' = Tail(queue)
  /\ UNCHANGED <<phase, life, seq, rotated, lines, segNo, disk, sweep, history>>

(* The head of the queue has been dealt with.                              *)
HeadDone ==
  /\ lines' = lines + 1
  /\ queue' = Tail(queue)
  /\ rotated' = FALSE
  /\ UNCHANGED <<phase, life, seq, segNo, sealed, archive, hwm, sweep, raced,
                 unsaved>>

(* appendFile resolves.                                                    *)
WriteLine ==
  LET e == Head(queue) IN
  /\ Writing /\ rotated
  /\ active' = Put(active, {e}, TRUE)
  /\ HeadDone
  /\ UNCHANGED faults

(* What an append that does not complete may leave: nothing, a part of the *)
(* line, or all of it but the newline.                                     *)
Interrupted ==
  {active, Put(active, {}, FALSE), Put(active, {Head(queue)}, FALSE)}

(* appendFile rejects half-way (disk full); the entry is given up.         *)
WriteFails ==
  /\ Writing /\ rotated
  /\ faults < MaxFault /\ faults' = faults + 1
  /\ active' \in Interrupted
  /\ HeadDone

-----------------------------------------------------------------------------
(* Retention                                                               *)

(* archiveSegments: the sealed segments are listed and read ...            *)
SweepBegins ==
  /\ phase \in {"boot", "up"} /\ sweep.at = "off"
  /\ DOMAIN sealed # {}
  /\ sweep' = [Idle EXCEPT !.at = "listed", !.listed = DOMAIN sealed]
  /\ UNCHANGED <<phase, life, faults, mem, disk, history>>

(* Mutant: the highest number is looked for where a boot would look.       *)
SweepReads_Last ==
  /\ sweep.at = "listed"
  /\ sweep' = [sweep EXCEPT !.at = "read",
       !.saw = Highest(hwm, Parsed(active))]
  /\ UNCHANGED <<phase, life, faults, mem, disk, history>>

(* ... and then the active file, if it is there ...                        *)
SweepReads ==
  /\ sweep.at = "listed"
  /\ sweep' = [sweep EXCEPT !.at = "read",
       !.saw = Highest(hwm, In(archive) \cup Parsed(active) \cup
                            UNION {Parsed(sealed[n]) : n \in sweep.listed})]
  /\ UNCHANGED <<phase, life, faults, mem, disk, history>>

(* ... or it was there, and is renamed before it is opened (ENOENT).       *)
SweepMissesFile ==
  /\ sweep.at = "listed" /\ DOMAIN sealed # sweep.listed /\ active = NoFile
  /\ sweep' = Idle
  /\ UNCHANGED <<phase, life, faults, mem, disk, history>>

(* The newest KeepLast segments, sealed.slice(sealed.length - keepLast);   *)
(* a start below zero counts from the end.                                 *)
Protected ==
  LET length == Cardinality(DOMAIN sealed)
      count  == IF length >= KeepLast THEN KeepLast ELSE KeepLast - length
  IN  {n \in DOMAIN sealed : Cardinality({k \in DOMAIN sealed : k >= n}) <= count}

(* What a boot is sure to load still when the segments in todo are gone.   *)
Stay(todo) == In([n \in DOMAIN sealed \ todo |-> sealed[n]]) \cup Finished(active)

(* Which of the others are to go, listed again: all, or, when age counts,  *)
(* the oldest of those that have an entry to date them by.                 *)
Chooses(todo) ==
  /\ \/ todo = DOMAIN sealed \ Protected
     \/ \E cut \in {0} \cup DOMAIN sealed :
          todo = {n \in DOMAIN sealed \ Protected : n <= cut /\ Parsed(sealed[n]) # {}}
  /\ raced' = (raced \/ (~(todo \subseteq sweep.listed) /\ Stay(todo) = {}))
  /\ sweep' = IF todo = {} THEN Idle
              ELSE [sweep EXCEPT !.at = "move", !.todo = todo]

(* flushHighWaterSeq: the checkpoint is written, or that fails with a      *)
(* warning.                                                                *)
SweepFlushes ==
  /\ sweep.at = "read"
  /\ \E todo \in SUBSET DOMAIN sealed :
       /\ Chooses(todo)
       /\ \/ /\ hwm' = sweep.saw
             /\ UNCHANGED <<faults, unsaved>>
          \/ /\ faults < MaxFault /\ faults' = faults + 1
             /\ unsaved' = (unsaved \/ Stay(todo) = {})
             /\ UNCHANGED hwm
  /\ UNCHANGED <<phase, life, mem, active, sealed, archive>>

(* One rename at a time, the oldest first.                                 *)
SweepMoves ==
  /\ sweep.at = "move"
  /\ \E n \in sweep.todo :
       /\ \A k \in sweep.todo : n <= k
       /\ archive' = With(archive, n, sealed[n])
       /\ sealed' = Without(sealed, n)
       /\ sweep' = IF sweep.todo = {n} THEN Idle
                   ELSE [sweep EXCEPT !.todo = @ \ {n}]
  /\ UNCHANGED <<phase, life, faults, mem, active, hwm, history>>

-----------------------------------------------------------------------------
(* Crash and boot                                                          *)

(* The process dies; the line being written may be torn, or complete.      *)
Crash ==
  /\ phase # "down" /\ life < MaxCrash
  /\ phase' = "down" /\ life' = life + 1
  /\ active' \in IF Writing /\ rotated
                 THEN Interrupted \cup {Put(active, {Head(queue)}, TRUE)}
                 ELSE {active}
  /\ seq' = 0 /\ queue' = <<>> /\ rotated' = FALSE /\ lines' = 0 /\ segNo' = 1
  /\ sweep' = Idle
  /\ UNCHANGED <<faults, sealed, archive, hwm, history>>

Restart ==
  /\ phase = "down"
  /\ phase' = "boot"
  /\ UNCHANGED <<life, faults, mem, disk, sweep, history>>

(* The number of the last entry of a file that parses.                     *)
LastIn(file) ==
  LET last == CHOOSE i \in DOMAIN file :
        file[i].has # {} /\ \A j \in DOMAIN file : j > i => file[j].has = {}
  IN  (CHOOSE e \in file[last].has : TRUE).seq

LastLoaded_Active ==  \* looks at the active file only
  IF Parsed(active) # {} THEN LastIn(active) ELSE 0

(* The last entry that loadTranscript returns.                             *)
LastLoaded ==
  LET filled == {n \in DOMAIN sealed : Parsed(sealed[n]) # {}} IN
  IF Parsed(active) # {} THEN LastIn(active)
  ELSE IF filled = {} THEN 0
  ELSE LastIn(sealed[CHOOSE n \in filled : \A k \in filled : k <= n])

NextSegment_Loaded == 1 + Highest(0, {[seq |-> n] : n \in DOMAIN sealed})

(* scanMaxSegmentNo: past every number, sealed or archived.                *)
NextSegment ==
  1 + Highest(0, {[seq |-> n] : n \in DOMAIN sealed \cup DOMAIN archive})

LoadedSeq_Last == LastLoaded  \* without the checkpoint

LoadedSeq == IF hwm > LastLoaded THEN hwm ELSE LastLoaded

(* The hub's storage is constructed, and Transcript.load numbers on from   *)
(* the last entry or the checkpoint.                                       *)
Load ==
  /\ phase = "boot" /\ sweep.at = "off"
  /\ phase' = "up"
  /\ seq' = LoadedSeq
  /\ lines' = Len(active)
  /\ segNo' = NextSegment
  /\ UNCHANGED <<life, faults, queue, rotated, disk, sweep, history>>

Next ==
  \/ AppendEntry \/ EmitEphemeral
  \/ Rotate \/ RotateFails \/ WriteLine \/ WriteFails
  \/ SweepBegins \/ SweepReads \/ SweepMissesFile \/ SweepFlushes \/ SweepMoves
  \/ Crash \/ Restart \/ Load

Spec == Init /\ [][Next]_vars

-----------------------------------------------------------------------------
(* Properties                                                              *)

Before(D, E) == \A d \in D, e \in E : d.seq < e.seq

InOrder(file) ==
  \A i, j \in DOMAIN file : i < j => Before(file[i].has, file[j].has)

(* "the concatenation is the full transcript in seq order": what a boot    *)
(* loads is in the order of its numbers, whatever was rotated, archived,   *)
(* torn or given up before.  Transcript.load relies on it when it takes    *)
(* the last entry's number for the highest.                                *)
LoadedInOrder ==
  /\ InOrder(active) /\ \A n \in DOMAIN sealed : InOrder(sealed[n])
  /\ Before(In(sealed), Parsed(active))
  /\ \A m, n \in DOMAIN sealed : m < n => Before(Parsed(sealed[m]), Parsed(sealed[n]))

(* No number is given to two entries on disk, in the archive or out of it, *)
(* across crashes: "a reissued number can never collide with an archived   *)
(* entry".  The segments that stay keep this, and the sweep's checkpoint   *)
(* where none does, except when one is sealed under its hands, so that it  *)
(* archives what it has not read, or the checkpoint cannot be written.     *)
SeqIssuedOnce ==
  ~raced /\ ~unsaved => \A d, e \in OnDisk : d.seq = e.seq => d = e

(* The checkpoint, or what is left to load, covers the archive at every    *)
(* moment, in the middle of a sweep, between a crash and a boot and after  *)
(* sweeps that began from different files: a boot numbers on past what it  *)
(* can no longer load.  The exceptions are the same.                       *)
CheckpointCovers == ~raced /\ ~unsaved => \A e \in In(archive) : e.seq <= LoadedSeq

(* The finished lines on disk.                                             *)
FinishedIn(segs) == UNION {Finished(segs[n]) : n \in DOMAIN segs}

OnRecord == Finished(active) \cup FinishedIn(sealed) \cup FinishedIn(archive)

Record == INSTANCE AppendOnly WITH log <- OnRecord

(* The files implement an append-only log: an entry whose line was         *)
(* finished stays, in the active file, a sealed segment or the archive,    *)
(* through rotation, sweeps, failing writes, crashes and boots, and comes  *)
(* there once.                                                             *)
AppendOnlySpec == Record!Spec
=============================================================================
