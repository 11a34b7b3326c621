----------------------------- MODULE Lifecycle -----------------------------
(***************************************************************************)
(* One workflow from its import to its removal: the lifecycle record in    *)
(* memory and in its file, the write-once snapshots of its revisions, the  *)
(* definition file that boot reads, the runner on the hub, and a run that  *)
(* is bound to the revision it began under.                                *)
(*                                                                         *)
(* Administrators call at the same time.  A call decides in one go, from   *)
(* the record in memory, and then awaits its writes: the definition file,  *)
(* the snapshot of a new revision, the record.  A write may fail, and the  *)
(* host may die during any of them.                                        *)
(*                                                                         *)
(* The audit log of the record is left out.  A workflow is created and     *)
(* removed while no other call is under way.                               *)
(***************************************************************************)
EXTENDS Naturals, FiniteSets

CONSTANTS
  Admin,     \* the administrators
  Content,   \* what a definition can say
  NoDef,
  MaxRev,    \* bound: revisions
  MaxLife,   \* bound: how often the workflow is created
  MaxCrash,  \* bound: crashes
  MaxFault   \* bound: writes that fail

ASSUME LifecycleAssumption ==
  /\ MaxRev \in Nat \ {0} /\ MaxLife \in Nat /\ MaxCrash \in Nat /\ MaxFault \in Nat
  /\ NoDef \notin Content

VARIABLES
  up,        \* the host runs
  refused,   \* its last boot failed
  mem,       \* entries: the record
  defs,      \* entries: the definitions by revision
  hosted,    \* the hub has the runner
  yaml,      \* the definition file
  snaps,     \* the snapshots by revision
  disk,      \* the record's file
  call,      \* the call of each administrator
  run,       \* a run that has begun: its revision and what that said then
  life,      \* how often the workflow was created
  crashes, faults,
  clash      \* history: a revision was allocated twice

entry == <<mem, defs, hosted>>
files == <<yaml, snaps, disk>>
hist  == <<life, crashes, faults, clash>>
vars  == <<up, refused, entry, files, call, run, hist>>

Rev    == 1..MaxRev
States == {"draft", "review", "published", "deprecated", "archived"}
Live(state) == state \in {"published", "deprecated"}
Empty  == [r \in Rev |-> NoDef]

(* LifecycleRecord: `cur' is 0 if nothing was published, `hash' is the     *)
(* content of the revisions it lists.                                      *)
Record == [state : States, cur : 0..MaxRev, head : Rev, hash : [Rev -> Content \cup {NoDef}]]
Absent == [state |-> "none", cur |-> 0, head |-> 1, hash |-> Empty]

Flips == {"submitReview", "backToDraft", "deprecate", "archive"}
Ops   == {"import", "saveDraft", "publish", "rollback", "remove"} \cup Flips
Idle  == [op |-> "none", at |-> "idle", x |-> NoDef, rev |-> 0, rec |-> Absent]
NoRun == [rev |-> 0, def |-> NoDef, life |-> 0]

TypeOK ==
  /\ up \in BOOLEAN /\ refused \in BOOLEAN /\ hosted \in BOOLEAN
  /\ mem \in Record \cup {Absent} /\ disk \in Record \cup {Absent}
  /\ defs \in [Rev -> Content \cup {NoDef}]
  /\ snaps \in [Rev -> Content \cup {NoDef}]
  /\ yaml \in Content \cup {NoDef}
  /\ call \in [Admin -> [op : Ops \cup {"none"},
                         at : {"idle", "file", "go", "snap", "save", "unlink", "wipe"},
                         x : Content \cup {NoDef}, rev : 0..MaxRev,
                         rec : Record \cup {Absent}]]
  /\ run \in [rev : 0..MaxRev, def : Content \cup {NoDef}, life : 0..MaxLife]
  /\ life \in 0..MaxLife /\ crashes \in 0..MaxCrash /\ faults \in 0..MaxFault
  /\ clash \in BOOLEAN

Init ==
  /\ up = TRUE /\ refused = FALSE
  /\ mem = Absent /\ defs = Empty /\ hosted = FALSE
  /\ yaml = NoDef /\ snaps = Empty /\ disk = Absent
  /\ call = [a \in Admin |-> Idle] /\ run = NoRun
  /\ life = 0 /\ crashes = 0 /\ faults = 0 /\ clash = FALSE

-----------------------------------------------------------------------------
(* The state machine: the table LEGAL                                      *)

Legal(state, op) ==
  \/ op = "saveDraft" /\ state = "draft"
  \/ op = "submitReview" /\ state = "draft"
  \/ op = "backToDraft" /\ state = "review"
  \/ op = "publish" /\ state # "archived"
  \/ op \in {"deprecate", "rollback"} /\ state = "published"
  \/ op = "archive" /\ state = "deprecated"

Target(op) ==
  [saveDraft |-> "draft", submitReview |-> "review", backToDraft |-> "draft",
   publish |-> "published", rollback |-> "published", deprecate |-> "deprecated",
   archive |-> "archived"][op]

-----------------------------------------------------------------------------
(* A call: the controller's part                                           *)

At(a, stage) == up /\ call[a].at = stage
Quiet        == \A a \in Admin : call[a].at = "idle"
Becomes(a, c) == call' = [call EXCEPT ![a] = c]
Moves(a, stage) == call' = [call EXCEPT ![a].at = stage]
Returns(a)   == call' = [call EXCEPT ![a] = Idle]

Creates(c) == c.op \in {"import", "saveDraft"} /\ mem = Absent

(* A new workflow: the definition file comes first.                        *)
Create(a, op, x) ==
  /\ At(a, "idle") /\ Quiet /\ op \in {"import", "saveDraft"}
  /\ mem = Absent /\ disk = Absent /\ life < MaxLife
  /\ life' = life + 1
  /\ Becomes(a, [Idle EXCEPT !.op = op, !.at = "file", !.x = x])
  /\ UNCHANGED <<up, refused, entry, files, run, crashes, faults, clash>>

(* An edit of a workflow that is there: its text is written first.         *)
Edit(a, op, x) ==
  /\ At(a, "idle") /\ mem # Absent
  /\ \A b \in Admin : call[b].op # "remove"
  /\ op \in {"saveDraft", "publish"}
  /\ Becomes(a, [Idle EXCEPT !.op = op, !.at = "file", !.x = x])
  /\ UNCHANGED <<up, refused, entry, files, run, hist>>

FileWritten(a) ==
  /\ At(a, "file")
  /\ yaml' = call[a].x
  /\ Moves(a, "go")
  /\ UNCHANGED <<up, refused, entry, snaps, disk, run, hist>>

(* A call throws; the file of a workflow that was to be created goes.      *)
Throws(a) ==
  /\ Returns(a)
  /\ yaml' = IF Creates(call[a]) THEN NoDef ELSE yaml

(* The calls that may be decided next: one whose text is written, or any   *)
(* that comes without a text.                                              *)
Ready(a) ==
  IF At(a, "go") /\ mem # Absent THEN {call[a]}
  ELSE IF At(a, "idle") /\ mem # Absent /\ \A b \in Admin : call[b].op # "remove"
  THEN {[Idle EXCEPT !.op = op] : op \in Flips \cup {"publish", "rollback"}}
  ELSE {}

-----------------------------------------------------------------------------
(* A call: the versioning service's part                                   *)

(* Mutant: a snapshot is written over what is there.                       *)
Taken_Ignored(r) == FALSE

(* The store refuses to write a revision that has a snapshot.              *)
Taken(r) == snaps[r] # NoDef

(* Mutant: the record lists the revision before its snapshot is written.   *)
Allocate_Lists(a, c, r, x, rec) ==
  /\ IF Taken(r) THEN Throws(a) /\ UNCHANGED mem
     ELSE /\ Becomes(a, [c EXCEPT !.at = "snap", !.x = x, !.rev = r, !.rec = rec])
          /\ mem' = IF Creates(c) THEN mem ELSE [mem EXCEPT !.head = r, !.hash[r] = x]
          /\ UNCHANGED yaml
  /\ clash' = clash
  /\ UNCHANGED <<up, refused, defs, hosted, snaps, disk, run, life, crashes, faults>>

Allocate(a, c, r, x, rec) ==
  /\ IF Taken(r) THEN Throws(a)
     ELSE /\ Becomes(a, [c EXCEPT !.at = "snap", !.x = x, !.rev = r, !.rec = rec])
          /\ UNCHANGED yaml
  /\ clash' = (clash \/ \E b \in Admin : call[b].at = "snap" /\ call[b].rev = r)
  /\ UNCHANGED <<up, refused, entry, snaps, disk, run, life, crashes, faults>>

(* genesis: revision 1, published or a draft.                              *)
First(op, x) ==
  [state |-> IF op = "import" THEN "published" ELSE "draft",
   cur |-> IF op = "import" THEN 1 ELSE 0, head |-> 1,
   hash |-> [Empty EXCEPT ![1] = x]]

Genesis(a) ==
  /\ At(a, "go") /\ Creates(call[a])
  /\ Allocate(a, call[a], 1, call[a].x, First(call[a].op, call[a].x))

(* The content that an edit is compared with: a draft's with the head, a   *)
(* published one's with what is current.                                   *)
Base(op) == IF op = "saveDraft" \/ mem.cur = 0 THEN mem.head ELSE mem.cur

NewText(c) == c.op = "rollback" \/ (c.x # NoDef /\ mem.hash[Base(c.op)] # c.x)

(* The next revision is allocated, of a rollback with the content of an    *)
(* earlier one; the transition is made on the record of now, and kept      *)
(* until the snapshot is written.                                          *)
Append(a, c) ==
  /\ Legal(mem.state, c.op) /\ NewText(c) /\ mem.head < MaxRev
  /\ \E x \in IF c.op = "rollback" THEN {defs[k] : k \in Rev} \ {NoDef} ELSE {c.x} :
       Allocate(a, c, mem.head + 1, x, [mem EXCEPT !.state = Target(c.op)])

(* No new revision: the transition is made in memory, and the record goes  *)
(* to its file.  Publishing promotes the head, or what it was compared     *)
(* with.  A draft that says nothing new is not even saved.                 *)
Direct(a, c) ==
  LET rec == [mem EXCEPT !.state = Target(c.op),
                !.cur = IF c.op # "publish" THEN @
                        ELSE IF c.x = NoDef THEN mem.head ELSE Base(c.op)]
  IN
  /\ Legal(mem.state, c.op) /\ ~NewText(c)
  /\ IF c.op = "saveDraft" THEN Returns(a) /\ UNCHANGED mem
     ELSE mem' = rec /\ Becomes(a, [c EXCEPT !.at = "save", !.rec = rec])
  /\ UNCHANGED <<up, refused, defs, hosted, files, run, hist>>

(* An illegal transition, or a revision beyond the bound.                  *)
Refuses(a, c) ==
  /\ At(a, "go")
  /\ ~Legal(mem.state, c.op) \/ (NewText(c) /\ mem.head = MaxRev)
  /\ Returns(a)
  /\ UNCHANGED <<up, refused, entry, files, run, hist>>

(* The snapshot is written: the record of now lists it, and then becomes   *)
(* the one that was decided on.  What it says is what will be saved.       *)
SnapWritten(a) ==
  LET c == call[a]
      listed == [mem EXCEPT !.head = c.rev,
                   !.hash[c.rev] = IF @ = NoDef THEN c.x ELSE @]
      rec == IF c.op = "saveDraft" THEN listed
             ELSE [listed EXCEPT !.state = c.rec.state, !.cur = c.rev]
  IN
  /\ At(a, "snap")
  /\ snaps' = [snaps EXCEPT ![c.rev] = c.x]
  /\ IF Creates(c) THEN Moves(a, "save") /\ UNCHANGED <<mem, defs>>
     ELSE /\ mem' = rec
          /\ defs' = [defs EXCEPT ![c.rev] = c.x]
          /\ Becomes(a, [c EXCEPT !.at = "save", !.rec = rec])
  /\ UNCHANGED <<up, refused, hosted, yaml, disk, run, hist>>

(* Mutant: the runner is synchronised with the record that was saved.      *)
Saved_Late(a) ==
  /\ At(a, "save")
  /\ disk' = call[a].rec
  /\ IF Creates(call[a])
     THEN mem' = call[a].rec /\ defs' = call[a].rec.hash
     ELSE UNCHANGED <<mem, defs>>
  /\ hosted' = Live(call[a].rec.state)
  /\ Returns(a)
  /\ UNCHANGED <<up, refused, yaml, snaps, run, hist>>

(* The record is saved: the entry of a new workflow is installed, and the  *)
(* runner goes on the hub or leaves it, as the record of now says.         *)
Saved(a) ==
  /\ At(a, "save")
  /\ disk' = call[a].rec
  /\ IF Creates(call[a])
     THEN mem' = call[a].rec /\ defs' = call[a].rec.hash
     ELSE UNCHANGED <<mem, defs>>
  /\ hosted' = Live(mem'.state)
  /\ Returns(a)
  /\ UNCHANGED <<up, refused, yaml, snaps, run, hist>>

(* A write fails.  What was done in memory stays.                          *)
WriteFails(a) ==
  /\ up /\ call[a].at \in {"file", "snap", "save"} /\ faults < MaxFault
  /\ faults' = faults + 1
  /\ IF call[a].at = "file" THEN Returns(a) /\ UNCHANGED yaml ELSE Throws(a)
  /\ UNCHANGED <<up, refused, entry, snaps, disk, run, life, crashes, clash>>

(* removeWorkflow: the runner and the entry, the record, the snapshots,    *)
(* the definition file.                                                    *)
Remove(a) ==
  /\ At(a, "idle") /\ Quiet /\ mem # Absent
  /\ mem' = Absent /\ defs' = Empty /\ hosted' = FALSE
  /\ Becomes(a, [Idle EXCEPT !.op = "remove", !.at = "unlink"])
  /\ UNCHANGED <<up, refused, files, run, hist>>

RecordGone(a) ==
  /\ At(a, "unlink")
  /\ disk' = Absent
  /\ Moves(a, "wipe")
  /\ UNCHANGED <<up, refused, entry, yaml, snaps, run, hist>>

SnapsGone(a) ==
  /\ At(a, "wipe")
  /\ snaps' = Empty /\ yaml' = NoDef
  /\ Returns(a)
  /\ UNCHANGED <<up, refused, entry, disk, run, hist>>

-----------------------------------------------------------------------------
(* Runs, crashes, boot                                                     *)

(* A run begins under the current revision; it may be parked for ever.     *)
RunBegins ==
  /\ up /\ hosted /\ mem # Absent /\ run = NoRun
  /\ mem.cur # 0
  /\ run' = [rev |-> mem.cur, def |-> defs[mem.cur], life |-> life]
  /\ UNCHANGED <<up, refused, entry, files, call, hist>>

Crash ==
  /\ up /\ crashes < MaxCrash
  /\ up' = FALSE /\ crashes' = crashes + 1
  /\ mem' = Absent /\ defs' = Empty /\ hosted' = FALSE
  /\ call' = [a \in Admin |-> Idle]
  /\ UNCHANGED <<refused, files, run, life, faults, clash>>

(* Boot adopts what the definition file says, if there is one: the record  *)
(* that belongs to it with its snapshots, or else as revision 1, published.*)
(* A throw ends the process.                                               *)
Boot ==
  /\ ~up /\ ~refused
  /\ IF yaml = NoDef
     THEN up' = TRUE /\ UNCHANGED <<refused, entry, files>>
     ELSE IF disk # Absent
     THEN /\ up' = TRUE
          /\ mem' = disk /\ hosted' = Live(disk.state)
          /\ defs' = [r \in Rev |-> IF disk.hash[r] = NoDef THEN NoDef ELSE snaps[r]]
          /\ UNCHANGED <<refused, files>>
     ELSE IF Taken(1)
     THEN refused' = TRUE /\ UNCHANGED <<up, entry, files>>
     ELSE /\ up' = TRUE
          /\ snaps' = [snaps EXCEPT ![1] = yaml]
          /\ disk' = First("import", yaml) /\ mem' = disk' /\ hosted' = TRUE
          /\ defs' = mem'.hash
          /\ UNCHANGED <<refused, yaml>>
  /\ UNCHANGED <<call, run, hist>>

Next ==
  \/ \E a \in Admin :
       \/ \E op \in Ops, x \in Content : Create(a, op, x)
       \/ \E op \in Ops, x \in Content : Edit(a, op, x)
       \/ FileWritten(a) \/ Genesis(a)
       \/ \E c \in Ready(a) : Append(a, c) \/ Direct(a, c) \/ Refuses(a, c)
       \/ SnapWritten(a) \/ Saved(a) \/ WriteFails(a)
       \/ Remove(a) \/ RecordGone(a) \/ SnapsGone(a)
  \/ RunBegins \/ Crash \/ Boot

Spec == Init /\ [][Next]_vars

-----------------------------------------------------------------------------
(* Properties                                                              *)

(* What a run began under is what it resumes under: publishing, rollback,  *)
(* failed writes and crashes between a snapshot and its record included.   *)
(* Exempt: a revision that two calls allocated at once, and the run of a   *)
(* workflow that was removed.                                              *)
RunNeverDrifts ==
  mem # Absent /\ run.rev # 0 /\ run.life = life /\ ~clash
    => defs[run.rev] \in {run.def, NoDef}

(* A revision that a saved record names has its snapshot, whatever was cut *)
(* short, and a runner that is on the hub can start a run.                 *)
NamedIsThere ==
  /\ \A r \in Rev : disk.hash[r] # NoDef => snaps[r] # NoDef
  /\ disk.cur # 0 => disk.hash[disk.cur] # NoDef
  /\ hosted /\ mem # Absent => mem.cur # 0 /\ defs[mem.cur] # NoDef

(* When all calls are over, the runner is on the hub exactly if the record *)
(* says that the workflow is live, whichever of two calls was saved last.  *)
(* A failed write may leave it behind.                                     *)
RunnerFollowsState ==
  up /\ Quiet /\ faults = 0 => (hosted <=> (mem # Absent /\ Live(mem.state)))

(* Revisions are append-only: a snapshot is never written again with other *)
(* content, not by the call that failed or died before its record and not  *)
(* by the next that takes its number, and it goes only with the workflow,  *)
(* after the record ("write-once guarantee").  Exempt is a number that two *)
(* calls allocated at once.                                                *)
RevisionsStand ==
  [][~clash => \/ \A r \in Rev : snaps[r] # NoDef => snaps'[r] = snaps[r]
               \/ snaps' = Empty /\ mem = Absent /\ disk = Absent]_vars
=============================================================================
