-------------------------- MODULE LifecycleProofs --------------------------
(***************************************************************************)
(* Proofs about module Lifecycle, for any administrators, definitions and  *)
(* bounds.                                                                 *)
(*                                                                         *)
(* Two ideas carry them.  Whatever a record lists is in a snapshot before  *)
(* the record is saved, or was in one before it was decided on (Records);  *)
(* and a snapshot that was read is not written again, since a call takes a *)
(* revision only if it is not taken and no other call is writing it, which *)
(* `clash' would have recorded (Apart).                                    *)
(***************************************************************************)
EXTENDS Lifecycle, TLAPS

Def == Content \cup {NoDef}

CallType ==
  [op : Ops \cup {"none"}, at : {"idle", "file", "go", "snap", "save", "unlink", "wipe"},
   x : Def, rev : 0..MaxRev, rec : Record \cup {Absent}]

(* What the stage of a call says of the call.                              *)
CallOK(c) ==
  /\ c.at \in {"file", "go", "snap"} => c.x \in Content
  /\ c.at = "snap" => c.rev \in Rev
  /\ c.at \in {"snap", "save"} => c.rec \in Record
  /\ c.at = "idle" => c = Idle
  /\ c.op = "remove" <=> c.at \in {"unlink", "wipe"}

(* A workflow is created and removed by one call alone.                    *)
Alone ==
  /\ \A a \in Admin : mem = Absent /\ call[a].at \in {"file", "go", "snap", "save"}
       => call[a].op \in {"import", "saveDraft"}
  /\ mem = Absent => \A a, b \in Admin : call[a].at # "idle" /\ call[b].at # "idle" => a = b
  /\ \A a \in Admin : call[a].at \in {"unlink", "wipe"} => mem = Absent
  /\ \A a \in Admin : call[a].at = "wipe" => disk = Absent

(* A host that is down has nothing in memory, nor has one without entry.   *)
Gone ==
  /\ ~up => mem = Absent /\ \A a \in Admin : call[a] = Idle
  /\ mem = Absent => defs = Empty /\ ~hosted

Structure == TypeOK /\ (\A a \in Admin : CallOK(call[a])) /\ Alone /\ Gone

(* A record that may be saved, or adopted by boot.                         *)
Good(rec, written) ==
  /\ rec.hash[rec.head] # NoDef
  /\ rec.cur # 0 => rec.hash[rec.cur] # NoDef
  /\ Live(rec.state) => rec.cur # 0
  /\ \A r \in Rev : rec.hash[r] # NoDef => written[r] # NoDef

Records ==
  /\ mem # Absent => Good(mem, snaps)
  /\ disk # Absent => Good(disk, snaps)
  /\ \A a \in Admin : call[a].at = "save" => Good(call[a].rec, snaps)
  /\ mem = Absent => \A a \in Admin :
       /\ call[a].at = "snap" => call[a].rev = 1 /\ call[a].rec = First(call[a].op, call[a].x)
       /\ call[a].at = "save" => \A r \in Rev : call[a].rec.hash[r] \in {NoDef, snaps[r]}

(* The definitions in memory are those of the snapshots.                   *)
Definitions ==
  /\ \A r \in Rev : defs[r] \in {NoDef, snaps[r]}
  /\ mem # Absent => \A r \in Rev : mem.hash[r] # NoDef => defs[r] # NoDef
  /\ hosted => mem.cur # 0

(* No two calls write one revision, and none a revision that is written.   *)
Apart ==
  ~clash => \A a \in Admin : call[a].at = "snap" =>
    /\ snaps[call[a].rev] = NoDef
    /\ \A b \in Admin \ {a} : call[b].at = "snap" => call[a].rev # call[b].rev

Wiped == mem = Absent /\ disk = Absent /\ yaml = NoDef /\ Quiet

(* The snapshot that a run began under stays, or the workflow is gone.     *)
Bound ==
  /\ run.life <= life
  /\ run.rev # 0 => run.def # NoDef
  /\ run.rev # 0 /\ run.life = life /\ ~clash => snaps[run.rev] = run.def \/ Wiped

(* Between calls the runner is where the record wants it.                  *)
Synced ==
  up /\ faults = 0 /\ (\A a \in Admin : call[a].at # "save")
    => (hosted <=> (mem # Absent /\ Live(mem.state)))

IInv == Structure /\ Records /\ Definitions /\ Apart /\ Bound /\ Synced

(* The inductive invariant implies the properties.                         *)
LEMMA IInvGives == IInv => TypeOK /\ RunNeverDrifts /\ NamedIsThere /\ RunnerFollowsState
<1> SUFFICES ASSUME IInv PROVE TypeOK /\ RunNeverDrifts /\ NamedIsThere /\ RunnerFollowsState
  OBVIOUS
<1>0. TypeOK
  BY DEF IInv, Structure
<1>1. RunNeverDrifts
  <2> SUFFICES ASSUME mem # Absent, run.rev # 0, run.life = life, ~clash
               PROVE  defs[run.rev] \in {run.def, NoDef}
    BY DEF RunNeverDrifts
  <2>1. run.rev \in Rev
    BY <1>0 DEF TypeOK, Rev
  <2>2. snaps[run.rev] = run.def
    BY DEF IInv, Bound, Wiped
  <2> QED
    BY <2>1, <2>2 DEF IInv, Definitions
<1>2. NamedIsThere
  <2>1. CASE disk = Absent
    <3>1. \A r \in Rev : disk.hash[r] = NoDef
      BY <2>1 DEF Absent, Empty
    <3>2. disk.cur = 0
      BY <2>1 DEF Absent
    <3> QED
      BY <1>0, <3>1, <3>2 DEF NamedIsThere, IInv, Records, Good, Definitions, TypeOK, Record, Rev
  <2>2. CASE disk # Absent
    BY <1>0, <2>2 DEF NamedIsThere, IInv, Records, Good, Definitions, TypeOK, Record, Rev
  <2> QED
    BY <2>1, <2>2
<1>3. RunnerFollowsState
  <2>1. Quiet => \A a \in Admin : call[a].at # "save"
    BY DEF Quiet
  <2> QED
    BY <2>1 DEF IInv, Synced, RunnerFollowsState
<1> QED
  BY <1>0, <1>1, <1>2, <1>3

-----------------------------------------------------------------------------
(* Records and calls                                                       *)

(* What the constants are.                                                 *)
LEMMA Shapes ==
  /\ 1 \in Rev /\ 0 \in 0..MaxRev /\ Rev \subseteq 0..MaxRev
  /\ Absent \notin Record
  /\ Absent.state = "none" /\ Absent.cur = 0 /\ Absent.hash = Empty
  /\ Idle.at = "idle" /\ Idle.op = "none" /\ Idle.x = NoDef /\ Idle.rev = 0 /\ Idle.rec = Absent
  /\ Idle \in CallType /\ CallOK(Idle)
  /\ Empty \in [Rev -> Def] /\ \A r \in Rev : Empty[r] = NoDef
<1> USE LifecycleAssumption DEF LifecycleAssumption
<1>1. 1 \in Rev /\ 0 \in 0..MaxRev /\ Rev \subseteq 0..MaxRev
  BY DEF Rev
<1>2. Absent \notin Record
  BY DEF Absent, Record, States
<1>3. Idle \in CallType
  BY <1>1 DEF Idle, CallType, Def
<1>4. CallOK(Idle)
  BY DEF Idle, CallOK
<1>5. Absent.state = "none" /\ Absent.cur = 0 /\ Absent.hash = Empty
  BY DEF Absent
<1>6. Idle.at = "idle" /\ Idle.op = "none" /\ Idle.x = NoDef /\ Idle.rev = 0 /\ Idle.rec = Absent
  BY DEF Idle
<1>7. Empty \in [Rev -> Def] /\ \A r \in Rev : Empty[r] = NoDef
  BY DEF Empty, Def
<1> QED
  BY <1>1, <1>2, <1>3, <1>4, <1>5, <1>6, <1>7

(* The record of a new workflow.                                           *)
LEMMA FirstFits ==
  ASSUME NEW op, NEW x \in Content
  PROVE  LET f == First(op, x)
         IN  /\ f \in Record /\ f.head = 1 /\ f.cur \in {0, 1}
             /\ f.hash \in [Rev -> Def]
             /\ f.hash[1] = x /\ x # NoDef
             /\ \A r \in Rev : r # 1 => f.hash[r] = NoDef
             /\ Live(f.state) => f.cur = 1
<1> USE LifecycleAssumption, Shapes DEF LifecycleAssumption
<1> DEFINE f == First(op, x)
<1>1. f.hash = [Empty EXCEPT ![1] = x] /\ f.head = 1
      /\ f.state = (IF op = "import" THEN "published" ELSE "draft")
      /\ f.cur = (IF op = "import" THEN 1 ELSE 0)
  BY DEF First
<1>2. f.hash \in [Rev -> Def] /\ f.hash[1] = x /\ \A r \in Rev : r # 1 => f.hash[r] = NoDef
  BY <1>1 DEF Def
<1>3. f \in Record
  BY <1>2 DEF First, Record, States, Def
<1>4. Live(f.state) => f.cur = 1
  BY <1>1 DEF Live
<1> HIDE DEF f
<1>5. f.cur \in {0, 1} /\ x # NoDef
  BY <1>1
<1>6. f \in Record /\ f.head = 1 /\ f.cur \in {0, 1} /\ f.hash \in [Rev -> Def] /\ f.hash[1] = x
      /\ x # NoDef /\ (\A r \in Rev : r # 1 => f.hash[r] = NoDef) /\ (Live(f.state) => f.cur = 1)
  BY <1>1, <1>2, <1>3, <1>4, <1>5
<1> QED
  BY <1>6 DEF f

(* TypeOK with the names of the sets.                                      *)
LEMMA Types ==
  TypeOK <=>
    /\ up \in BOOLEAN /\ refused \in BOOLEAN /\ hosted \in BOOLEAN
    /\ mem \in Record \cup {Absent} /\ disk \in Record \cup {Absent}
    /\ defs \in [Rev -> Def] /\ snaps \in [Rev -> Def] /\ yaml \in Def
    /\ call \in [Admin -> CallType]
    /\ run \in [rev : 0..MaxRev, def : Def, life : 0..MaxLife]
    /\ life \in 0..MaxLife /\ crashes \in 0..MaxCrash /\ faults \in 0..MaxFault
    /\ clash \in BOOLEAN
BY DEF TypeOK, CallType, Def

(* The same of the next state.                                             *)
LEMMA TypesNext ==
  TypeOK' <=>
    /\ up' \in BOOLEAN /\ refused' \in BOOLEAN /\ hosted' \in BOOLEAN
    /\ mem' \in Record \cup {Absent} /\ disk' \in Record \cup {Absent}
    /\ defs' \in [Rev -> Def] /\ snaps' \in [Rev -> Def] /\ yaml' \in Def
    /\ call' \in [Admin -> CallType]
    /\ run' \in [rev : 0..MaxRev, def : Def, life : 0..MaxLife]
    /\ life' \in 0..MaxLife /\ crashes' \in 0..MaxCrash /\ faults' \in 0..MaxFault
    /\ clash' \in BOOLEAN
BY DEF TypeOK, CallType, Def

(* One call changes.                                                       *)
LEMMA CallChanges ==
  ASSUME Structure, NEW a \in Admin, NEW c \in CallType, CallOK(c), Becomes(a, c)
  PROVE  /\ call' \in [Admin -> CallType]
         /\ \A b \in Admin : call'[b] = IF b = a THEN c ELSE call[b]
         /\ \A b \in Admin : CallOK(call'[b])
<1>1. call \in [Admin -> CallType]
  BY Types DEF Structure
<1>2. \A b \in Admin : call'[b] = IF b = a THEN c ELSE call[b]
  BY <1>1 DEF Becomes
<1>3. call' \in [Admin -> CallType]
  BY <1>1 DEF Becomes
<1> QED
  BY <1>2, <1>3 DEF Structure

(* Nothing is there at first.                                              *)
LEMMA InitIInv == Init => IInv
<1> SUFFICES ASSUME Init PROVE IInv
  OBVIOUS
<1> USE LifecycleAssumption, Shapes DEF LifecycleAssumption
<1>1. \A a \in Admin : call[a] = Idle /\ call[a].at = "idle"
  BY DEF Init
<1>2. TypeOK
  <2>1. call \in [Admin -> CallType]
    BY DEF Init
  <2>2. run \in [rev : 0..MaxRev, def : Def, life : 0..MaxLife]
    BY DEF Init, NoRun, Def
  <2>3. up \in BOOLEAN /\ refused \in BOOLEAN /\ hosted \in BOOLEAN /\ clash \in BOOLEAN
    BY DEF Init
  <2>4. mem \in Record \cup {Absent} /\ disk \in Record \cup {Absent}
        /\ defs \in [Rev -> Def] /\ snaps \in [Rev -> Def] /\ yaml \in Def
    BY DEF Init, Def
  <2>5. life \in 0..MaxLife /\ crashes \in 0..MaxCrash /\ faults \in 0..MaxFault
    BY DEF Init
  <2> QED
    BY <2>1, <2>2, <2>3, <2>4, <2>5, Types
<1>3. Structure
  BY <1>1, <1>2 DEF Structure, Init, Alone, Gone
<1>4. Records /\ Apart
  BY <1>1 DEF Init, Records, Apart
<1>5. Definitions
  BY DEF Init, Definitions
<1>6. Bound
  BY DEF Init, Bound, NoRun
<1>7. Synced
  BY DEF Init, Synced
<1> QED
  BY <1>3, <1>4, <1>5, <1>6, <1>7 DEF IInv

-----------------------------------------------------------------------------
(* Structure                                                               *)

(* A call moves on while the workflow is there.                            *)
LEMMA Present ==
  ASSUME Structure, up, mem # Absent, mem' # Absent, up' = up,
         NEW a \in Admin, NEW c \in CallType, CallOK(c), Becomes(a, c),
         c.at \notin {"unlink", "wipe"}
  PROVE  Alone' /\ Gone'
<1>1. \A b \in Admin : call'[b] = IF b = a THEN c ELSE call[b]
  BY CallChanges
<1>2. \A b \in Admin : call[b].at \notin {"unlink", "wipe"}
  BY DEF Structure, Alone
<1> QED
  BY <1>1, <1>2 DEF Alone, Gone

(* The only call moves on while the workflow is not there.                 *)
LEMMA Missing ==
  ASSUME Structure, up, mem = Absent, UNCHANGED <<up, mem, defs, hosted>>,
         NEW a \in Admin, NEW c \in CallType, CallOK(c), Becomes(a, c),
         call[a].at # "idle" \/ Quiet,
         c.at \in {"file", "go", "snap", "save"} => c.op \in {"import", "saveDraft"},
         c.at = "wipe" => disk' = Absent
  PROVE  Alone' /\ Gone'
<1>1. \A b \in Admin : call'[b] = IF b = a THEN c ELSE call[b]
  BY CallChanges
<1>2. \A b \in Admin : b # a => call[b].at = "idle"
  BY DEF Structure, Alone, Quiet
<1> QED
  BY <1>1, <1>2 DEF Structure, Alone, Gone

(* What a call that is decided on looks like.                              *)
LEMMA ReadyFits ==
  ASSUME Structure, NEW a \in Admin, NEW c \in Ready(a)
  PROVE  /\ up /\ mem # Absent /\ mem \in Record
         /\ c \in CallType /\ c.op # "remove" /\ c.at \in {"go", "idle"}
         /\ c.x # NoDef => c.x \in Content
         /\ call[a].at # "save"
         /\ \A b \in Admin : call[b].at \notin {"unlink", "wipe"}
<1> USE Shapes
<1>1. up /\ mem # Absent
  BY DEF Ready, At
<1>2. mem \in Record /\ \A b \in Admin : call[b].at \notin {"unlink", "wipe"}
  BY <1>1, Types DEF Structure, Alone
<1>3. call[a] \in CallType /\ CallOK(call[a])
  BY Types DEF Structure
<1>4. CASE c = call[a] /\ call[a].at = "go"
  <2>1. c.op # "remove" /\ c.x \in Content
    BY <1>3, <1>4 DEF CallOK
  <2> QED
    BY <2>1, <1>1, <1>2, <1>3, <1>4 DEF CallOK, CallType, Def
<1>5. CASE call[a].at = "idle" /\ \E op \in Flips \cup {"publish", "rollback"} : c = [Idle EXCEPT !.op = op]
  <2>1. PICK op \in Flips \cup {"publish", "rollback"} : c = [Idle EXCEPT !.op = op]
    BY <1>5
  <2>2. op \in Ops /\ op # "remove"
    BY DEF Ops, Flips
  <2>3. c.op = op /\ c.at = "idle" /\ c.x = NoDef /\ c \in CallType
    BY <2>1, <2>2 DEF CallType, Idle
  <2> QED
    BY <1>1, <1>2, <1>5, <2>2, <2>3
<1>6. \/ c = call[a] /\ call[a].at = "go"
      \/ call[a].at = "idle" /\ \E op \in Flips \cup {"publish", "rollback"} : c = [Idle EXCEPT !.op = op]
  BY DEF Ready, At
<1> QED
  BY <1>4, <1>5, <1>6

(* A legal transition ends in a state.                                     *)
LEMMA TargetFits ==
  ASSUME NEW state, NEW op, Legal(state, op)
  PROVE  Target(op) \in States /\ op \notin {"remove", "import", "none"}
BY DEF Legal, Target, States

(* A record whose state alone is set.                                      *)
LEMMA StateSet ==
  ASSUME NEW rec \in Record, NEW state \in States
  PROVE  LET R == [rec EXCEPT !.state = state]
         IN  R \in Record /\ R.state = state /\ R.cur = rec.cur /\ R.head = rec.head /\ R.hash = rec.hash
BY DEF Record

(* A call is accepted and its snapshot has to be written, or it throws.    *)
LEMMA Allocated ==
  ASSUME Structure, NEW a \in Admin, NEW c \in CallType, NEW r \in Rev, NEW x, NEW rec \in Record,
         Allocate(a, c, r, x, rec), Taken(r) \/ x \in Content, c.op # "remove"
  PROVE  \E d \in CallType :
           /\ CallOK(d) /\ Becomes(a, d)
           /\ \/ ~Taken(r) /\ d.at = "snap" /\ d.op = c.op /\ d.x = x /\ d.rev = r /\ d.rec = rec
                /\ yaml' = yaml
              \/ d = Idle /\ yaml' \in {yaml, NoDef}
<1> USE Shapes
<1>1. CASE Taken(r)
  <2>1. Becomes(a, Idle) /\ yaml' \in {yaml, NoDef}
    BY <1>1 DEF Allocate, Throws, Returns, Becomes
  <2> QED
    BY <2>1
<1>2. CASE ~Taken(r)
  <2> DEFINE d == [c EXCEPT !.at = "snap", !.x = x, !.rev = r, !.rec = rec]
  <2>1. Becomes(a, d) /\ yaml' = yaml
    BY <1>2 DEF Allocate
  <2>2. d \in CallType /\ d.at = "snap" /\ d.op = c.op /\ d.x = x /\ d.rev = r /\ d.rec = rec
    BY <1>2 DEF CallType, Def
  <2> HIDE DEF d
  <2>3. CallOK(d)
    BY <1>2, <2>2 DEF CallOK
  <2> QED
    BY <1>2, <2>1, <2>2, <2>3
<1> QED
  BY <1>1, <1>2

(* What the record becomes when a snapshot is written.                     *)
LEMMA SnapFits ==
  ASSUME Structure, NEW a \in Admin, SnapWritten(a)
  PROVE  LET c == call[a] IN
         /\ up /\ c \in CallType /\ CallOK(c) /\ c.at = "snap" /\ c.x \in Content /\ c.rev \in Rev
         /\ c.rec \in Record
         /\ snaps' \in [Rev -> Def] /\ \A r \in Rev : snaps'[r] = IF r = c.rev THEN c.x ELSE snaps[r]
         /\ UNCHANGED <<up, refused, hosted, yaml, disk, run, hist>>
         /\ mem = Absent =>
              /\ UNCHANGED <<mem, defs>>
              /\ \E d \in CallType : /\ Becomes(a, d) /\ CallOK(d) /\ d.at = "save"
                                    /\ d.op = c.op /\ d.rec = c.rec
         /\ mem # Absent =>
              /\ mem \in Record /\ mem' \in Record /\ mem'.head = c.rev
              /\ mem'.hash \in [Rev -> Def]
              /\ \A r \in Rev : mem'.hash[r] = IF r = c.rev /\ mem.hash[r] = NoDef THEN c.x ELSE mem.hash[r]
              /\ \/ mem'.state = mem.state /\ mem'.cur = mem.cur
                 \/ mem'.cur = c.rev
              /\ defs' \in [Rev -> Def] /\ \A r \in Rev : defs'[r] = IF r = c.rev THEN c.x ELSE defs[r]
              /\ \E d \in CallType : /\ Becomes(a, d) /\ CallOK(d) /\ d.at = "save"
                                    /\ d.op = c.op /\ d.rec = mem'
<1> USE Shapes, LifecycleAssumption
<1> DEFINE c == call[a]
<1>1. up /\ c \in CallType /\ CallOK(c) /\ c.at = "snap"
  BY Types DEF SnapWritten, At, Structure
<1>2. c.x \in Content /\ c.rev \in Rev /\ c.rec \in Record /\ c.x \in Def /\ c.x # NoDef /\ c.op # "remove"
  BY <1>1 DEF CallOK, Def, LifecycleAssumption
<1>3. snaps' \in [Rev -> Def] /\ \A r \in Rev : snaps'[r] = IF r = c.rev THEN c.x ELSE snaps[r]
  <2>1. snaps' = [snaps EXCEPT ![c.rev] = c.x] /\ snaps \in [Rev -> Def]
    BY Types DEF SnapWritten, Structure
  <2> QED
    BY <1>2, <2>1
<1>4. UNCHANGED <<up, refused, hosted, yaml, disk, run, hist>>
  BY DEF SnapWritten
<1>5. CASE mem = Absent
  <2>1. c.op \in {"import", "saveDraft"}
    BY <1>1, <1>5 DEF Structure, Alone
  <2>2. Moves(a, "save") /\ UNCHANGED <<mem, defs>>
    BY <1>5, <2>1 DEF SnapWritten, Creates
  <2>3. PICK d : d = [c EXCEPT !.at = "save"]
    OBVIOUS
  <2>4. d \in CallType /\ d.at = "save" /\ d.op = c.op /\ d.rec = c.rec
    BY <1>1, <2>3 DEF CallType
  <2>5. CallOK(d)
    BY <1>2, <2>4 DEF CallOK
  <2>6. call \in [Admin -> CallType]
    BY Types DEF Structure
  <2>7. Becomes(a, d)
    BY <2>2, <2>3, <2>6 DEF Moves, Becomes
  <2>8. \E e \in CallType : /\ Becomes(a, e) /\ CallOK(e) /\ e.at = "save"
                          /\ e.op = c.op /\ e.rec = c.rec
    BY <2>4, <2>5, <2>7
  <2> QED
    BY <1>1, <1>2, <1>3, <1>4, <1>5, <2>2, <2>8
<1>6. CASE mem # Absent
  <2>1. ~Creates(c) /\ mem \in Record
    BY <1>6, Types DEF Creates, Structure
  <2>2. mem.hash \in [Rev -> Def] /\ mem.state \in States /\ mem.cur \in 0..MaxRev /\ mem.head \in Rev
        /\ c.rec.state \in States
    BY <1>2, <2>1 DEF Record, Def
  <2>3. PICK listed : listed = [mem EXCEPT !.head = c.rev, !.hash[c.rev] = IF @ = NoDef THEN c.x ELSE @]
    OBVIOUS
  <2>4. PICK rec : rec = IF c.op = "saveDraft" THEN listed
                         ELSE [listed EXCEPT !.state = c.rec.state, !.cur = c.rev]
    OBVIOUS
  <2>5. mem' = rec /\ defs' = [defs EXCEPT ![c.rev] = c.x] /\ Becomes(a, [c EXCEPT !.at = "save", !.rec = rec])
    BY <2>1, <2>3, <2>4 DEF SnapWritten
  <2>6. /\ listed \in Record /\ listed.head = c.rev /\ listed.cur = mem.cur /\ listed.state = mem.state
        /\ listed.hash = [mem.hash EXCEPT ![c.rev] = IF mem.hash[c.rev] = NoDef THEN c.x ELSE mem.hash[c.rev]]
    <3>1. [mem.hash EXCEPT ![c.rev] = IF mem.hash[c.rev] = NoDef THEN c.x ELSE mem.hash[c.rev]] \in [Rev -> Def]
      BY <1>2, <2>2
    <3>2. PICK h : h = [mem.hash EXCEPT ![c.rev] = IF mem.hash[c.rev] = NoDef THEN c.x ELSE mem.hash[c.rev]]
      OBVIOUS
    <3>3. listed = [mem EXCEPT !.head = c.rev, !.hash = h]
      BY <2>1, <2>3, <3>2 DEF Record
    <3>4. listed = [state |-> mem.state, cur |-> mem.cur, head |-> c.rev, hash |-> h]
      BY <2>1, <3>3 DEF Record
    <3>5. h \in [Rev -> Content \cup {NoDef}]
      BY <3>1, <3>2 DEF Def
    <3>6. listed \in Record
      BY <1>2, <2>2, <3>4, <3>5 DEF Record
    <3> QED
      BY <3>2, <3>4, <3>6
  <2>7. /\ listed.hash \in [Rev -> Def]
        /\ \A r \in Rev : listed.hash[r] = IF r = c.rev /\ mem.hash[r] = NoDef THEN c.x ELSE mem.hash[r]
    <3>1. PICK d \in Def : d = IF mem.hash[c.rev] = NoDef THEN c.x ELSE mem.hash[c.rev]
      BY <1>2, <2>2
    <3>2. listed.hash = [mem.hash EXCEPT ![c.rev] = d]
      BY <2>6, <3>1
    <3>3. listed.hash \in [Rev -> Def]
      BY <2>2, <3>2
    <3>4. \A r \in Rev : listed.hash[r] = IF r = c.rev THEN d ELSE mem.hash[r]
      BY <2>2, <3>2
    <3> QED
      BY <3>1, <3>3, <3>4
  <2>8. rec \in Record /\ rec.head = c.rev /\ rec.hash = listed.hash
        /\ ((rec.state = mem.state /\ rec.cur = mem.cur) \/ rec.cur = c.rev)
    <3>1. CASE c.op = "saveDraft"
      BY <2>4, <2>6, <3>1
    <3>2. CASE c.op # "saveDraft"
      <4>1. c.rev \in 0..MaxRev
        BY <1>2
      <4> QED
        BY <2>2, <2>4, <2>6, <3>2, <4>1 DEF Record
    <3> QED
      BY <3>1, <3>2
  <2>9. PICK d : d = [c EXCEPT !.at = "save", !.rec = rec]
    OBVIOUS
  <2>10. d \in CallType /\ d.at = "save" /\ d.op = c.op /\ d.rec = mem' /\ Becomes(a, d)
    BY <1>1, <2>5, <2>8, <2>9 DEF CallType
  <2>11. CallOK(d)
    BY <1>2, <2>5, <2>8, <2>10 DEF CallOK
  <2>12. defs' \in [Rev -> Def] /\ \A r \in Rev : defs'[r] = IF r = c.rev THEN c.x ELSE defs[r]
    <3>1. defs \in [Rev -> Def]
      BY Types DEF Structure
    <3> QED
      BY <1>2, <2>5, <3>1
  <2>13. \E e \in CallType : /\ Becomes(a, e) /\ CallOK(e) /\ e.at = "save"
                           /\ e.op = c.op /\ e.rec = mem'
    BY <2>10, <2>11
  <2>14. mem' \in Record /\ mem'.head = c.rev /\ mem'.hash \in [Rev -> Def]
         /\ ((mem'.state = mem.state /\ mem'.cur = mem.cur) \/ mem'.cur = c.rev)
    BY <2>5, <2>7, <2>8
  <2>15. \A r \in Rev : mem'.hash[r] = IF r = c.rev /\ mem.hash[r] = NoDef THEN c.x ELSE mem.hash[r]
    BY <2>5, <2>7, <2>8
  <2> QED
    BY <1>1, <1>2, <1>3, <1>4, <1>6, <2>1, <2>12, <2>13, <2>14, <2>15
<1> QED
  BY <1>5, <1>6

(* What saving a record does.                                              *)
LEMMA SaveFits ==
  ASSUME Structure, NEW a \in Admin, Saved(a)
  PROVE  LET c == call[a] IN
         /\ up /\ c.at = "save" /\ c.rec \in Record
         /\ disk' = c.rec /\ Becomes(a, Idle) /\ hosted' = Live(mem'.state)
         /\ UNCHANGED <<up, refused, yaml, snaps, run, hist>>
         /\ mem = Absent => mem' = c.rec /\ defs' = c.rec.hash /\ c.rec.hash \in [Rev -> Def]
         /\ mem # Absent => UNCHANGED <<mem, defs>>
         /\ mem' \in Record
<1> DEFINE c == call[a]
<1>1. up /\ CallOK(c) /\ c.at = "save" /\ c.rec \in Record
  BY DEF Saved, At, Structure, CallOK
<1>2. disk' = c.rec /\ Becomes(a, Idle) /\ hosted' = Live(mem'.state)
      /\ UNCHANGED <<up, refused, yaml, snaps, run, hist>>
  BY DEF Saved, Returns, Becomes
<1>3. mem # Absent => UNCHANGED <<mem, defs>> /\ mem \in Record
  BY Types DEF Saved, Creates, Structure
<1>4. mem = Absent => mem' = c.rec /\ defs' = c.rec.hash /\ c.rec.hash \in [Rev -> Def]
  <2>1. mem = Absent => c.op \in {"import", "saveDraft"}
    BY <1>1 DEF Structure, Alone
  <2>2. c.rec.hash \in [Rev -> Def]
    BY <1>1 DEF Record, Def
  <2> QED
    BY <2>1, <2>2 DEF Saved, Creates
<1> QED
  BY <1>1, <1>2, <1>3, <1>4

(* What a transition without a new revision does.                          *)
LEMMA DirectFits ==
  ASSUME Structure, NEW a \in Admin, NEW c \in Ready(a), Direct(a, c)
  PROVE  /\ UNCHANGED <<up, refused, defs, hosted, files, run, hist>>
         /\ \/ Becomes(a, Idle) /\ mem' = mem
            \/ /\ mem' \in Record /\ mem'.hash = mem.hash /\ mem'.head = mem.head
               /\ \/ mem'.cur = mem.cur /\ (Live(mem'.state) => Live(mem.state) \/ mem.cur # 0)
                  \/ mem'.cur = mem.head
               /\ \E d \in CallType : Becomes(a, d) /\ CallOK(d) /\ d.at = "save" /\ d.rec = mem'
<1> USE Shapes
<1>1. up /\ mem \in Record /\ c \in CallType /\ c.op # "remove"
  BY ReadyFits
<1>2. UNCHANGED <<up, refused, defs, hosted, files, run, hist>> /\ Legal(mem.state, c.op) /\ ~NewText(c)
  BY DEF Direct
<1>3. Target(c.op) \in States /\ mem.head \in Rev /\ mem.cur \in 0..MaxRev /\ mem.head \in 0..MaxRev
  BY <1>1, <1>2, TargetFits DEF Record
<1>4. CASE c.op = "saveDraft"
  BY <1>2, <1>4 DEF Direct, Returns, Becomes
<1>5. CASE c.op # "saveDraft"
  <2>1. PICK cur : cur = IF c.op # "publish" THEN mem.cur
                         ELSE IF c.x = NoDef THEN mem.head ELSE Base(c.op)
    OBVIOUS
  <2>2. PICK rec : rec = [mem EXCEPT !.state = Target(c.op), !.cur = cur]
    OBVIOUS
  <2>3. mem' = rec /\ Becomes(a, [c EXCEPT !.at = "save", !.rec = rec])
    BY <1>5, <2>1, <2>2 DEF Direct
  <2>4. cur \in {mem.cur, mem.head} /\ cur \in 0..MaxRev
    BY <1>3, <2>1 DEF Base
  <2>5. rec \in Record /\ rec.hash = mem.hash /\ rec.head = mem.head /\ rec.cur = cur
        /\ rec.state = Target(c.op)
    BY <1>1, <1>3, <2>2, <2>4 DEF Record
  <2>6. cur = mem.head \/ (cur = mem.cur /\ (Live(Target(c.op)) => Live(mem.state) \/ mem.cur # 0))
    <3>1. CASE c.op = "publish"
      BY <2>1, <3>1 DEF Base
    <3>2. CASE c.op # "publish"
      BY <1>2, <1>5, <2>1, <3>2 DEF Legal, Live, Target
    <3> QED
      BY <3>1, <3>2
  <2>7. PICK d : d = [c EXCEPT !.at = "save", !.rec = rec]
    OBVIOUS
  <2>8. d \in CallType /\ d.at = "save" /\ d.op = c.op /\ d.rec = rec
    BY <1>1, <2>5, <2>7 DEF CallType
  <2>9. CallOK(d)
    BY <1>1, <2>5, <2>8 DEF CallOK
  <2>10. \E e \in CallType : Becomes(a, e) /\ CallOK(e) /\ e.at = "save" /\ e.rec = mem'
    BY <2>3, <2>7, <2>8, <2>9
  <2> QED
    BY <1>2, <2>3, <2>5, <2>6, <2>10
<1> QED
  BY <1>4, <1>5

(* What a step does that accepts a new revision, or refuses to.            *)
Accepted(a, d, r) ==
  /\ up /\ CallOK(d) /\ Becomes(a, d) /\ call[a].at # "save"
  /\ clash' = (clash \/ \E b \in Admin : call[b].at = "snap" /\ call[b].rev = r)
  /\ UNCHANGED <<up, refused, mem, defs, hosted, snaps, disk, run, life, crashes, faults>>
  /\ \/ ~Taken(r) /\ d.at = "snap" /\ d.rev = r /\ yaml' = yaml
     \/ d = Idle /\ yaml' \in {yaml, NoDef}
  /\ mem = Absent =>
       /\ call[a].at # "idle"
       /\ d.at = "snap" => /\ d.op \in {"import", "saveDraft"}
                          /\ d.rev = 1 /\ d.rec = First(d.op, d.x)

(* What accepting a new revision does.                                     *)
LEMMA AcceptFits ==
  ASSUME Structure, NEW a \in Admin, Genesis(a) \/ \E c \in Ready(a) : Append(a, c)
  PROVE  \E d \in CallType, r \in Rev : Accepted(a, d, r)
<1> USE Shapes
<1>1. CASE Genesis(a)
  <2> DEFINE c == call[a]
             rec == First(c.op, c.x)
  <2>1. up /\ c.at = "go" /\ mem = Absent /\ c.op \in {"import", "saveDraft"} /\ Allocate(a, c, 1, c.x, rec)
    BY <1>1 DEF Genesis, At, Creates
  <2>2. c \in CallType /\ c.x \in Content
    BY <2>1, Types DEF Structure, CallOK
  <2>3. rec \in Record
    BY <2>2, FirstFits
  <2> HIDE DEF rec
  <2>4. PICK d \in CallType :
           /\ CallOK(d) /\ Becomes(a, d)
           /\ \/ ~Taken(1) /\ d.at = "snap" /\ d.op = c.op /\ d.x = c.x /\ d.rev = 1 /\ d.rec = rec
                /\ yaml' = yaml
              \/ d = Idle /\ yaml' \in {yaml, NoDef}
    BY <2>1, <2>2, <2>3, Allocated
  <2>5. clash' = (clash \/ \E b \in Admin : call[b].at = "snap" /\ call[b].rev = 1)
        /\ UNCHANGED <<up, refused, entry, snaps, disk, run, life, crashes, faults>>
    BY <2>1 DEF Allocate
  <2>6. d.at = "snap" => d.rev = 1 /\ d.rec = First(d.op, d.x)
    BY <2>4 DEF rec
  <2>7. call[a].at # "idle" /\ (d.at = "snap" => d.op \in {"import", "saveDraft"})
    BY <2>1, <2>4
  <2>8. \/ ~Taken(1) /\ d.at = "snap" /\ d.rev = 1 /\ yaml' = yaml
        \/ d = Idle /\ yaml' \in {yaml, NoDef}
    BY <2>4
  <2> QED
    BY <2>1, <2>4, <2>5, <2>6, <2>7, <2>8, Shapes DEF Accepted, entry
<1>2. ASSUME NEW c \in Ready(a), Append(a, c)
      PROVE  \E d \in CallType, r \in Rev : Accepted(a, d, r)
  <2>1. up /\ mem # Absent /\ mem \in Record /\ c \in CallType /\ c.op # "remove" /\ call[a].at # "save"
        /\ (c.x # NoDef => c.x \in Content)
    BY ReadyFits
  <2>2. Legal(mem.state, c.op) /\ NewText(c) /\ mem.head < MaxRev
    BY <1>2 DEF Append
  <2>3. mem.head + 1 \in Rev
    BY <2>1, <2>2, LifecycleAssumption DEF Record, Rev, LifecycleAssumption
  <2>4. PICK rec : rec = [mem EXCEPT !.state = Target(c.op)]
    OBVIOUS
  <2>5. rec \in Record
    BY <2>1, <2>2, <2>4, TargetFits, StateSet
  <2>6. PICK x \in Content : Allocate(a, c, mem.head + 1, x, rec)
    <3>1. defs \in [Rev -> Def]
      BY Types DEF Structure
    <3>2. {defs[k] : k \in Rev} \ {NoDef} \subseteq Content
      BY <3>1 DEF Def
    <3>3. c.op # "rollback" => c.x # NoDef
      BY <2>2 DEF NewText
    <3> QED
      BY <1>2, <2>1, <2>4, <3>2, <3>3 DEF Append
  <2>7. PICK r \in Rev : r = mem.head + 1
    BY <2>3
  <2>8. Allocate(a, c, r, x, rec)
    BY <2>6, <2>7
  <2>9. PICK d \in CallType :
           /\ CallOK(d) /\ Becomes(a, d)
           /\ \/ ~Taken(r) /\ d.at = "snap" /\ d.op = c.op /\ d.x = x /\ d.rev = r /\ d.rec = rec
                /\ yaml' = yaml
              \/ d = Idle /\ yaml' \in {yaml, NoDef}
    BY <2>1, <2>5, <2>8, Allocated
  <2>10. clash' = (clash \/ \E b \in Admin : call[b].at = "snap" /\ call[b].rev = r)
        /\ UNCHANGED <<up, refused, entry, snaps, disk, run, life, crashes, faults>>
    BY <2>8 DEF Allocate
  <2>11. \/ ~Taken(r) /\ d.at = "snap" /\ d.rev = r /\ yaml' = yaml
         \/ d = Idle /\ yaml' \in {yaml, NoDef}
    BY <2>9
  <2> QED
    BY <2>1, <2>9, <2>10, <2>11 DEF Accepted, entry
<1> QED
  BY <1>1, <1>2

(* What a step does that only moves a call on.                             *)
Moved(a, d) ==
  /\ up /\ CallOK(d) /\ Becomes(a, d) /\ d.at \in {"idle", "file", "go", "wipe"}
  /\ UNCHANGED <<up, refused, mem, defs, hosted, run, crashes, clash>>
  /\ mem = Absent => call[a].at # "idle" \/ Quiet
  /\ mem = Absent /\ d.at \in {"file", "go"} => d.op \in {"import", "saveDraft"}
  /\ d.at = "wipe" => disk' = Absent /\ mem = Absent
  /\ snaps' # snaps => /\ snaps' = Empty /\ mem = Absent /\ disk = Absent
                      /\ yaml' = NoDef /\ d = Idle /\ disk' = disk
  /\ disk' # disk => disk' = Absent /\ mem = Absent
  /\ yaml' \in Def
  /\ life' # life => life' = life + 1 /\ life' <= MaxLife /\ Quiet /\ mem = Absent
  /\ faults' # faults => faults' = faults + 1 /\ faults' <= MaxFault
  /\ call[a].at = "idle" /\ mem = Absent => life' = life + 1 /\ UNCHANGED <<yaml, snaps, disk>>
  /\ faults' = faults => call[a].at # "save"

(* The calls that only move on.                                            *)
LEMMA MoveFits ==
  ASSUME Structure, NEW a \in Admin,
         \/ \E op \in Ops, x \in Content : Create(a, op, x) \/ Edit(a, op, x)
         \/ FileWritten(a) \/ WriteFails(a) \/ RecordGone(a) \/ SnapsGone(a)
         \/ \E c \in Ready(a) : Refuses(a, c)
  PROVE  \E d \in CallType : Moved(a, d)
<1> USE Shapes
<1>0. call \in [Admin -> CallType] /\ call[a] \in CallType /\ CallOK(call[a]) /\ yaml \in Def
      /\ life \in Nat /\ faults \in Nat /\ MaxLife \in Nat /\ MaxFault \in Nat
  BY Types, LifecycleAssumption DEF Structure, LifecycleAssumption
<1>1. ASSUME NEW op \in Ops, NEW x \in Content, Create(a, op, x) \/ Edit(a, op, x)
      PROVE  \E d \in CallType :
           /\ up /\ CallOK(d) /\ Becomes(a, d) /\ d.at = "file"
           /\ call[a].at = "idle"
           /\ UNCHANGED <<up, refused, entry, files, run, crashes, faults, clash>>
           /\ mem = Absent => d.op \in {"import", "saveDraft"} /\ Quiet /\ life' = life + 1 /\ life < MaxLife
           /\ mem # Absent => life' = life
  <2>1. PICK d : d = [Idle EXCEPT !.op = op, !.at = "file", !.x = x]
    OBVIOUS
  <2>2. d \in CallType /\ d.op = op /\ d.at = "file" /\ d.x = x
    BY <2>1 DEF CallType, Def, Idle
  <2>3. op # "remove"
    BY <1>1 DEF Create, Edit
  <2>4. CallOK(d)
    BY <2>2, <2>3 DEF CallOK
  <2>5. Becomes(a, d) /\ up /\ call[a].at = "idle"
        /\ UNCHANGED <<up, refused, entry, files, run, crashes, faults, clash>>
    BY <1>1, <2>1 DEF Create, Edit, At, hist
  <2>6. mem = Absent => d.op \in {"import", "saveDraft"} /\ Quiet /\ life' = life + 1 /\ life < MaxLife
    BY <1>1, <2>2 DEF Create, Edit
  <2>7. mem # Absent => life' = life
    BY <1>1 DEF Create, Edit, hist
  <2> QED
    BY <2>2, <2>4, <2>5, <2>6, <2>7
<1>2. CASE FileWritten(a)
  <2>1. PICK d : d = [call[a] EXCEPT !.at = "go"]
    OBVIOUS
  <2>2. up /\ call[a].at = "file" /\ yaml' = call[a].x /\ call[a].x \in Content
        /\ UNCHANGED <<up, refused, entry, snaps, disk, run, hist>> /\ Moves(a, "go")
    BY <1>0, <1>2 DEF FileWritten, At, CallOK
  <2>3. d \in CallType /\ d.op = call[a].op /\ d.at = "go" /\ d.x = call[a].x
    BY <1>0, <2>1 DEF CallType
  <2>4. CallOK(d)
    BY <1>0, <2>2, <2>3 DEF CallOK
  <2>5. Becomes(a, d)
    BY <1>0, <2>1, <2>2 DEF Moves, Becomes
  <2>6. mem = Absent => d.op \in {"import", "saveDraft"}
    BY <2>2, <2>3 DEF Structure, Alone
  <2>7. d.at = "go" /\ yaml' \in Def /\ snaps' = snaps /\ disk' = disk /\ life' = life /\ faults' = faults
    BY <2>2, <2>3 DEF Def, hist
  <2>8. UNCHANGED <<up, refused, entry, run, crashes, clash>>
    BY <2>2 DEF hist
  <2> QED
    BY <1>0, <2>2, <2>3, <2>4, <2>5, <2>6, <2>7, <2>8 DEF entry, Moved
<1>3. CASE WriteFails(a)
  <2>1. up /\ call[a].at \in {"file", "snap", "save"} /\ faults' = faults + 1 /\ faults < MaxFault
        /\ yaml' \in {yaml, NoDef} /\ Becomes(a, Idle)
        /\ UNCHANGED <<up, refused, entry, snaps, disk, run, life, crashes, clash>>
    BY <1>3 DEF WriteFails, Returns, Throws, Becomes
  <2>2. yaml' \in Def /\ faults' <= MaxFault
    BY <1>0, <2>1 DEF Def
  <2> QED
    BY <1>0, <2>1, <2>2 DEF entry, Moved
<1>4. CASE RecordGone(a)
  <2>1. PICK d : d = [call[a] EXCEPT !.at = "wipe"]
    OBVIOUS
  <2>2. up /\ call[a].at = "unlink" /\ disk' = Absent
        /\ UNCHANGED <<up, refused, entry, yaml, snaps, run, hist>> /\ Moves(a, "wipe")
    BY <1>4 DEF RecordGone, At
  <2>3. d \in CallType /\ d.op = call[a].op /\ d.at = "wipe"
    BY <1>0, <2>1 DEF CallType
  <2>4. CallOK(d)
    BY <1>0, <2>2, <2>3 DEF CallOK
  <2>5. Becomes(a, d)
    BY <1>0, <2>1, <2>2 DEF Moves, Becomes
  <2>6. mem = Absent
    BY <2>2 DEF Structure, Alone
  <2>7. UNCHANGED <<up, refused, entry, run, crashes, clash>> /\ life' = life /\ faults' = faults
    BY <2>2 DEF hist
  <2> QED
    BY <1>0, <2>2, <2>3, <2>4, <2>5, <2>6, <2>7 DEF entry, Moved
<1>5. CASE SnapsGone(a)
  <2>1. up /\ call[a].at = "wipe" /\ snaps' = Empty /\ yaml' = NoDef /\ Becomes(a, Idle)
        /\ UNCHANGED <<up, refused, entry, disk, run, hist>>
    BY <1>5 DEF SnapsGone, At, Returns, Becomes
  <2>2. mem = Absent /\ disk = Absent /\ yaml' \in Def
    BY <2>1 DEF Structure, Alone, Def
  <2>3. UNCHANGED <<up, refused, entry, run, crashes, clash>> /\ life' = life /\ faults' = faults
    BY <2>1 DEF hist
  <2> QED
    BY <1>0, <2>1, <2>2, <2>3 DEF entry, Moved
<1>6. CASE \E c \in Ready(a) : Refuses(a, c)
  <2>1. up /\ call[a].at = "go" /\ Becomes(a, Idle) /\ UNCHANGED <<up, refused, entry, files, run, hist>>
        /\ mem # Absent
    BY <1>6, ReadyFits DEF Refuses, At, Returns, Becomes
  <2>2. UNCHANGED <<up, refused, entry, run, crashes, clash>> /\ life' = life /\ faults' = faults
        /\ snaps' = snaps /\ disk' = disk /\ yaml' = yaml
    BY <2>1 DEF hist, files
  <2> QED
    BY <1>0, <2>1, <2>2 DEF entry, Moved
<1>7. CASE \E op \in Ops, x \in Content : Create(a, op, x) \/ Edit(a, op, x)
  <2>1. PICK d \in CallType :
           /\ up /\ CallOK(d) /\ Becomes(a, d) /\ d.at = "file"
           /\ call[a].at = "idle"
           /\ UNCHANGED <<up, refused, entry, files, run, crashes, faults, clash>>
           /\ mem = Absent => d.op \in {"import", "saveDraft"} /\ Quiet /\ life' = life + 1 /\ life < MaxLife
           /\ mem # Absent => life' = life
    BY <1>1, <1>7
  <2>2. life' # life => life' = life + 1 /\ life' <= MaxLife /\ Quiet /\ mem = Absent
    BY <1>0, <2>1
  <2>3. snaps' = snaps /\ disk' = disk /\ yaml' = yaml /\ faults' = faults
    BY <2>1 DEF files
  <2> QED
    BY <1>0, <2>1, <2>2, <2>3 DEF entry, Moved
<1> QED
  BY <1>2, <1>3, <1>4, <1>5, <1>6, <1>7

(* What boot does.                                                         *)
LEMMA BootFits ==
  ASSUME Structure, Boot
  PROVE  /\ ~up /\ up' \in BOOLEAN /\ refused' \in BOOLEAN /\ UNCHANGED <<call, run, hist>>
         /\ \/ UNCHANGED <<entry, files>>
            \/ /\ disk # Absent /\ disk \in Record /\ mem' = disk /\ hosted' = Live(disk.state)
               /\ defs' \in [Rev -> Def] /\ yaml # NoDef
               /\ \A r \in Rev : defs'[r] = IF disk.hash[r] = NoDef THEN NoDef ELSE snaps[r]
               /\ UNCHANGED files /\ up'
            \/ /\ disk = Absent /\ snaps[1] = NoDef /\ yaml \in Content
               /\ snaps' \in [Rev -> Def]
               /\ \A r \in Rev : snaps'[r] = IF r = 1 THEN yaml ELSE snaps[r]
               /\ mem' = First("import", yaml) /\ disk' = mem' /\ hosted' = TRUE /\ defs' = mem'.hash
               /\ UNCHANGED yaml /\ up'
<1> USE Shapes
<1>0. defs \in [Rev -> Def] /\ snaps \in [Rev -> Def] /\ yaml \in Def /\ disk \in Record \cup {Absent}
      /\ up \in BOOLEAN /\ refused \in BOOLEAN
  BY Types DEF Structure
<1>1. ~up /\ UNCHANGED <<call, run, hist>>
  BY DEF Boot
<1>2. up' \in BOOLEAN /\ refused' \in BOOLEAN
  <2>1. (up' = TRUE \/ up' = up) /\ (refused' = TRUE \/ refused' = refused)
    BY DEF Boot
  <2> QED
    BY <1>0, <2>1, Zenon
<1>3. CASE yaml = NoDef
  BY <1>1, <1>2, <1>3 DEF Boot
<1>4. CASE yaml # NoDef /\ disk # Absent
  <2>1. /\ up' = TRUE /\ mem' = disk /\ hosted' = Live(disk.state) /\ UNCHANGED <<refused, files>>
        /\ defs' = [r \in Rev |-> IF disk.hash[r] = NoDef THEN NoDef ELSE snaps[r]]
    BY <1>4 DEF Boot
  <2>2. defs' \in [Rev -> Def] /\ \A r \in Rev : defs'[r] = IF disk.hash[r] = NoDef THEN NoDef ELSE snaps[r]
    BY <1>0, <2>1 DEF Def
  <2> QED
    BY <1>0, <1>1, <1>2, <1>4, <2>1, <2>2
<1>5. CASE yaml # NoDef /\ disk = Absent /\ Taken(1)
  BY <1>1, <1>2, <1>5 DEF Boot
<1>6. CASE yaml # NoDef /\ disk = Absent /\ ~Taken(1)
  <2>1. /\ up' = TRUE /\ snaps' = [snaps EXCEPT ![1] = yaml] /\ disk' = First("import", yaml)
        /\ mem' = disk' /\ hosted' = TRUE /\ defs' = mem'.hash /\ UNCHANGED <<refused, yaml>>
    BY <1>6 DEF Boot
  <2>2. snaps' \in [Rev -> Def] /\ \A r \in Rev : snaps'[r] = IF r = 1 THEN yaml ELSE snaps[r]
    BY <1>0, <2>1
  <2>3. yaml \in Content /\ snaps[1] = NoDef
    BY <1>0, <1>6 DEF Def, Taken
  <2> QED
    BY <1>0, <1>1, <1>2, <1>6, <2>1, <2>2, <2>3
<1> QED
  BY <1>3, <1>4, <1>5, <1>6

(* The workflow is removed from memory.                                    *)
LEMMA RemoveFits ==
  ASSUME Structure, NEW a \in Admin, Remove(a)
  PROVE  /\ up /\ Quiet /\ mem # Absent /\ mem' = Absent /\ defs' = Empty /\ hosted' = FALSE
         /\ UNCHANGED <<up, refused, files, run, hist>>
         /\ \E d \in CallType : CallOK(d) /\ Becomes(a, d) /\ d.at = "unlink"
<1> USE Shapes
<1>1. PICK d : d = [Idle EXCEPT !.op = "remove", !.at = "unlink"]
  OBVIOUS
<1>2. d \in CallType /\ d.op = "remove" /\ d.at = "unlink"
  BY <1>1 DEF CallType, Ops, Idle
<1>3. CallOK(d)
  BY <1>2 DEF CallOK
<1> QED
  BY <1>1, <1>2, <1>3 DEF Remove, At

(* What a crash leaves.                                                    *)
LEMMA CrashFits ==
  ASSUME Structure, Crash
  PROVE  /\ up' = FALSE /\ mem' = Absent /\ defs' = Empty /\ hosted' = FALSE
         /\ crashes' \in 0..MaxCrash
         /\ call' \in [Admin -> CallType] /\ \A b \in Admin : call'[b] = Idle
         /\ UNCHANGED <<refused, files, run, life, faults, clash>>
<1> USE Shapes
<1>1. crashes' \in 0..MaxCrash
  BY Types, LifecycleAssumption DEF Crash, Structure, LifecycleAssumption
<1> QED
  BY <1>1 DEF Crash

(* The disjuncts of the next-state relation, as the lemmas above name them.*)
Moving(a) ==
  \/ \E op \in Ops, x \in Content : Create(a, op, x) \/ Edit(a, op, x)
  \/ FileWritten(a) \/ WriteFails(a) \/ RecordGone(a) \/ SnapsGone(a)
  \/ \E c \in Ready(a) : Refuses(a, c)

Accepting(a) == Genesis(a) \/ \E c \in Ready(a) : Append(a, c)

(* The steps, one by one.                                                  *)
LEMMA Cases ==
  ASSUME [Next]_vars
  PROVE  \/ \E a \in Admin :
              \/ Moving(a) \/ Accepting(a) \/ SnapWritten(a) \/ Saved(a) \/ Remove(a)
              \/ \E c \in Ready(a) : Direct(a, c)
         \/ RunBegins \/ Crash \/ Boot \/ UNCHANGED vars
BY DEF Next, Moving, Accepting

(* Every step keeps the types, and the calls what they are.                *)
LEMMA StructureStep ==
  ASSUME IInv, [Next]_vars
  PROVE  Structure'
<1> USE Shapes DEF IInv
<1>0. Structure /\ life \in Nat /\ MaxLife \in Nat /\ faults \in Nat /\ MaxFault \in Nat
  BY Types, LifecycleAssumption DEF Structure, LifecycleAssumption
<1>00. /\ up \in BOOLEAN /\ refused \in BOOLEAN /\ hosted \in BOOLEAN
       /\ mem \in Record \cup {Absent} /\ disk \in Record \cup {Absent}
       /\ defs \in [Rev -> Def] /\ snaps \in [Rev -> Def] /\ yaml \in Def
       /\ call \in [Admin -> CallType]
       /\ run \in [rev : 0..MaxRev, def : Def, life : 0..MaxLife]
       /\ life \in 0..MaxLife /\ crashes \in 0..MaxCrash /\ faults \in 0..MaxFault
       /\ clash \in BOOLEAN
  BY Types DEF Structure
<1>1. ASSUME NEW a \in Admin, Moving(a) PROVE Structure'
  <2>1. PICK d \in CallType : Moved(a, d)
    BY <1>0, <1>1, MoveFits DEF Moving
  <2>2. CallOK(d) /\ Becomes(a, d) /\ d.at \notin {"unlink", "snap", "save"} /\ up
        /\ (d.at = "wipe" => disk' = Absent /\ mem = Absent)
        /\ (mem = Absent => call[a].at # "idle" \/ Quiet)
        /\ (mem = Absent /\ d.at \in {"file", "go"} => d.op \in {"import", "saveDraft"})
        /\ UNCHANGED <<up, refused, mem, defs, hosted, run, crashes, clash>>
    BY <2>1 DEF Moved
  <2>3. call' \in [Admin -> CallType] /\ \A b \in Admin : CallOK(call'[b])
    BY <1>0, <2>2, CallChanges
  <2>4. Alone' /\ Gone'
    <3>1. CASE mem = Absent
      BY <1>0, <2>2, <3>1, Missing
    <3>2. CASE mem # Absent
      BY <1>0, <2>2, <3>2, Present
    <3> QED
      BY <3>1, <3>2
  <2>5. life' \in 0..MaxLife /\ faults' \in 0..MaxFault
    BY <1>0, <1>00, <2>1 DEF Moved
  <2>6. snaps' \in [Rev -> Def] /\ disk' \in Record \cup {Absent} /\ yaml' \in Def
    BY <1>00, <2>1 DEF Moved
  <2>7. TypeOK'
    BY <1>00, <2>2, <2>3, <2>5, <2>6, TypesNext
  <2> QED
    BY <2>3, <2>4, <2>7 DEF Structure
<1>2. ASSUME NEW a \in Admin, Accepting(a) PROVE Structure'
  <2>1. PICK d \in CallType, r \in Rev : Accepted(a, d, r)
    BY <1>0, <1>2, AcceptFits DEF Accepting
  <2>2. CallOK(d) /\ Becomes(a, d) /\ d.at \in {"snap", "idle"} /\ up
        /\ (mem = Absent => call[a].at # "idle")
        /\ (mem = Absent /\ d.at = "snap" => d.op \in {"import", "saveDraft"})
        /\ UNCHANGED <<up, refused, mem, defs, hosted, snaps, disk, run, life, crashes, faults>>
    BY <2>1 DEF Accepted
  <2>3. call' \in [Admin -> CallType] /\ \A b \in Admin : CallOK(call'[b])
    BY <1>0, <2>2, CallChanges
  <2>4. Alone' /\ Gone'
    <3>1. CASE mem = Absent
      BY <1>0, <2>2, <3>1, Missing
    <3>2. CASE mem # Absent
      BY <1>0, <2>2, <3>2, Present
    <3> QED
      BY <3>1, <3>2
  <2>5. yaml' \in Def
    BY <1>00, <2>1 DEF Accepted, Def
  <2>6. clash' \in BOOLEAN
    <3>1. clash' = (clash \/ \E b \in Admin : call[b].at = "snap" /\ call[b].rev = r)
      BY <2>1 DEF Accepted
    <3> QED
      BY <3>1, Zenon
  <2>7. TypeOK'
    BY <1>00, <2>2, <2>3, <2>5, <2>6, TypesNext
  <2> QED
    BY <2>3, <2>4, <2>7 DEF Structure
<1>3. ASSUME NEW a \in Admin, SnapWritten(a) PROVE Structure'
  <2>1. /\ up /\ snaps' \in [Rev -> Def] /\ UNCHANGED <<up, refused, hosted, yaml, disk, run, hist>>
        /\ mem' \in Record \cup {Absent} /\ defs' \in [Rev -> Def] /\ (mem' = Absent <=> mem = Absent)
        /\ (mem = Absent => UNCHANGED <<mem, defs>>) /\ call[a].at = "snap"
    BY <1>0, <1>00, <1>3, SnapFits
  <2>2. PICK d \in CallType : Becomes(a, d) /\ CallOK(d) /\ d.at = "save" /\ d.op = call[a].op
    BY <1>0, <1>3, SnapFits
  <2>3. call' \in [Admin -> CallType] /\ \A b \in Admin : CallOK(call'[b])
    BY <1>0, <2>2, CallChanges
  <2>4. Alone' /\ Gone'
    <3>1. CASE mem = Absent
      <4>1. call[a].op \in {"import", "saveDraft"}
        BY <1>0, <2>1, <3>1 DEF Structure, Alone
      <4> QED
        BY <1>0, <2>1, <2>2, <3>1, <4>1, Missing
    <3>2. CASE mem # Absent
      BY <1>0, <2>1, <2>2, <3>2, Present
    <3> QED
      BY <3>1, <3>2
  <2>5. TypeOK'
    BY <1>00, <2>1, <2>3, TypesNext DEF hist
  <2> QED
    BY <2>3, <2>4, <2>5 DEF Structure
<1>4. ASSUME NEW a \in Admin, Saved(a) PROVE Structure'
  <2>1. /\ up /\ call[a].at = "save" /\ disk' \in Record /\ Becomes(a, Idle) /\ hosted' = Live(mem'.state)
        /\ UNCHANGED <<up, refused, yaml, snaps, run, hist>>
        /\ mem' \in Record /\ defs' \in [Rev -> Def]
    BY <1>0, <1>00, <1>4, SaveFits
  <2>2. call' \in [Admin -> CallType] /\ \A b \in Admin : CallOK(call'[b])
    BY <1>0, <2>1, CallChanges
  <2>3. mem' # Absent
    BY <2>1
  <2>4. Alone' /\ Gone'
    <3>1. \A b \in Admin : call'[b] = IF b = a THEN Idle ELSE call[b]
      BY <1>0, <2>1, CallChanges
    <3>2. \A b \in Admin : b # a => call[b].at \notin {"unlink", "wipe"}
      BY <1>0, <2>1 DEF Structure, Alone
    <3> QED
      BY <2>1, <2>3, <3>1, <3>2 DEF Alone, Gone
  <2>5. hosted' \in BOOLEAN
    BY <2>1 DEF Live
  <2>6. TypeOK'
    BY <1>00, <2>1, <2>2, <2>5, TypesNext DEF hist
  <2> QED
    BY <2>2, <2>4, <2>6 DEF Structure
<1>5. ASSUME NEW a \in Admin, Remove(a) PROVE Structure'
  <2>1. /\ up /\ Quiet /\ mem' = Absent /\ defs' = Empty /\ hosted' = FALSE
        /\ UNCHANGED <<up, refused, files, run, hist>>
    BY <1>0, <1>5, RemoveFits
  <2>2. PICK d \in CallType : CallOK(d) /\ Becomes(a, d) /\ d.at = "unlink"
    BY <1>0, <1>5, RemoveFits
  <2>3. /\ call' \in [Admin -> CallType] /\ \A b \in Admin : CallOK(call'[b])
        /\ \A b \in Admin : call'[b] = IF b = a THEN d ELSE call[b]
    BY <1>0, <2>2, CallChanges
  <2>4. Alone' /\ Gone'
    BY <2>1, <2>2, <2>3 DEF Alone, Gone, Quiet
  <2>5. TypeOK'
    BY <1>00, <2>1, <2>3, TypesNext DEF hist, files
  <2> QED
    BY <2>3, <2>4, <2>5 DEF Structure
<1>6. ASSUME NEW a \in Admin, NEW c \in Ready(a), Direct(a, c) PROVE Structure'
  <2>1. UNCHANGED <<up, refused, defs, hosted, files, run, hist>> /\ mem' \in Record /\ up /\ mem # Absent
    BY <1>0, <1>6, DirectFits, ReadyFits
  <2>2. PICK d \in CallType : Becomes(a, d) /\ CallOK(d) /\ d.at \in {"idle", "save"}
    BY <1>0, <1>6, DirectFits
  <2>3. call' \in [Admin -> CallType] /\ \A b \in Admin : CallOK(call'[b])
    BY <1>0, <2>2, CallChanges
  <2>4. Alone' /\ Gone'
    BY <1>0, <2>1, <2>2, Present
  <2>5. TypeOK'
    BY <1>00, <2>1, <2>3, TypesNext DEF hist, files
  <2> QED
    BY <2>3, <2>4, <2>5 DEF Structure
<1>7. CASE RunBegins
  <2>1. UNCHANGED <<up, refused, entry, files, call, hist>> /\ mem \in Record
        /\ run' = [rev |-> mem.cur, def |-> defs[mem.cur], life |-> life] /\ mem.cur # 0
    BY <1>7, <1>00 DEF RunBegins
  <2>2. run' \in [rev : 0..MaxRev, def : Def, life : 0..MaxLife]
    <3>1. mem.cur \in Rev
      BY <2>1, LifecycleAssumption DEF Record, Rev, LifecycleAssumption
    <3> QED
      BY <1>00, <2>1, <3>1
  <2>3. TypeOK'
    BY <1>00, <2>1, <2>2, TypesNext DEF hist, files, entry
  <2>4. \A a \in Admin : CallOK(call'[a])
    BY <1>0, <2>1 DEF Structure
  <2>5. Alone' /\ Gone'
    BY <1>0, <2>1 DEF Structure, Alone, Gone, files, entry
  <2> QED
    BY <2>3, <2>4, <2>5 DEF Structure
<1>8. CASE Crash
  <2>1. /\ up' = FALSE /\ mem' = Absent /\ defs' = Empty /\ hosted' = FALSE
        /\ crashes' \in 0..MaxCrash
        /\ call' \in [Admin -> CallType] /\ \A b \in Admin : call'[b] = Idle
        /\ UNCHANGED <<refused, files, run, life, faults, clash>>
    BY <1>0, <1>8, CrashFits
  <2>2. TypeOK'
    BY <1>00, <2>1, TypesNext DEF files
  <2>3. Alone' /\ Gone' /\ \A a \in Admin : CallOK(call'[a])
    BY <2>1 DEF Alone, Gone
  <2> QED
    BY <2>2, <2>3 DEF Structure
<1>9. CASE Boot
  <2>1. ~up /\ up' \in BOOLEAN /\ refused' \in BOOLEAN /\ UNCHANGED <<call, run, hist>>
    BY <1>0, <1>9, BootFits
  <2>2. mem = Absent /\ \A a \in Admin : call[a] = Idle
    BY <1>0, <2>1 DEF Structure, Gone
  <2>3. /\ mem' \in Record \cup {Absent} /\ disk' \in Record \cup {Absent}
        /\ defs' \in [Rev -> Def] /\ snaps' \in [Rev -> Def] /\ yaml' \in Def /\ hosted' \in BOOLEAN
        /\ (mem' = Absent => defs' = Empty /\ ~hosted') /\ (~up' => mem' = Absent)
    <3>1. CASE UNCHANGED <<entry, files>>
      BY <1>0, <1>00, <2>2, <3>1 DEF entry, files, Structure, Gone
    <3>2. CASE /\ disk # Absent /\ disk \in Record /\ mem' = disk /\ hosted' = Live(disk.state)
               /\ defs' \in [Rev -> Def] /\ UNCHANGED files /\ up'
      <4>1. hosted' \in BOOLEAN
        BY <3>2 DEF Live
      <4> QED
        BY <1>00, <3>2, <4>1 DEF files
    <3>3. CASE /\ yaml \in Content /\ snaps' \in [Rev -> Def]
               /\ mem' = First("import", yaml) /\ disk' = mem' /\ hosted' = TRUE /\ defs' = mem'.hash
               /\ UNCHANGED yaml /\ up'
      <4>1. mem' \in Record /\ mem'.hash \in [Rev -> Def]
        BY <3>3, FirstFits
      <4> QED
        BY <1>00, <3>3, <4>1
    <3> QED
      BY <1>0, <1>9, <3>1, <3>2, <3>3, BootFits
  <2>4. TypeOK'
    BY <1>00, <2>1, <2>3, TypesNext DEF hist
  <2>5. Alone' /\ Gone' /\ \A a \in Admin : CallOK(call'[a])
    BY <2>1, <2>2, <2>3 DEF Alone, Gone
  <2> QED
    BY <2>4, <2>5 DEF Structure
<1>10. CASE UNCHANGED vars
  <2>1. UNCHANGED <<up, refused, mem, defs, hosted, yaml, snaps, disk, call, run, life, crashes, faults, clash>>
    BY <1>10 DEF vars, entry, files, hist
  <2>2. TypeOK'
    BY <1>00, <2>1, TypesNext
  <2>3. Alone' /\ Gone' /\ \A a \in Admin : CallOK(call'[a])
    BY <1>0, <2>1 DEF Structure, Alone, Gone
  <2> QED
    BY <2>2, <2>3 DEF Structure
<1> QED
  BY <1>1, <1>2, <1>3, <1>4, <1>5, <1>6, <1>7, <1>8, <1>9, <1>10, Cases

-----------------------------------------------------------------------------
(* The other parts                                                         *)

(* More snapshots do not hurt a record.                                    *)
LEMMA StaysGood ==
  ASSUME NEW rec, NEW old, NEW new, Good(rec, old), \A r \in Rev : old[r] # NoDef => new[r] # NoDef
  PROVE  Good(rec, new)
BY DEF Good

(* The record of a new workflow is good once its snapshot is written.      *)
LEMMA FirstGood ==
  ASSUME NEW op, NEW x \in Content, NEW written, written[1] = x
  PROVE  Good(First(op, x), written)
BY FirstFits, Shapes DEF Good

(* A step that only moves a call on.                                       *)
LEMMA MovesOn ==
  ASSUME IInv, NEW a \in Admin, Moving(a)
  PROVE  Records' /\ Definitions' /\ Apart' /\ Bound' /\ Synced'
<1> USE Shapes DEF IInv
<1>0. Structure /\ TypeOK /\ call \in [Admin -> CallType]
  BY Types DEF Structure
<1>1. PICK d \in CallType : Moved(a, d)
  BY <1>0, MoveFits DEF Moving
<1>2. CallOK(d) /\ Becomes(a, d) /\ d.at \notin {"snap", "save"} /\ UNCHANGED <<up, mem, defs, hosted, run, clash>>
  BY <1>1 DEF Moved
<1>3. \A b \in Admin : call'[b] = IF b = a THEN d ELSE call[b]
  BY <1>0, <1>2, CallChanges
<1>4. snaps' # snaps => /\ snaps' = Empty /\ mem = Absent /\ disk' = Absent /\ yaml' = NoDef
                        /\ defs = Empty /\ \A b \in Admin : call'[b].at = "idle"
  <2> SUFFICES ASSUME snaps' # snaps
               PROVE  /\ snaps' = Empty /\ mem = Absent /\ disk' = Absent /\ yaml' = NoDef
                      /\ defs = Empty /\ \A b \in Admin : call'[b].at = "idle"
    OBVIOUS
  <2>1. snaps' = Empty /\ mem = Absent /\ disk' = Absent /\ yaml' = NoDef /\ d = Idle
    BY <1>1 DEF Moved
  <2>2. \A b \in Admin : b # a => call[b].at = "idle"
    BY <1>0, <1>1, <2>1 DEF Moved, Structure, Alone, Quiet
  <2> QED
    BY <1>0, <1>3, <2>1, <2>2 DEF Structure, Gone
<1>5. disk' = disk \/ disk' = Absent
  BY <1>1 DEF Moved
<1>6. Records'
  <2>1. CASE snaps' = snaps
    <3>1. (mem' # Absent => Good(mem, snaps)') /\ (disk' # Absent => Good(disk, snaps)')
      BY <1>2, <1>5, <2>1 DEF Records
    <3>2. \A b \in Admin : call'[b].at = "save" => Good(call'[b].rec, snaps')
      BY <1>2, <1>3, <2>1 DEF Records
    <3>3. mem' = Absent => \A b \in Admin :
            /\ call'[b].at = "snap" => call'[b].rev = 1 /\ call'[b].rec = First(call'[b].op, call'[b].x)
            /\ call'[b].at = "save" => \A r \in Rev : call'[b].rec.hash[r] \in {NoDef, snaps'[r]}
      BY <1>2, <1>3, <2>1 DEF Records
    <3> QED
      BY <3>1, <3>2, <3>3 DEF Records
  <2>2. CASE snaps' # snaps
    BY <1>2, <1>4, <2>2 DEF Records
  <2> QED
    BY <2>1, <2>2
<1>7. Definitions'
  <2>1. CASE snaps' = snaps
    BY <1>2, <2>1 DEF Definitions
  <2>2. CASE snaps' # snaps
    BY <1>0, <1>2, <1>4, <2>2 DEF Definitions, Structure, Gone
  <2> QED
    BY <2>1, <2>2
<1>8. Apart'
  BY <1>2, <1>3, <1>4 DEF Apart
<1>9. Bound'
  <2>1. life' = life \/ (life' = life + 1 /\ life \in Nat)
    BY <1>0, <1>1, Types DEF Moved
  <2>2. run.life \in Nat /\ life \in Nat
    BY <1>0, Types
  <2>3. run'.life <= life'
    BY <1>2, <2>1, <2>2 DEF Bound
  <2>4. ASSUME run.rev # 0, run.life = life', ~clash
        PROVE  snaps'[run.rev] = run.def \/ Wiped'
    <3>1. life' = life
      BY <2>1, <2>2, <2>4 DEF Bound
    <3>2. CASE snaps' # snaps
      BY <1>2, <1>4, <3>2 DEF Wiped, Quiet
    <3>3. CASE snaps' = snaps
      <4>1. snaps[run.rev] = run.def \/ Wiped
        BY <2>4, <3>1 DEF Bound
      <4>2. ~Wiped
        BY <1>0, <1>1, <2>2, <3>1 DEF Wiped, Quiet, Moved
      <4> QED
        BY <3>3, <4>1, <4>2
    <3> QED
      BY <3>2, <3>3
  <2> QED
    BY <1>2, <2>3, <2>4 DEF Bound
<1>10. Synced'
  <2> SUFFICES ASSUME up', faults' = 0, \A b \in Admin : call'[b].at # "save"
               PROVE  hosted' <=> (mem' # Absent /\ Live(mem'.state))
    BY DEF Synced
  <2>1. faults \in Nat /\ (faults' = faults \/ faults' = faults + 1)
    BY <1>0, <1>1, Types DEF Moved
  <2>2. faults' = faults /\ faults = 0
    BY <2>1
  <2>3. \A b \in Admin : call[b].at # "save"
    BY <1>1, <1>3, <2>2 DEF Moved
  <2> QED
    BY <1>2, <2>2, <2>3 DEF Synced
<1> QED
  BY <1>6, <1>7, <1>8, <1>9, <1>10

(* A step that accepts a new revision.                                     *)
LEMMA Accepts ==
  ASSUME IInv, NEW a \in Admin, Accepting(a)
  PROVE  Records' /\ Definitions' /\ Apart' /\ Bound' /\ Synced'
<1> USE Shapes DEF IInv
<1>0. Structure /\ TypeOK /\ call \in [Admin -> CallType]
  BY Types DEF Structure
<1>1. PICK d \in CallType, r \in Rev : Accepted(a, d, r)
  BY <1>0, AcceptFits DEF Accepting
<1>2. CallOK(d) /\ Becomes(a, d) /\ d.at \in {"snap", "idle"} /\ call[a].at # "save"
      /\ UNCHANGED <<up, mem, defs, hosted, snaps, disk, run, life, faults>>
  BY <1>1 DEF Accepted
<1>3. \A b \in Admin : call'[b] = IF b = a THEN d ELSE call[b]
  BY <1>0, <1>2, CallChanges
<1>4. Records'
  <2>1. (mem' # Absent => Good(mem, snaps)') /\ (disk' # Absent => Good(disk, snaps)')
    BY <1>2 DEF Records
  <2>2. \A b \in Admin : call'[b].at = "save" => Good(call'[b].rec, snaps')
    BY <1>2, <1>3 DEF Records
  <2>3. mem = Absent /\ d.at = "snap" => d.rev = 1 /\ d.rec = First(d.op, d.x)
    BY <1>1 DEF Accepted
  <2>4. mem' = Absent => \A b \in Admin :
            /\ call'[b].at = "snap" => call'[b].rev = 1 /\ call'[b].rec = First(call'[b].op, call'[b].x)
            /\ call'[b].at = "save" => \A k \in Rev : call'[b].rec.hash[k] \in {NoDef, snaps'[k]}
    BY <1>2, <1>3, <2>3 DEF Records
  <2> QED
    BY <2>1, <2>2, <2>4 DEF Records
<1>5. Definitions'
  BY <1>2 DEF Definitions
<1>6. Apart'
  <2> SUFFICES ASSUME ~clash', NEW b \in Admin, call'[b].at = "snap"
               PROVE  /\ snaps'[call'[b].rev] = NoDef
                      /\ \A e \in Admin \ {b} : call'[e].at = "snap" => call'[b].rev # call'[e].rev
    BY DEF Apart
  <2>1. ~clash /\ \A e \in Admin : ~(call[e].at = "snap" /\ call[e].rev = r)
    BY <1>1 DEF Accepted
  <2>2. d.at = "snap" => d.rev = r /\ snaps[r] = NoDef
    BY <1>1 DEF Accepted, Taken
  <2> QED
    BY <1>2, <1>3, <2>1, <2>2 DEF Apart
<1>7. Bound'
  <2>1. mem = Absent => call[a].at # "idle"
    BY <1>1 DEF Accepted
  <2>2. ~Wiped
    BY <2>1 DEF Wiped, Quiet
  <2>3. clash => clash'
    BY <1>1 DEF Accepted
  <2> QED
    BY <1>2, <2>2, <2>3 DEF Bound
<1>8. Synced'
  <2>1. (\A b \in Admin : call'[b].at # "save") => \A b \in Admin : call[b].at # "save"
    BY <1>2, <1>3
  <2> QED
    BY <1>2, <2>1 DEF Synced
<1> QED
  BY <1>4, <1>5, <1>6, <1>7, <1>8

(* A snapshot is written.                                                  *)
LEMMA Snaps ==
  ASSUME IInv, NEW a \in Admin, SnapWritten(a)
  PROVE  Records' /\ Definitions' /\ Apart' /\ Bound' /\ Synced'
<1> USE Shapes DEF IInv
<1>0. Structure /\ TypeOK /\ call \in [Admin -> CallType]
  BY Types DEF Structure
<1> DEFINE c == call[a]
<1>1. /\ up /\ c \in CallType /\ c.at = "snap" /\ c.x \in Content /\ c.x # NoDef /\ c.rev \in Rev /\ c.rec \in Record
      /\ \A r \in Rev : snaps'[r] = IF r = c.rev THEN c.x ELSE snaps[r]
      /\ UNCHANGED <<up, hosted, disk, run, life, clash, faults>>
  BY <1>0, SnapFits, LifecycleAssumption DEF hist, LifecycleAssumption
<1>2. PICK d \in CallType :
        /\ Becomes(a, d) /\ CallOK(d) /\ d.at = "save" /\ d.op = c.op
        /\ d.rec = IF mem = Absent THEN c.rec ELSE mem'
  BY <1>0, SnapFits
<1>3. \A b \in Admin : call'[b] = IF b = a THEN d ELSE call[b]
  BY <1>0, <1>2, CallChanges
<1>4. mem = Absent => UNCHANGED <<mem, defs>>
  BY <1>0, SnapFits
<1>5. mem # Absent =>
              /\ mem \in Record /\ mem' \in Record /\ mem'.head = c.rev
              /\ \A r \in Rev : mem'.hash[r] = IF r = c.rev /\ mem.hash[r] = NoDef THEN c.x ELSE mem.hash[r]
              /\ \/ mem'.state = mem.state /\ mem'.cur = mem.cur
                 \/ mem'.cur = c.rev
              /\ \A r \in Rev : defs'[r] = IF r = c.rev THEN c.x ELSE defs[r]
  BY <1>0, SnapFits
<1>6. \A r \in Rev : snaps[r] # NoDef => snaps'[r] # NoDef
  BY <1>1
<1>7. c.rev # 0
  BY <1>1 DEF Rev
<1>8. mem # Absent => Good(mem', snaps')
  <2> SUFFICES ASSUME mem # Absent PROVE Good(mem', snaps')
    OBVIOUS
  <2>1. Good(mem, snaps)
    BY DEF Records
  <2>2. mem'.hash[c.rev] # NoDef
    BY <1>1, <1>5
  <2>3. mem'.cur # 0 => mem'.hash[mem'.cur] # NoDef
    <3>1. CASE mem'.cur = c.rev
      BY <2>2, <3>1
    <3>2. CASE mem'.cur = mem.cur /\ mem'.cur # 0
      <4>1. mem.cur \in Rev
        BY <1>5, <3>2 DEF Record, Rev
      <4>2. mem.hash[mem.cur] # NoDef
        BY <2>1, <3>2 DEF Good
      <4>3. mem'.hash[mem.cur] \in {mem.hash[mem.cur], c.x}
        BY <1>5, <4>1
      <4> QED
        BY <1>1, <3>2, <4>2, <4>3
    <3> QED
      BY <1>5, <3>1, <3>2
  <2>4. Live(mem'.state) => mem'.cur # 0
    BY <1>5, <1>7, <2>1 DEF Good
  <2>5. \A r \in Rev : mem'.hash[r] # NoDef => snaps'[r] # NoDef
    BY <1>1, <1>5, <2>1 DEF Good
  <2> QED
    BY <1>5, <2>2, <2>3, <2>4, <2>5 DEF Good
<1>9. mem = Absent => /\ Good(c.rec, snaps') /\ c.rev = 1
                      /\ \A r \in Rev : c.rec.hash[r] \in {NoDef, snaps'[r]}
  <2> SUFFICES ASSUME mem = Absent
               PROVE  /\ Good(c.rec, snaps') /\ c.rev = 1
                      /\ \A r \in Rev : c.rec.hash[r] \in {NoDef, snaps'[r]}
    OBVIOUS
  <2>1. c.rev = 1 /\ c.rec = First(c.op, c.x)
    BY <1>1 DEF Records
  <2>2. snaps'[1] = c.x
    BY <1>1, <2>1
  <2>3. Good(c.rec, snaps')
    BY <1>1, <2>1, <2>2, FirstGood
  <2>4. \A r \in Rev : c.rec.hash[r] \in {NoDef, snaps'[r]}
    BY <1>1, <2>1, <2>2, FirstFits
  <2> QED
    BY <2>1, <2>3, <2>4
<1>10. mem = Absent => \A b \in Admin : b # a => call[b].at = "idle"
  BY <1>0, <1>1 DEF Structure, Alone
<1> HIDE DEF c
<1>11. Records'
  <2>1. (mem' # Absent => Good(mem', snaps')) /\ (disk' # Absent => Good(disk', snaps'))
    BY <1>1, <1>4, <1>6, <1>8, StaysGood DEF Records
  <2>2. ASSUME NEW b \in Admin, call'[b].at = "save" PROVE Good(call'[b].rec, snaps')
    <3>1. CASE b = a
      BY <1>2, <1>3, <1>8, <1>9, <3>1
    <3>2. CASE b # a
      <4>1. Good(call[b].rec, snaps)
        BY <1>3, <2>2, <3>2 DEF Records
      <4> QED
        BY <1>3, <1>6, <3>2, <4>1, StaysGood
    <3> QED
      BY <3>1, <3>2
  <2>3. mem' = Absent => mem = Absent
    BY <1>5
  <2>4. mem' = Absent => \A b \in Admin :
            /\ call'[b].at = "snap" => call'[b].rev = 1 /\ call'[b].rec = First(call'[b].op, call'[b].x)
            /\ call'[b].at = "save" => \A k \in Rev : call'[b].rec.hash[k] \in {NoDef, snaps'[k]}
    BY <1>2, <1>3, <1>9, <1>10, <2>3
  <2> QED
    BY <2>1, <2>2, <2>4 DEF Records
<1>12. Definitions'
  <2>1. CASE mem = Absent
    <3>1. defs' = Empty /\ ~hosted /\ mem' = Absent
      BY <1>0, <1>4, <2>1 DEF Structure, Gone
    <3> QED
      BY <1>1, <3>1 DEF Definitions
  <2>2. CASE mem # Absent
    <3>1. \A r \in Rev : defs'[r] \in {NoDef, snaps'[r]}
      BY <1>1, <1>5, <2>2 DEF Definitions
    <3>2. \A r \in Rev : mem'.hash[r] # NoDef => defs'[r] # NoDef
      BY <1>1, <1>5, <2>2 DEF Definitions
    <3>3. hosted' => mem'.cur # 0
      BY <1>1, <1>5, <1>7, <2>2 DEF Definitions
    <3> QED
      BY <3>1, <3>2, <3>3 DEF Definitions
  <2> QED
    BY <2>1, <2>2
<1>13. Apart'
  <2> SUFFICES ASSUME ~clash', NEW b \in Admin, call'[b].at = "snap"
               PROVE  /\ snaps'[call'[b].rev] = NoDef
                      /\ \A e \in Admin \ {b} : call'[e].at = "snap" => call'[b].rev # call'[e].rev
    BY DEF Apart
  <2>1. b # a /\ call'[b] = call[b]
    BY <1>2, <1>3
  <2>2. snaps[call[b].rev] = NoDef /\ call[b].rev # call[a].rev /\ call[b].rev \in Rev
    BY <1>0, <1>1, <2>1 DEF Apart, Structure, CallOK, c
  <2>3. snaps'[call[b].rev] = NoDef
    BY <1>1, <2>2 DEF c
  <2>4. \A e \in Admin \ {b} : call'[e].at = "snap" => call[b].rev # call'[e].rev
    BY <1>1, <1>2, <1>3, <2>1 DEF Apart, c
  <2> QED
    BY <2>1, <2>3, <2>4
<1>14. Bound'
  <2>1. ~Wiped
    BY <1>1 DEF Wiped, Quiet, c
  <2>2. ASSUME run.rev # 0, run.life = life, ~clash PROVE snaps'[run.rev] = run.def
    <3>1. snaps[run.rev] = run.def /\ run.def # NoDef /\ run.rev \in Rev
      BY <1>0, <2>1, <2>2, Types DEF Bound, Rev
    <3>2. snaps[c.rev] = NoDef
      BY <1>1, <2>2 DEF Apart, c
    <3> QED
      BY <1>1, <3>1, <3>2
  <2> QED
    BY <1>1, <2>2 DEF Bound
<1>15. Synced'
  BY <1>2, <1>3 DEF Synced
<1> QED
  BY <1>11, <1>12, <1>13, <1>14, <1>15

(* A record is saved.                                                      *)
LEMMA Saves ==
  ASSUME IInv, NEW a \in Admin, Saved(a)
  PROVE  Records' /\ Definitions' /\ Apart' /\ Bound' /\ Synced'
<1> USE Shapes DEF IInv
<1>0. Structure /\ TypeOK /\ call \in [Admin -> CallType]
  BY Types DEF Structure
<1> DEFINE c == call[a]
<1>1. /\ up /\ c.at = "save" /\ disk' = c.rec /\ Becomes(a, Idle) /\ hosted' = Live(mem'.state)
      /\ UNCHANGED <<up, snaps, run, life, clash, faults>>
      /\ (mem = Absent => mem' = c.rec /\ defs' = c.rec.hash)
      /\ (mem # Absent => UNCHANGED <<mem, defs>>)
      /\ mem' \in Record
  BY <1>0, SaveFits DEF hist
<1>2. \A b \in Admin : call'[b] = IF b = a THEN Idle ELSE call[b]
  BY <1>0, <1>1, CallChanges
<1>3. Good(c.rec, snaps)
  BY <1>1 DEF Records
<1>4. mem' # Absent /\ Good(mem', snaps')
  BY <1>1, <1>3 DEF Records
<1>5. Records'
  BY <1>1, <1>2, <1>3, <1>4 DEF Records
<1>6. Definitions'
  <2>1. CASE mem = Absent
    BY <1>1, <1>4, <2>1 DEF Definitions, Records, Good
  <2>2. CASE mem # Absent
    BY <1>1, <1>4, <2>2 DEF Definitions, Good
  <2> QED
    BY <2>1, <2>2
<1>7. Apart'
  BY <1>1, <1>2 DEF Apart
<1>8. Bound'
  <2>1. ~Wiped
    BY <1>1 DEF Wiped, Quiet
  <2> QED
    BY <1>1, <2>1 DEF Bound
<1>9. Synced'
  BY <1>1, <1>4 DEF Synced
<1> QED
  BY <1>5, <1>6, <1>7, <1>8, <1>9

(* A transition without a new revision.                                    *)
LEMMA Directs ==
  ASSUME IInv, NEW a \in Admin, NEW c \in Ready(a), Direct(a, c)
  PROVE  Records' /\ Definitions' /\ Apart' /\ Bound' /\ Synced'
<1> USE Shapes DEF IInv
<1>0. Structure /\ TypeOK /\ call \in [Admin -> CallType]
  BY Types DEF Structure
<1>1. UNCHANGED <<up, defs, hosted, yaml, snaps, disk, run, life, clash, faults>>
  BY <1>0, DirectFits DEF files, hist
<1>2. up /\ mem # Absent /\ mem \in Record /\ call[a].at # "save"
  BY <1>0, ReadyFits
<1>3. PICK d \in CallType :
        /\ Becomes(a, d) /\ CallOK(d)
        /\ \/ d = Idle /\ mem' = mem
           \/ /\ d.at = "save" /\ d.rec = mem'
              /\ mem' \in Record /\ mem'.hash = mem.hash /\ mem'.head = mem.head
              /\ \/ mem'.cur = mem.cur /\ (Live(mem'.state) => Live(mem.state) \/ mem.cur # 0)
                 \/ mem'.cur = mem.head
  BY <1>0, DirectFits
<1>4. \A b \in Admin : call'[b] = IF b = a THEN d ELSE call[b]
  BY <1>0, <1>3, CallChanges
<1>5. mem' # Absent /\ mem.head # 0 /\ mem'.hash = mem.hash
  BY <1>2, <1>3 DEF Record, Rev
<1>6. Good(mem', snaps')
  BY <1>1, <1>2, <1>3, <1>5 DEF Records, Good
<1>7. Records'
  <2>1. \A b \in Admin : call'[b].at = "save" => Good(call'[b].rec, snaps')
    BY <1>1, <1>3, <1>4, <1>6 DEF Records
  <2> QED
    BY <1>1, <1>5, <1>6, <2>1 DEF Records
<1>8. Definitions'
  BY <1>1, <1>2, <1>3, <1>5 DEF Definitions
<1>9. Apart'
  BY <1>1, <1>3, <1>4 DEF Apart
<1>10. Bound'
  BY <1>1, <1>2 DEF Bound, Wiped
<1>11. Synced'
  <2>1. CASE d = Idle /\ mem' = mem
    <3>1. (\A b \in Admin : call'[b].at # "save") => \A b \in Admin : call[b].at # "save"
      BY <1>2, <1>4
    <3> QED
      BY <1>1, <2>1, <3>1 DEF Synced
  <2>2. CASE d.at = "save"
    BY <1>4, <2>2 DEF Synced
  <2> QED
    BY <1>3, <2>1, <2>2
<1> QED
  BY <1>7, <1>8, <1>9, <1>10, <1>11

(* The workflow is removed, or the host dies.                              *)
LEMMA Empties ==
  ASSUME IInv, (\E a \in Admin : Remove(a)) \/ Crash
  PROVE  Records' /\ Definitions' /\ Apart' /\ Bound' /\ Synced'
<1> USE Shapes DEF IInv
<1>0. Structure /\ TypeOK /\ call \in [Admin -> CallType]
  BY Types DEF Structure
<1>1. /\ mem' = Absent /\ defs' = Empty /\ hosted' = FALSE
      /\ UNCHANGED <<yaml, snaps, disk, run, life, clash>>
      /\ \A b \in Admin : call'[b].at \notin {"snap", "save"}
      /\ Wiped => \A b \in Admin : call'[b].at = "idle"
  <2>1. CASE Crash
    BY <1>0, <2>1, CrashFits DEF files
  <2>2. CASE \E a \in Admin : Remove(a)
    <3>1. PICK a \in Admin : Remove(a)
      BY <2>2
    <3>2. PICK d \in CallType : CallOK(d) /\ Becomes(a, d) /\ d.at = "unlink"
      BY <1>0, <3>1, RemoveFits
    <3>3. \A b \in Admin : call'[b] = IF b = a THEN d ELSE call[b]
      BY <1>0, <3>2, CallChanges
    <3> QED
      BY <1>0, <3>1, <3>2, <3>3, RemoveFits DEF Quiet, Wiped, files, hist
  <2> QED
    BY <2>1, <2>2
<1>2. Records'
  BY <1>1 DEF Records
<1>3. Definitions' /\ Apart' /\ Synced'
  BY <1>1 DEF Definitions, Apart, Synced
<1>4. Bound'
  BY <1>1 DEF Bound, Wiped, Quiet
<1> QED
  BY <1>2, <1>3, <1>4

(* A run begins.                                                           *)
LEMMA Begins ==
  ASSUME IInv, RunBegins
  PROVE  Records' /\ Definitions' /\ Apart' /\ Bound' /\ Synced'
<1> USE Shapes DEF IInv
<1>1. /\ UNCHANGED <<up, mem, defs, hosted, yaml, snaps, disk, call, life, faults, clash>>
      /\ mem # Absent /\ mem.cur # 0
      /\ run' = [rev |-> mem.cur, def |-> defs[mem.cur], life |-> life]
  BY DEF RunBegins, entry, files, hist
<1>2. mem.cur \in Rev /\ life \in Nat
  BY <1>1, Types DEF Structure, Record, Rev
<1>3. mem.hash[mem.cur] # NoDef
  BY <1>1 DEF Records, Good
<1>4. defs[mem.cur] # NoDef /\ defs[mem.cur] = snaps[mem.cur]
  BY <1>1, <1>2, <1>3 DEF Definitions
<1>5. Bound'
  BY <1>1, <1>2, <1>4 DEF Bound
<1>6. Records'
  BY <1>1 DEF Records
<1>7. Definitions' /\ Apart' /\ Synced'
  BY <1>1 DEF Definitions, Apart, Synced
<1> QED
  BY <1>5, <1>6, <1>7

(* The host boots.                                                         *)
LEMMA Boots ==
  ASSUME IInv, Boot
  PROVE  Records' /\ Definitions' /\ Apart' /\ Bound' /\ Synced'
<1> USE Shapes DEF IInv
<1>0. Structure /\ ~up /\ UNCHANGED <<call, run, life, faults, clash>>
  BY BootFits DEF hist
<1>1. mem = Absent /\ ~hosted /\ defs = Empty /\ \A a \in Admin : call[a].at = "idle" /\ call'[a].at = "idle"
  BY <1>0 DEF Structure, Gone
<1>2. Apart'
  BY <1>1 DEF Apart
<1>3. CASE UNCHANGED <<entry, files>>
  <2>1. UNCHANGED <<mem, defs, hosted, yaml, snaps, disk>>
    BY <1>3 DEF entry, files
  <2>2. Records' /\ Definitions'
    BY <1>1, <2>1 DEF Records, Definitions
  <2>3. Bound' /\ Synced'
    BY <1>0, <1>1, <2>1 DEF Bound, Wiped, Quiet, Synced
  <2> QED
    BY <1>2, <2>2, <2>3
<1>4. CASE /\ disk # Absent /\ disk \in Record /\ mem' = disk /\ hosted' = Live(disk.state)
           /\ yaml # NoDef
           /\ \A r \in Rev : defs'[r] = IF disk.hash[r] = NoDef THEN NoDef ELSE snaps[r]
           /\ UNCHANGED files
  <2>1. UNCHANGED <<yaml, snaps, disk>> /\ Good(disk, snaps)
    BY <1>4 DEF files, Records
  <2>2. Records'
    BY <1>1, <1>4, <2>1 DEF Records
  <2>3. Definitions'
    BY <1>4, <2>1 DEF Definitions, Good
  <2>4. Bound' /\ Synced'
    BY <1>0, <1>4, <2>1 DEF Bound, Wiped, Synced
  <2> QED
    BY <1>2, <2>2, <2>3, <2>4
<1>5. CASE /\ disk = Absent /\ snaps[1] = NoDef /\ yaml \in Content
           /\ \A r \in Rev : snaps'[r] = IF r = 1 THEN yaml ELSE snaps[r]
           /\ mem' = First("import", yaml) /\ disk' = mem' /\ hosted' = TRUE /\ defs' = mem'.hash
  <2>1. /\ mem' # Absent /\ mem'.cur = 1 /\ Live(mem'.state) /\ mem'.hash[1] = yaml /\ yaml # NoDef
        /\ \A r \in Rev : r # 1 => mem'.hash[r] = NoDef
    <3>1. mem'.cur = 1 /\ Live(mem'.state)
      BY <1>5 DEF First, Live
    <3>2. PICK f : f = First("import", yaml)
      OBVIOUS
    <3>3. f \in Record /\ f.hash[1] = yaml /\ yaml # NoDef /\ \A r \in Rev : r # 1 => f.hash[r] = NoDef
      BY <1>5, <3>2, FirstFits
    <3> QED
      BY <1>5, <3>1, <3>2, <3>3
  <2>2. Good(mem', snaps')
    BY <1>5, FirstGood
  <2>3. Records'
    BY <1>1, <1>5, <2>1, <2>2 DEF Records
  <2>4. Definitions'
    BY <1>5, <2>1 DEF Definitions
  <2>5. Bound'
    <3>1. ASSUME run.rev # 0, run.life = life, ~clash PROVE snaps'[run.rev] = run.def
      <4>1. snaps[run.rev] = run.def /\ run.def # NoDef /\ run.rev \in Rev
        BY <2>1, <3>1, Types DEF Bound, Rev, Structure, Wiped
      <4> QED
        BY <1>5, <4>1
    <3> QED
      BY <1>0, <3>1 DEF Bound
  <2>6. Synced'
    BY <1>5, <2>1 DEF Synced
  <2> QED
    BY <1>2, <2>3, <2>4, <2>5, <2>6
<1> QED
  BY <1>0, <1>3, <1>4, <1>5, BootFits

(* IInv is inductive.                                                      *)
LEMMA Inductive == IInv /\ [Next]_vars => IInv'
<1> SUFFICES ASSUME IInv, [Next]_vars PROVE IInv'
  OBVIOUS
<1>1. Structure'
  BY StructureStep
<1>2. Records' /\ Definitions' /\ Apart' /\ Bound' /\ Synced'
  <2>1. CASE UNCHANGED vars
    <3>1. UNCHANGED <<up, refused, mem, defs, hosted, yaml, snaps, disk, call, run, life, crashes, faults, clash>>
      BY <2>1 DEF vars, entry, files, hist
    <3>2. Records'
      BY <3>1 DEF IInv, Records
    <3>3. Definitions' /\ Apart' /\ Bound' /\ Synced'
      BY <3>1 DEF IInv, Definitions, Apart, Bound, Wiped, Quiet, Synced
    <3> QED
      BY <3>2, <3>3
  <2> QED
    BY <2>1, Cases, MovesOn, Accepts, Snaps, Saves, Directs, Empties, Begins, Boots
<1> QED
  BY <1>1, <1>2 DEF IInv

-----------------------------------------------------------------------------
(* The theorems                                                            *)

(* IInv holds throughout.                                                  *)
THEOREM Kept == Spec => []IInv
  BY InitIInv, Inductive, PTL DEF Spec

(* Types are as declared.                                                  *)
THEOREM TypeCorrect == Spec => []TypeOK
  BY Kept, IInvGives, PTL

(* A run resumes under the definition that it began under, however calls   *)
(* overlap, writes fail and the host dies.                                 *)
THEOREM NeverDrifts == Spec => []RunNeverDrifts
  BY Kept, IInvGives, PTL

(* What a saved record names is on the disk, and what is on the hub can be *)
(* run.                                                                    *)
THEOREM Named == Spec => []NamedIsThere
  BY Kept, IInvGives, PTL

(* The runner ends where the record wants it.                              *)
THEOREM RunnerInStep == Spec => []RunnerFollowsState
  BY Kept, IInvGives, PTL

-----------------------------------------------------------------------------
(* Revisions                                                               *)

(* A snapshot is written where there was none, or goes with the workflow.  *)
LEMMA SnapshotsStay ==
  ASSUME IInv, Next, ~clash
  PROVE  \/ \A r \in Rev : snaps[r] # NoDef => snaps'[r] = snaps[r]
         \/ snaps' = Empty /\ mem = Absent /\ disk = Absent
<1> USE DEF IInv, Structure
<1>0. snaps \in [Rev -> Content \cup {NoDef}]
  BY DEF TypeOK
<1>1. CASE snaps' = snaps
  BY <1>1
<1>2. ASSUME NEW a \in Admin, SnapWritten(a)
      PROVE  \A r \in Rev : snaps[r] # NoDef => snaps'[r] = snaps[r]
  <2>1. snaps' = [snaps EXCEPT ![call[a].rev] = call[a].x] /\ call[a].at = "snap"
    BY <1>2 DEF SnapWritten, At
  <2>2. snaps[call[a].rev] = NoDef
    BY <2>1 DEF Apart
  <2> QED
    BY <1>0, <2>1, <2>2
<1>3. ASSUME NEW a \in Admin, SnapsGone(a)
      PROVE  snaps' = Empty /\ mem = Absent /\ disk = Absent
  BY <1>3 DEF SnapsGone, At, Alone
<1>4. CASE Boot
  <2>1. snaps' = snaps \/ (~Taken(1) /\ snaps' = [snaps EXCEPT ![1] = yaml])
    BY <1>4 DEF Boot, files
  <2> QED
    BY <1>0, <2>1 DEF Taken
<1>5. ASSUME NEW a \in Admin,
             \/ \E op \in Ops, x \in Content : Create(a, op, x) \/ Edit(a, op, x)
             \/ FileWritten(a) \/ Genesis(a) \/ Saved(a) \/ WriteFails(a)
             \/ Remove(a) \/ RecordGone(a)
      PROVE  snaps' = snaps
  BY <1>5 DEF Create, Edit, FileWritten, Genesis, Allocate, Saved, WriteFails, Remove,
     RecordGone, files
<1>6. ASSUME NEW a \in Admin, NEW c \in Ready(a), Append(a, c) \/ Direct(a, c) \/ Refuses(a, c)
      PROVE  snaps' = snaps
  BY <1>6 DEF Append, Allocate, Direct, Refuses, files
<1>7. CASE RunBegins \/ Crash
  BY <1>1, <1>7 DEF RunBegins, Crash, files
<1> QED
  BY <1>1, <1>2, <1>3, <1>4, <1>5, <1>6, <1>7 DEF Next

(* A revision keeps its content for as long as the workflow exists, unless *)
(* two calls allocated one number at once (FileRevisionStore.write and its *)
(* callers, through failed writes, crashes and removals).                  *)
THEOREM RevisionsAreFinal == Spec => RevisionsStand
<1>1. IInv /\ [Next]_vars =>
        [~clash => \/ \A r \in Rev : snaps[r] # NoDef => snaps'[r] = snaps[r]
                   \/ snaps' = Empty /\ mem = Absent /\ disk = Absent]_vars
  BY SnapshotsStay
<1> QED
  BY Kept, <1>1, PTL DEF Spec, RevisionsStand
=============================================================================
