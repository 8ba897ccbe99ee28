------------------------------- MODULE SyncV7 -------------------------------
(***************************************************************************)
(* One index and the file it syncs to: TurboQuantIndex's edits and sync    *)
(* (turbovec/src/lib.rs) over the container of io_v7.rs, with power        *)
(* failures and process exits between any two steps of a sync.             *)
(*                                                                         *)
(* The file has a visible image, what a process that opens it reads, and   *)
(* for every location the set of values it may hold after a power failure: *)
(* a write adds its value and its tears to the set, an fsync reduces every *)
(* set to the visible value.  A full write is one atomic step: the temp    *)
(* file is fsynced before the rename and the directory after it.           *)
(***************************************************************************)
EXTENDS IoV7

CONSTANTS
  FreshRows,      \* TRUE: no two added vectors are equal
  HeaderTears,    \* tears of a header write: "prefix" (generation landed,
                  \* rest did not), "suffix" (the other way round)
  DirtyRestarts,  \* TRUE: a process may exit with unsynced writes in the
                  \* page cache, and the next one load the file
  Start,          \* rows the index holds before its first sync
  BatchSizes,     \* bound: rows one add may bring
  MaxEdits,       \* bound: adds, removals
  MaxGen,         \* bound: generation of the last incremental sync
  MaxCal,         \* bound: calibrations
  MaxCuts,        \* bound: power failures
  NoFile, NoCursor

ASSUME BoundAssumption ==
  /\ MaxEdits \in Nat /\ MaxGen \in Nat /\ MaxCal \in Nat /\ MaxCuts \in Nat
  /\ FreshRows \in BOOLEAN /\ DirtyRestarts \in BOOLEAN
  /\ HeaderTears \subseteq {"prefix", "suffix"}
  /\ BatchSizes \subseteq Nat \ {0}
  /\ FreshRows => \A e \in 0 .. MaxEdits, j \in Slot : e * Capacity + j \in Vec
  /\ Start \in 0 .. Capacity

Superblock == [cal : Nat, layout : {"seq", "planes"}]
Cursor     == [gen : Nat, n : 0 .. Capacity, cal : Nat]

ASSUME NoneAssumption ==
  /\ NoFile \notin Superblock /\ NoFile \notin [cal : Nat, rows : [Slot -> Row]]
  /\ NoCursor \notin Cursor

VARIABLES
  sb,       \* superblock: the calibration and unit layout of a full write
  cell,     \* the rows in the file's units, as a process reads them
  hdr,      \* the two header slots, as a process reads them
  mcell,    \* for each slot, what a power failure may leave there
  mhdr,     \* for each header slot, what a power failure may leave there
  up,       \* a process has the index open
  n,        \* its rows
  rows,
  cal,      \* the calibration they are encoded under (calib_gen)
  pending,  \* sync_pending: slots whose redo ops ride the current header
  fresh,    \* sync_fresh: committed slots dirtied since
  cursor,   \* sync_cursor: the commit the index is bound to
  job,      \* the incremental sync under way
  acked,    \* history: the last commit reported Ok, or found by a load
  tried,    \* history: the rows of the last sync begun since
  edits,    \* counts adds and removals
  cuts      \* counts power failures

file  == <<sb, cell, hdr, mcell, mhdr>>
index == <<n, rows, cal, pending, fresh, cursor>>
vars  == <<file, up, index, job, acked, tried, edits, cuts>>

Idle == [stage |-> "idle", todo |-> {}, body |-> NoBody, carried |-> {}]

Stages == {"idle", "wipe", "wipe fsync", "units", "fsync"}

Empty == [s \in Slot |-> NoRow]

TypeOK ==
  /\ sb \in Superblock \cup {NoFile}
  /\ cell \in [Slot -> Disk] /\ mcell \in [Slot -> SUBSET Disk]
  /\ hdr \in [{0, 1} -> Header] /\ mhdr \in [{0, 1} -> SUBSET Header]
  /\ up \in BOOLEAN
  /\ n \in 0 .. Capacity /\ rows \in [Slot -> Row] /\ cal \in Nat
  /\ pending \subseteq Slot /\ fresh \subseteq Slot
  /\ cursor \in Cursor \cup {NoCursor}
  /\ job \in [stage : Stages, todo : SUBSET Nat, body : Body \cup {NoBody},
              carried : SUBSET Slot]
  /\ acked \in [gen : Nat, cal : Nat, rows : [Slot -> Row]]
  /\ tried \in [Slot -> Row]
  /\ edits \in Nat /\ cuts \in Nat

(* The vectors edit e may add as a batch of k, by position; in a model of  *)
(* fresh rows, k vectors that occur nowhere else.                          *)
Batch(e, k) == IF FreshRows
            THEN {[j \in 0 .. k - 1 |-> e * Capacity + j]}
            ELSE [0 .. k - 1 -> Vec]

Init ==
  /\ sb = NoFile
  /\ cell = [s \in Slot |-> Hole] /\ mcell = [s \in Slot |-> {Hole}]
  /\ hdr = [i \in {0, 1} |-> Blank] /\ mhdr = [i \in {0, 1} |-> {Blank}]
  /\ up = TRUE
  /\ n = Start /\ cal = 0
  /\ \E v \in Batch(0, Start) :
       rows = [s \in Slot |-> IF s < Start THEN <<v[s], 0>> ELSE NoRow]
  /\ pending = {} /\ fresh = {} /\ cursor = NoCursor
  /\ job = Idle
  /\ acked = [gen |-> 0, cal |-> 0, rows |-> Empty] /\ tried = Empty
  /\ edits = 0 /\ cuts = 0

Ready == up /\ job = Idle
Dirty == \/ \E s \in Slot : mcell[s] # {cell[s]}
         \/ \E i \in {0, 1} : mhdr[i] # {hdr[i]}

-----------------------------------------------------------------------------
(* Edits of the index in memory. *)

(* encode_and_append. *)
Add ==
  /\ Ready /\ edits < MaxEdits
  /\ \E k \in BatchSizes :
       /\ n + k <= Capacity
       /\ \E v \in Batch(edits + 1, k) :
            rows' = [s \in Slot |-> IF n <= s /\ s < n + k
                                    THEN <<v[s - n], cal>> ELSE rows[s]]
       /\ n' = n + k
  /\ edits' = edits + 1
  /\ UNCHANGED <<file, up, cal, pending, fresh, cursor, job, acked, tried, cuts>>

(* Faulty: the watermark of the index, not of the commit it is bound to.   *)
MarkDirtyCurrent(slots) ==
  IF cursor = NoCursor THEN fresh
  ELSE fresh \cup {s \in slots : s < Whole(n - 1)}

(* mark_dirty: only slots in whole units of the bound commit are on disk. *)
MarkDirty(slots) ==
  IF cursor = NoCursor THEN fresh
  ELSE fresh \cup {s \in slots : s < Whole(cursor.n)}

SwapRemove ==
  /\ Ready /\ n > 0 /\ edits < MaxEdits
  /\ \E i \in 0 .. n - 1 :
       /\ fresh' = MarkDirty({i, n - 1})
       /\ rows' = [rows EXCEPT ![i] = rows[n - 1], ![n - 1] = NoRow]
  /\ n' = n - 1
  /\ edits' = edits + 1
  /\ UNCHANGED <<file, up, cal, pending, cursor, job, acked, tried, cuts>>

(* Every stored row is re-encoded under the new pair. *)
Calibrate ==
  /\ Ready /\ cal < MaxCal
  /\ cal' = cal + 1
  /\ rows' = [s \in Slot |-> IF s < n THEN <<rows[s][1], cal + 1>> ELSE NoRow]
  /\ UNCHANGED <<file, up, n, pending, fresh, cursor, job, acked, tried, edits, cuts>>

-----------------------------------------------------------------------------
(* sync. *)

Bound == cursor # NoCursor

State == IF Bound /\ sb # NoFile
         THEN CursorState(cursor.gen, Layout(n), sb, hdr, cell)
         ELSE "Replaced"

PlanFits == Cardinality(Carried(cursor.n, n, pending, fresh)) <= MaxOps

Incremental == /\ State = "Intact" /\ cursor.cal = cal
               /\ PlanFits

(* write_full: a whole new file, generation 0, under a temp name, renamed  *)
(* over the destination.                                                   *)
WriteFull ==
  /\ Ready /\ State # "Foreign" /\ ~Incremental
  /\ sb' = [cal |-> cal, layout |-> Layout(n)]
  /\ cell' = [s \in Slot |-> IF s < Whole(n) THEN rows[s] ELSE Hole]
  /\ mcell' = [s \in Slot |-> {cell'[s]}]
  /\ hdr' = [i \in {0, 1} |->
               IF i = 0 THEN Sealed(HeaderSlot(0, n, rows, {}, {}, {})) ELSE Blank]
  /\ mhdr' = [i \in {0, 1} |-> {hdr'[i]}]
  /\ cursor' = [gen |-> 0, n |-> n, cal |-> cal]
  /\ pending' = {} /\ fresh' = {}
  /\ acked' = [gen |-> 0, cal |-> cal, rows |-> rows]
  /\ tried' = rows
  /\ UNCHANGED <<up, n, rows, cal, job, edits, cuts>>

(* A full write that fails removes its temp; the binding is dropped. *)
WriteFullError ==
  /\ Ready /\ State # "Foreign" /\ ~Incremental
  /\ cursor' = NoCursor
  /\ UNCHANGED <<file, up, n, rows, cal, pending, fresh, job, acked, tried, edits, cuts>>

(* plan_incremental. *)
BeginSync ==
  /\ Ready /\ Incremental /\ cursor.gen < MaxGen
  /\ LET mat   == Materialize(cursor.n, n, pending, fresh)
         todo  == mat \cup Appended(cursor.n, n)
         carry == Carried(cursor.n, n, pending, fresh)
     IN job' = [stage   |-> IF StaleAhead(cursor.gen, hdr, cell)
                            THEN "wipe" ELSE "units",
                todo    |-> todo,
                body    |-> HeaderSlot(cursor.gen + 1, n, rows, carry, mat, todo),
                carried |-> carry]
  /\ tried' = rows
  /\ UNCHANGED <<file, up, index, acked, edits, cuts>>

(* What a power failure may leave of a location written with v over what   *)
(* it could already hold: the old bytes, the new ones, or a tear.          *)
MaybeCell(old, v) == IF old = {v} THEN old ELSE old \cup {v, Junk}

Tears(old, new) ==
  {Blank}
  \cup (IF "prefix" \in HeaderTears
        THEN {[gen |-> new.gen, body |-> h.body] : h \in old} ELSE {})
  \cup (IF "suffix" \in HeaderTears
        THEN {[gen |-> h.gen, body |-> new.body] : h \in old} ELSE {})

MaybeHdr(old, v) == IF old = {v} THEN old ELSE old \cup {v} \cup Tears(old, v)

(* Faulty: the new header goes where the current commit's is.              *)
PutHeaderInPlace(v) ==
  LET i == cursor.gen % 2
  IN /\ hdr' = [hdr EXCEPT ![i] = v]
     /\ mhdr' = [mhdr EXCEPT ![i] = MaybeHdr(mhdr[i], v)]

PutHeader(v) ==
  LET i == job.body.gen % 2
  IN /\ hdr' = [hdr EXCEPT ![i] = v]
     /\ mhdr' = [mhdr EXCEPT ![i] = MaybeHdr(mhdr[i], v)]

(* The repair batch: the rejected header's bytes are destroyed. *)
WriteWipe ==
  /\ up /\ job.stage = "wipe"
  /\ PutHeader(Blank)
  /\ job' = [job EXCEPT !.stage = "wipe fsync"]
  /\ UNCHANGED <<sb, cell, mcell, up, index, acked, tried, edits, cuts>>

(* Faulty: sync returns without waiting for the disk.                      *)
FsyncNone == UNCHANGED file

Fsync == /\ mcell' = [s \in Slot |-> {cell[s]}]
         /\ mhdr' = [i \in {0, 1} |-> {hdr[i]}]
         /\ UNCHANGED <<sb, cell, hdr>>

WipeFsync ==
  /\ up /\ job.stage = "wipe fsync"
  /\ Fsync
  /\ job' = [job EXCEPT !.stage = "units"]
  /\ UNCHANGED <<up, index, acked, tried, edits, cuts>>

(* The next unit of the batch: materialized and appended units come in     *)
(* ascending order.                                                        *)
WriteUnit ==
  /\ up /\ job.stage = "units"
  /\ \E b \in job.todo :
       /\ \A c \in job.todo : b <= c
       /\ cell' = [s \in Slot |-> IF Unit(s) = b THEN rows[s] ELSE cell[s]]
       /\ mcell' = [s \in Slot |-> IF Unit(s) = b THEN MaybeCell(mcell[s], rows[s])
                                                  ELSE mcell[s]]
       /\ job' = [job EXCEPT !.todo = job.todo \ {b}]
  /\ UNCHANGED <<sb, hdr, mhdr, up, index, acked, tried, edits, cuts>>

(* The last op of the batch. *)
WriteHeader ==
  /\ up /\ job.stage = "units" /\ job.todo = {}
  /\ PutHeader(Sealed(job.body))
  /\ job' = [job EXCEPT !.stage = "fsync"]
  /\ UNCHANGED <<sb, cell, mcell, up, index, acked, tried, edits, cuts>>

(* The commit's fsync; sync returns Ok. *)
Commit ==
  /\ up /\ job.stage = "fsync"
  /\ Fsync
  /\ pending' = job.carried /\ fresh' = {}
  /\ cursor' = [gen |-> job.body.gen, n |-> n, cal |-> cal]
  /\ acked' = [gen |-> job.body.gen, cal |-> cal, rows |-> rows]
  /\ job' = Idle
  /\ UNCHANGED <<up, n, rows, cal, tried, edits, cuts>>

(* A write or an fsync fails: sync returns Err and drops the binding. *)
SyncError ==
  /\ up /\ job # Idle
  /\ cursor' = NoCursor
  /\ job' = Idle
  /\ UNCHANGED <<file, up, n, rows, cal, pending, fresh, acked, tried, edits, cuts>>

-----------------------------------------------------------------------------
(* The environment, and load. *)

Down == /\ up' = FALSE
        /\ n' = 0 /\ rows' = Empty /\ cal' = 0
        /\ pending' = {} /\ fresh' = {} /\ cursor' = NoCursor
        /\ job' = Idle

(* A power failure: each location keeps one of the values it may hold. *)
PowerCut ==
  /\ sb # NoFile /\ cuts < MaxCuts
  /\ LET unsure == {s \in Slot : mcell[s] # {cell[s]}}
     IN \E c \in [unsure -> UNION {mcell[s] : s \in unsure}] :
          /\ \A s \in unsure : c[s] \in mcell[s]
          /\ cell' = [s \in Slot |-> IF s \in unsure THEN c[s] ELSE cell[s]]
  /\ mcell' = [s \in Slot |-> {cell'[s]}]
  /\ \E a \in mhdr[0], b \in mhdr[1] :
       /\ hdr' = [i \in {0, 1} |-> IF i = 0 THEN a ELSE b]
       /\ mhdr' = [i \in {0, 1} |-> IF i = 0 THEN {a} ELSE {b}]
  /\ Down
  /\ cuts' = cuts + 1
  /\ UNCHANGED <<sb, acked, tried, edits>>

(* The process exits; the machine does not. *)
Exit ==
  /\ up /\ sb # NoFile
  /\ Dirty => DirtyRestarts
  /\ Down
  /\ UNCHANGED <<file, acked, tried, edits, cuts>>

(* load: adopt the newest commit whose delta verifies, bound to the file. *)
Load ==
  /\ ~up /\ Adoptable(hdr, cell) # {}
  /\ LET h == Chosen(hdr, cell)
     IN /\ n' = h.n /\ rows' = Gather(h, cell)
        /\ pending' = Redo(h)
        /\ cursor' = [gen |-> h.gen, n |-> h.n, cal |-> sb.cal]
        /\ acked' = [gen |-> h.gen, cal |-> sb.cal, rows |-> rows']
        /\ tried' = rows'
  /\ up' = TRUE
  /\ cal' = sb.cal /\ fresh' = {}
  /\ UNCHANGED <<file, job, edits, cuts>>

Next ==
  \/ Add \/ SwapRemove \/ Calibrate
  \/ WriteFull \/ WriteFullError
  \/ BeginSync \/ WriteWipe \/ WipeFsync \/ WriteUnit \/ WriteHeader \/ Commit
  \/ SyncError
  \/ PowerCut \/ Exit \/ Load

Spec == Init /\ [][Next]_vars

-----------------------------------------------------------------------------
(* Properties. *)

(* What a load of the file would yield now; while the machine is down, what *)
(* the power failure left.                                                  *)
HasFile   == sb # NoFile
Recovered == Gather(Chosen(hdr, cell), cell)

(* The file always loads, in every image a power failure can leave: some   *)
(* header parses and the units its sync wrote are there (parse_image).     *)
Loadable == HasFile => Adoptable(hdr, cell) # {}

(* What loads is exactly the rows of the commit it names, never a mixture  *)
(* of two commits: units, redo ops and tail agree (load_image).            *)
RecoversACommit ==
  HasFile /\ Loadable => Recovered = Chosen(hdr, cell).snap

(* A sync that returned Ok is never undone: what loads is that commit or a *)
(* direct successor of it, under the calibration it was made with.         *)
AckedSurvives ==
  HasFile /\ Loadable =>
    LET h == Chosen(hdr, cell)
    IN /\ sb.cal = acked.cal
       /\ h.gen \in {acked.gen, acked.gen + 1}
       /\ h.gen = acked.gen => Recovered = acked.rows

(* What loads is the last commit or the one the last sync was making, not  *)
(* one that an earlier load had already rejected.                          *)
AdjacentRecovery ==
  HasFile /\ Loadable => Recovered \in {acked.rows, tried}

(* With one writer, a bound index is never told its file is another        *)
(* writer's: cursor_state and load agree on which commits are adoptable.   *)
NeverWedged == Ready /\ Bound => State # "Foreign"

(* Every committed row whose unit on disk is not the live row is marked,   *)
(* fresh or pending: what an incremental sync leaves alone is up to date.  *)
DirtyTracking ==
  Ready /\ Bound /\ cursor.cal = cal =>
    \A s \in Live(cursor.n, n, Slot) \ (pending \cup fresh) : cell[s] = rows[s]

-----------------------------------------------------------------------------
(***************************************************************************)
(* Why it works: the inductive invariant of a process that never exits     *)
(* with unsynced writes (~DirtyRestarts), whatever tears of a header write *)
(* there are.  All of it is relative to one commit, the last acknowledged. *)
(***************************************************************************)
BaseSlot  == acked.gen % 2
OtherSlot == (acked.gen + 1) % 2
Base      == hdr[BaseSlot].body

(* What every header says of itself: its rows are the index's, every tail  *)
(* row is carried, and no unit has both redo ops and a place in the delta. *)
WellFormed(h) ==
  /\ \A s \in Slot : IF s < h.n THEN h.snap[s] \in Cell ELSE h.snap[s] = NoRow
  /\ \A s \in Slot : h.row[s] # NoRow => s < h.n /\ h.row[s] = h.snap[s]
  /\ \A s \in Slot : Whole(h.n) <= s /\ s < h.n => h.row[s] # NoRow
  /\ \A s \in Slot : h.delta[s] # NoRow => s < Whole(h.n) /\ h.delta[s] = h.snap[s]
  /\ \A s \in Redo(h), t \in Slot : Unit(s) = Unit(t) => h.delta[t] = NoRow

(* h is a commit made from commit b: a row in its whole units is carried,  *)
(* or in its delta, or as it was in b's units.                             *)
Follows(h, b) ==
  /\ WellFormed(h)
  /\ h.gen = b.gen + 1
  /\ \A s \in Slot : s < Whole(h.n) =>
       \/ h.row[s] # NoRow /\ s < Whole(b.n)
       \/ h.delta[s] # NoRow
       \/ s < Whole(b.n) /\ b.row[s] = NoRow /\ h.snap[s] = b.snap[s]

(* No power failure can take a row of h's units away.                      *)
Settled(h) ==
  \A s \in Slot : s < Whole(h.n) =>
    Hole \notin mcell[s] /\ (h.row[s] = NoRow => mcell[s] = {h.snap[s]})

RowsInv == \A s \in Slot : IF s < n THEN rows[s] \in Cell ELSE rows[s] = NoRow

ImageInv ==
  /\ \A s \in Slot : cell[s] \in mcell[s] /\ (~up => mcell[s] = {cell[s]})
  /\ \A i \in {0, 1} : hdr[i] \in mhdr[i] /\ (~up => mhdr[i] = {hdr[i]})
  /\ ~up => HasFile

BaseInv ==
  HasFile =>
    /\ sb.cal = acked.cal
    /\ Base # NoBody /\ Base.gen = acked.gen /\ Base.snap = acked.rows
    /\ hdr[BaseSlot].gen = acked.gen
    /\ mhdr[BaseSlot] = {hdr[BaseSlot]}
    /\ WellFormed(Base) /\ Room(Base) /\ Settled(Base)

(* The other slot: nothing, an older commit, or one made from Base; torn   *)
(* bytes never turn one into the other.                                    *)
OtherInv ==
  HasFile =>
    \A w \in mhdr[OtherSlot] :
      w.body = NoBody \/ w.body.gen < acked.gen \/ Follows(w.body, Base)

CursorInv ==
  Bound =>
    /\ up /\ HasFile
    /\ cursor = [gen |-> acked.gen, n |-> Base.n, cal |-> acked.cal]
    /\ pending = Redo(Base)
    /\ cursor.cal <= cal
    /\ cursor.cal = cal =>
         \A s \in Slot \ fresh : s < Whole(cursor.n) => rows[s] = Base.snap[s]
    /\ job = Idle => \A i \in Adoptable(hdr, cell) : hdr[i].gen <= acked.gen

JobInv ==
  job # Idle =>
    /\ Bound /\ cursor.cal = cal
    /\ job.body # NoBody /\ Follows(job.body, Base) /\ Room(job.body)
    /\ job.body.n = n /\ job.body.snap = rows
    /\ job.carried = Redo(job.body)
    /\ \A s \in Slot :
         /\ Unit(s) \in job.todo => job.body.delta[s] # NoRow
         /\ job.body.delta[s] # NoRow /\ Unit(s) \notin job.todo =>
              cell[s] = job.body.delta[s]
         /\ job.body.delta[s] # NoRow /\ s < Whole(Base.n) /\ Base.row[s] = NoRow =>
              rows[s] = Base.snap[s]
    /\ job.stage = "fsync" =>
         job.todo = {} /\ hdr[OtherSlot] = Sealed(job.body)

IInv == /\ TypeOK /\ RowsInv /\ ImageInv /\ BaseInv /\ OtherInv
        /\ CursorInv /\ JobInv

-----------------------------------------------------------------------------
(***************************************************************************)
(* The promise of DurableStore: the file holds what a load would yield,    *)
(* whatever its units and headers are in the middle of.                    *)
(***************************************************************************)
Store == INSTANCE DurableStore WITH
  Contents <- [cal : Nat, rows : [Slot -> Row]],
  Absent   <- NoFile,
  view     <- IF up THEN [cal |-> cal, rows |-> rows] ELSE NoFile,
  file     <- IF HasFile THEN [cal |-> sb.cal, rows |-> Recovered] ELSE NoFile,
  safe     <- IF HasFile THEN [cal |-> acked.cal, rows |-> acked.rows] ELSE NoFile

(* Every step of a sync, a power failure and a load is a step of the       *)
(* abstract store, or invisible in it.                                     *)
ImplementsStore == Store!Spec
=============================================================================
