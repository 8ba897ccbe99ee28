---------------------------- MODULE SyncWriters ----------------------------
(***************************************************************************)
(* Several indexes that sync to one path, one sync at a time               *)
(* (turbovec/src/lib.rs sync_v7_impl; io_v7.rs cursor_state): what the     *)
(* superblock's nonce and the header's generation let an index know of     *)
(* the file it is about to write.                                          *)
(*                                                                         *)
(* An index and a file hold a set of edits.  An incremental sync writes    *)
(* the edits made since the index was bound and leaves the rest of the     *)
(* file as it finds it; SyncV7 has its steps and the crashes in between.   *)
(***************************************************************************)
EXTENDS Naturals, FiniteSets

CONSTANTS Handles,    \* indexes
          Grows,      \* TRUE: an index may outgrow its unit layout
          PlanesAt,   \* rows from which an index stores bit planes
          Backups,    \* TRUE: someone may restore an older copy of the file
          MaxEdits,   \* bound: edits, of all indexes
          MaxGen,     \* bound: generation of an incremental sync
          MaxNonces,  \* bound: full writes
          NoFile, NoCursor

ASSUME GrowsAssumption == Grows \in BOOLEAN /\ Backups \in BOOLEAN
ASSUME BoundsAssumption == MaxEdits \in Nat /\ MaxGen \in Nat /\ MaxNonces \in Nat

Edit == 1 .. MaxEdits

Unclaimed == 0

File   == [nonce : Nat, gen : Nat, layout : {"seq", "planes"}, rows : SUBSET Edit]
Cursor == [nonce : Nat, gen : Nat, rows : SUBSET Edit]

ASSUME NoneAssumption == NoFile \notin File /\ NoCursor \notin Cursor

VARIABLES file,     \* the file at the path, NoFile when none is a container
          backup,   \* a copy of it someone made
          mem,      \* index |-> the edits it holds
          recal,    \* index |-> calibrated since it was bound
          cursor,   \* index |-> sync_cursor; rows is what it knows is there
          edits,    \* edits made so far
          nonces,   \* nonces drawn so far
          lost,     \* history: edits of others a bound index's sync undid
          mixed     \* history: an Ok sync left other rows than its index's
vars == <<file, backup, mem, recal, cursor, edits, nonces, lost, mixed>>

TypeOK ==
  /\ file \in File \cup {NoFile} /\ backup \in File \cup {NoFile}
  /\ mem \in [Handles -> SUBSET Edit]
  /\ recal \in [Handles -> BOOLEAN]
  /\ cursor \in [Handles -> Cursor \cup {NoCursor}]
  /\ edits \in 0 .. MaxEdits /\ nonces \in Nat
  /\ lost \in SUBSET Edit /\ mixed \in BOOLEAN

Init ==
  /\ file = NoFile /\ backup = NoFile
  /\ mem = [h \in Handles |-> {}]
  /\ recal = [h \in Handles |-> FALSE]
  /\ cursor = [h \in Handles |-> NoCursor]
  /\ edits = 0 /\ nonces = 0 /\ lost = {} /\ mixed = FALSE

(* unit_layout. *)
Layout(rows) == IF Grows /\ Cardinality(rows) >= PlanesAt THEN "planes" ELSE "seq"

Bound(h) == cursor[h] # NoCursor

(* Faulty: generations alone.                                              *)
StateByGeneration(h) ==
  IF ~Bound(h) \/ file = NoFile THEN "Replaced"
  ELSE IF file.gen = cursor[h].gen THEN "Intact" ELSE "Foreign"

(* Faulty: an index that will rewrite the file whole does not look.        *)
StateUnlessRewriting(h) ==
  IF ~Bound(h) \/ file = NoFile \/ recal[h] THEN "Replaced"
  ELSE IF file.nonce # cursor[h].nonce
       THEN IF file.nonce = Unclaimed THEN "Replaced" ELSE "Foreign"
  ELSE IF file.gen = cursor[h].gen THEN "Intact" ELSE "Foreign"

(* cursor_state, of an index bound to the path. *)
State(h) ==
  IF ~Bound(h) \/ file = NoFile THEN "Replaced"
  ELSE IF file.nonce # cursor[h].nonce
       THEN IF file.nonce = Unclaimed THEN "Replaced" ELSE "Foreign"
  ELSE IF file.layout # Layout(mem[h]) THEN "Replaced"
  ELSE IF file.gen = cursor[h].gen THEN "Intact" ELSE "Foreign"

Incremental(h) == State(h) = "Intact" /\ ~recal[h]

-----------------------------------------------------------------------------
(* add. *)
Add(h) ==
  /\ edits < MaxEdits
  /\ edits' = edits + 1
  /\ mem' = [mem EXCEPT ![h] = @ \cup {edits + 1}]
  /\ UNCHANGED <<file, backup, recal, cursor, nonces, lost, mixed>>

(* calibrate: the next sync is a full write. *)
Calibrate(h) ==
  /\ ~recal[h]
  /\ recal' = [recal EXCEPT ![h] = TRUE]
  /\ UNCHANGED <<file, backup, mem, cursor, edits, nonces, lost, mixed>>

(* The file run_sync leaves. *)
Delta(h) == [nonce |-> file.nonce, gen |-> cursor[h].gen + 1, layout |-> file.layout,
             rows |-> file.rows \cup (mem[h] \ cursor[h].rows)]

(* Faulty: a full write keeps the nonce of the file it replaces.           *)
WholeSameNonce(h) ==
  [nonce |-> IF file = NoFile THEN nonces + 1 ELSE file.nonce,
   gen |-> 0, layout |-> Layout(mem[h]), rows |-> mem[h]]

(* The file write_full leaves. *)
Whole(h) == [nonce |-> nonces + 1, gen |-> 0,
             layout |-> Layout(mem[h]), rows |-> mem[h]]

Bind(h, f) == [nonce |-> f.nonce, gen |-> f.gen, rows |-> mem[h]]

(* What a sync of h undoes of the file of another. *)
Undone(h) ==
  IF Bound(h) /\ file # NoFile /\ file.nonce # Unclaimed
  THEN file.rows \ cursor[h].rows ELSE {}

(* sync returns Ok. *)
SyncTo(h, f) ==
  /\ file' = f
  /\ cursor' = [cursor EXCEPT ![h] = Bind(h, f)]
  /\ recal' = [recal EXCEPT ![h] = FALSE]
  /\ lost' = lost \cup Undone(h)
  /\ mixed' = (mixed \/ f.rows # mem[h])
  /\ UNCHANGED <<backup, mem, edits>>

SyncIncremental(h) ==
  /\ Incremental(h) /\ cursor[h].gen < MaxGen
  /\ SyncTo(h, Delta(h))
  /\ UNCHANGED nonces

(* Calibrated, a file in another form, or no plan that fits its header. *)
SyncFull(h) ==
  /\ State(h) # "Foreign" /\ nonces < MaxNonces
  /\ SyncTo(h, Whole(h))
  /\ nonces' = nonces + 1

(* sync returns Err after it wrote: the commit may have landed whole, or   *)
(* nothing of it that a reader adopts; the binding is dropped.  A full     *)
(* write that fails has not replaced the file.                             *)
SyncError(h) ==
  /\ State(h) # "Foreign"
  /\ \/ UNCHANGED file
     \/ Incremental(h) /\ cursor[h].gen < MaxGen /\ file' = Delta(h)
  /\ cursor' = [cursor EXCEPT ![h] = NoCursor]
  /\ UNCHANGED <<backup, mem, recal, edits, nonces, lost, mixed>>

(* load, into a new index that takes h's place: bound, unless the file is  *)
(* a snapshot nobody syncs to.                                             *)
Load(h) ==
  /\ file # NoFile
  /\ mem' = [mem EXCEPT ![h] = file.rows]
  /\ recal' = [recal EXCEPT ![h] = FALSE]
  /\ cursor' = [cursor EXCEPT ![h] =
       IF file.nonce = Unclaimed THEN NoCursor
       ELSE [nonce |-> file.nonce, gen |-> file.gen, rows |-> file.rows]]
  /\ UNCHANGED <<file, backup, edits, nonces, lost, mixed>>

(* write: a snapshot over the path; the index's own binding stays. *)
Write(h) ==
  /\ file' = [nonce |-> Unclaimed, gen |-> 0, layout |-> Layout(mem[h]), rows |-> mem[h]]
  /\ UNCHANGED <<backup, mem, recal, cursor, edits, nonces, lost, mixed>>

(* The file is deleted, or something that is no container takes its place. *)
Remove ==
  /\ file # NoFile
  /\ file' = NoFile
  /\ UNCHANGED <<backup, mem, recal, cursor, edits, nonces, lost, mixed>>

(* Someone copies the file, and puts the copy back. *)
Copy ==
  /\ Backups /\ file # NoFile /\ backup = NoFile
  /\ backup' = file
  /\ UNCHANGED <<file, mem, recal, cursor, edits, nonces, lost, mixed>>

Restore ==
  /\ backup # NoFile
  /\ file' = backup
  /\ UNCHANGED <<backup, mem, recal, cursor, edits, nonces, lost, mixed>>

Next ==
  \/ \E h \in Handles :
       \/ Add(h) \/ Calibrate(h) \/ Load(h) \/ Write(h)
       \/ SyncIncremental(h) \/ SyncFull(h) \/ SyncError(h)
  \/ Remove \/ Copy \/ Restore

Spec == Init /\ [][Next]_vars

-----------------------------------------------------------------------------
(***************************************************************************)
(* Why an index may trust the nonce and the generation, when nobody puts   *)
(* an old copy of the file back: the file of a bound index's lineage is    *)
(* never behind it.                                                        *)
(***************************************************************************)
NoncesDrawn ==
  /\ file # NoFile => file.nonce <= nonces
  /\ \A h \in Handles : Bound(h) => 0 < cursor[h].nonce /\ cursor[h].nonce <= nonces

NeverAhead ==
  \A h \in Handles :
    Bound(h) /\ file # NoFile =>
      (file.nonce = cursor[h].nonce =>
         /\ cursor[h].gen <= file.gen
         /\ cursor[h].gen = file.gen => file.rows = cursor[h].rows)

OneLayout == ~Grows /\ file # NoFile => file.layout = "seq"

Inv ==
  /\ TypeOK /\ NoncesDrawn /\ NeverAhead /\ OneLayout
  /\ backup = NoFile
  /\ \A h \in Handles : Bound(h) => cursor[h].rows \subseteq mem[h]
  /\ ~mixed
  /\ ~Grows => lost = {}

(* A file of an index's nonce and generation holds what the index knows to *)
(* be there: a full write draws a new nonce, and one lineage's generations *)
(* never run twice (cursor_state, write_full).                             *)
IdentityMeansContents ==
  \A h \in Handles :
    Bound(h) /\ file # NoFile =>
      (file.nonce = cursor[h].nonce /\ file.gen = cursor[h].gen
         => file.rows = cursor[h].rows)

(* A bound index never undoes a commit of another index: it is refused     *)
(* (sync_v7_impl, CursorState::Foreign).                                   *)
NothingClobbered == lost = {}

(* A sync that returns Ok leaves the index's rows in the file, not a       *)
(* mixture with another's (run_sync over the cursor's file).               *)
NothingMixed == ~mixed
=============================================================================
