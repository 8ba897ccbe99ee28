----------------------------- MODULE SyncReader -----------------------------
(***************************************************************************)
(* A process that loads the file while the index of SyncV7 syncs to it     *)
(* (turbovec/src/io_v7.rs, load): one forward read of the whole file into  *)
(* a buffer, the superblock and the two header slots first, then the       *)
(* units, while syncs write units and headers in place.  The buffer is     *)
(* then parsed as any file is.                                             *)
(*                                                                         *)
(* A unit and a header are each read at one moment.  A full write replaces *)
(* the file by a rename: the reader's is the old one, which stays as it    *)
(* was.  A power failure ends the reader too; a reader of the next boot    *)
(* may come before or after the index has loaded what was left.            *)
(***************************************************************************)
EXTENDS SyncV7

VARIABLES
  rat,     \* what the reader reads next: "none", a header slot, units, "done"
  rleft,   \* units not yet read
  rhdr,    \* its buffer: the header slots
  rcell,   \*   and the units
  rbase,   \* history: the last acknowledged commit when it opened the file
  begun    \* history: syncs under way since, 2 for more

rvars == <<rat, rleft, rhdr, rcell, rbase, begun>>
allvars == <<vars, rvars>>

Units == {Unit(s) : s \in Slot}

NoHdr  == [i \in {0, 1} |-> Blank]
NoCell == [s \in Slot |-> Hole]

RInitReader ==
  /\ rat = "none" /\ rleft = {} /\ begun = 0
  /\ rhdr = NoHdr /\ rcell = NoCell
  /\ rbase = acked

RInit == Init /\ RInitReader

(* File::open. *)
Open ==
  /\ rat = "none" /\ HasFile
  /\ rat' = "slot0" /\ rleft' = Units
  /\ rhdr' = NoHdr /\ rcell' = NoCell
  /\ rbase' = acked
  /\ begun' = IF job = Idle THEN 0 ELSE 1
  /\ UNCHANGED vars

(* read_exact_at, through the header slots. *)
ReadSlot ==
  /\ \/ rat = "slot0" /\ rat' = "slot1" /\ rhdr' = [rhdr EXCEPT ![0] = hdr[0]]
     \/ rat = "slot1" /\ rat' = "units" /\ rhdr' = [rhdr EXCEPT ![1] = hdr[1]]
  /\ UNCHANGED <<vars, rleft, rcell, rbase, begun>>

(* read_exact_at, through the units. *)
ReadUnit ==
  /\ rat = "units"
  /\ \E b \in rleft :
       /\ \A c \in rleft : b <= c
       /\ rcell' = [s \in Slot |-> IF Unit(s) = b THEN cell[s] ELSE rcell[s]]
       /\ rleft' = rleft \ {b}
       /\ rat' = IF rleft = {b} THEN "done" ELSE "units"
  /\ UNCHANGED <<vars, rhdr, rbase, begun>>

(* What the buffer holds if the file stays as it is. *)
SeenHdr  == CASE rat = "slot0" -> hdr
              [] rat = "slot1" -> [rhdr EXCEPT ![1] = hdr[1]]
              [] OTHER -> rhdr
SeenCell == [s \in Slot |-> IF Unit(s) \in rleft THEN cell[s] ELSE rcell[s]]

(* The rest of a file that a full write has just replaced. *)
ReadReplaced ==
  /\ rhdr' = SeenHdr /\ rcell' = SeenCell
  /\ rleft' = {} /\ rat' = "done"
  /\ UNCHANGED <<rbase, begun>>

Reading == rat \in {"slot0", "slot1", "units"}

Writer ==
  \/ WriteFull /\ (IF Reading THEN ReadReplaced ELSE UNCHANGED rvars)
  \/ /\ BeginSync
     /\ begun' = IF Reading /\ begun < 2 THEN begun + 1 ELSE begun
     /\ UNCHANGED <<rat, rleft, rhdr, rcell, rbase>>
  \/ /\ \/ Add \/ SwapRemove \/ Calibrate \/ WriteFullError
        \/ WriteWipe \/ WipeFsync \/ WriteUnit \/ WriteHeader \/ Commit
        \/ SyncError \/ Exit \/ Load
     /\ UNCHANGED rvars
  \/ /\ PowerCut
     /\ rat' = "none" /\ rleft' = {} /\ begun' = 0
     /\ rhdr' = NoHdr /\ rcell' = NoCell /\ rbase' = acked

RNext == Writer \/ Open \/ ReadSlot \/ ReadUnit

RSpec == RInit /\ [][RNext]_allvars

-----------------------------------------------------------------------------
Readable == Adoptable(rhdr, rcell) # {}
ReadRows == Gather(Chosen(rhdr, rcell), rcell)

(* A reader racing a writer only ever sees committed states                *)
(* (load, while run_sync writes in place).  Does not hold, see the README: *)
(* two syncs may pass between the reads of a header and of a unit.         *)
SeesACommit == rat = "done" /\ Readable => ReadRows = Chosen(rhdr, rcell).snap

(* A load that one sync overlaps at most sees a commit, and one no older   *)
(* than the last acknowledged when it opened the file: the units that sync *)
(* writes are under redo ops in the header the reader may hold, or past    *)
(* its rows, never in its delta (plan_incremental, parse_image).           *)
OneSyncApart ==
  rat = "done" /\ begun <= 1 =>
    /\ Readable
    /\ SeesACommit
    /\ Chosen(rhdr, rcell).gen >= rbase.gen

-----------------------------------------------------------------------------
(***************************************************************************)
(* Why it works: some commit b, as recent as the one the reader started    *)
(* from, is intact in the buffer, and so is every commit made from b.      *)
(* While a sync is under way b is Base, the commit it must not disturb.    *)
(***************************************************************************)
IntactHdr(b, w, i) ==
  IF i = b.gen % 2 THEN w = Sealed(b)
  ELSE w.body = NoBody \/ w.body.gen < b.gen \/ Follows(w.body, b)

Intact(b, h, c) ==
  /\ WellFormed(b) /\ Room(b)
  /\ \A i \in {0, 1} : IntactHdr(b, h[i], i)
  /\ \A s \in Slot : s < Whole(b.n) =>
       c[s] # Hole /\ (b.row[s] = NoRow => c[s] = b.snap[s])

RTypeOK == /\ rat \in {"none", "slot0", "slot1", "units", "done"}
           /\ rleft \subseteq Units
           /\ rhdr \in [{0, 1} -> Header] /\ rcell \in [Slot -> Disk]
           /\ rbase \in [gen : Nat, cal : Nat, rows : [Slot -> Row]]
           /\ begun \in 0 .. 2

SeenInv ==
  rat # "none" /\ begun <= 1 =>
    \E b \in {SeenHdr[i].body : i \in {0, 1}} \ {NoBody} :
      /\ rbase.gen <= b.gen /\ Intact(b, SeenHdr, SeenCell)
      /\ Reading /\ job # Idle => b = Base

(* No sync has run since it opened the file, which is as it was. *)
QuietInv ==
  Reading => /\ HasFile
             /\ begun = 0 => /\ job = Idle /\ rbase.gen <= acked.gen
                             /\ SeenHdr = hdr /\ SeenCell = cell

ReaderInv == /\ IInv /\ RTypeOK /\ SeenInv /\ QuietInv
             /\ rat = "done" => rleft = {}
=============================================================================
