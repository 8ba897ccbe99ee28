------------------------------- MODULE IoV7 -------------------------------
(***************************************************************************)
(* The container of turbovec/src/io_v7.rs as pure operators: what a file   *)
(* holds, which commit a reader adopts, what an incremental sync writes.   *)
(*                                                                         *)
(* A file is a superblock `sb`, the rows `cell` of its block units, and    *)
(* two header slots `hdr`.  Rows are addressed by slot, so a unit is the   *)
(* set of slots of one block.  Abstractions:                               *)
(*   - an encoded row is a pair <<vector, calibration>>: its code bytes,   *)
(*     scale and id travel together in every unit, tail row and redo op;   *)
(*   - a header's tail rows and redo ops are one function `row`, the tail  *)
(*     being the slots of the last, partial block;                         *)
(*   - CRCs do not collide: a delta digest IS the bytes it covers, and a   *)
(*     header whose parts come from two writes never parses unless those   *)
(*     parts are the same bytes;                                           *)
(*   - a header slot has two parts, its generation field and the rest, so  *)
(*     that a write torn between them can be told from other tears.        *)
(***************************************************************************)
EXTENDS Integers, FiniteSets

CONSTANTS
  Vec,       \* the vectors an application stores
  Block,     \* rows in a unit
  Capacity,  \* bound: the most rows an index holds
  MaxOps,    \* redo ops, and materialized units, a header has room for
  PlanesAt,  \* rows from which an index stores its units as bit planes
  NoRow,     \* no row: a slot a header does not carry, or past the count
  Hole,      \* a slot no write has reached: past the end, or a gap before it
  Junk,      \* a slot whose bytes are no row: a torn write, a zeroed gap
  NoBody     \* a header slot whose bytes past the generation are no header

ASSUME BlockAssumption == Block \in Nat \ {0}
ASSUME CapacityAssumption == Capacity \in Nat
ASSUME MaxOpsAssumption == MaxOps \in Nat

Slot == 0 .. Capacity - 1
Cell == Vec \X Nat
Row  == Cell \cup {NoRow}
Disk == Cell \cup {Hole, Junk}

ASSUME MarkerAssumption ==
  /\ NoRow \notin Cell /\ Hole \notin Cell /\ Junk \notin Cell
  /\ NoRow # Hole /\ NoRow # Junk /\ Hole # Junk

(* Block arithmetic: the unit of a slot, and the rows in whole units. *)
Unit(s)  == s \div Block
Whole(n) == (n \div Block) * Block

Layout(n) == IF n >= PlanesAt THEN "planes" ELSE "seq"

NoGen == -1
Blank == [gen |-> NoGen, body |-> NoBody]

(***************************************************************************)
(* A header body: the commit's generation and row count, the rows it       *)
(* carries, the units it materialized, and the delta: the bytes of every   *)
(* unit its sync wrote.  `snap` is a history field no reader looks at: the *)
(* rows the index held when it made the commit.                            *)
(***************************************************************************)
Body == [gen : Nat, n : 0 .. Capacity, row : [Slot -> Row], mat : SUBSET Nat,
         delta : [Slot -> Row], snap : [Slot -> Row]]

Header == [gen : Nat \cup {NoGen}, body : Body \cup {NoBody}]

ASSUME NoBodyAssumption == NoBody \notin Body

Redo(h) == {s \in Slot : s < Whole(h.n) /\ h.row[s] # NoRow}

HeaderSlot(gen, n, rows, carried, mat, written) ==
  [gen   |-> gen,
   n     |-> n,
   row   |-> [s \in Slot |-> IF s \in carried \/ (Whole(n) <= s /\ s < n)
                             THEN rows[s] ELSE NoRow],
   mat   |-> mat,
   delta |-> [s \in Slot |-> IF Unit(s) \in written THEN rows[s] ELSE NoRow],
   snap  |-> rows]

Sealed(h) == [gen |-> h.gen, body |-> h]

-----------------------------------------------------------------------------
(* Reading. *)

(* The file is long enough for the n rows a header claims. *)
Fits(n, cell) ==
  Whole(n) = 0 \/ \E s \in Slot : s >= Whole(n) - 1 /\ cell[s] # Hole

(* The header has room for its redo groups and its materialized units. *)
Room(h) == /\ Cardinality({Unit(s) : s \in Redo(h)}) <= MaxOps
           /\ Cardinality(h.mat) <= MaxOps

(* A header slot parses. *)
Parses(i, hdr, cell) ==
  /\ hdr[i].body # NoBody
  /\ hdr[i].gen = hdr[i].body.gen
  /\ hdr[i].gen % 2 = i
  /\ Fits(hdr[i].body.n, cell)
  /\ Room(hdr[i].body)

(* Faulty: a reader that trusts every header that parses.                  *)
VerifiedAlways(h, cell) == TRUE

(* The units the commit's sync wrote are there with the bytes it recorded. *)
Verified(h, cell) == \A s \in Slot : h.delta[s] # NoRow => cell[s] = h.delta[s]

Adoptable(hdr, cell) ==
  {i \in {0, 1} : Parses(i, hdr, cell) /\ Verified(hdr[i].body, cell)}

(* The newest adoptable commit: of both slots', the one with the larger    *)
(* generation.                                                             *)
Newest(slots, hdr) ==
  CHOOSE i \in slots : \A j \in slots : hdr[j].gen <= hdr[i].gen

Chosen(hdr, cell) == hdr[Newest(Adoptable(hdr, cell), hdr)].body

(* The rows a load of commit h yields: its units, with its redo ops and    *)
(* its tail on top.                                                        *)
Gather(h, cell) ==
  [s \in Slot |-> IF s >= h.n THEN NoRow
                  ELSE IF h.row[s] # NoRow THEN h.row[s] ELSE cell[s]]

-----------------------------------------------------------------------------
(* What a cursor finds in the file it is bound to. *)

Candidates(hdr, cell) == {i \in {0, 1} : Parses(i, hdr, cell)}

Holds(slots, gen, hdr) == slots # {} /\ hdr[Newest(slots, hdr)].gen = gen

(* Faulty: a newer header counts whether or not its units landed.          *)
CursorStateUnverified(gen, layout, sb, hdr, cell) ==
  IF sb.layout # layout \/ Candidates(hdr, cell) = {} THEN "Replaced"
  ELSE IF Holds(Candidates(hdr, cell), gen, hdr) THEN "Intact"
  ELSE "Foreign"

CursorState(gen, layout, sb, hdr, cell) ==
  IF sb.layout # layout THEN "Replaced"
  ELSE IF Holds(Candidates(hdr, cell), gen, hdr) THEN "Intact"
  ELSE IF Adoptable(hdr, cell) = {} THEN "Replaced"
  ELSE IF Holds(Adoptable(hdr, cell), gen, hdr) THEN "Intact"
  ELSE "Foreign"

(* Faulty: a rejected header is left where it is.                          *)
StaleAheadNever(gen, hdr, cell) == FALSE

(* A rejected commit newer than the cursor's is in the slot the next sync  *)
(* writes.                                                                 *)
StaleAhead(gen, hdr, cell) ==
  \E i \in Candidates(hdr, cell) : hdr[i].gen > gen

-----------------------------------------------------------------------------
(***************************************************************************)
(* An incremental sync from a commit of n0 rows to an index of n.          *)
(* `pending` are the slots whose redo ops ride the current header, `fresh` *)
(* those dirtied since.                                                    *)
(***************************************************************************)
Live(n0, n, slots) == {s \in slots : s < Whole(n0) /\ s < Whole(n)}

FreshUnits(n0, n, fresh) == {Unit(s) : s \in Live(n0, n, fresh)}

(* Faulty: a unit is written under the header whose ops it still needs.    *)
MaterializeDirtied(n0, n, pending, fresh) == {Unit(s) : s \in Live(n0, n, pending)}

Materialize(n0, n, pending, fresh) ==
  {Unit(s) : s \in Live(n0, n, pending)} \ FreshUnits(n0, n, fresh)

(* Faulty: the ops of earlier commits are forgotten.                       *)
CarriedFresh(n0, n, pending, fresh) == Live(n0, n, fresh)

Carried(n0, n, pending, fresh) ==
  {s \in Live(n0, n, pending \cup fresh) : Unit(s) \in FreshUnits(n0, n, fresh)}

Appended(n0, n) == (n0 \div Block) .. (n \div Block) - 1

=============================================================================
