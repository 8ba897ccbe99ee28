---------------------------- MODULE IndexCaches ----------------------------
(***************************************************************************)
(* The representations one TurboQuantIndex keeps of the same rows          *)
(* (src/turbovec/src/lib.rs): the packed rows, the blocked search layout   *)
(* (classic lanes, or a sign and a low region: "planes"), what a search    *)
(* derives from the layout (stats, sample, centre), the scales, and the    *)
(* rows removals captured for the next sync.  Which of them exist differs  *)
(* from one operation to the next; every operation has to keep those that  *)
(* do in step.                                                             *)
(*                                                                         *)
(* A row's code is the pair <<its vector, the calibration it is encoded    *)
(* under>>, read and written whole; PackLayouts has the bytes.  Mutators   *)
(* hold &mut self, and the caches a reader fills are OnceLocks, so every   *)
(* operation is one step.  Bounds: MaxRows rows, MaxCalib calibrations.    *)
(***************************************************************************)
EXTENDS Naturals, Sequences

CONSTANTS
    Vector,       \* the vectors a caller adds
    Batch,        \* the batches, none empty: an empty add returns at once
    Dims,         \* the dimensions a caller may give, 0 excluded
    BlockRows,    \* rows in a block
    PlanesMin,    \* rows from which a new layout is planes
    SampleMin,    \* rows from which a planes search takes a sample
    MaxOps,       \* lanes the capture arena may hold
    Captures,     \* TRUE on x86: removals capture the row they move
    MaxRows, MaxCalib

ASSUME CachesAssumption ==
    /\ Batch \subseteq Seq(Vector) \ {<<>>}
    /\ Dims \subseteq Nat \ {0}
    /\ BlockRows \in Nat \ {0} /\ PlanesMin \in Nat /\ MaxOps \in Nat /\ MaxRows \in Nat

VARIABLES
    rows,      \* ghost: the vectors the index holds
    n,         \* n_vectors
    dim,       \* 0 until committed
    tables,    \* the dim the rotation or codebook there is was made for, or 0
    calib,     \* the calibration in force, 0 for none
    scales,    \* one per row
    packed,    \* packed_codes: <<codes>>, or <<>> when unset
    blocked,   \* the search layout, or NoLayout
    cursor,    \* -1 + rows the synced file holds; 0 when unbound
    arena,     \* sync_capture_buf, in lanes
    captured   \* sync_capture_at: <<slot, lane of the arena>>; a slot has one at most

store == <<rows, n, scales, packed, blocked>>
sync == <<cursor, arena, captured>>
cvars == <<rows, n, dim, tables, calib, scales, packed, blocked, cursor, arena, captured>>

Zero == <<>>                    \* a padding lane
Torn == <<"torn">>              \* two regions that hold different rows

NoLayout == [live |-> FALSE, data |-> <<>>, low |-> <<>>, blocks |-> 0,
             stats |-> <<>>, sample |-> <<>>, centre |-> <<>>]

Code(v) == <<v, calib>>
Codes(vs) == [i \in DOMAIN vs |-> Code(vs[i])]
First(s, m) == SubSeq(s, 1, m)

\* blocked_geometry: blocks of m rows, and m rows padded to whole blocks.
Blocks(m) == (m + BlockRows - 1) \div BlockRows
Pad(codes) == codes \o [i \in 1 .. Blocks(Len(codes)) * BlockRows - Len(codes) |-> Zero]

PlanesWanted(m) == m > 0 /\ m >= PlanesMin

\* A layout's lanes written again, for m rows.
Relaid(c, data, low, m) == [c EXCEPT !.data = data, !.low = low, !.blocks = Blocks(m)]

\* BlockedCache::build: the layout of these rows, nothing derived from it.
Built == [NoLayout EXCEPT !.live = TRUE]
BuildCache(codes) ==
    Relaid(Built, Pad(codes), IF PlanesWanted(Len(codes)) THEN codes ELSE <<>>, Len(codes))

\* The low region is empty exactly when the layout is classic.
IsPlanes(c) == c.low # <<>>

\* Lane i of a layout, from both regions of a planes one.
Lane(c, i) == IF ~IsPlanes(c) \/ c.data[i] = c.low[i] THEN c.data[i] ELSE Torn
Read(c, m) == [i \in 1 .. m |-> Lane(c, i)]

\* packed(): the packed rows, from the layout when they are unset.
PackedRows == IF packed # <<>> THEN packed[1]
              ELSE IF n = 0 THEN <<>> ELSE Read(blocked, n)

PromoteIfDue(c, m) ==
    IF IsPlanes(c) \/ ~PlanesWanted(m) THEN c ELSE BuildCache(First(c.data, m))

(* Faulty: the add patches the lanes and leaves what was derived of them.  *)
FaultyTouched(c) == c

(* What a mutation drops: the sample and the centre.  `stats` stays.       *)
Touched(c) == [c EXCEPT !.sample = <<>>, !.centre = <<>>]
-----------------------------------------------------------------------------
CInit ==
  /\ rows = <<>> /\ n = 0 /\ scales = <<>>
  /\ dim \in Dims \cup {0}
  /\ tables = 0 /\ calib = 0
  /\ packed = << <<>> >> /\ blocked = NoLayout
  /\ cursor = 0 /\ arena = <<>> /\ captured = {}

\* A call's dimension: the committed one, or the first.
Agrees(d) == dim \in {0, d}

\* encode_and_append takes the lanes and leaves the packed rows unset.
LazyAppend == n > 0 /\ packed = <<>> /\ blocked.live

\* append_lanes, planes_append_lanes: write the new lanes, old ones untouched.
Appended(c, new) ==
    LET m    == n + Len(new)
        data == Pad(First(c.data, n) \o new)
        low  == IF IsPlanes(c) THEN c.low \o new ELSE <<>>
    IN PromoteIfDue(Relaid(Touched(c), data, low, m), m)

(* repack_block_range: rebuild from the block the first new row falls in.  *)
Patched(c, all) ==
    LET m    == Len(all)
        keep == (n \div BlockRows) * BlockRows
        rest == SubSeq(all, keep + 1, m)
        data == First(c.data, keep) \o Pad(rest)
        low  == IF IsPlanes(c) THEN First(c.low, keep) \o rest ELSE <<>>
    IN PromoteIfDue(Relaid(Touched(c), data, low, m), m)

(* add_2d, add, encode_and_append: the codes, the scales and the count are *)
(* published together, and the packed rows are dropped.                    *)
Add(d, vs) ==
  /\ Agrees(d) /\ n + Len(vs) <= MaxRows
  /\ LET new == Codes(vs) IN
     blocked' = IF LazyAppend THEN Appended(blocked, new)
                ELSE IF blocked.live THEN Patched(blocked, PackedRows \o new)
                ELSE BuildCache(PackedRows \o new)
  /\ packed' = <<>>
  /\ scales' = scales \o Codes(vs)
  /\ rows' = rows \o vs /\ n' = n + Len(vs)
  /\ dim' = d /\ tables' = d
  /\ UNCHANGED <<calib, sync>>

(* An encode or repack panic: the buffers are truncated and put back; the  *)
(* packed rows an eager add materialized stay.  A dim this call committed  *)
(* is taken back, with the tables made for it.                             *)
AddPanics(d) ==
  /\ Agrees(d)
  /\ packed' = IF LazyAppend THEN packed ELSE <<PackedRows>>
  /\ dim' = dim
  /\ tables' = IF dim = 0 THEN 0 ELSE d
  /\ UNCHANGED <<rows, n, scales, blocked, calib, sync>>
-----------------------------------------------------------------------------
\* Rows below the watermark are in whole blocks of the synced file.
Watermark == IF cursor = 0 THEN 0 ELSE ((cursor - 1) \div BlockRows) * BlockRows

\* The arena lane this removal writes: the slot's own again, or a new one.
CaptureAt(i) ==
    IF ~(Captures /\ i <= Watermark /\ packed = <<>>) THEN 0
    ELSE LET own == {c \in captured : c[1] = i} IN
         IF own # {} THEN (CHOOSE c \in own : TRUE)[2]
         ELSE IF Len(arena) < MaxOps THEN Len(arena) + 1 ELSE 0

(* Faulty: only the slot that takes the row loses its entry.               *)
FaultyRetired(i, last) == {c \in captured : c[1] # i}

(* Entries of the two slots that changed meaning go.                       *)
Retired(i, last) == {c \in captured : c[1] \notin {i, last}}

\* The last row takes the place of the i-th.
Moved(s, i, last) == [s EXCEPT ![i] = s[last]]
Filled(s, i) == First(Moved(s, i, n), n - 1)

\* The layout with the last lane moved to i, zeroed, and truncated.
Vacated(c, i, last) ==
    LET zeroed == [Moved(c.data, i, last) EXCEPT ![last] = Zero]
        low    == IF IsPlanes(c) THEN First(Moved(c.low, i, last), last - 1) ELSE <<>>
    IN Relaid(Touched(c), First(zeroed, Blocks(last - 1) * BlockRows), low, last - 1)

SwapRemove(i) ==
  /\ i <= n
  /\ LET at == IF i = n THEN 0 ELSE CaptureAt(i)
     IN /\ packed' = IF packed = <<>> THEN <<>> ELSE <<Filled(packed[1], i)>>
        /\ scales' = Filled(scales, i)
        /\ rows' = Filled(rows, i) /\ n' = n - 1
        /\ blocked' = IF blocked.live THEN Vacated(blocked, i, n) ELSE NoLayout
        /\ arena' = CASE at = 0 -> arena
                      [] at > Len(arena) -> Append(arena, Lane(blocked, n))
                      [] OTHER -> [arena EXCEPT ![at] = Lane(blocked, n)]
        /\ captured' = Retired(i, n) \cup IF at = 0 THEN {} ELSE {<<i, at>>}
  /\ UNCHANGED <<dim, tables, calib, cursor>>
-----------------------------------------------------------------------------
\* packed_codes(): a reader materializes the packed rows.
MaterializePacked ==
  /\ packed' = <<PackedRows>>
  /\ UNCHANGED <<rows, n, dim, tables, calib, scales, blocked, sync>>

\* prepare: the layout, without what a search derives from it.
Prepared == IF blocked.live THEN blocked ELSE BuildCache(PackedRows)

Prepare ==
  /\ n > 0
  /\ blocked' = Prepared
  /\ packed' = IF blocked.live THEN packed ELSE <<PackedRows>>
  /\ tables' = dim
  /\ UNCHANGED <<rows, n, dim, calib, scales, sync>>

\* A OnceLock: the value it has, or the one this call gives it.
OrInit(cell, value) == IF cell # <<>> THEN cell ELSE <<value>>

Filling(c, stats, sample, centre) ==
    [c EXCEPT !.stats = stats, !.sample = sample, !.centre = centre]

\* What a planes search derives from the rows, each cell on first use.
Derived(c) ==
    LET stats == OrInit(c.stats, Read(c, n))
        centre == IF calib = 0 THEN c.centre
                  ELSE OrInit(c.centre, <<Read(c, n), calib>>)
        sample == OrInit(c.sample, IF n < SampleMin THEN <<>> ELSE <<Read(c, n), scales>>)
    IN IF ~IsPlanes(c) THEN c
       ELSE Filling(c, stats, sample, centre)

\* try_search_with_options on a non-empty index.
Search ==
  /\ n > 0
  /\ blocked' = Derived(Prepared)
  /\ packed' = IF blocked.live THEN packed ELSE <<PackedRows>>
  /\ tables' = dim
  /\ UNCHANGED <<rows, n, dim, calib, scales, sync>>
-----------------------------------------------------------------------------
(* calibrate_2d: the rows are encoded again, and all that was made of the  *)
(* old codes is dropped.  reencode_stored_rows reads the packed rows.      *)
Reencoded(codes, c) == [i \in DOMAIN codes |-> <<codes[i][1], c>>]

Calibrate(d) ==
  /\ Agrees(d) /\ calib < MaxCalib
  /\ calib' = calib + 1
  /\ packed' = IF n = 0 THEN packed ELSE <<Reencoded(PackedRows, calib + 1)>>
  /\ scales' = Reencoded(scales, calib + 1)
  /\ blocked' = IF n = 0 THEN blocked ELSE NoLayout
  /\ dim' = d /\ tables' = d
  /\ arena' = <<>> /\ captured' = {}
  /\ UNCHANGED <<rows, n, cursor>>

(* The fit panicked, or the sample was degenerate: tables made for a dim   *)
(* nobody committed are dropped.                                           *)
CalibrateRefused(d) ==
  /\ Agrees(d)
  /\ tables' = IF dim = 0 THEN 0 ELSE d
  /\ UNCHANGED <<store, dim, calib, sync>>
-----------------------------------------------------------------------------
\* What a sync reads for a row that rides the header: its capture, or the row.
CaptureOf(i) == IF packed # <<>> THEN {} ELSE {c \in captured : c[1] = i}

SeqRow(i) == IF packed # <<>> THEN packed[1][i] ELSE Lane(blocked, i)

RowCodes(i) == IF CaptureOf(i) = {} THEN SeqRow(i)
               ELSE arena[(CHOOSE c \in CaptureOf(i) : TRUE)[2]]

\* The rows of whole blocks, as units read them: packed rows, else lanes.
UnitRows(from, to) ==
    IF PlanesWanted(n) /\ IsPlanes(blocked)
    THEN [i \in 1 .. to - from |-> Lane(blocked, from + i)]
    ELSE [i \in 1 .. to - from |-> SeqRow(from + i)]

Image == LET whole == (n \div BlockRows) * BlockRows IN
         UnitRows(0, whole) \o [i \in 1 .. n - whole |-> RowCodes(whole + i)]

\* sync materializes a layout first, and needs a dim.
SyncReads == packed' = IF blocked.live THEN packed ELSE <<PackedRows>>

Sync ==
  /\ dim # 0
  /\ SyncReads
  /\ cursor' = n + 1 /\ arena' = <<>> /\ captured' = {}
  /\ tables' = dim
  /\ UNCHANGED <<rows, n, dim, calib, scales, blocked>>

\* A failed sync unbinds, and its captures go with the binding.
SyncFails ==
  /\ dim # 0
  /\ SyncReads
  /\ cursor' = 0 /\ arena' = <<>> /\ captured' = {}
  /\ tables' = dim
  /\ UNCHANGED <<rows, n, dim, calib, scales, blocked>>

(* An image of the index, loaded: from_v7, bound to the file or, from      *)
(* bytes, not.  Only the layout is seeded.                                 *)
Load(bound) ==
  /\ blocked' = IF n = 0 THEN NoLayout ELSE BuildCache(Image)
  /\ packed' = IF n = 0 THEN << <<>> >> ELSE <<>>
  /\ tables' = IF n = 0 THEN 0 ELSE dim
  /\ cursor' = IF bound /\ dim # 0 THEN n + 1 ELSE 0
  /\ arena' = <<>> /\ captured' = {}
  /\ UNCHANGED <<rows, n, dim, calib, scales>>

CNext ==
  \/ \E d \in Dims : \/ \E vs \in Batch : Add(d, vs)
                     \/ AddPanics(d) \/ Calibrate(d) \/ CalibrateRefused(d)
  \/ \E i \in 1 .. MaxRows : SwapRemove(i)
  \/ MaterializePacked \/ Prepare \/ Search
  \/ Sync \/ SyncFails
  \/ \E b \in BOOLEAN : Load(b)

CSpec == CInit /\ [][CNext]_cvars
-----------------------------------------------------------------------------
(* A layout holds these codes, padding lanes zero and no lane too many.    *)
Holds(c, codes) == /\ c.live /\ c.data = Pad(codes) /\ c.blocks = Blocks(Len(codes))
                   /\ c.low \in {<<>>, codes}

(* Every populated layout holds exactly the rows of the index, byte for     *)
(* byte, and so do the scales; an index with rows has a layout (lib.rs:31,  *)
(* lib.rs:257).                                                             *)
LayoutsAgree ==
  /\ n = Len(rows) /\ scales = Codes(rows)
  /\ packed # <<>> => packed[1] = Codes(rows)
  /\ blocked.live => Holds(blocked, Codes(rows))
  /\ n > 0 => packed # <<>> \/ blocked.live

(* Whatever a sync reads (a capture, a packed row, a lane, a unit of either *)
(* form), it reads the live row; a capture is never of a slot an add may    *)
(* write (lib.rs:1032), no two share a lane, and the arena stays within a   *)
(* header's ops.                                                            *)
SyncReadsTheRows ==
  /\ \A i \in 1 .. n : RowCodes(i) = Code(rows[i])
  /\ \A b \in 0 .. n \div BlockRows - 1 :
        UnitRows(b * BlockRows, b * BlockRows + BlockRows) =
            Codes(SubSeq(rows, b * BlockRows + 1, b * BlockRows + BlockRows))
  /\ Len(arena) <= MaxOps
  /\ \A c, e \in captured : /\ c[1] <= n /\ c[2] <= Len(arena)
                                   /\ c # e => c[1] # e[1] /\ c[2] # e[2]

(* The sample and the centre a search uses were taken from the rows the     *)
(* index holds, and the rotation and codebook are the committed dim's       *)
(* (lib.rs:269, lib.rs:1408).                                               *)
DerivedFromTheRows ==
  /\ blocked.sample # <<>> =>
        blocked.sample[1] = IF n < SampleMin THEN <<>> ELSE <<Codes(rows), scales>>
  /\ blocked.centre # <<>> => blocked.centre[1] = <<Codes(rows), calib>>
  /\ tables \in {0, dim}

(* The packed rows, the search layout and the scales of an index are        *)
(* caches of the same rows, and nothing but; what a search derives from     *)
(* them, the statistics excepted, goes when they change (lib.rs:31); and a  *)
(* sync reads the live row, be it from a capture, a lane, a packed row or   *)
(* a unit, and its captures fit a header (sync_v7_impl, capture_lookup).    *)
CachesAgree == LayoutsAgree /\ SyncReadsTheRows /\ DerivedFromTheRows

(* "Every populated cache describes exactly the len() rows the index        *)
(* currently holds" (lib.rs:33), said of the statistics: they stay those of *)
(* the rows of the first search.  Does not hold.                            *)
StatsDescribeTheRows ==
  IsPlanes(blocked) /\ blocked.stats # <<>> => blocked.stats[1] = Codes(rows)

-----------------------------------------------------------------------------
(***************************************************************************)
(* Why it works.  packed is unset or the rows; what there is of a layout,  *)
(* or of a capture, is of the rows too.                                    *)
(***************************************************************************)
RowCode == Vector \X Nat

CTypeOK ==
  /\ rows \in Seq(Vector) /\ dim \in Nat /\ calib \in Nat /\ cursor \in Nat
  /\ packed = <<>> \/ packed = <<packed[1]>>
  /\ blocked = [live |-> blocked.live, data |-> blocked.data, low |-> blocked.low,
                blocks |-> blocked.blocks, stats |-> blocked.stats,
                sample |-> blocked.sample, centre |-> blocked.centre]
  /\ blocked.live \in BOOLEAN /\ (~ blocked.live => blocked = NoLayout)
  /\ arena \in Seq(RowCode)
  /\ captured \subseteq (1 .. n) \X (1 .. Len(arena))

(* A capture is of the row its slot has, and no two share a slot or lane.  *)
CapturesAgree ==
  /\ Len(arena) <= MaxOps
  /\ \A c \in captured : arena[c[2]] = Code(rows[c[1]])
  /\ \A c, e \in captured : c # e => c[1] # e[1] /\ c[2] # e[2]

\* An empty index has no centre a calibration would leave behind.
CentreHasRows == n = 0 => blocked.centre = <<>>

CInv == CTypeOK /\ LayoutsAgree /\ CapturesAgree /\ DerivedFromTheRows /\ CentreHasRows
=============================================================================
