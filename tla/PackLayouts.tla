---------------------------- MODULE PackLayouts ----------------------------
(***************************************************************************)
(* The layouts of an index's codes (src/turbovec/src/pack.rs), bit by bit, *)
(* and every conversion and edit of one of them.  A behaviour takes the    *)
(* codes of some rows from layout to layout, in place where the code does, *)
(* and appends, patches and removes rows in between.                       *)
(*                                                                         *)
(* Forms: "packed" (bit planes, row after row), "seq" (the stored blocks), *)
(* "native" (the host's blocks), "planes" (sign region and low rows),      *)
(* "units" (what a v8 file holds of a block of planes).  Chunk is how many *)
(* blocks the in-place conversion takes at a time (256 in the code); the   *)
(* field `edits` of a case bounds the edits of its behaviours.             *)
(***************************************************************************)
EXTENDS PackBits, FiniteSetsExt

CONSTANTS Cases,      \* records [host, bits, dim, n, edits]
          Chunk

VARIABLES case,
          ids,        \* ghost: the row in each slot
          form,
          buf,        \* the codes in that form; of planes, the sign region
          low,        \* the low region: rows, back to back
          edits
layout == <<case, ids, form, buf, low, edits>>

h    == case.host
bits == case.bits
dim  == case.dim
n    == Len(ids)
nbg  == Groups(bits, dim)
nsg  == SignBytes(dim)
lowB == LowBytes(bits, dim)
HasPlanes == PlanesFor(h, bits, nbg)

\* Rows 0 .. m - 1, from the row in each slot.
Table(slots) == [v \in 0 .. Len(slots) - 1 |-> slots[v + 1]]
Packed(slots) == [v \in 0 .. Len(slots) - 1 |-> PackedRow(slots[v + 1], bits, dim)]

\* The rows of whole blocks from b on, in their own numbering.
From(rows, b) == [v \in 0 .. Cardinality(DOMAIN rows) - b * BLOCK - 1 |-> rows[v + b * BLOCK]]

Becomes(f, b, l) == form' = f /\ buf' = b /\ low' = l /\ UNCHANGED <<case, ids, edits>>

Init ==
  /\ case \in Cases
  /\ ids = [v \in 1 .. case.n |-> v]
  /\ form = "packed" /\ buf = Packed(ids) /\ low = <<>>
  /\ edits = 0
-----------------------------------------------------------------------------
(* Blocks of rows of w bytes.  pack_blocked_sequential: group after group, *)
(* lanes past the last row zero.                                           *)
Sequential(rows, blocks, w) ==
    [x \in 0 .. blocks * w * BLOCK - 1 |->
       LET v == (x \div (w * BLOCK)) * BLOCK + (x % BLOCK) IN
       IF v \in DOMAIN rows THEN rows[v][(x % (w * BLOCK)) \div BLOCK] ELSE ZeroByte]

\* vector_major_chunk, vector_major8_chunk: units of four, of eight groups.
VectorMajor(seq) ==
    [x \in DOMAIN seq |->
       LET o == x % 128 IN
       seq[x - o + (o % 4) * BLOCK + (o \div 64) * 16 + ((o % 64) \div 4)]]
VectorMajor8(seq) ==
    [x \in DOMAIN seq |->
       LET o == x % 256 IN
       seq[x - o + (o % 8) * BLOCK + (o \div 16) * 2 + ((o % 16) \div 8)]]

\* interleave_chunk_x86: two nibbles of lanes j and j + 16 share a byte.
Interleave(seq) ==
    [x \in DOMAIN seq |->
       LET at == x - (x % BLOCK) + PERM0[(x % 16) + 1]
           a  == seq[at]
           b  == seq[at + 16]
       IN IF x % BLOCK < 16 THEN Or(Shr(a, 4), High(b)) ELSE Or(Low(a), Shl(Low(b), 4))]

\* pack_blocked: the same layout, from rows.
Nibbles(rows, blocks, w) ==
    [x \in 0 .. blocks * w * BLOCK - 1 |->
       LET va == (x \div (w * BLOCK)) * BLOCK + PERM0[(x % 16) + 1]
           Of(v) == IF v \in DOMAIN rows THEN rows[v][(x % (w * BLOCK)) \div BLOCK]
                    ELSE ZeroByte
       IN IF x % BLOCK < 16 THEN Or(Shr(Of(va), 4), Shl(Shr(Of(va + 16), 4), 4))
          ELSE Or(Low(Of(va)), Shl(Low(Of(va + 16)), 4))]

\* pack_blocked_native: b is the width the layout is chosen for.
PackNative(rows, blocks, b, w) ==
    CASE Native(h, b, w) = "vm8"    -> VectorMajor8(Sequential(rows, blocks, w))
      [] Native(h, b, w) = "vm"     -> VectorMajor(Sequential(rows, blocks, w))
      [] Native(h, b, w) = "seq"    -> Sequential(rows, blocks, w)
      [] Native(h, b, w) = "nibble" -> Nibbles(rows, blocks, w)

\* apply_native_transform.
Transform(seq) ==
    CASE Native(h, bits, nbg) = "vm8"    -> VectorMajor8(seq)
      [] Native(h, bits, nbg) = "vm"     -> VectorMajor(seq)
      [] Native(h, bits, nbg) = "seq"    -> seq
      [] Native(h, bits, nbg) = "nibble" -> Interleave(seq)

\* vector_major_to_seq_chunk, vector_major8_to_seq_chunk, deinterleave_blocks_x86.
VmToSeq(b) ==
    [x \in DOMAIN b |->
       LET o == x % 128
           v == o % BLOCK
       IN b[x - o + (v \div 16) * 64 + (v % 16) * 4 + (o \div BLOCK)]]
Vm8ToSeq(b) ==
    [x \in DOMAIN b |->
       LET o == x % 256
           v == o % BLOCK
       IN b[x - o + (v \div 2) * 16 + (v % 2) * 8 + (o \div BLOCK)]]
NibblesToSeq(b) == [x \in DOMAIN b |-> Deinterleave(b, x - (x % BLOCK), x % BLOCK)]

\* native_to_seq.
ToSeq(b) ==
    CASE Native(h, bits, nbg) = "vm8"    -> Vm8ToSeq(b)
      [] Native(h, bits, nbg) = "vm"     -> VmToSeq(b)
      [] Native(h, bits, nbg) = "seq"    -> b
      [] Native(h, bits, nbg) = "nibble" -> NibblesToSeq(b)
-----------------------------------------------------------------------------
\* Code bytes, and the two planes parts, of a table of packed rows.
Flat(packed)   == [v \in DOMAIN packed |-> Extract(packed[v], bits, dim)]
Parts(packed)  == [v \in DOMAIN packed |-> Split(packed[v], bits, dim)]
Signs(parts)   == [v \in DOMAIN parts |-> parts[v].sign]
LowRows(parts) == [x \in 0 .. Cardinality(DOMAIN parts) * lowB - 1 |->
                     parts[x \div lowB].low[x % lowB]]

\* Code bytes of a row of stored blocks; its packed row (unpack_row).
SeqRow(seq, v) ==
    [g \in 0 .. nbg - 1 |-> seq[((v \div BLOCK) * nbg + g) * BLOCK + (v % BLOCK)]]
SeqPacked(seq) == [v \in 0 .. n - 1 |-> Unpack(SeqRow(seq, v), bits, dim)]

Repack == /\ form = "packed"
          /\ Becomes("native", PackNative(Flat(buf), BlocksOf(n), bits, nbg), <<>>)

RepackSeq == /\ form = "packed"
             /\ Becomes("seq", Sequential(Flat(buf), BlocksOf(n), nbg), <<>>)

SeqToPacked == form = "seq" /\ Becomes("packed", SeqPacked(buf), <<>>)
SeqToNative == form = "seq" /\ Becomes("native", Transform(buf), <<>>)
NativeToSeq == form = "native" /\ Becomes("seq", ToSeq(buf), <<>>)

\* planes_repack.
PlanesRepack ==
  /\ form = "packed" /\ HasPlanes
  /\ Becomes("planes", PackNative(Signs(Parts(buf)), BlocksOf(n), 2, nsg), LowRows(Parts(buf)))

\* The sign bytes and the low row of a vector, and both as a packed row.
SignAt(sign, v) ==
    [g \in 0 .. nsg - 1 |-> sign[(v \div BLOCK) * nsg * BLOCK + PlanesSlot(h, g, v % BLOCK)]]
LowAt(l, v) == Part(l, v * lowB, lowB)
Joined(s, l) == [x \in 0 .. lowB + nsg - 1 |-> IF x < lowB THEN l[x] ELSE s[x - lowB]]

\* planes_read_row: through the packed row, or at two bits byte by byte.
PlanesRow(sign, l, v) ==
    IF bits # 2 THEN Extract(Joined(SignAt(sign, v), LowAt(l, v)), bits, dim)
    ELSE [g \in 0 .. nbg - 1 |->
            CodeBytes2(SignAt(sign, v)[g \div 2], LowAt(l, v)[g \div 2])[(g % 2) + 1]]

\* planes_to_seq, planes4_to_seq.
PlanesToSeq ==
  /\ form = "planes"
  /\ Becomes("seq", Sequential([v \in 0 .. n - 1 |-> PlanesRow(buf, low, v)],
                               BlocksOf(n), nbg), <<>>)
-----------------------------------------------------------------------------
(* planes_from_seq_owned at four bits: the low rows are written over the   *)
(* blocks they are read from, a chunk at a time: through a buffer while    *)
(* they would land in the chunk itself, below it from then on.             *)
ChunkParts(seq, k) ==
    [v \in k * BLOCK .. Min({(k + Chunk) * BLOCK, n}) - 1 |->
       SplitCodes(SeqRow(seq, v), bits, dim)]

\* The rows of chunk k land below the bytes it is read from.
Direct(k) == Min({(k + Chunk) * BLOCK, n}) * lowB <= k * nbg * BLOCK

\* One chunk: [seq, signs] before and after.
OwnedStep(owned, k) ==
    LET parts == ChunkParts(owned.seq, k)
        rows  == {x \div lowB : x \in DOMAIN owned.seq} \cap DOMAIN parts
        Written(seq, blk) ==
            [x \in DOMAIN seq |->
               IF x \div lowB \in blk THEN parts[x \div lowB].low[x % lowB] ELSE seq[x]]
        block(b) == {v \in rows : v \div BLOCK = b}
        \* Straight in: a block is read after the one before it was written.
        straight[b \in k .. k + Chunk] ==
            IF b = k THEN owned.seq
            ELSE LET seq == straight[b - 1] IN
                 [x \in DOMAIN seq |->
                    IF x \div lowB \in block(b - 1)
                    THEN SplitCodes(SeqRow(seq, x \div lowB), bits, dim).low[x % lowB]
                    ELSE seq[x]]
    IN [seq |-> IF Direct(k) THEN straight[k + Chunk] ELSE Written(owned.seq, rows),
        signs |-> [v \in DOMAIN owned.signs \cup DOMAIN parts |->
                     IF v \in DOMAIN parts THEN parts[v].sign ELSE owned.signs[v]]]

Owned == LET upto[k \in 0 .. BlocksOf(n) + Chunk] ==
                 IF k < Chunk THEN [seq |-> buf, signs |-> [v \in {} |-> <<>>]]
                 ELSE OwnedStep(upto[k - Chunk], k - Chunk)
         IN upto[((BlocksOf(n) + Chunk - 1) \div Chunk) * Chunk]

PlanesFromSeq ==
  /\ form = "seq" /\ HasPlanes
  /\ IF bits = 2
     THEN LET parts == [v \in 0 .. n - 1 |-> SplitCodes(SeqRow(buf, v), bits, dim)] IN
          Becomes("planes", PackNative(Signs(parts), BlocksOf(n), 2, nsg), LowRows(parts))
     ELSE LET owned == Owned IN
          Becomes("planes", PackNative(owned.signs, BlocksOf(n), 2, nsg),
                  Part(owned.seq, 0, n * lowB))
-----------------------------------------------------------------------------
\* planes_sign_permuted: this host keeps the signs vector-major.
SignPermuted == h.x86 /\ VectorMajorFor(h, 2, nsg)
Canonical(sign) == IF SignPermuted THEN VmToSeq(sign) ELSE sign

(* planes_unit_codes of every block: canonical signs, then the block's low *)
(* rows, zero past the last.                                               *)
PlanesUnits ==
  /\ form = "planes"
  /\ LET sign == Canonical(buf)
         rows(b) == Part(low, b * BLOCK * lowB, (Min({(b + 1) * BLOCK, n}) - b * BLOCK) * lowB)
     IN Becomes("units",
                [b \in 0 .. BlocksOf(n) - 1 |->
                   [sign |-> Part(sign, b * nsg * BLOCK, nsg * BLOCK),
                    low  |-> Resize(rows(b), BLOCK * lowB)]], <<>>)

(* A load of units: the two regions they hold, the rows that ride the      *)
(* header written over them (planes_write_row_canonical), and the signs    *)
(* permuted last (planes_sign_to_native).                                  *)
UnitSigns == [x \in 0 .. BlocksOf(n) * nsg * BLOCK - 1 |->
                buf[x \div (nsg * BLOCK)].sign[x % (nsg * BLOCK)]]
UnitLows  == [x \in 0 .. n * lowB - 1 |->
                buf[x \div (BLOCK * lowB)].low[x % (BLOCK * lowB)]]

Riding == {0} \cup {v \in 0 .. n - 1 : v \div BLOCK = n \div BLOCK}

Ridden(v) == SplitCodes(CodeRow(ids[v + 1], bits, dim), bits, dim)

UnitsToPlanes ==
  /\ form = "units"
  /\ LET signs == [x \in DOMAIN UnitSigns |->
                     LET v == (x \div (nsg * BLOCK)) * BLOCK + (x % BLOCK) IN
                     IF v \in Riding THEN Ridden(v).sign[(x % (nsg * BLOCK)) \div BLOCK]
                     ELSE UnitSigns[x]]
         lows  == [x \in DOMAIN UnitLows |->
                     IF x \div lowB \in Riding THEN Ridden(x \div lowB).low[x % lowB]
                     ELSE UnitLows[x]]
     IN Becomes("planes", IF SignPermuted THEN VectorMajor(signs) ELSE signs, lows)

\* planes_canonical_to_packed.
UnitsToPacked ==
  /\ form = "units"
  /\ LET sign(v) == [g \in 0 .. nsg - 1 |->
                       UnitSigns[(v \div BLOCK) * nsg * BLOCK + g * BLOCK + (v % BLOCK)]]
     IN Becomes("packed", [v \in 0 .. n - 1 |-> Joined(sign(v), LowAt(UnitLows, v))], <<>>)
-----------------------------------------------------------------------------
\* The next row added: one nobody has had.
New == case.n + edits + 1

Edited(slots, b, l) ==
  /\ edits < case.edits /\ edits' = edits + 1
  /\ ids' = slots /\ buf' = b /\ low' = l
  /\ UNCHANGED <<case, form>>

\* append_lanes: grow to the new geometry and write the lane.
AppendLane ==
  /\ form = "native"
  /\ LET grown == Resize(buf, BlocksOf(n + 1) * nbg * BLOCK)
         row   == Extract(PackedRow(New, bits, dim), bits, dim)
     IN Edited(Append(ids, New), WriteRow(h, grown, bits, nbg, n, row), <<>>)

\* planes_append_lanes.
PlanesAppendLane ==
  /\ form = "planes"
  /\ LET grown == Resize(buf, BlocksOf(n + 1) * nsg * BLOCK)
         part  == Split(PackedRow(New, bits, dim), bits, dim)
     IN Edited(Append(ids, New), WriteRow(h, grown, 2, nsg, n, part.sign),
               [x \in 0 .. (n + 1) * lowB - 1 |->
                  IF x < n * lowB THEN low[x] ELSE part.low[x - n * lowB]])

(* repack_block_range, planes_repack_block_range: the blocks from the one  *)
(* the new row falls in, rebuilt from the packed rows.                     *)
Kept(old, size, new) == [x \in 0 .. size + Cardinality(DOMAIN new) - 1 |->
                           IF x < size THEN old[x] ELSE new[x - size]]

\* The packed rows an add leaves: those there were, materialized, and the new.
AllRows(rows) == [v \in 0 .. n |-> IF v = n THEN PackedRow(New, bits, dim) ELSE rows[v]]

PatchBlocks ==
  /\ form = "native"
  /\ LET b0  == n \div BLOCK
         new == From(AllRows(SeqPacked(ToSeq(buf))), b0)
     IN Edited(Append(ids, New),
               Kept(buf, b0 * nbg * BLOCK,
                    PackNative(Flat(new), BlocksOf(n + 1) - b0, bits, nbg)), <<>>)

\* planes_to_packed.
PlanesPacked == [v \in 0 .. n - 1 |-> Joined(SignAt(buf, v), LowAt(low, v))]

PlanesPatchBlocks ==
  /\ form = "planes"
  /\ LET b0  == n \div BLOCK
         new == Parts(From(AllRows(PlanesPacked), b0))
     IN Edited(Append(ids, New),
               Kept(buf, b0 * nsg * BLOCK,
                    PackNative(Signs(new), BlocksOf(n + 1) - b0, 2, nsg)),
               Kept(low, b0 * BLOCK * lowB, LowRows(new)))

\* swap_remove's move_lane, zero_lane and truncation, and their planes form.
Hole(i) == SubSeq([ids EXCEPT ![i] = ids[n]], 1, n - 1)

RemoveLane(i) ==
  /\ form = "native"
  /\ LET moved  == IF i = n THEN buf ELSE MoveLane(h, buf, bits, nbg, n - 1, i - 1)
         zeroed == ZeroLane(h, moved, bits, nbg, n - 1)
     IN Edited(Hole(i), Resize(zeroed, BlocksOf(n - 1) * nbg * BLOCK), <<>>)

PlanesRemoveLane(i) ==
  /\ form = "planes"
  /\ LET moved  == IF i = n THEN buf ELSE MoveLane(h, buf, 2, nsg, n - 1, i - 1)
         zeroed == ZeroLane(h, moved, 2, nsg, n - 1)
     IN Edited(Hole(i), Resize(zeroed, BlocksOf(n - 1) * nsg * BLOCK),
               [x \in 0 .. (n - 1) * lowB - 1 |->
                  IF x \div lowB = i - 1 THEN low[(n - 1) * lowB + (x % lowB)] ELSE low[x]])

Next == \/ Repack \/ RepackSeq \/ SeqToPacked \/ SeqToNative \/ NativeToSeq
        \/ PlanesRepack \/ PlanesToSeq \/ PlanesFromSeq
        \/ PlanesUnits \/ UnitsToPlanes \/ UnitsToPacked
        \/ AppendLane \/ PlanesAppendLane \/ PatchBlocks \/ PlanesPatchBlocks
        \/ \E i \in {1, n} : RemoveLane(i) \/ PlanesRemoveLane(i)

Spec == Init /\ [][Next]_layout
-----------------------------------------------------------------------------
(* Whatever conversions and edits a layout has been through, every lane    *)
(* reads back as its row, padding is zero and nothing is left over: the    *)
(* bytes are those of a repack from scratch (pack.rs:236), so that a host  *)
(* of one kind reads what another stored.                                  *)
RowCodes == [v \in 0 .. n - 1 |-> CodeRow(ids[v + 1], bits, dim)]
RowParts == [v \in 0 .. n - 1 |-> [sign |-> SignRow(ids[v + 1], bits, dim),
                                   low  |-> LowRow(ids[v + 1], bits, dim)]]

Lanes(b, w, width) == [v \in 0 .. BlocksOf(n) * BLOCK - 1 |-> ReadRow(h, b, width, w, v)]
Padded(rows, w) == [v \in 0 .. BlocksOf(n) * BLOCK - 1 |->
                      IF v < n THEN rows[v] ELSE [g \in 0 .. w - 1 |-> ZeroByte]]

EveryFormHoldsTheRows ==
  CASE form = "packed" -> buf = Packed(ids)
    [] form = "seq"    -> buf = Sequential(RowCodes, BlocksOf(n), nbg)
    [] form = "native" -> /\ DOMAIN buf = 0 .. BlocksOf(n) * nbg * BLOCK - 1
                          /\ Lanes(buf, nbg, bits) = Padded(RowCodes, nbg)
    [] form = "planes" -> /\ DOMAIN buf = 0 .. BlocksOf(n) * nsg * BLOCK - 1
                          /\ Lanes(buf, nsg, 2) = Padded(Signs(RowParts), nsg)
                          /\ low = LowRows(RowParts)
    [] form = "units"  -> \A b \in 0 .. BlocksOf(n) - 1 :
         /\ buf[b].sign = Part(Sequential(Signs(RowParts), BlocksOf(n), nsg),
                               b * nsg * BLOCK, nsg * BLOCK)
         /\ buf[b].low = Part(Resize(LowRows(RowParts), BlocksOf(n) * BLOCK * lowB),
                              b * BLOCK * lowB, BLOCK * lowB)
=============================================================================
