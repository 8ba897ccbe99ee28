------------------------------ MODULE PackBits ------------------------------
(***************************************************************************)
(* What src/turbovec/src/pack.rs does to one row: the bit planes an        *)
(* encoder writes, the code bytes search reads, the sign and low planes,   *)
(* and the places a host gives the bytes of a block.                       *)
(*                                                                         *)
(* A bit is a token <<row, coordinate, plane>>, or <<>> for a zero bit, so *)
(* that one evaluation speaks for every value of the rows.  A byte is a    *)
(* function of its bit positions, 0 the least significant; a buffer is a   *)
(* function of its offsets.                                                *)
(***************************************************************************)
EXTENDS Naturals, Sequences

BLOCK == 32

Bits == 0 .. 7
ZeroBit == <<>>
ZeroByte == [i \in Bits |-> ZeroBit]
Clash == <<"two bits in one place">>

BitOr(x, y) == IF x = ZeroBit THEN y ELSE IF y = ZeroBit THEN x ELSE Clash

Or(x, y)  == [i \in Bits |-> BitOr(x[i], y[i])]
Shl(x, k) == [i \in Bits |-> IF i >= k THEN x[i - k] ELSE ZeroBit]
Shr(x, k) == [i \in Bits |-> IF i + k <= 7 THEN x[i + k] ELSE ZeroBit]
High(x)   == [i \in Bits |-> IF i >= 4 THEN x[i] ELSE ZeroBit]    \* & 0xF0
Low(x)    == [i \in Bits |-> IF i < 4 THEN x[i] ELSE ZeroBit]     \* & 0x0F

\* A part of a buffer.
Part(buf, from, m) == [x \in 0 .. m - 1 |-> buf[from + x]]
-----------------------------------------------------------------------------
CodesPerByte(bits) == 8 \div bits
Field(bits) == IF bits = 3 THEN 4 ELSE bits

\* blocked_geometry: blocks of n rows, and code bytes of a row.
BlocksOf(n) == (n + BLOCK - 1) \div BLOCK
Groups(bits, dim) == dim \div CodesPerByte(bits)

\* The bit of a code byte with plane p of its j-th code.
CodeBit(bits, j, p) == (CodesPerByte(bits) - 1 - j) * Field(bits) + p

(* What the encoder writes for row v: plane after plane, the first         *)
(* coordinate in the high bit.                                             *)
PackedRow(v, bits, dim) ==
    LET plane == dim \div 8 IN
    [x \in 0 .. bits * plane - 1 |->
       [i \in Bits |-> <<v, 8 * (x % plane) + 7 - i, x \div plane>>]]

(* The codes of row v as search reads them, written down directly.         *)
CodeRow(v, bits, dim) ==
    [g \in 0 .. Groups(bits, dim) - 1 |->
       [i \in Bits |->
          LET j == CodesPerByte(bits) - 1 - i \div Field(bits)
              p == i % Field(bits)
          IN IF j \in 0 .. CodesPerByte(bits) - 1 /\ p < bits
             THEN <<v, g * CodesPerByte(bits) + j, p>> ELSE ZeroBit]]

(* build_extract_lut: bit 7 - j of plane p's byte goes to one of the code  *)
(* bytes of eight coordinates; here, for a bit of a code byte, its source. *)
ExtractLut == [bits \in 2 .. 4 |-> [q \in 0 .. 3 |-> [i \in Bits |->
    {<<j, p>> \in (0 .. 7) \X (0 .. bits - 1) :
        j \div CodesPerByte(bits) = q /\ CodeBit(bits, j % CodesPerByte(bits), p) = i}]]]

\* extract_codes_flat, of one row.
Extract(row, bits, dim) ==
    LET out   == 8 \div CodesPerByte(bits)
        plane == dim \div 8
        Bit(chunk, from) == IF from = {} THEN ZeroBit
                            ELSE LET jp == CHOOSE jp \in from : TRUE
                                 IN row[jp[2] * plane + chunk][7 - jp[1]]
    IN [g \in 0 .. plane * out - 1 |->
          [i \in Bits |-> Bit(g \div out, ExtractLut[bits][g % out][i])]]

\* build_unpack_lut: a code byte's planes, side by side.
UnpackLut(byte, bits, p, k) == byte[CodeBit(bits, CodesPerByte(bits) - 1 - k, p)]

\* unpack_row: the plane bytes of a row of code bytes.
Unpack(codes, bits, dim) ==
    LET plane == dim \div 8
        cpb   == CodesPerByte(bits)
        gpo   == 8 \div cpb
        Bit(p, ob, i) == LET q == (8 - cpb - (i \div cpb) * cpb) \div cpb
                         IN UnpackLut(codes[ob * gpo + q], bits, p, i % cpb)
    IN [x \in 0 .. bits * plane - 1 |->
          [i \in Bits |-> Bit(x \div plane, x % plane, i)]]
-----------------------------------------------------------------------------
(* planes_geom: bytes of a row in the sign and in the low region.          *)
SignBytes(dim) == dim \div 8
LowBytes(bits, dim) == (bits - 1) * SignBytes(dim)

\* The rows of the two regions, written down directly.
SignRow(v, bits, dim) ==
    [g \in 0 .. SignBytes(dim) - 1 |-> [i \in Bits |-> <<v, 8 * g + 7 - i, bits - 1>>]]
LowRow(v, bits, dim) ==
    [x \in 0 .. LowBytes(bits, dim) - 1 |->
       [i \in Bits |-> <<v, 8 * (x % SignBytes(dim)) + 7 - i, x \div SignBytes(dim)>>]]

\* build_gather, build_spread: every other bit of a byte, and back.
Gather(c, odd) == [i \in Bits |-> IF i < 4 THEN c[2 * i + odd] ELSE ZeroBit]
Spread(x) == [i \in Bits |-> IF i % 2 = 0 THEN x[i \div 2] ELSE ZeroBit]

\* Two code bytes of 2-bit codes, as a byte of one plane (1 for the sign).
Plane2(c0, c1, odd) == Or(Shl(Gather(c0, odd), 4), Gather(c1, odd))

\* planes_to_code_bytes.
CodeBytes2(sign, low) ==
    << Or(Shl(Spread(Shr(sign, 4)), 1), Spread(Shr(low, 4))),
       Or(Shl(Spread(Low(sign)), 1), Spread(Low(low))) >>

\* planes_split_rows and planes_rows_from_packed, of one row's packed bytes.
Split(row, bits, dim) ==
    LET nsg   == SignBytes(dim)
        codes == Extract(row, bits, dim)
        Of(odd) == [g \in 0 .. nsg - 1 |-> Plane2(codes[2 * g], codes[2 * g + 1], odd)]
    IN IF bits = 2 THEN [sign |-> Of(1), low |-> Of(0)]
       ELSE [sign |-> Part(row, LowBytes(bits, dim), nsg),
             low  |-> Part(row, 0, LowBytes(bits, dim))]

\* planes_row_from_codes: the same, of a row of code bytes.
SplitCodes(codes, bits, dim) ==
    LET nsg == SignBytes(dim)
        Plane4(p, g) == [i \in Bits |->
            LET j == (7 - i) \div 2 IN
            codes[4 * g + j][IF i = 7 - 2 * j THEN 4 + p ELSE p]]
        Plane(p, g) == IF bits = 2 THEN Plane2(codes[2 * g], codes[2 * g + 1], p)
                       ELSE Plane4(p, g)
    IN [sign |-> [g \in 0 .. nsg - 1 |-> Plane(bits - 1, g)],
        low  |-> [x \in 0 .. LowBytes(bits, dim) - 1 |-> Plane(x \div nsg, x % nsg)]]
-----------------------------------------------------------------------------
(* The hosts: x86 or not, whether a vector-major kernel runs there         *)
(* (use_vector_major), the i8mm unit of eight groups, and its opt-in at 2  *)
(* bits.                                                                   *)
Host(x86, vm, vm8, two) == [x86 |-> x86, vm |-> vm, vm8 |-> vm8, two |-> two]

UseVm8(h) == ~h.x86 /\ h.vm8 /\ h.vm
Vm8For(h, bits, nbg) == UseVm8(h) /\ nbg % 8 = 0 /\ (bits = 4 \/ (bits = 2 /\ h.two))
VectorMajorFor(h, bits, nbg) == (h.x86 \/ bits = 4) /\ h.vm /\ nbg % 4 = 0

PlanesFor(h, bits, nbg) ==
    /\ IF h.x86 THEN h.vm ELSE ~h.two
    /\ \/ bits = 2 /\ nbg % 8 = 0
       \/ bits = 4 /\ nbg % 16 = 0 /\ h.vm

Native(h, bits, nbg) ==
    CASE Vm8For(h, bits, nbg) -> "vm8"
      [] ~Vm8For(h, bits, nbg) /\ VectorMajorFor(h, bits, nbg) -> "vm"
      [] OTHER -> IF h.x86 THEN "nibble" ELSE "seq"

\* PERM0 and INV_PERM0: the order of sixteen lanes in an x86 group.
PERM0 == <<0, 8, 1, 9, 2, 10, 3, 11, 4, 12, 5, 13, 6, 14, 7, 15>>
INV_PERM0 == <<0, 2, 4, 6, 8, 10, 12, 14, 1, 3, 5, 7, 9, 11, 13, 15>>

\* vm_byte_index, vm8_byte_index: offsets in a block.
VmIndex(g, lane)  == (g \div 4) * 128 + (lane \div 16) * 64 + (lane % 16) * 4 + (g % 4)
Vm8Index(g, lane) == (g \div 8) * 256 + (lane \div 2) * 16 + (lane % 2) * 8 + (g % 8)

\* planes_slot: the sign region is vector-major on x86 only.
PlanesSlot(h, g, lane) == IF h.x86 THEN VmIndex(g, lane) ELSE g * BLOCK + lane

\* deinterleave_x86_code_byte, of the 32 bytes of a group at `off`.
Deinterleave(buf, off, lane) ==
    LET j  == INV_PERM0[(lane % 16) + 1]
        hi == buf[off + j]
        lo == buf[off + 16 + j]
    IN IF lane < 16 THEN Or(Shl(Low(hi), 4), Low(lo))
       ELSE Or(Shl(Shr(hi, 4), 4), Shr(lo, 4))

\* read_code: the code byte of a lane, wherever this host keeps it.
ReadCode(h, buf, bits, nbg, b, g, lane) ==
    CASE Native(h, bits, nbg) = "vm8" -> buf[b * nbg * BLOCK + Vm8Index(g, lane)]
      [] Native(h, bits, nbg) = "vm"  -> buf[b * nbg * BLOCK + VmIndex(g, lane)]
      [] Native(h, bits, nbg) = "seq" -> buf[(b * nbg + g) * BLOCK + lane]
      [] Native(h, bits, nbg) = "nibble" -> Deinterleave(buf, (b * nbg + g) * BLOCK, lane)

\* write_x86_code_byte: half of each of two bytes, the other half kept.
WriteNibbles(buf, off, lane, code) ==
    LET j == INV_PERM0[(lane % 16) + 1] IN
    IF lane < 16
    THEN [buf EXCEPT ![off + j]      = Or(High(@), Shr(code, 4)),
                     ![off + 16 + j] = Or(High(@), Low(code))]
    ELSE [buf EXCEPT ![off + j]      = Or(Low(@), High(code)),
                     ![off + 16 + j] = Or(Low(@), Shl(Low(code), 4))]

WriteCode(h, buf, bits, nbg, b, g, lane, code) ==
    CASE Native(h, bits, nbg) = "vm8" -> [buf EXCEPT ![b * nbg * BLOCK + Vm8Index(g, lane)] = code]
      [] Native(h, bits, nbg) = "vm"  -> [buf EXCEPT ![b * nbg * BLOCK + VmIndex(g, lane)] = code]
      [] Native(h, bits, nbg) = "seq" -> [buf EXCEPT ![(b * nbg + g) * BLOCK + lane] = code]
      [] Native(h, bits, nbg) = "nibble" -> WriteNibbles(buf, (b * nbg + g) * BLOCK, lane, code)

\* A row of code bytes into a lane, one group after the other.
WriteRow(h, buf, bits, nbg, v, row) ==
    LET done[g \in 0 .. nbg] ==
          IF g = 0 THEN buf
          ELSE WriteCode(h, done[g - 1], bits, nbg, v \div BLOCK, g - 1, v % BLOCK, row[g - 1])
    IN done[nbg]

ReadRow(h, buf, bits, nbg, v) ==
    [g \in 0 .. nbg - 1 |-> ReadCode(h, buf, bits, nbg, v \div BLOCK, g, v % BLOCK)]

\* move_lane, zero_lane.
MoveLane(h, buf, bits, nbg, src, dst) ==
    WriteRow(h, buf, bits, nbg, dst, ReadRow(h, buf, bits, nbg, src))

\* Faulty: the truncation alone is relied on.
FaultyZeroLane(h, buf, bits, nbg, v) == buf

ZeroLane(h, buf, bits, nbg, v) ==
    WriteRow(h, buf, bits, nbg, v, [g \in 0 .. nbg - 1 |-> ZeroByte])

\* Vec::resize: fresh bytes are zero.
Resize(buf, m) == [x \in 0 .. m - 1 |-> IF x \in DOMAIN buf THEN buf[x] ELSE ZeroByte]
=============================================================================
