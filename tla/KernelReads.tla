---------------------------- MODULE KernelReads ----------------------------
(***************************************************************************)
(* What the scoring kernels of src/turbovec/src/search.rs read of a        *)
(* layout.  A score is a sum over the dimensions of a row: of a query's    *)
(* weight times the level its code names, or of a table entry for the      *)
(* codes of a nibble.  Every kernel walks the bytes in an order of its     *)
(* own, with tables, weights and shuffles arranged to match; here the sum  *)
(* of a lane is the function of its terms, each the dimensions weighted    *)
(* and the codes they are weighted with, and the question is whether it    *)
(* is its own row's, every dimension once.                                 *)
(*                                                                         *)
(* Of the arithmetic nothing is left here but which terms meet (LutSums    *)
(* has the widths); a query is a name, and one stands for a batch but      *)
(* where a kernel pairs two.  LowChunk is LOW_CHUNK, 64 in the code.       *)
(***************************************************************************)
EXTENDS PackLayouts

CONSTANT LowChunk

Blk == 0 .. BLOCK - 1
Hi(x) == [i \in 0 .. 3 |-> x[i + 4]]      \* vshrq_n_u8(c, 4)
Lo(x) == [i \in 0 .. 3 |-> x[i]]          \* vandq_u8(c, mask)
Nib(x, half) == IF half = 0 THEN Lo(x) ELSE Hi(x)

\* The code of w bits at a shift.
At(x, shift, w) == [p \in 0 .. w - 1 |-> x[shift + p]]
-----------------------------------------------------------------------------
(* Tables: what an entry of sub-table s stands for, given the nibble that  *)
(* picks it.  build_query_lut: two of a byte-group, the first for the high *)
(* nibble and the first dimensions.                                        *)
PerNibble(w) == CodesPerByte(w) \div 2

SubTable(w, s, nib) ==
    {<<(s \div 2) * CodesPerByte(w) + (s % 2) * PerNibble(w) + c,
       At(nib, (PerNibble(w) - 1 - c) * w, w)>> : c \in 0 .. PerNibble(w) - 1}

\* build_sign_lut: four dimensions to a nibble, the first in its top bit.
SignTable(s, nib) == {<<4 * s + c, At(nib, 3 - c, 1)>> : c \in 0 .. 3}

Entry(w, s, nib) == IF w = 1 THEN SignTable(s, nib) ELSE SubTable(w, s, nib)

\* Both lookups of a code byte.
Lookups(w, g, x) == Entry(w, 2 * g, Hi(x)) \cup Entry(w, 2 * g + 1, Lo(x))

\* split_lut_for_vnni: of four groups, the low nibbles' tables, then the high's.
SplitLut(i) == LET g == 4 * (i \div 8) + (i % 4) IN IF i % 8 < 4 THEN 2 * g + 1 ELSE 2 * g

(* Faulty: the even dimensions, then the odd ones.                         *)
FaultyWeights(i) == 2 * (4 * (i \div 8) + (i % 4)) + IF i % 8 < 4 THEN 0 ELSE 1

(* Weights: the dimension at each place.  build_permute_dot, of 4-bit      *)
(* codes: of four groups the odd dimensions, then the even ones.           *)
Weights(i) == 2 * (4 * (i \div 8) + (i % 4)) + IF i % 8 < 4 THEN 1 ELSE 0

\* build_permute_dot_2bit: levels and levels2, by the low and the high code.
Levels2(nib, k) == At(nib, 2 * k, 2)
-----------------------------------------------------------------------------
(* Kernels of the stored order and of x86 nibbles.  w is the width of the  *)
(* codes read (1: the sign region), ng the groups of a row, b the block.   *)

\* score_query_into_heap, the portable kernel.
Scalar(b) ==
    [l \in Blk |-> [g \in 0 .. nbg - 1 |-> Lookups(bits, g, ReadCode(h, buf, bits, nbg, b, g, l))]]

\* score_lut_block_neon, score_4query_block_neon: registers of lanes 0 to 15, 16 to 31.
NeonLut(w, ng, b) ==
    LET c(g, r) == Part(buf, b * ng * BLOCK + g * BLOCK + 16 * r, 16) IN
    [l \in Blk |-> [g \in 0 .. ng - 1 |-> Lookups(w, g, c(g, l \div 16)[l % 16])]]

(* The 256-bit flush: words of even bytes, the odd ones subtracted, and of *)
(* odd bytes, their halves crossed over and added.                         *)
Avx2Bytes(word) == IF word < 8 THEN {2 * word, 2 * word + 16}
                   ELSE {2 * word - 15, 2 * word + 1}

\* search_multi_query_avx2: low nibbles score lanes 0 to 15, high ones the rest.
Avx2Lanes(w, ng, codes) ==
    [l \in Blk |->
       [gx \in (0 .. ng - 1) \X Avx2Bytes(l % 16) |->
          Entry(w, 2 * gx[1] + gx[2] \div 16, Nib(codes[gx[1]][gx[2]], l \div 16))]]

Avx2(w, ng, b) == Avx2Lanes(w, ng, [g \in 0 .. ng - 1 |-> Part(buf, (b * ng + g) * BLOCK, BLOCK)])

\* search_multi_query_avx512bw: two blocks in a register, the last alone.
Zmm(ng, pair, g) ==
    [x \in 0 .. 63 |-> buf[((2 * pair + x \div BLOCK) * ng + g) * BLOCK + (x % BLOCK)]]

Avx512bw(w, ng, b) ==
    IF b \div 2 < BlocksOf(n) \div 2
    THEN Avx2Lanes(w, ng, [g \in 0 .. ng - 1 |->
                             Part(Zmm(ng, b \div 2, g), BLOCK * (b % 2), BLOCK)])
    ELSE Avx2(w, ng, b)
-----------------------------------------------------------------------------
(* Kernels of the vector-major layout: a register holds four groups of     *)
(* some lanes, the bytes of a lane side by side.                           *)
Terms(units, width) == (0 .. units - 1) \X (0 .. 1) \X (0 .. width - 1)

\* search_multi_query_vnni, search_single_query_vnni_blk2: a dword is a lane.
Vnni(w, ng, b) ==
    LET c(q4, l) == Part(buf, b * ng * BLOCK + q4 * 128 + (l \div 16) * 64 + (l % 16) * 4, 4) IN
    [l \in Blk |-> [t \in Terms(ng \div 4, 4) |->
       Entry(w, SplitLut(8 * t[1] + 4 * t[2] + t[3]), Nib(c(t[1], l)[t[3]], t[2]))]]

\* define_permute_dot: the same places, levels against broadcast weights.
PermuteDot(b) ==
    LET c(q4, l) == Part(buf, b * nbg * BLOCK + q4 * 128 + (l \div 16) * 64 + (l % 16) * 4, 4) IN
    [l \in Blk |-> [t \in Terms(nbg \div 4, 4) |->
       {<<Weights(8 * t[1] + 4 * t[2] + t[3]), Nib(c(t[1], l)[t[3]], t[2])>>}]]

\* A 16-byte register of vector-major units of m bytes.
Reg(b, m, unit, i) == Part(buf, b * nbg * BLOCK + unit * m + i * 16, 16)

(* score_block_permute_dot_neon: a pair of quads shares a register of      *)
(* weights, out of which sdot_lane takes four.                             *)
SdotLane(q4, half) == 8 * (q4 - (q4 % 2)) + 4 * (2 * (q4 % 2) + half)

Sdot(b) ==
    [l \in Blk |-> [t \in Terms(nbg \div 4, 4) |->
       {<<Weights(SdotLane(t[1], t[2]) + t[3]),
          Nib(Reg(b, 128, t[1], 2 * (l \div 8) + ((l \div 4) % 2))[4 * (l % 4) + t[3]], t[2])>>}]]
-----------------------------------------------------------------------------
(* SMMLA: two queries' rows of eight against two vectors' columns.  The    *)
(* first operand holds <<query, dimension>>.                               *)

\* build_smmla_a, build_smmla_a_vm8, build_smmla_a_vm8_2bit.
SmmlaA(q4, x) == <<x \div 8, Weights(8 * q4 + IF x % 2 = 0 THEN 4 + (x % 8) \div 2 ELSE (x % 8) \div 2)>>
SmmlaA8(q8, half, x) ==
    LET g == 8 * q8 + (x % 8) IN
    <<x \div 8, Weights(8 * (g \div 4) + 4 * half + (g % 4))>>
SmmlaA2(q8, k, x) == <<x \div 8, 4 * (8 * q8 + (x % 8)) + k>>

\* vzip1q, vzip2q of elements of m bytes.
Zip(a, b, m, half) ==
    [x \in 0 .. 15 |->
       LET e == x \div m
           y == (half * (8 \div m) + e \div 2) * m + (x % m)
       IN IF e % 2 = 0 THEN a[y] ELSE b[y]]
Halves(reg, half) == [x \in 0 .. 15 |-> Nib(reg[x], half)]

\* score_block_permute_smmla_neon: of query `r` of a pair.
Smmla(b, r) ==
    LET reg(q4, l) == Reg(b, 128, q4, l \div 4)
        tile(q4, l) == Zip(Halves(reg(q4, l), 1), Halves(reg(q4, l), 0), 1, (l % 4) \div 2)
    IN [l \in Blk |-> [t \in (0 .. nbg \div 4 - 1) \X (0 .. 7) |->
          {<<SmmlaA(t[1], 8 * r + t[2]), tile(t[1], l)[8 * (l % 2) + t[2]]>>}]]

\* score_block_smmla_vm8: the register is the second operand.
SmmlaVm8(b, r) ==
    [l \in Blk |-> [t \in Terms(nbg \div 8, 8) |->
       {<<SmmlaA8(t[1], t[2], 8 * r + t[3]),
          Nib(Reg(b, 256, t[1], 2 * (l \div 4) + (l % 4) \div 2)[8 * (l % 2) + t[3]], t[2])>>}]]

\* score_block_vm8_single: a query paired with itself, sixteen accumulators.
Vm8Single(b) ==
    [l \in Blk |-> [t \in Terms(nbg \div 8, 8) |->
       {<<SmmlaA8(t[1], t[2], t[3]), Nib(Reg(b, 256, t[1], l \div 2)[8 * (l % 2) + t[3]], t[2])>>}]]

\* score_block_smmla_vm8_2bit: tb then ta of the high nibble, then of the low.
SmmlaVm8Two(b, r) ==
    [l \in Blk |-> [t \in (0 .. nbg \div 8 - 1) \X (0 .. 3) \X (0 .. 7) |->
       {<<SmmlaA2(t[1], t[2], 8 * r + t[3]),
          Levels2(Nib(Reg(b, 256, t[1], 2 * (l \div 4) + (l % 4) \div 2)[8 * (l % 2) + t[3]],
                      1 - t[2] \div 2), 1 - (t[2] % 2))>>}]]

\* score_2bit_block_vm8_neon: three levels of UZP put a group in a register.
Uzp(a, b, odd) == [x \in 0 .. 15 |-> IF x < 8 THEN a[2 * x + odd] ELSE b[2 * x - 16 + odd]]

GroupsOf(at) ==
    LET r == [i \in 0 .. 7 |-> Part(buf, at + 16 * i, 16)]
        t == [i \in 0 .. 7 |-> Uzp(r[2 * (i % 4)], r[2 * (i % 4) + 1], i \div 4)]
        u == [i \in 0 .. 7 |-> LET at4 == 4 * (i \div 4) + 2 * (i % 2)
                               IN Uzp(t[at4], t[at4 + 1], (i % 4) \div 2)]
        from == <<0, 4, 2, 6>>
    IN [j \in 0 .. 7 |-> Uzp(u[from[(j % 4) + 1]], u[from[(j % 4) + 1] + 1], j \div 4)]

Vm8Lut(b) ==
    LET c(o, r) == GroupsOf(b * nbg * BLOCK + 256 * o + 128 * r) IN
    [l \in Blk |-> [g \in 0 .. nbg - 1 |->
       Lookups(2, g, c(g \div 8, l \div 16)[g % 8][l % 16])]]
-----------------------------------------------------------------------------
(* Planes: a row's sign bytes, in the region's order, and its low planes.  *)
SignByte(v, g) == buf[(v \div BLOCK) * nsg * BLOCK + PlanesSlot(h, g, v % BLOCK)]
LowPlane(v, p) == Part(low, (v * (bits - 1) + p) * nsg, nsg)

\* legacy_score: the code bytes of 2-bit codes, rebuilt.
LegacyScore(v) ==
    [g \in 0 .. nsg - 1 |->
       LET c == CodeBytes2(SignByte(v, g), LowPlane(v, 0)[g])
       IN Lookups(2, 2 * g, c[1]) \cup Lookups(2, 2 * g + 1, c[2])]

\* Exact4::new: position 8c + b holds dimension 8c + 7 - b.
Exact4W(x) == LET d == 8 * (x \div 8) + 7 - (x % 8)
                  g == d \div 2
              IN Weights(8 * (g \div 4) + (g % 4) + IF d % 2 = 0 THEN 4 ELSE 0)

\* exact4_codes: bit i of the four planes' bytes.
Exact4Code(sb, p2, p1, p0, i) == [p \in 0 .. 3 |-> <<p0, p1, p2, sb>>[p + 1][i]]
Exact4At(v, g, i) ==
    Exact4Code(SignByte(v, g), LowPlane(v, 2)[g], LowPlane(v, 1)[g], LowPlane(v, 0)[g], i)

Exact4Scalar(v) ==
    [t \in (0 .. nsg - 1) \X Bits |-> {<<Exact4W(8 * t[1] + t[2]), Exact4At(v, t[1], t[2])>>}]

\* exact4_sum_neon: two groups a step.
Exact4Neon(v) ==
    [t \in {c \in 0 .. nsg - 1 : c % 2 = 0} \X (0 .. 15) |->
       LET g == t[1] + t[2] \div 8
           sb == buf[(v \div BLOCK) * nsg * BLOCK + g * BLOCK + (v % BLOCK)]
       IN {<<Exact4W(8 * t[1] + t[2]),
             Exact4Code(sb, LowPlane(v, 2)[g], LowPlane(v, 1)[g], LowPlane(v, 0)[g], t[2] % 8)>>}]

\* exact4_sum_avx512: eight groups a step, or the last four; weights past them are zero.
Exact4Avx512(v) ==
    LET lane == v % BLOCK
        quad(q) == Part(buf, (v \div BLOCK) * nsg * BLOCK
                             + q * 128 + (lane \div 16) * 64 + (lane % 16) * 4, 4)
        live(c) == IF c + 8 <= nsg THEN 64 ELSE 32
    IN [t \in {c \in 0 .. nsg - 1 : c % 8 = 0} \X (0 .. 63) |->
          IF t[2] >= live(t[1]) THEN {}
          ELSE LET y == t[2] \div 8
                   g == t[1] + y
               IN {<<Exact4W(8 * t[1] + t[2]),
                     Exact4Code(quad(t[1] \div 4 + y \div 4)[y % 4],
                                LowPlane(v, 2)[g], LowPlane(v, 1)[g], LowPlane(v, 0)[g],
                                t[2] % 8)>>}]
-----------------------------------------------------------------------------
(* The mask count of a low plane.  A query is masks, per LowChunk bytes of *)
(* a row those of the positive weights' bits and those of the negative's;  *)
(* a mask bit is <<sign, bit of the weight, dimension>>.                   *)
LOW_BITS == 6
MaskRow == 2 * LOW_BITS * LowChunk

\* build_low_planes_scalar.
LowMasks ==
    [x \in 0 .. ((nsg + LowChunk - 1) \div LowChunk) * MaskRow - 1 |->
       LET byte == (x \div MaskRow) * LowChunk + (x % LowChunk)
           plane == (x % MaskRow) \div LowChunk
       IN [i \in Bits |-> IF byte < nsg THEN <<plane \div LOW_BITS, plane % LOW_BITS, 8 * byte + 7 - i>>
                          ELSE ZeroBit]]

\* build_low_masks_avx512: sixteen coordinates a step, their bits reversed.
REV8(mask) == [i \in Bits |-> mask[7 - i]]
LowMasksAvx512 ==
    [x \in 0 .. ((nsg + LowChunk - 1) \div LowChunk) * MaskRow - 1 |->
       LET byte == (x \div MaskRow) * LowChunk + (x % LowChunk)
           plane == (x % MaskRow) \div LowChunk
           c     == byte - (byte % 2)
           on    == [i \in 0 .. 15 |-> <<plane \div LOW_BITS, plane % LOW_BITS, 8 * c + i>>]
       IN IF byte < nsg THEN REV8([i \in Bits |-> on[8 * (byte % 2) + i]]) ELSE ZeroByte]

\* What a mask bit counts of a row bit, at a power of two.
Count(mask, bit, power) == IF mask = ZeroBit \/ bit = ZeroBit THEN {} ELSE {<<mask, bit, power>>}

\* low_dot_scalar, by words of eight; low_dot_avx512, by chunks.
LowDot(masks, row) ==
    [t \in (0 .. nsg - 1) \X (0 .. 2 * LOW_BITS - 1) \X Bits |->
       LET in == t[1] % LowChunk
           at == (t[1] \div LowChunk) * MaskRow + t[2] * LowChunk + 8 * (in \div 8) + (in % 8)
       IN Count(masks[at][t[3]], row[t[1]][t[3]], 2 ^ (t[2] % LOW_BITS))]

\* low_dot_neon: the bytes of a row by sixteens, three bits to an accumulator.
LowDotNeon(masks, row) ==
    [t \in (0 .. nsg - 1) \X (0 .. 2 * LOW_BITS - 1) \X Bits |->
       LET c == t[1] \div LowChunk
           j == 16 * ((t[1] % LowChunk) \div 16)
           b == t[2] % LOW_BITS
       IN Count(masks[c * MaskRow + t[2] * LowChunk + j + (t[1] % 16)][t[3]], row[t[1]][t[3]],
                IF b < 3 THEN 2 ^ b ELSE 8 * 2 ^ (b - 3))]

\* transpose16_neon: sixteen rows of sixteen bytes, by ever wider zips.
Transpose16(r) ==
    LET ab  == [k \in 0 .. 1 |-> [i \in 0 .. 7 |-> Zip(r[2 * i], r[2 * i + 1], 1, k)]]
        q   == [k \in 0 .. 3 |-> [i \in 0 .. 3 |->
                  Zip(ab[k \div 2][2 * i], ab[k \div 2][2 * i + 1], 2, k % 2)]]
        oct == [k \in 0 .. 7 |-> [i \in 0 .. 1 |->
                  Zip(q[k \div 2][2 * i], q[k \div 2][2 * i + 1], 4, k % 2)]]
    IN [j \in 0 .. 15 |-> Zip(oct[j \div 2][0], oct[j \div 2][1], 8, j % 2)]

\* table_sums_neon, of a plane of the rows vs (plane_terms): lane i of the answer.
TableSums(vs, p) ==
    LET reg(c, i) == [x \in 0 .. 15 |->
                        IF i \in DOMAIN vs /\ c + x < nsg THEN LowPlane(vs[i], p)[c + x] ELSE ZeroByte]
        cols(c, half) == Transpose16([i \in 0 .. 15 |-> reg(c, 16 * half + i)])
    IN [i \in DOMAIN vs |-> [y \in 0 .. nsg - 1 |->
          Lookups(1, y, cols(y - (y % 16), i \div 16)[y % 16][i % 16])]]
-----------------------------------------------------------------------------
(* What there is to weight: the codes of a row, or one plane of them.      *)
RowOf(v)       == {<<d, [p \in 0 .. bits - 1 |-> <<ids[v + 1], d, p>>]>> : d \in 0 .. dim - 1}
PlaneOf(v, p)  == {<<d, [i \in {0} |-> <<ids[v + 1], d, p>>]>> : d \in 0 .. dim - 1}
Of(r, row)     == {<<<<r, t[1]>>, t[2]>> : t \in row}
CountsOf(v, p) == {<<<<s, b, d>>, <<ids[v + 1], d, p>>, 2 ^ b>> :
                     s \in {0, 1}, b \in 0 .. LOW_BITS - 1, d \in 0 .. dim - 1}

\* A sum of exactly those terms.
Sums(lane, want) ==
    /\ UNION {lane[t] : t \in DOMAIN lane} = want
    /\ Cardinality(UNION {{t} \X lane[t] : t \in DOMAIN lane}) = Cardinality(want)

\* The kernels the dispatch may pick for a host's codes, and for its signs.
NativeKernels(b) ==
    CASE h.x86 /\ Native(h, bits, nbg) = "nibble" ->
           <<Scalar(b), Avx2(bits, nbg, b), Avx512bw(bits, nbg, b)>>
      [] h.x86 /\ Native(h, bits, nbg) = "vm" ->
           <<Scalar(b), IF bits = 4 THEN PermuteDot(b) ELSE Vnni(bits, nbg, b)>>
      [] Native(h, bits, nbg) = "seq" -> <<NeonLut(bits, nbg, b)>>
      [] ~h.x86 /\ Native(h, bits, nbg) = "vm" -> <<Sdot(b)>>
      [] Native(h, bits, nbg) = "vm8" -> IF bits = 4 THEN <<>> ELSE <<Vm8Lut(b)>>

\* Those whose operands name a query of a pair.
PairKernels(b, r) ==
    CASE h.x86 \/ Native(h, bits, nbg) = "seq" -> <<>>
      [] ~h.x86 /\ Native(h, bits, nbg) = "vm" -> <<Smmla(b, r)>>
      [] Native(h, bits, nbg) = "vm8" ->
           IF bits = 2 THEN <<SmmlaVm8Two(b, r)>>
           ELSE <<SmmlaVm8(b, r)>> \o IF r = 0 THEN <<Vm8Single(b)>> ELSE <<>>

SignKernel(b) == IF h.x86 THEN Vnni(1, nsg, b) ELSE NeonLut(1, nsg, b)

\* What refines and rescores a candidate.
Rescores(v) == IF bits = 2 THEN <<LegacyScore(v)>>
               ELSE <<Exact4Scalar(v), IF h.x86 THEN Exact4Avx512(v) ELSE Exact4Neon(v)>>

LowDots(v, p) == IF h.x86 THEN <<LowDot(LowMasks, LowPlane(v, p)), LowDot(LowMasksAvx512, LowPlane(v, p))>>
                 ELSE <<LowDotNeon(LowMasks, LowPlane(v, p))>>

\* Candidates come from anywhere.
Gathered == [i \in 0 .. Min({n, BLOCK}) - 1 |-> n - 1 - i]

(* Whatever layout the host keeps, every kernel that may score a row reads *)
(* each of its dimensions once, with its own weight or table, and nothing  *)
(* of another row.                                                         *)
NativeSums ==
    form = "native" =>
      \A v \in 0 .. n - 1 :
        LET b == v \div BLOCK
            l == v % BLOCK
        IN /\ \A k \in DOMAIN NativeKernels(b) : Sums(NativeKernels(b)[k][l], RowOf(v))
           /\ \A r \in {0, 1} : \A k \in DOMAIN PairKernels(b, r) :
                Sums(PairKernels(b, r)[k][l], Of(r, RowOf(v)))

PlaneSums ==
    form = "planes" =>
      \A v \in 0 .. n - 1 :
        /\ Sums(SignKernel(v \div BLOCK)[v % BLOCK], PlaneOf(v, bits - 1))
        /\ \A k \in DOMAIN Rescores(v) : Sums(Rescores(v)[k], RowOf(v))
        /\ \A p \in 0 .. bits - 2 : \A k \in DOMAIN LowDots(v, p) :
             Sums(LowDots(v, p)[k], CountsOf(v, p))

GatheredSums ==
    form = "planes" /\ ~h.x86 /\ bits > 2 =>
      \A i \in DOMAIN Gathered, p \in 0 .. bits - 2 :
        Sums(TableSums(Gathered, p)[i], PlaneOf(Gathered[i], p))

KernelsReadTheirRows == NativeSums /\ PlaneSums /\ GatheredSums
=============================================================================
