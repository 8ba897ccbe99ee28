------------------------------ MODULE LutSums ------------------------------
(***************************************************************************)
(* The widths the scoring kernels of search.rs add in.  A table entry is a *)
(* byte; entries are paired, or held four groups, in bytes, added up in 16 *)
(* bits, and flushed into a float sum before those run out.  One lane, or  *)
(* the two that share a word; the entries a row picks are the same in      *)
(* every group, so that the extremes are among them.                       *)
(*   "neon": score_4query_block_neon, score_4bit_block_neon;               *)
(*   "sign": score_sign_block_neon;  "vm8": score_2bit_block_vm8_neon;     *)
(*   "avx":  search_multi_query_avx2, avx512bw;  "table": table_sums_neon; *)
(*   "low":  low_dot_neon, whose six planes' counts of a byte differ by d. *)
(***************************************************************************)
EXTENDS Integers, Sequences

CONSTANTS FlushEvery,     \* FLUSH_EVERY, a multiple of 16
          MaxGroups       \* groups of the longest row

VARIABLES sum, kernel, entry, g, acc, flushed
vars == <<sum, kernel, entry, g, acc, flushed>>

Kernels == {"neon", "sign", "vm8", "avx", "table", "low"}

(* Faulty: the sign tables of one query are those of a batch. *)
FaultyCap(k) == 127

\* max_lut of build_query_lut, and of build_sign_lut for a deferring kernel.
Cap(k) == IF k = "sign" THEN 31 ELSE 127

U8(x) == x % 256
U16(x) == x % 65536
I8(x) == ((x + 128) % 256) - 128

\* quantise_tables: 0 .. Cap.  The two sub-tables' entries, of one lane or of both.
Entries(k) == CASE k = "avx" -> [1 .. 4 -> {0, 1, Cap(k)}]
                [] k = "low" -> [0 .. 5 -> {-8, 0, 8}]
                [] OTHER     -> [1 .. 2 -> {0, 1, Cap(k)}]

\* Groups a step of the loop takes.
Stride(k) == CASE k = "sign" -> 4 [] k = "vm8" -> 8 [] OTHER -> 1

Zero(k) == IF k = "avx" THEN <<0, 0, 0, 0>> ELSE <<0>>

\* vaddq_u8 before vaddw_u8: a group's two lookups.
Paired(e) == U8(e[1] + e[2])

\* DEFER: of four groups, in bytes.
Deferred(e) == U8(U8(Paired(e) + Paired(e)) + U8(Paired(e) + Paired(e)))

(* The 256-bit accumulators: whole words, an even lane's byte under an odd *)
(* one's, and the odd bytes alone; of one sub-table's half of a register,  *)
(* then of the other's.                                                    *)
Words(a, e) == <<U16(a[1] + e[1] + 256 * e[2]), U16(a[2] + e[2]),
                 U16(a[3] + e[3] + 256 * e[4]), U16(a[4] + e[4])>>

\* avx2_batch_flush_to_fa: the odd bytes taken out, the two halves added.
Flushed(a) == <<U16(U16(a[1] - 256 * a[2]) + U16(a[3] - 256 * a[4])), U16(a[2] + a[4])>>

\* low_dot_neon: three planes to a byte.
LowSum(d) == LET lo == I8(I8(d[0] + I8(2 * d[1])) + I8(4 * d[2]))
                 hi == I8(I8(d[3] + I8(2 * d[4])) + I8(4 * d[5]))
             IN lo + 8 * hi

\* The accumulators after a step, and after a group left over.
Added(k, a, e) ==
    CASE k = "avx"  -> Words(a, e)
      [] k = "low"  -> <<a[1] + LowSum(e)>>
      [] k = "sign" -> <<U16(a[1] + Deferred(e))>>
      [] k = "vm8"  -> <<U16(a[1] + 8 * Paired(e))>>
      [] OTHER      -> <<U16(a[1] + Paired(e))>>

Sum(k, a) == IF k = "avx" THEN Flushed(a) ELSE a
Plus(s, t) == [i \in DOMAIN s |-> s[i] + t[i]]
-----------------------------------------------------------------------------
Init == /\ kernel \in Kernels /\ entry \in Entries(kernel)
        /\ g = 0 /\ flushed = 0
        /\ acc = Zero(kernel) /\ sum = Sum(kernel, Zero(kernel))

Running == acc # <<>>

\* A step that ends a batch of FlushEvery groups flushes; low_dot has no flush.
Step ==
    /\ Running /\ g + Stride(kernel) <= (IF kernel = "low" THEN 2 ELSE MaxGroups)
    /\ g' = g + Stride(kernel)
    /\ LET a == Added(kernel, acc, entry) IN
       IF g' % FlushEvery = 0
       THEN acc' = Zero(kernel) /\ sum' = Plus(sum, Sum(kernel, a)) /\ flushed' = g'
       ELSE acc' = a /\ UNCHANGED <<sum, flushed>>
    /\ UNCHANGED <<kernel, entry>>

\* The row ends: the groups left over, one at a time, and the last flush.
\* The vm8 layouts have whole octets only.
Last ==
    /\ Running
    /\ \E r \in 0 .. IF kernel = "sign" THEN 3 ELSE 0 :
         LET a == IF r = 0 THEN acc ELSE <<U16(acc[1] + r * Paired(entry))>> IN
         /\ g' = g + r /\ flushed' = g'
         /\ sum' = Plus(sum, Sum(kernel, a))
    /\ acc' = <<>> /\ UNCHANGED <<kernel, entry>>

Next == Step \/ Last

Spec == Init /\ [][Next]_vars

\* What a group is worth, of the lane or lanes.
Worth == CASE kernel = "avx" -> <<entry[1] + entry[3], entry[2] + entry[4]>>
           [] kernel = "low" -> <<entry[0] + 2 * entry[1] + 4 * entry[2] + 8 * entry[3]
                                      + 16 * entry[4] + 32 * entry[5]>>
           [] OTHER -> <<entry[1] + entry[2]>>

(* What has been flushed is the sum of the entries of the groups scored,   *)
(* exactly: no byte of a pair or of four groups, no word, no half of a     *)
(* word that its neighbour was taken out of, has wrapped (FLUSH_EVERY,     *)
(* max_lut).                                                               *)
SumsExact == sum = [i \in DOMAIN sum |-> flushed * Worth[i]]
=============================================================================
