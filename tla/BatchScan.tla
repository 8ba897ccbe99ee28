----------------------------- MODULE BatchScan -----------------------------
(***************************************************************************)
(* How a search is dealt out (search.rs, scan_with_luts): the batches of   *)
(* queries, the ranges of blocks, which kernel walks them, how the kernel  *)
(* groups the blocks it reads and when it skips a group.  A lane offered   *)
(* to a heap is the query whose heap it is, the query whose table scored   *)
(* it, and the slot it is named by.  What heaps do with offers is TopK's.  *)
(*                                                                         *)
(* The widths of batches and groups are the code's.  Gate, MinTile,        *)
(* TilesPerThread, Pieces and PerK are its thresholds made small: 1024,    *)
(* 1024, 32, PLANES_PIECES_PER_WORKER and 512 in the code.                 *)
(***************************************************************************)
EXTENDS TopK

CONSTANTS Gate,            \* SINGLE_QUERY_PARALLEL_MIN_BLOCKS
          MinTile,         \* MIN_TILE_BLOCKS
          TilesPerThread, Pieces, PerK,
          Sizes,           \* slots of an index
          Queries,         \* queries of a call
          Threads,         \* of the pool
          Masks,           \* allowed slots
          Keep             \* results wanted

VARIABLES job, offered
vars == <<job, offered>>

Ceil(a, b) == (a + b - 1) \div b

\* Which tables the queries carry decides the kernel: pd, pd2, split, or
\* none; without those the features of the processor do.
Arm == {"arm_lut", "arm_pd"}
Simd == {"pd", "split", "avx512bw", "avx2"}
Kernels == Arm \cup Simd \cup {"scalar"}

Jobs == {j \in [kernel : Kernels, nq : Queries, threads : Threads, vecs : Sizes,
                masked : BOOLEAN, mask : Masks, k : Keep, buffered : BOOLEAN] :
           /\ j.mask \cap (0 .. j.vecs - 1) # {}
           /\ j.buffered => j.nq = 1
           /\ ~j.masked => 0 .. j.vecs - 1 \subseteq j.mask}

Blocks(j) == Ceil(j.vecs, Block)
SlotsOf(b) == b * Block .. b * Block + Block - 1
-----------------------------------------------------------------------------
(* How much is split.                                                      *)

\* allowed_blocks.
AllowedBlocks(j) == Cardinality({b \in 0 .. Blocks(j) - 1 : SlotsOf(b) \cap j.mask # {}})

\* single_query_parallelizes.
Parallelizes(vecs) == Ceil(vecs, Block) >= Gate

\* single_query_workers.
Workers(j) == IF AllowedBlocks(j) >= Gate THEN Max({j.threads, 1}) ELSE 1

\* serial_required.
SerialRequired(j) == j.kernel \notin Arm /\ (j.masked \/ j.kernel = "scalar")

\* range_cap_for_k; the k of a buffered batch changes the number only.
RangeCapForK(j) == Max({1, Ceil(j.vecs, PerK * Max({j.k, 1}))})

\* MIN_TILE_BLOCKS_NEON (twice that at two bits), MIN_TILE_BLOCKS_X86.
MinTileOf(j) == IF j.kernel \in Arm THEN Max({MinTile \div 2, 1}) ELSE 3 * MinTile
TileTarget(j) == IF j.kernel \in Arm THEN 2 * TilesPerThread ELSE TilesPerThread

\* n_block_ranges.
BlockRanges(j, quads) ==
    IF j.threads = 1 \/ SerialRequired(j) \/ (j.nq = 1 /\ ~Parallelizes(j.vecs)) THEN 1
    ELSE Max({1, Min({Ceil(j.threads * TileTarget(j), quads),
                      Ceil(Blocks(j), MinTileOf(j)), RangeCapForK(j)})})

\* smooth_tile_count.
Smooth(ranges, quads, threads) ==
    IF quads * ranges > threads /\ quads * ranges < 2 * threads
    THEN Max({threads \div quads, 1}) ELSE ranges

(* Faulty: ten queries whatever kernel takes them. *)
FaultyWidth(j) ==
    IF j.threads = 1 /\ Ceil(j.nq, 10) < Ceil(j.nq, 8) THEN 10 ELSE 8

\* qbs and nq_batch: the queries of a batch.
Width(j) ==
    CASE j.kernel = "arm_lut" -> 4
      [] j.kernel = "arm_pd"  -> IF j.nq >= 12 THEN 12 ELSE IF j.nq >= 8 THEN 8 ELSE 4
      [] j.kernel = "pd" /\ j.threads = 1 /\ Ceil(j.nq, 10) < Ceil(j.nq, 8) -> 10
      [] j.kernel = "split"   -> 6
      [] OTHER -> 8
-----------------------------------------------------------------------------
(* What a kernel walks: of nb blocks, each group it scores and the blocks  *)
(* in it.  A group none of whose blocks the mask allows is skipped.        *)
Grouped(from, to, w) == {b .. Min({b + w, to}) - 1 : b \in {c \in from .. to - 1 : (c - from) % w = 0}}

Visited(groups, mask) ==
    {g \in groups : \E b \in g : SlotsOf(b) \cap mask # {}}

\* search_single_query_vnni_blk2, search_multi_query_avx512bw: pairs, then the last.
Paired(nb) == Grouped(0, 2 * (nb \div 2), 2) \cup Grouped(2 * (nb \div 2), nb, 1)

Groups(kernel, nq, single, nb) ==
    CASE kernel = "pd" /\ single -> Grouped(0, nb, 8)
      [] kernel = "avx512bw" \/ (kernel = "split" /\ nq = 1) -> Paired(nb)
      [] OTHER -> Grouped(0, nb, 1)

\* The lanes a kernel offers of its blocks: the mask holds, padding does not.
Lanes(groups, vecs, mask) ==
    {<<g, s>> \in groups \X (0 .. vecs - 1) :
        s \in mask /\ \E b \in g : s \in SlotsOf(b)}
-----------------------------------------------------------------------------
(* Which lanes of a batch a call of a kernel takes: pd_scan, the LUT batch *)
(* and the tail; pd_dispatch, vnni_nq, the chunks of four, the scalar loop.*)
Alone(m) == {i .. i : i \in 0 .. m - 1}

Calls(j, m) ==
    CASE j.kernel = "arm_pd" -> IF m \in {12, 8, 4} THEN {0 .. m - 1} ELSE Alone(m)
      [] j.kernel = "arm_lut" -> IF m = 4 THEN {0 .. 3} ELSE Alone(m)
      [] j.kernel = "pd" -> {0 .. Min({m, IF Width(j) = 10 THEN 10 ELSE 8}) - 1}
      [] j.kernel = "split" -> {0 .. Min({m, 8}) - 1}
      [] j.kernel \in {"avx512bw", "avx2"} -> Grouped(0, m, 4)
      [] j.kernel = "scalar" -> Alone(m)

\* A lane past the batch has the last query's table.
TableOf(lane, first, end) == IF first + lane < end THEN first + lane ELSE end - 1

Offers(where, lanes, calls, first, end, base) ==
    {[heap |-> first + i, table |-> TableOf(i, first, end), slot |-> base + l[2],
      by |-> <<where, l[1]>>] : l \in lanes, i \in UNION calls}

(* One query of enough blocks: a range for each piece of a worker, the     *)
(* mask cut at its first word.                                             *)
Single(j) ==
    LET stride == BlockRangeStride(Blocks(j),
                    Workers(j) * IF j.buffered /\ Workers(j) > 1 THEN Pieces ELSE 1)
        range(b) ==
          LET nb    == Min({stride, Blocks(j) - b})
              mask  == MaskSlice(j.mask, b * Block)
              walk  == Visited(Groups(j.kernel, 1, TRUE, nb), mask)
              vecs  == Min({nb * Block, j.vecs - b * Block})
          IN Offers(b, Lanes(walk, vecs, mask), {{0}}, 0, 1, b * Block)
    IN UNION {range(b) : b \in {c \in 0 .. Blocks(j) - 1 : c % stride = 0}}

(* A batch: a tile is a quad of queries and a range of blocks.  On x86 a   *)
(* kernel is given a slice of the codes and all of the mask, the portable  *)
(* one all of both; on aarch64 blocks are named from the first.            *)
Tile(j, perRange, first, b) ==
    LET end   == Min({first + Width(j), j.nq})
        whole == j.kernel = "scalar"
        nb    == IF whole THEN Blocks(j) ELSE Min({perRange, Blocks(j) - b})
        vecs  == IF whole THEN j.vecs ELSE Min({nb * Block, j.vecs - b * Block})
        mask  == IF j.kernel \in Arm THEN {s - b * Block : s \in j.mask} ELSE j.mask
        walk  == Visited(Groups(j.kernel, end - first, FALSE, nb), mask)
    IN Offers(<<first, b>>, Lanes(walk, vecs, mask), Calls(j, end - first), first, end, b * Block)

Batched(j) ==
    LET quads    == Max({Ceil(j.nq, Width(j)), 1})
        ranges   == Smooth(BlockRanges(j, quads), quads, Max({j.threads, 1}))
        perRange == Max({1, Ceil(Blocks(j), ranges)})
    IN UNION {Tile(j, perRange, first, b) :
                first \in {q \in 0 .. j.nq - 1 : q % Width(j) = 0},
                b \in {c \in 0 .. Max({Blocks(j), 1}) - 1 : c % perRange = 0}}
-----------------------------------------------------------------------------
Init == job \in Jobs /\ offered = <<>>

\* scan_with_luts.
Scan == /\ offered = <<>>
        /\ offered' = <<IF job.nq = 1 /\ Blocks(job) >= Gate /\ job.kernel # "scalar"
                        THEN Single(job) ELSE Batched(job)>>
        /\ UNCHANGED job

Next == Scan

Spec == Init /\ [][Next]_vars

(* Every query's heap is offered every slot the mask allows, and each just *)
(* once, scored by its own table: no query of a batch is forgotten, no     *)
(* block is skipped for another's sake or scanned by two ranges, and no    *)
(* mask is read at the wrong place (search.rs, H54, pd_dispatch).          *)
EachAllowedSlotOnce ==
    offered # <<>> =>
      /\ \A o \in offered[1] : o.table = o.heap
      /\ \A q \in 0 .. job.nq - 1 :
           LET mine == {o \in offered[1] : o.heap = q}
               want == job.mask \cap (0 .. job.vecs - 1)
           IN {o.slot : o \in mine} = want /\ Cardinality(mine) = Cardinality(want)
=============================================================================
