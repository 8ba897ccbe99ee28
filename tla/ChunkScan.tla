------------------------------ MODULE ChunkScan ------------------------------
(***************************************************************************)
(* A search of a mapped index (src/turbovec/src/lib.rs, search_mapped): a  *)
(* batch of queries walks the image chunk by chunk, each chunk scanned     *)
(* once for the whole batch with the lowest of the queries' floors; each   *)
(* query keeps its best so far, merges a chunk's row into them and raises  *)
(* its floor to its k-th best.  What one chunk's scan returns is TopK's    *)
(* promise, which TileScan shows the kernels keep.                         *)
(***************************************************************************)
EXTENDS TopK

CONSTANTS ImageVecs,     \* number of slots of the image
          ImageChunk,    \* slots per chunk
          ImageQueries,  \* the queries of one batch
          ImageScores,   \* values a score takes
          ImageMasks,    \* allowed slots, one member per mask tried
          ImageKeep,     \* results wanted
          Thresholds     \* initial_threshold

ASSUME WalkAssumption ==
    /\ ImageVecs \in Nat /\ ImageChunk \in Nat \ {0}
    /\ IsFiniteSet(ImageQueries) /\ ImageQueries # {}
    /\ ImageScores \subseteq Int /\ Thresholds \subseteq Int
    /\ ImageMasks \subseteq SUBSET (0 .. ImageVecs - 1) /\ ImageKeep \subseteq Nat

VARIABLES call,        \* score functions, mask, k, threshold
          start,       \* first slot of the next chunk
          kept,        \* query |-> its best so far, best first
          cutoffs,     \* query |-> its floor
          done         \* the rows have been returned
chunkVars == <<call, start, kept, cutoffs, done>>

ImageSlots == 0 .. ImageVecs - 1
EffectiveK == Min({call.k, Cardinality(call.mask)})
(* Faulty: the chunk is scanned with the highest of the floors. *)
FaultyKernelFloor == Max({cutoffs[x] : x \in ImageQueries})

KernelFloor == Min({cutoffs[x] : x \in ImageQueries})
ImageLive == Min({ImageChunk, ImageVecs - start})

ChunkInit == /\ call \in [score : [ImageQueries -> [ImageSlots -> ImageScores]],
                          mask : ImageMasks, k : ImageKeep, threshold : Thresholds]
             /\ start = 0
             /\ kept = [x \in ImageQueries |-> <<>>]
             /\ cutoffs = [x \in ImageQueries |-> call.threshold]
             /\ done = FALSE

\* One chunk's row for a query: its scan is asked for k of the chunk's allowed
\* slots at or above the lowest floor of the batch.
ChunkRow(x) ==
    LET allowed == call.mask \cap start .. start + ImageLive - 1
        Score(v) == call.score[x][v]
    IN Row(TopOf(Score, allowed, EffectiveK, KernelFloor))

\* The merge of a row and more hits in the kernel's order, cut at n.
MergeRows(a, hits, n) ==
    LET all == Row(ToSet(a) \cup hits) IN SubSeq(all, 1, Min({n, Len(all)}))

\* A query that holds k raises its floor to its k-th best.
Raised(x, row) ==
    IF Len(row) >= EffectiveK /\ row[EffectiveK].score > cutoffs[x]
    THEN row[EffectiveK].score ELSE cutoffs[x]

\* The next chunk: each query drops what its own floor excludes and merges.
ScanChunk ==
    /\ start < ImageVecs /\ EffectiveK > 0
    /\ LET Own(x) == {h \in ToSet(ChunkRow(x)) : h.score >= cutoffs[x]}
           rows == [x \in ImageQueries |-> MergeRows(kept[x], Own(x), EffectiveK)]
       IN /\ kept' = rows
          /\ cutoffs' = [x \in ImageQueries |-> Raised(x, rows[x])]
    /\ start' = start + ImageLive
    /\ UNCHANGED <<call, done>>

Return == /\ start >= ImageVecs \/ EffectiveK = 0
          /\ ~ done
          /\ done' = TRUE
          /\ UNCHANGED <<call, start, kept, cutoffs>>

ChunkNext == ScanChunk \/ Return

ChunkSpec == ChunkInit /\ [][ChunkNext]_chunkVars

-----------------------------------------------------------------------------
(* Properties. *)

\* A query's best n of some slots, at or above the caller's threshold.
BestOf(x, slots) ==
    LET Score(v) == call.score[x][v] IN TopOf(Score, slots, EffectiveK, call.threshold)

\* A floor never excludes a hit of the final answer.
FloorsSound ==
    \A x \in ImageQueries : \A h \in BestOf(x, call.mask) : h.score >= cutoffs[x]

(* At every chunk a query holds the best k of the slots walked so far at   *)
(* or above the threshold, in the kernel's order: no floor, its own or     *)
(* another query's, has cost it a hit or let one in, and none will ("the   *)
(* union of the chunks' top-k is the top-k of the whole image",            *)
(* search_mapped).                                                         *)
PrefixTopK ==
    /\ \A x \in ImageQueries : kept[x] = Row(BestOf(x, call.mask \cap 0 .. start - 1))
    /\ FloorsSound
=============================================================================
