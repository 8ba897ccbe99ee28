-------------------------------- MODULE TopK --------------------------------
(***************************************************************************)
(* How turbovec/src/search.rs selects: the heaps and the collectors that a *)
(* scan keeps per query, the mask windows, the cut of a scan into ranges,  *)
(* and the merge.  A vector is its slot; its score is a number, and what   *)
(* the SIMD kernels compute is the function Score the scans are given.     *)
(* A block is Block slots and a mask word is two blocks (32 and 64 in the  *)
(* code).                                                                  *)
(***************************************************************************)
EXTENDS Integers, Sequences, FiniteSets, FiniteSetsExt, SequencesExt

CONSTANT Block

ASSUME BlockAssumption == Block \in Nat \ {0}

Word == 2 * Block

\* Below every score: no floor.
NegInf == -1000

\* The largest value strictly below x: a floor becomes a strict cutoff.
NextDown(x) == IF x = NegInf THEN x ELSE x - 1

Hit(s, i) == [score |-> s, slot |-> i]

\* Score descending, slot ascending: the total order of every merge.
Better(a, b) == a.score > b.score \/ (a.score = b.score /\ a.slot < b.slot)

\* The worst of some hits: the lowest score, the largest slot among ties.
RescanMin(hits) == CHOOSE h \in hits : \A g \in hits \ {h} : Better(g, h)

\* The best n of some hits.
Best(hits, n) ==
    {h \in hits : Cardinality({g \in hits : Better(g, h)}) < n}

\* compact_half: keep the best half; the threshold is the worst kept.
CompactHalf(hits, k) ==
    LET keep == Best(hits, Max({k \div 2, 1}))
    IN [hits |-> keep, min |-> RescanMin(keep).score]

\* A scan's state for one query: the hits held and the cutoff.
Fresh(cutoff) == [hits |-> {}, min |-> cutoff]

\* Offer one lane to a heap of k.  The cutoff is strict, and rises only once
\* the heap is full; the worst, at the largest slot, is the one evicted.
OfferHeap(h, hit, k) ==
    IF hit.score <= h.min THEN h
    ELSE LET held == IF Cardinality(h.hits) < k THEN h.hits \cup {hit}
                     ELSE (h.hits \ {RescanMin(h.hits)}) \cup {hit}
         IN [hits |-> held,
             min |-> IF Cardinality(held) < k THEN h.min ELSE RescanMin(held).score]

\* Offer one lane to a collector of capacity k, compacted when it is full.
OfferBuffered(h, hit, k) ==
    IF hit.score <= h.min THEN h
    ELSE LET held == h.hits \cup {hit}
         IN IF Cardinality(held) = k THEN CompactHalf(held, k)
            ELSE [h EXCEPT !.hits = held]

Offer(h, hit, k, buffered) ==
    IF buffered THEN OfferBuffered(h, hit, k) ELSE OfferHeap(h, hit, k)

\* A mask is sliced at a range's first word and read relative to the range.
MaskSlice(mask, first) == {s - (first \div Word) * Word : s \in mask}

\* The ranges' hits, merged: the best k, or the best half of a collector's.
Merge(hits, k, buffered) ==
    Best(hits, IF buffered THEN Max({k \div 2, 1}) ELSE k)

(* Faulty: a stride that may be an odd number of blocks. *)
FaultyBlockRangeStride(blocks, pieces) == (blocks + pieces - 1) \div pieces

\* Blocks per range: an even number, so that a range starts on a mask word.
BlockRangeStride(blocks, pieces) ==
    LET n == (blocks + pieces - 1) \div pieces IN n + (n % 2)

\* What a scan promises: the best n among the allowed slots above the floor.
TopOf(Score(_), slots, n, floor) ==
    Best({Hit(Score(v), v) : v \in {w \in slots : Score(w) >= floor}}, n)

\* A result row, best first: at place n the hit that n - 1 are better than.
Row(hits) == [n \in 1 .. Cardinality(hits) |->
    CHOOSE h \in hits : Cardinality({g \in hits : Better(g, h)}) = n - 1]
=============================================================================
