------------------------------ MODULE TileScan ------------------------------
(***************************************************************************)
(* One query's scan, cut into ranges that workers finish in any order      *)
(* (search.rs: search_single_query_block_parallel, scan_with_luts), with a *)
(* mask, a floor, and the sign-plane search's collectors: seeded from a    *)
(* sample and scanned again when the seed left the shortlist short.        *)
(***************************************************************************)
EXTENDS TopK

CONSTANTS Vecs,      \* number of slots
          Scores,    \* values a score takes
          Masks,     \* allowed slots, one member per mask tried
          Pieces,    \* ranges the scan is cut into
          Keep       \* results wanted

ASSUME TileAssumption ==
    /\ Vecs \in Nat /\ Scores \subseteq Int /\ \A s \in Scores : s > NegInf
    /\ Masks \subseteq SUBSET (0 .. Vecs - 1)
    /\ Pieces \subseteq Nat \ {0} /\ Keep \subseteq Nat \ {0}

VARIABLES q,         \* the call: score function, mask, pieces, k, buffered, cutoff
          todo,      \* first slots of the ranges not scanned
          scan,      \* the range being scanned: first slot, next lane, heap
          found,     \* hits of the ranges scanned
          pass,      \* "first" | "again": the unseeded rescan of a short query
          result     \* hits returned, <<>> before
tileVars == <<q, todo, scan, found, pass, result>>

Slots == 0 .. Vecs - 1
BlockCount == (Vecs + Block - 1) \div Block
Stride(pieces) == BlockRangeStride(BlockCount, pieces) * Block
Firsts(pieces) == {f \in Slots : f % Stride(pieces) = 0}
Score(v) == q.score[v]

\* Ranges share nothing while they are scanned, so one is scanned at a time.
Idle == [first |-> -1, lane |-> 0, heap |-> Fresh(0)]
RangeLen(first) == Min({Stride(q.pieces), Vecs - first})

\* A collector holds twice the shortlist; a heap holds the results.
Capacity == IF q.buffered THEN 2 * q.k ELSE q.k

\* What the scan is asked for: k of the allowed slots.  Only a collector scan
\* has a seed, and a masked collector scan starts unseeded.
Calls == {c \in [score : [Slots -> Scores], mask : Masks, pieces : Pieces,
                 k : Keep, buffered : BOOLEAN, cutoff : {NegInf} \cup Scores] :
            /\ c.k <= Cardinality(c.mask)
            /\ c.buffered => 2 * c.k < Cardinality(c.mask)
            /\ c.buffered /\ c.mask # Slots => c.cutoff = NegInf}

TileInit == /\ q \in Calls
            /\ todo = Firsts(q.pieces)
            /\ scan = Idle
            /\ found = {}
            /\ pass = "first"
            /\ result = <<>>

\* A collector starts from the seed, unseeded when it is scanned again; a
\* heap starts one step below the floor, so that a tie with it is kept.
Cutoff == IF ~ q.buffered THEN NextDown(q.cutoff)
          ELSE IF pass = "again" THEN NegInf ELSE q.cutoff

\* A worker claims a range.
Claim(first) ==
    /\ scan = Idle /\ first \in todo
    /\ todo' = todo \ {first}
    /\ scan' = [first |-> first, lane |-> 0, heap |-> Fresh(Cutoff)]
    /\ UNCHANGED <<q, found, pass, result>>

Allowed == MaskSlice(q.mask, scan.first)
BlockSkipped == \A v \in scan.lane .. scan.lane + Block - 1 : v \notin Allowed

\* The next lane of the range, blocks ascending and lanes ascending; a block
\* with no allowed slot is skipped.  Slots are rebased when the range is in.
NextLane ==
    /\ scan # Idle /\ scan.lane < RangeLen(scan.first)
    /\ IF scan.lane % Block = 0 /\ BlockSkipped
       THEN scan' = [scan EXCEPT !.lane = @ + Block]
       ELSE scan' = [scan EXCEPT
                !.lane = @ + 1,
                !.heap = IF scan.lane \notin Allowed THEN @
                         ELSE Offer(@, Hit(Score(scan.first + scan.lane), scan.lane),
                                    Capacity, q.buffered)]
    /\ UNCHANGED <<q, todo, found, pass, result>>

Rebased == {Hit(h.score, h.slot + scan.first) : h \in scan.heap.hits}

RangeDone ==
    /\ scan # Idle /\ scan.lane >= RangeLen(scan.first)
    /\ found' = found \cup Rebased
    /\ scan' = Idle
    /\ UNCHANGED <<q, todo, pass, result>>

Merged == Merge(found, Capacity, q.buffered)

\* The seed was a guess: fewer than a shortlist came back.
Short == /\ q.buffered /\ pass = "first" /\ q.cutoff # NegInf
         /\ Cardinality(Merged) < q.k

\* Every range is in: a short query is scanned again without its seed.
Rescan == /\ todo = {} /\ scan = Idle /\ result = <<>> /\ Short
          /\ pass' = "again"
          /\ todo' = Firsts(q.pieces)
          /\ found' = {}
          /\ UNCHANGED <<q, scan, result>>

ReturnBest == /\ todo = {} /\ scan = Idle /\ result = <<>> /\ ~ Short
              /\ result' = <<Merged>>
              /\ UNCHANGED <<q, todo, scan, found, pass>>

TileNext == (\E f \in Slots : Claim(f)) \/ NextLane \/ RangeDone \/ Rescan \/ ReturnBest

TileSpec == TileInit /\ [][TileNext]_tileVars

-----------------------------------------------------------------------------
(* Properties. *)

\* What is returned is the best k.
RightAnswer ==
    result # <<>> =>
        result[1] = TopOf(Score, q.mask, q.k, IF q.buffered THEN NegInf ELSE q.cutoff)

\* While a scan runs, no vector of the answer is lost in what is scanned: it
\* is among the hits held, unless a seed cut it off (rescan_min, compact_half).
NothingDropped ==
    result = <<>> /\ (q.buffered => Cutoff = NegInf) =>
        \A h \in TopOf(Score, q.mask, q.k, IF q.buffered THEN NegInf ELSE q.cutoff) :
            LET first == (h.slot \div Stride(q.pieces)) * Stride(q.pieces)
            IN \/ first \in todo \/ h \in found
               \/ /\ scan.first = first
                  /\ scan.lane > h.slot - first => h \in Rebased

(* A search returns the best k of the allowed slots at or above the floor, *)
(* ties by slot, and a shortlist is the best k of the allowed slots:       *)
(* however the scan is cut, in whatever order its ranges end, whatever     *)
(* seed it began with ("so tiled and serial results are identical even for *)
(* tied scores", search.rs).  Nothing of it is dropped on the way.         *)
ExactTopK == RightAnswer /\ NothingDropped
=============================================================================
