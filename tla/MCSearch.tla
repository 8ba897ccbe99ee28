------------------------------ MODULE MCSearch ------------------------------
(* What a search reads and what it returns, and the threads it runs on.  A *)
(* behaviour is of one part:                                               *)
(*   "layouts": rows of some width, on some host, through every layout;    *)
(*   "caches": one index of up to four rows, in blocks of two;             *)
(*   "tile": one query, six slots in blocks of two, cut into ranges;       *)
(*   "chunk": two queries walk a mapped image of four slots;               *)
(*   "stream": two queries streamed over two indexes of two slots;         *)
(*   "batch": up to 20 queries dealt to up to 3 threads over 13 blocks;    *)
(*   "sums": one row of up to 516 groups added up by a kernel;             *)
(*   "forks": processes of two threads, forked up to two deep, two pids.   *)
EXTENDS TileScan, ChunkScan, StreamScan, ForkPool, IndexCaches, TLC

VARIABLES part,
          case, ids, form, buf, low, edits,           \* layouts
          job, offered,                               \* batch
          sum, kernel, entry, g, acc, flushed         \* sums

layout == <<case, ids, form, buf, low, edits>>
scans  == <<tileVars, chunkVars, streamVars>>
batch  == <<job, offered>>
sums   == <<sum, kernel, entry, g, acc, flushed>>

MCMasks      == {0 .. 5, {1, 2, 4, 5}}
MCImageMasks == {0 .. 3, {0, 1, 3}, {2}}
MCThresholds == {NegInf, 2}

Bits == INSTANCE PackBits
Nib   == Bits!Host(TRUE, FALSE, FALSE, FALSE)
Vnni  == Bits!Host(TRUE, TRUE, FALSE, FALSE)
Neon  == Bits!Host(FALSE, FALSE, FALSE, FALSE)
Dot   == Bits!Host(FALSE, TRUE, FALSE, FALSE)
I8mm  == Bits!Host(FALSE, TRUE, TRUE, FALSE)
I8mm2 == Bits!Host(FALSE, TRUE, TRUE, TRUE)

Of(h, b, d, m, e) == [host |-> h, bits |-> b, dim |-> d, n |-> m, edits |-> e]
MCCases == {Of(Nib, 3, 8, 33, 2), Of(Nib, 2, 8, 32, 2), Of(Neon, 4, 8, 31, 2),
            Of(Neon, 2, 32, 33, 2), Of(Vnni, 4, 32, 32, 2), Of(Vnni, 2, 32, 33, 2),
            Of(Dot, 4, 32, 33, 2), Of(Dot, 3, 16, 33, 1), Of(I8mm, 4, 32, 33, 1),
            Of(I8mm2, 2, 32, 32, 1), Of(Vnni, 4, 32, 225, 0), Of(Vnni, 4, 96, 2, 0),
            Of(Vnni, 2, 160, 2, 0), Of(Dot, 4, 24, 2, 0), Of(Dot, 4, 160, 2, 0),
            Of(Neon, 2, 160, 2, 0)}

Layouts == INSTANCE KernelReads WITH Cases <- MCCases, Chunk <- 2, LowChunk <- 16

MCBatch == TupleOf(Vector, 1) \cup TupleOf(Vector, 2)

\* Every width of a batch and a remainder, every thread count's ranges, masks
\* that empty whole groups of blocks.
Batches == INSTANCE BatchScan WITH
  Gate <- 2, MinTile <- 2, TilesPerThread <- 2, Pieces <- 2, PerK <- 4,
  Sizes <- {1, 4, 5, 18, 26}, Queries <- {0, 1, 2, 5, 7, 9, 10, 12, 13, 20},
  Threads <- {1, 2, 3}, Keep <- {1, 4},
  Masks <- {0 .. 40, {3, 17}, {16, 21, 22}, {v \in 0 .. 40 : v % 5 = 4}}

Sums == INSTANCE LutSums WITH FlushEvery <- 256, MaxGroups <- 516

NoBatch   == job = <<>> /\ offered = <<>>
NoSums    == sum = <<>> /\ kernel = "none" /\ entry = <<>> /\ g = 0 /\ acc = <<>> /\ flushed = 0
NoLayouts == /\ case = <<>> /\ ids = <<>> /\ form = "none" /\ buf = <<>> /\ low = <<>>
             /\ edits = 0

\* Every other part leaves the pool of threads, the index and the scans as
\* they start, or before a call.
NoTile   == /\ q = [buffered |-> TRUE, cutoff |-> 1] /\ todo = {} /\ scan = Idle /\ found = {}
            /\ pass = "first" /\ result = <<>>
NoChunk  == /\ call = [score |-> <<>>, mask |-> {}, k |-> 0, threshold |-> NegInf] /\ start = 0
            /\ kept = [x \in ImageQueries |-> <<>>] /\ cutoffs = [x \in ImageQueries |-> NegInf]
            /\ done = FALSE
NoStream == /\ score = <<>> /\ base = [i \in Index |-> 0] /\ pc = [i \in Index |-> "poll"]
            /\ batches = <<>> /\ floors = [i \in Index |-> [x \in Queries |-> NegInf]]
            /\ completed = [i \in Index |-> FALSE] /\ best = <<>>
NoCaches == CInit /\ dim = 0
NoForks  == Init /\ pid = 1 /\ ptr = NoCell
NoScan   == NoTile /\ NoChunk /\ NoStream

MCInit == \/ /\ \/ part = "tile" /\ TileInit /\ NoChunk /\ NoStream
                \/ part = "chunk" /\ ChunkInit /\ NoTile /\ NoStream
                \/ part = "stream" /\ StreamInit /\ NoTile /\ NoChunk
             /\ NoLayouts /\ NoCaches /\ NoBatch /\ NoSums /\ NoForks
          \/ part = "layouts" /\ Layouts!Init /\ NoScan /\ NoCaches /\ NoBatch /\ NoSums /\ NoForks
          \/ part = "caches" /\ CInit /\ NoScan /\ NoLayouts /\ NoBatch /\ NoSums /\ NoForks
          \/ part = "batch" /\ Batches!Init /\ NoScan /\ NoLayouts /\ NoCaches /\ NoSums /\ NoForks
          \/ part = "sums" /\ Sums!Init /\ NoScan /\ NoLayouts /\ NoCaches /\ NoBatch /\ NoForks
          \/ part = "forks" /\ Init /\ NoScan /\ NoLayouts /\ NoCaches /\ NoBatch /\ NoSums

MCNext ==
  \/ /\ \/ /\ \/ part = "tile" /\ TileNext /\ UNCHANGED <<chunkVars, streamVars>>
              \/ part = "chunk" /\ ChunkNext /\ UNCHANGED <<tileVars, streamVars>>
              \/ part = "stream" /\ StreamNext /\ UNCHANGED <<tileVars, chunkVars>>
           /\ UNCHANGED <<layout, cvars, batch, sums>>
        \/ part = "layouts" /\ Layouts!Next /\ UNCHANGED <<scans, cvars, batch, sums>>
        \/ part = "caches" /\ CNext /\ UNCHANGED <<scans, layout, batch, sums>>
        \/ part = "batch" /\ Batches!Next /\ UNCHANGED <<scans, layout, cvars, sums>>
        \/ part = "sums" /\ Sums!Next /\ UNCHANGED <<scans, layout, cvars, batch>>
     /\ UNCHANGED vars
  \/ part = "forks" /\ Next /\ UNCHANGED <<scans, layout, cvars, batch, sums>>

MCSpec == MCInit /\ [][UNCHANGED part /\ MCNext]_<<part, vars, scans, layout, cvars, batch, sums>>

-----------------------------------------------------------------------------
(* Every layout of the codes holds the rows, bit for bit, and zeroes past  *)
(* them, whatever conversions, appends, patches and removals it has been   *)
(* through, on every host (pack.rs).                                       *)
EveryFormHoldsTheRows == part = "layouts" => Layouts!EveryFormHoldsTheRows

(* Every kernel that may score a row, on the layout its host keeps, after  *)
(* whatever edits: each dimension once, with its own weight, of that row   *)
(* (search.rs).                                                            *)
KernelsReadTheirRows == part = "layouts" => Layouts!KernelsReadTheirRows

(* Every query's heap is offered every slot the mask allows, and each just *)
(* once, scored by its own table, whatever kernel, batch width, threads    *)
(* and ranges (search.rs, scan_with_luts).                                 *)
EachAllowedSlotOnce == part = "batch" => Batches!EachAllowedSlotOnce

(* No kernel's bytes or words wrap before they are flushed (search.rs,     *)
(* FLUSH_EVERY, max_lut, SIGN_LUT_CAP_NEON).                               *)
SumsExact == part = "sums" => Sums!SumsExact
=============================================================================
