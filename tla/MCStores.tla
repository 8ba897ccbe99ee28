------------------------------ MODULE MCStores ------------------------------
(* The framework stores and the files they save, of which a behaviour      *)
(* takes one:                                                              *)
(*   "pair": the two files of a store, saved while another loads them,     *)
(*     with kills and power failures;                                      *)
(*   "cleared": a store alone whose handles start again, nothing stops it; *)
(*   "<store> reads": a reader without the lock beside every kind of       *)
(*     write, upserts, clear and drop among them;                          *)
(*   "<store> writes": no reader, and longer sequences of writes;          *)
(*   "temps": saves of two processes, of equal pids, to two names of which *)
(*     one is the cut of the other, swept and killed;                      *)
(*   "versions": one file converted any number of times, or cut short.     *)
(* Variables of one role are shared: rows stands for each store's index,   *)
(* issued for its next, and todo is of the stores and of the sweeps.       *)
EXTENDS AtomicSave, TempFiles, TLC

VARIABLES mode,
          rows, issued, reader, stored, goal, busy, orphans, \* every store
          maps,                                       \* LangChain, LlamaIndex
          docs, fwd, dim,                             \* Haystack, Agno; Haystack
          cur, ids, names, hashes,                    \* Agno
          file, whole, image                          \* versions

shared   == <<rows, issued, todo, reader, stored, goal, busy, orphans>>
haystack == <<fwd, dim>>
agno     == <<cur, ids, names, hashes>>
sweeps   == <<temps, exists, torn, at, dest, tmp, tries, pid, seq, swept, due, removed, kills>>
version  == <<file, whole, image>>

Cleared == INSTANCE AtomicSave WITH Reissues <- TRUE, MaxStops <- 0

-----------------------------------------------------------------------------
D(i, v) == [id |-> i, ver |-> v]
MCIds == {"a", "b"}
MCSingles == {<<D(i, v)>> : i \in MCIds, v \in {1, 2}}
MCBatches == MCSingles \cup {<<D("a", 1), D("b", 2)>>, <<D("b", 1), D("a", 1)>>,
                             <<D("a", 1), D("a", 2)>>}
MCUpserts == {<<D("a", 1)>>, <<D("a", 2)>>, <<D("b", 1), D("a", 1)>>}

ChainReads == INSTANCE LangChainStore WITH
  index <- rows, next <- issued, Id <- MCIds, Ver <- {1, 2}, Match <- {1}, Tries <- 2,
  None <- NoFile, Reader <- {"r"}, Reads <- {"search", "filter", "get"}, Batch <- MCUpserts,
  MayFail <- TRUE, MaxHandle <- 3, MaxSeen <- 3
ChainWrites == INSTANCE LangChainStore WITH
  index <- rows, next <- issued, Id <- MCIds, Ver <- {1, 2}, Match <- {1}, Tries <- 2,
  None <- NoFile, Reader <- {}, Reads <- {}, Batch <- MCBatches,
  MayFail <- TRUE, MaxHandle <- 5, MaxSeen <- 1

LlamaReads == INSTANCE LlamaIndexStore WITH
  index <- rows, next <- issued, Id <- MCIds, Ver <- {1, 2}, Match <- {1}, Tries <- 2,
  None <- NoFile, Reader <- {"r"}, Reads <- {"search", "filter", "get"}, Batch <- MCUpserts,
  MayFail <- TRUE, MayClear <- TRUE, MaxHandle <- 2, MaxSeen <- 3,
  RefDoc <- <<"d", "e">>
LlamaWrites == INSTANCE LlamaIndexStore WITH
  index <- rows, next <- issued, Id <- MCIds, Ver <- {1, 2}, Match <- {1}, Tries <- 2,
  None <- NoFile, Reader <- {}, Reads <- {}, Batch <- MCBatches,
  MayFail <- TRUE, MayClear <- TRUE, MaxHandle <- 4, MaxSeen <- 1,
  RefDoc <- <<"d", "e">>

-----------------------------------------------------------------------------
HD(i, v, m) == [id |-> i, ver |-> v, meta |-> m, bad |-> FALSE]
Bad(i) == [id |-> i, ver |-> 1, meta |-> TRUE, bad |-> TRUE]
HSingles == {<<HD("a", 1, TRUE)>>, <<HD("a", 2, FALSE)>>, <<HD("b", 1, TRUE)>>}
HUpserts == {<<HD("a", 1, TRUE)>>, <<HD("b", 1, TRUE), HD("a", 2, FALSE)>>}
HCalls   == HSingles \cup {<<HD("a", 1, TRUE), HD("a", 2, FALSE)>>,
                           <<HD("a", 2, TRUE), HD("b", 2, TRUE), HD("a", 1, FALSE)>>,
                           <<HD("b", 1, FALSE), Bad("a")>>}

HaystackReads == INSTANCE HaystackStore WITH
  index <- rows, next <- issued, Id <- MCIds, Ver <- {1, 2}, Tries <- 2,
  Lazy <- TRUE, Policy <- {"FAIL", "SKIP", "OVERWRITE"}, Reader <- {"r"}, Call <- HUpserts,
  MayFail <- TRUE, MayUpdate <- TRUE, MaxHandle <- 3
HaystackWrites == INSTANCE HaystackStore WITH
  index <- rows, next <- issued, Id <- MCIds, Ver <- {1, 2}, Tries <- 2,
  Lazy <- TRUE, Policy <- {"FAIL", "SKIP", "OVERWRITE"}, Reader <- {}, Call <- HCalls,
  MayFail <- TRUE, MayUpdate <- TRUE, MaxHandle <- 5

AD(i, x, f) == [base |-> i, name |-> x, meta |-> f]
AUpserts == {<<AD("a", "m", TRUE)>>, <<AD("a", "m", FALSE), AD("b", "m", TRUE)>>}
ABatches == {<<AD("a", "m", TRUE)>>, <<AD("b", "n", FALSE)>>,
             <<AD("a", "m", TRUE), AD("b", "m", FALSE)>>,
             <<AD("a", "m", FALSE), AD("a", "n", TRUE), AD("a", "", TRUE)>>}

AgnoReads == INSTANCE AgnoStore WITH
  index <- rows, next <- issued, Base <- MCIds, Name <- {"m", "n"}, NoName <- "", Tries <- 2,
  Hash <- {"c1"}, Reader <- {"r"}, Batch <- AUpserts,
  MayFail <- TRUE, MayDrop <- TRUE, MaxHandle <- 3, MaxIndex <- 1
AgnoWrites == INSTANCE AgnoStore WITH
  index <- rows, next <- issued, Base <- MCIds, Name <- {"m", "n"}, NoName <- "", Tries <- 2,
  Hash <- {"c1", "c2"}, Reader <- {}, Batch <- ABatches,
  MayFail <- TRUE, MayDrop <- TRUE, MaxHandle <- 4, MaxIndex <- 1

-----------------------------------------------------------------------------
\* "e" stands for a character of two bytes.
MCDest      == {<<"a", "a">>, <<"a", "a", "e">>}
MCWidth     == [a |-> 1, e |-> 2]
MCSuffixLen == <<2>>
MCNoName    == <<>>

Run(x, n) == [i \in 1 .. n |-> <<x, i>>]
Img(b, d, n, codes, scales, calib, i) ==
  [bits |-> b, dim |-> d, n |-> n, codes |-> Run("byte", codes), scales |-> scales,
   shift |-> calib[1], scale |-> calib[2], ids |-> i]
NoIds   == <<<<"none">>>>
NoCalib == <<<<>>, <<>>>>
Number(k) == <<"number", k>>
Float(k)  == <<"float", k>>

MCNative ==
  {Img(b, 8, n, n * b, Run("norm", n), c, i) :
     b \in {2, 3, 4}, n \in {0, 1, 3}, i \in {NoIds} \cup {Run("id", k) : k \in 0 .. 3},
     c \in {<<Run("shift", 8), Run("scale", 8)>>, NoCalib,
            <<[k \in 1 .. 8 |-> Float(0)], [k \in 1 .. 8 |-> Float(1)]>>}}
MCGiven ==
  {Img(b, d, 2, m, s, c, i) :
     b \in {1, 2}, d \in {0, 8, 12}, m \in {3, 4},
     s \in {Run("norm", 2), <<Float(-1), Float(3)>>, <<Float(3)>>},
     c \in {NoCalib, <<<<>>, Run("x", 8)>>, <<Run("x", 8), <<>>>>,
            <<Run("x", 8), Run("y", 8)>>, <<Run("x", 4), Run("x", 4)>>},
     i \in {NoIds, <<Number(7), Number(7)>>, <<Number(7), Number(8)>>, <<Number(7)>>}}

Versions == INSTANCE Convert WITH
  BLOCK <- 2, MaxDim <- 16, PlanesAt <- 3, Given <- MCGiven,
  Native <- {i \in MCNative : i.ids = NoIds \/ Len(i.ids) = i.n} \cup
            {Img(2, 0, 0, 0, <<>>, NoCalib, i) : i \in {NoIds, <<>>}}

-----------------------------------------------------------------------------
NoTemps    == /\ temps = <<>> /\ exists = {} /\ torn = {} /\ at = [p \in Process |-> "idle"]
              /\ dest = <<>> /\ tmp = <<>> /\ tries = <<>> /\ pid = <<>> /\ seq = <<>>
              /\ swept = <<>> /\ due = <<>> /\ removed = {} /\ kills = 0
NoVersion  == file = <<>> /\ whole = TRUE /\ image = <<>>
NoRows     == /\ rows = <<>> /\ issued = 0 /\ reader = <<>> /\ stored = {} /\ goal = {}
              /\ docs = <<>> /\ busy = <<>> /\ orphans = {}
NoStore    == NoRows /\ todo = <<>>
NoChain    == maps = <<>>
NoHaystack == fwd = <<>> /\ dim = FALSE
NoAgno     == cur = 0 /\ ids = <<>> /\ names = <<>> /\ hashes = {}

MCInit ==
  /\ Init
  /\ \/ /\ mode \in {"pair", "cleared"}
        /\ NoStore /\ NoChain /\ NoHaystack /\ NoAgno /\ NoTemps /\ NoVersion
     \/ /\ \/ mode = "chain reads" /\ ChainReads!Init
           \/ mode = "chain writes" /\ ChainWrites!Init
           \/ mode = "llama reads" /\ LlamaReads!Init
           \/ mode = "llama writes" /\ LlamaWrites!Init
        /\ NoHaystack /\ NoAgno /\ docs = <<>> /\ NoTemps /\ NoVersion
     \/ /\ \/ mode = "haystack reads" /\ HaystackReads!Init
           \/ mode = "haystack writes" /\ HaystackWrites!Init
        /\ NoChain /\ NoAgno /\ NoTemps /\ NoVersion
     \/ /\ \/ mode = "agno reads" /\ AgnoReads!Init
           \/ mode = "agno writes" /\ AgnoWrites!Init
        /\ NoChain /\ NoHaystack /\ NoTemps /\ NoVersion
     \/ /\ \/ mode = "temps" /\ TempInit /\ NoVersion
           \/ mode = "versions" /\ Versions!Init /\ NoTemps /\ todo = <<>>
        /\ NoRows /\ NoChain /\ NoHaystack /\ NoAgno

MCNext ==
  \/ /\ \/ mode = "pair" /\ Next
        \/ mode = "cleared" /\ Cleared!Next /\ \A s \in Store \ Writer : stage'[s] = stage[s]
     /\ UNCHANGED <<mode, shared, docs, maps, haystack, agno, sweeps, version>>
  \/ /\ \/ mode = "chain reads" /\ ChainReads!Next
        \/ mode = "chain writes" /\ ChainWrites!Next
        \/ mode = "llama reads" /\ LlamaReads!LNext
        \/ mode = "llama writes" /\ LlamaWrites!LNext
     /\ UNCHANGED <<mode, vars, docs, haystack, agno, sweeps, version>>
  \/ /\ \/ mode = "haystack reads" /\ HaystackReads!Next
        \/ mode = "haystack writes" /\ HaystackWrites!Next
     /\ UNCHANGED <<mode, vars, maps, agno, sweeps, version>>
  \/ /\ \/ mode = "agno reads" /\ AgnoReads!Next
        \/ mode = "agno writes" /\ AgnoWrites!Next
     /\ UNCHANGED <<mode, vars, maps, haystack, sweeps, version>>
  \/ /\ \/ mode = "temps" /\ TempNext /\ UNCHANGED version
        \/ mode = "versions" /\ Versions!Next /\ UNCHANGED <<sweeps, todo>>
     /\ UNCHANGED <<mode, vars, rows, issued, reader, stored, goal, busy, orphans, docs,
                    maps, haystack, agno>>

MCSpec ==
  MCInit /\ [][MCNext]_<<mode, vars, shared, docs, maps, haystack, agno, sweeps, version>>

-----------------------------------------------------------------------------
(* With no write under way a store's dictionaries and its index say the    *)
(* same, and what they hold is what the writes that returned, each all or  *)
(* nothing, add up to: an upsert replaced its document, and a batch the    *)
(* index refused, or Ctrl-C cut short between two slices, is unwound from  *)
(* every dictionary.  The slices added before stay in the index, and       *)
(* nothing else is there without a document.                               *)
MapsSayTheSame ==
  /\ mode \in {"chain reads", "chain writes"} => ChainWrites!Agree
  /\ mode \in {"llama reads", "llama writes"} => LlamaWrites!Agree
  /\ mode \in {"haystack reads", "haystack writes"} => HaystackWrites!AsReference
  /\ mode \in {"agno reads", "agno writes"} => AgnoWrites!SideIndexesExact


(* A file reads as what was first written, whatever versions it has been   *)
(* through, or not at all; every version can hold what an index can        *)
(* (convert.rs).                                                           *)
ConversionKeeps ==
  mode = "versions" => Versions!ConversionKeeps /\ Versions!EveryVersionTakesIt
=============================================================================
