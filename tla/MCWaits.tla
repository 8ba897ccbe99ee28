------------------------------- MODULE MCWaits -------------------------------
(* Threads that wait for one another; a behaviour is of one part:          *)
(*   "pool", "short": three workers and the first or the last two of three *)
(*     searches, of which the last is not cut into ranges;                 *)
(*   "image": walks of a mapped image by chunks of one unit and of two,    *)
(*     and two threads that materialize it; all rows sound, or with a row  *)
(*     nobody can serve;                                                   *)
(*   "ids": two callers of an id map that may not be built, and writes     *)
(*     between their calls.                                                *)
EXTENDS PoolSpin, MappedChunks, TLC

VARIABLES part,
          inner, slotToId, ready, idToSlot, sortedIds, deferredAdded,      \* ids
          sortedLock, addedLock, at, asks, batch, answer

ids == <<inner, slotToId, ready, idToSlot, sortedIds, deferredAdded,
         sortedLock, addedLock, at, asks, batch, answer>>
all == <<part, spinVars, vars, ids>>

MCWorkers == 1 .. 3
MCCalls   == 1 .. 3
MCItems   == <<3, 2, 1>>
Absent    == IF part = "pool" THEN 3 ELSE 1  \* the search that does not come

MCSearches  == {"s1", "s2"}
MCReaders   == {"r1", "r2"}
MCChunkRows == [w \in MCSearches \cup MCReaders |-> IF w = "s2" THEN 4 ELSE 2]
MCDamage    == {{}, {4}}

Ids == INSTANCE IdMap WITH
  pc <- at, Id <- {"a", "b"}, Thread <- {"t", "u"}, Batch <- {<<>>, <<"a">>, <<"b">>},
  MaxLen <- 2, Nobody <- "nobody"

NoIds == /\ inner = <<>> /\ slotToId = <<>> /\ ready = FALSE /\ idToSlot = <<>>
         /\ sortedIds = {} /\ deferredAdded = {} /\ sortedLock = "" /\ addedLock = ""
         /\ at = <<>> /\ asks = <<>> /\ batch = <<>> /\ answer = <<>>

MCInit == /\ SpinInit /\ Init
          /\ \/ part \in {"pool", "short"} /\ bad = {} /\ NoIds
             \/ part = "image" /\ NoIds
             \/ part = "ids" /\ bad = {} /\ Ids!Init

PoolStep(w)  == /\ part \in {"pool", "short"} /\ SpinStep(w) /\ call'[Absent] = "new"
                /\ UNCHANGED <<part, vars, ids>>
ImageStep(w) == part = "image" /\ Step(w) /\ UNCHANGED <<part, spinVars, ids>>
IdsStep(t)   == part = "ids" /\ Ids!Step(t) /\ UNCHANGED <<part, spinVars, vars>>

MCNext == \/ \E w \in Workers : PoolStep(w)
          \/ \E w \in Walks : ImageStep(w)
          \/ part = "ids" /\ Ids!Next /\ UNCHANGED <<part, spinVars, vars>>

(* Every thread that can go on does.                                       *)
MCSpec == /\ MCInit /\ [][MCNext]_all
          /\ \A w \in Workers : WF_all(PoolStep(w))
          /\ \A w \in Walks : WF_all(ImageStep(w))
          /\ \A t \in {"t", "u"} : WF_all(IdsStep(t))

-----------------------------------------------------------------------------
(* Every call returns: the searches though helpers spin and waiting        *)
(* workers hold other searches on top, the walks though a reader of the    *)
(* cell panics, and a lookup of an id though batch_addable is called for   *)
(* ever.                                                                   *)
Returned == CASE part \in {"pool", "short"} -> \A c \in Calls \ {Absent} : call[c] = "returned"
              [] part = "image" -> \A w \in Walks : pc[w] \in {"done", "failed"}
              [] part = "ids"   -> TRUE

CallsReturn ==
  /\ <>Returned
  /\ part = "ids" /\ at["t"] = "get" ~> part = "ids" /\ at["t"] = "idle"
=============================================================================
