----------------------------- MODULE StreamScan -----------------------------
(***************************************************************************)
(* Several indexes streamed to one coordinator                             *)
(* (src/turbovec/src/lib.rs, try_search_streaming_chunked_controlled).     *)
(* Each index walks its slots chunk by chunk.  Before a chunk it polls its *)
(* control callback; after a chunk it hands each query's candidates to the *)
(* sink.  Both answer with Continue, RaiseFloor or Stop.  The coordinator  *)
(* is outside the repository: it owns k, keeps each query's best over all  *)
(* indexes and relays the k-th as a floor, at once, late or never.  The    *)
(* control callback raises every query of the index at once, so what it is *)
(* given is the lowest of the queries' k-th bests.                         *)
(***************************************************************************)
EXTENDS TopK

CONSTANTS Index,      \* the indexes
          StreamVecs, \* slots of each
          Chunk,      \* chunk_rows
          Queries,    \* the query batch, the same for every index
          StreamScores, \* values a score takes
          K,          \* results the coordinator wants
          MayStop     \* whether the coordinator stops streams

ASSUME StreamAssumption ==
    /\ Index \subseteq Nat /\ IsFiniteSet(Index)
    /\ Queries \subseteq Nat /\ IsFiniteSet(Queries) /\ Queries # {}
    /\ StreamVecs \in Nat /\ Chunk \in Nat \ {0}
    /\ StreamScores \subseteq Int /\ \A s \in StreamScores : s > NegInf
    /\ K \in Nat \ {0} /\ MayStop \in BOOLEAN

VARIABLES score,      \* index |-> query |-> slot |-> score
          base,       \* index |-> first slot of the next chunk
          pc,         \* index |-> "poll" | "sink" | "end"
          batches,    \* index |-> query |-> the candidates of the chunk, not handed over
          floors,     \* index |-> query |-> its floor
          completed,  \* index |-> the summary's flag, once the stream ended
          best        \* query |-> the coordinator's hits
streamVars == <<score, base, pc, batches, floors, completed, best>>

StreamSlots == 0 .. StreamVecs - 1

\* A candidate at the coordinator.  Its slot is global: ties go to the lower
\* index, then to the lower slot.
Global(i, h) == Hit(h.score, i * StreamVecs + h.slot)

StreamInit == /\ score \in [Index -> [Queries -> [StreamSlots -> StreamScores]]]
              /\ base = [i \in Index |-> 0]
              /\ pc = [i \in Index |-> "poll"]
              /\ batches = [i \in Index |-> [x \in Queries |-> {}]]
              /\ floors = [i \in Index |-> [x \in Queries |-> NegInf]]
              /\ completed = [i \in Index |-> FALSE]
              /\ best = [x \in Queries |-> {}]

\* The coordinator's k-th best for a query.
KthBest(x) == IF Cardinality(best[x]) < K THEN NegInf ELSE RescanMin(best[x]).score

Live(i) == Min({Chunk, StreamVecs - base[i]})

\* The end of the slots ends the stream.
End(i) == /\ pc[i] = "poll" /\ base[i] >= StreamVecs
          /\ pc' = [pc EXCEPT ![i] = "end"]
          /\ completed' = [completed EXCEPT ![i] = TRUE]
          /\ UNCHANGED <<score, base, batches, floors, best>>

\* A floor only rises.
Raise(f, floor) == IF f > floor THEN f ELSE floor

(* Faulty: the whole index is given the highest of the k-th bests. *)
FaultyRelayed == Max({KthBest(x) : x \in Queries})

\* What the coordinator relays to every query of an index at once.
Relayed == Min({KthBest(x) : x \in Queries})

\* Stop, before a chunk or at one of its batches, drops what is left.
Stop(i) ==
    /\ MayStop
    /\ \/ pc[i] = "poll" /\ base[i] < StreamVecs /\ UNCHANGED best
       \/ /\ pc[i] = "sink"
          /\ \E x \in Queries :
                /\ batches[i][x] # {}
                /\ \A y \in Queries : y < x => batches[i][y] = {}
                /\ best' = [best EXCEPT ![x] = Best(@ \cup batches[i][x], K)]
    /\ pc' = [pc EXCEPT ![i] = "end"]
    /\ batches' = [batches EXCEPT ![i] = [x \in Queries |-> {}]]
    /\ UNCHANGED <<score, base, floors, completed>>

\* The chunk's scan is asked for every live row, at or above the lowest floor.
ChunkHits(i, x, floor) ==
    LET Score(v) == score[i][x][v]
    IN TopOf(Score, base[i] .. base[i] + Live(i) - 1, Live(i), floor)

\* control() answers Continue, or raises every query's floor; then the chunk
\* is scored once for the batch, and each query keeps what its own floor
\* admits.  Nothing of another stream is read in between.
NextChunk(i, raises) ==
    /\ pc[i] = "poll" /\ base[i] < StreamVecs
    /\ floors' = IF raises
                 THEN [floors EXCEPT ![i] = [x \in Queries |-> Raise(Relayed, @[x])]]
                 ELSE floors
    /\ LET own == floors'[i]
           lowest == Min({own[x] : x \in Queries})
       IN batches' = [batches EXCEPT ![i] = [x \in Queries |->
             {Global(i, h) : h \in {g \in ChunkHits(i, x, lowest) : g.score >= own[x]}}]]
    /\ pc' = [pc EXCEPT ![i] = "sink"]
    /\ UNCHANGED <<score, base, completed, best>>

\* The sink takes one query's batch, in query order, and answers with
\* Continue or with that query's k-th best.
Sink(i, x, raises) ==
    /\ pc[i] = "sink" /\ batches[i][x] # {}
    /\ \A y \in Queries : y < x => batches[i][y] = {}
    /\ best' = [best EXCEPT ![x] = Best(@ \cup batches[i][x], K)]
    /\ batches' = [batches EXCEPT ![i][x] = {}]
    /\ floors' = IF raises THEN [floors EXCEPT ![i][x] = Raise(KthBest(x)', @)] ELSE floors
    /\ UNCHANGED <<score, base, pc, completed>>

ChunkDone(i) ==
    /\ pc[i] = "sink" /\ \A x \in Queries : batches[i][x] = {}
    /\ base' = [base EXCEPT ![i] = @ + Live(i)]
    /\ pc' = [pc EXCEPT ![i] = "poll"]
    /\ UNCHANGED <<score, batches, floors, completed, best>>

StreamStep(i) == \/ End(i) \/ Stop(i) \/ ChunkDone(i)
                 \/ \E raises \in BOOLEAN : NextChunk(i, raises)
                 \/ \E x \in Queries : \E raises \in BOOLEAN : Sink(i, x, raises)

StreamNext == \E i \in Index : StreamStep(i)

\* Each index is scanned by a thread of its own.
StreamSpec == StreamInit /\ [][StreamNext]_streamVars

-----------------------------------------------------------------------------
(* Properties. *)

Everything(x) == {Global(i, Hit(score[i][x][v], v)) : i \in Index, v \in StreamSlots}

\* What the coordinator holds when every stream has completed.
BestAtTheEnd ==
    (\A i \in Index : completed[i]) =>
        \A x \in Queries : best[x] = Best(Everything(x), K)

\* A candidate is dropped by a floor only when k at least as good are held.
NothingLost ==
    \A i \in Index : \A x \in Queries :
        floors[i][x] # NegInf =>
            Cardinality({h \in best[x] : h.score >= floors[i][x]}) >= K

(* When every stream has completed, the coordinator holds the best k over  *)
(* all the indexes, ties included, whatever floors it relayed and whenever *)
(* they took effect ("each index emits exactly the candidates that can     *)
(* still matter and nothing is lost to a shard-local cutoff", lib.rs); and *)
(* no floor drops a row before (StreamControl::RaiseFloor).                *)
GlobalTopK == BestAtTheEnd /\ NothingLost

(* A floor never falls, whatever order relays arrive in                    *)
(* (StreamControl::RaiseFloor).                                            *)
FloorsRise ==
    [][\A i \in Index, x \in Queries : floors'[i][x] >= floors[i][x]]_streamVars
=============================================================================
