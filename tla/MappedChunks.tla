---------------------------- MODULE MappedChunks ----------------------------
(***************************************************************************)
(* An image served from its mapped file (src/turbovec/src/mapped.rs): the  *)
(* chunk cache under its byte budget, and the walks that read the image    *)
(* through it, chunk by chunk, from several threads.  A walk is a search   *)
(* (search_mapped, the streaming scan with a chunk size of its caller's)   *)
(* or a materialization of the whole image (blocked_materialized), of      *)
(* which a OnceLock lets one run.                                          *)
(*                                                                         *)
(* The mapped file does not change, as load_mapped demands.  A row of the  *)
(* image is <<where its bytes come from, slot>>; a chunk of n rows weighs  *)
(* n.                                                                      *)
(***************************************************************************)
EXTENDS Naturals, FiniteSets, Sequences, SequencesExt, FiniteSetsExt

CONSTANTS Searches,   \* threads that search the image
          Readers,    \* threads that materialize it
          ChunkRows,  \* walk |-> the rows of the chunks it asks for
          Rows,       \* n_vectors
          Block,      \* rows in a unit
          OpRows,     \* rows whose redo op rides the commit header
          Damage,     \* the sets of rows an image may have without a valid scale
          Budget      \* cache_bytes

Walks == Searches \cup Readers

ASSUME ImageAssumption ==
    /\ ChunkRows \in [Walks -> Nat \ {0}]
    /\ Rows \in Nat /\ Block \in Nat \ {0} /\ Budget \in Nat
    /\ Damage \subseteq SUBSET (0 .. Rows - 1)

VARIABLES bad,       \* the rows whose bytes carry no valid scale
          order,     \* the cached keys, least recently used first
          chunks,    \* key |-> the rows of a cached chunk
          used,      \* bytes the cache counts
          pc,        \* walk |-> where it is
          base,      \* walk |-> the first row of its next chunk
          held,      \* walk |-> the rows of the chunk in its hands
          seen,      \* walk |-> the rows it has read
          blocked,   \* the materialized image: "none", "filling", "set"
          scales,    \* mapped_scales has been set
          recency    \* history: every key ever cached, by its last use
vars == <<bad, order, chunks, used, pc, base, held, seen, blocked, scales, recency>>

\* Whole blocks are in units, the last rows in the commit header.
Whole == (Rows \div Block) * Block

Row(r) == CASE r >= Whole -> <<"tail", r>>
            [] r < Whole /\ r \in OpRows -> <<"op", r>>
            [] OTHER -> <<"unit", r>>

Least(a, b) == IF a < b THEN a ELSE b

(* Faulty: a chunk is cached by where it starts alone. *)
FaultyKey(w) == <<base[w], 0>>

\* The chunk a walk asks for.
Key(w) == <<base[w], Least(ChunkRows[w], Rows - base[w])>>

\* n rows of the commit from row b on.
Span(b, n) == [i \in 1 .. n |-> Row(b + i - 1)]

\* What assemble gathers for it.
Assembled(w) == Span(base[w], Least(ChunkRows[w], Rows - base[w]))

\* assemble refuses a chunk with a scale no writer stores.
Refused(w) == \E i \in 0 .. Least(ChunkRows[w], Rows - base[w]) - 1 :
                 base[w] + i \in bad

Bytes(s) == Len(s)

\* How many keys an insertion drops: the oldest, until the budget holds, never
\* the one just inserted.
Evicted(o, c, u) ==
    CHOOSE n \in 0 .. Len(o) - 1 :
      /\ u <= Budget + SumFunction([i \in 1 .. n |-> Bytes(c[o[i]])]) \/ n = Len(o) - 1
      /\ \A m \in 0 .. n - 1 : u > Budget + SumFunction([i \in 1 .. m |-> Bytes(c[o[i]])])

\* position, remove, push_back.
ToEnd(s, k) ==
    LET i == SelectInSeq(s, LAMBDA x : x = k)
    IN  Append(IF i = 0 THEN s ELSE RemoveAt(s, i), k)

-----------------------------------------------------------------------------
Init ==
    /\ bad \in Damage
    /\ order = <<>> /\ chunks = << >> /\ used = 0
    /\ pc = [w \in Walks |-> IF w \in Readers THEN "enter" ELSE "lookup"]
    /\ base = [w \in Walks |-> 0]
    /\ held = [w \in Walks |-> <<>>]
    /\ seen = [w \in Walks |-> <<>>]
    /\ blocked = "none" /\ scales = FALSE
    /\ recency = <<>>

\* blocked.get_or_init: one thread fills the cell, the others wait for it.
Enter(w) ==
    /\ pc[w] = "enter" /\ blocked # "filling"
    /\ IF blocked = "set"
       THEN pc' = [pc EXCEPT ![w] = "done"] /\ UNCHANGED blocked
       ELSE blocked' = "filling" /\ pc' = [pc EXCEPT ![w] = "lookup"]
    /\ UNCHANGED <<bad, order, chunks, used, base, held, seen, scales, recency>>

\* A hit makes its chunk the most recently used.
Touched(k) == ToEnd(order, k)

\* PagedCache::get, under the cache's lock.
Lookup(w) ==
    /\ pc[w] = "lookup" /\ base[w] < Rows
    /\ IF Key(w) \in DOMAIN chunks
       THEN /\ held' = [held EXCEPT ![w] = chunks[Key(w)]]
            /\ order' = Touched(Key(w))
            /\ recency' = ToEnd(recency, Key(w))
            /\ pc' = [pc EXCEPT ![w] = "scan"]
       ELSE /\ pc' = [pc EXCEPT ![w] = "assemble"]
            /\ UNCHANGED <<held, order, recency>>
    /\ UNCHANGED <<bad, chunks, used, base, seen, blocked, scales>>

(* Faulty: a reader that fails leaves the cell as it found it, half filled. *)
FaultyReleased(w) == blocked

\* A panic leaves the cell empty, and the next reader tries again.
Released(w) == IF w \in Readers THEN "none" ELSE blocked

\* assemble, with no lock held; a search returns its error, a reader panics.
Assemble(w) ==
    /\ pc[w] = "assemble"
    /\ IF Refused(w)
       THEN /\ pc' = [pc EXCEPT ![w] = "failed"]
            /\ blocked' = Released(w)
            /\ UNCHANGED held
       ELSE /\ held' = [held EXCEPT ![w] = Assembled(w)]
            /\ pc' = [pc EXCEPT ![w] = "insert"]
            /\ UNCHANGED blocked
    /\ UNCHANGED <<bad, order, chunks, used, base, seen, scales, recency>>

(* Faulty: a chunk another thread inserted meanwhile is counted again. *)
FaultyCached(k) == FALSE

\* Another thread inserted the same chunk meanwhile.
Cached(k) == k \in DOMAIN chunks

\* PagedCache::insert, under the cache's lock.
Insert(w) ==
    /\ pc[w] = "insert"
    /\ pc' = [pc EXCEPT ![w] = "scan"]
    /\ LET k == Key(w)
           c == [j \in DOMAIN chunks \cup {k} |-> IF j = k THEN held[w] ELSE chunks[j]]
           o == Append(order, k)
           u == used + Bytes(held[w])
           n == Evicted(o, c, u)
       IN IF Cached(k) THEN UNCHANGED <<order, chunks, used, recency>>
          ELSE /\ order' = SubSeq(o, n + 1, Len(o))
               /\ chunks' = [j \in DOMAIN c \ {o[i] : i \in 1 .. n} |-> c[j]]
               /\ used' = u - SumFunction([i \in 1 .. n |-> Bytes(c[o[i]])])
               /\ recency' = ToEnd(recency, k)
    /\ UNCHANGED <<bad, base, held, seen, blocked, scales>>

\* The walk reads its chunk, lets go of it and turns to the next.
Scan(w) ==
    /\ pc[w] = "scan"
    /\ seen' = [seen EXCEPT ![w] = @ \o held[w]]
    /\ held' = [held EXCEPT ![w] = <<>>]
    /\ base' = [base EXCEPT ![w] = Least(@ + ChunkRows[w], Rows)]
    /\ pc' = [pc EXCEPT ![w] = IF base'[w] < Rows THEN "lookup"
                               ELSE IF w \in Readers THEN "scales" ELSE "done"]
    /\ UNCHANGED <<bad, order, chunks, used, blocked, scales, recency>>

\* The last of the cell's closure: mapped_scales.set.
SetScales(w) ==
    /\ pc[w] = "scales"
    /\ scales' = TRUE
    /\ pc' = [pc EXCEPT ![w] = "publish"]
    /\ UNCHANGED <<bad, order, chunks, used, base, held, seen, blocked, recency>>

\* The closure returns: the cell holds the layout.
Publish(w) ==
    /\ pc[w] = "publish"
    /\ blocked' = "set"
    /\ pc' = [pc EXCEPT ![w] = "done"]
    /\ UNCHANGED <<bad, order, chunks, used, base, held, seen, scales, recency>>

Step(w) == \/ Enter(w) \/ Lookup(w) \/ Assemble(w) \/ Insert(w)
           \/ Scan(w) \/ SetScales(w) \/ Publish(w)

Next == \E w \in Walks : Step(w)

\* A thread that is not waiting for the cell runs.
Spec == Init /\ [][Next]_vars /\ \A w \in Walks : WF_vars(Step(w))

-----------------------------------------------------------------------------
(* The cache's count is the weight of what it holds, each chunk once, and  *)
(* stays within the budget unless one chunk alone exceeds it: whatever two *)
(* threads that assembled the same chunk, or chunks of two sizes, insert   *)
(* (PagedCache::insert).                                                   *)
WithinBudget ==
    /\ Len(order) = Cardinality(DOMAIN chunks)
    /\ used = SumFunction([k \in DOMAIN chunks |-> Bytes(chunks[k])])
    /\ used > Budget => Len(order) = 1
    /\ recency # <<>> => order # <<>>

(* The cache keeps the chunks used last: no chunk it dropped was used      *)
(* after one it keeps (PagedCache::get, insert).                           *)
KeepsMostRecent == IsSuffix(order, recency)

(* The chunk cache counts what it holds, keeps to its budget and drops     *)
(* what was used longest ago, whatever two threads insert at once          *)
(* (PagedCache).                                                           *)
BudgetKept == WithinBudget /\ KeepsMostRecent

(* A walk reads every row once, in slot order, with the bytes the commit   *)
(* gives it: the redo op over the unit, the tail from the header, whoever  *)
(* assembled the chunk and whatever its size (MappedImage::chunk); a       *)
(* search that returns has read them all.                                  *)
RowsInOrder ==
    \A w \in Walks :
        /\ seen[w] \o held[w] = Span(0, Len(seen[w] \o held[w]))
        /\ w \notin Readers /\ pc[w] = "done" => Len(seen[w]) = Rows

(* The materialized layout is published whole and after its scales, and    *)
(* never out of an image with a row no reader can serve                    *)
(* (blocked_materialized, scales_any).                                     *)
MaterializedWhole ==
    blocked = "set" => /\ scales /\ bad = {}
                       /\ \E w \in Readers : Len(seen[w]) = Rows

(* A walk of a mapped image reads each row once, with the bytes of the     *)
(* commit, and a materialized layout is published whole and with its       *)
(* scales, never from an image with a row nobody can serve                 *)
(* (MappedImage::chunk, blocked_materialized).                             *)
ServesTheCommit == RowsInOrder /\ MaterializedWhole
=============================================================================
