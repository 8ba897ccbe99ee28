---------------------------- MODULE HaystackStore ----------------------------
(***************************************************************************)
(* The Haystack store (haystack.py): an IdMapIndex, a dictionary from id   *)
(* to handle and one from handle to document.  Writes hold the store's     *)
(* lock and follow one of three policies for ids that are there already;   *)
(* retrievals take no lock.                                                *)
(*                                                                         *)
(* As in LangChainStore a write is the script of its operations.  A        *)
(* document is its id, a version for its content and its vector, and the   *)
(* part of its metadata the reader's filter looks at.  The index adds a    *)
(* batch in slices of one row, and Ctrl-C may end it behind any of them.   *)
(***************************************************************************)
EXTENDS Integers, FiniteSets, Sequences, SequencesExt, TLC

CONSTANTS
  Id, Ver,
  Policy,    \* among "FAIL" (and NONE), "SKIP", "OVERWRITE"
  Reader,
  Call,      \* the lists of documents written: [id, ver, meta, bad]
  MayFail,   \* TRUE: the index may refuse a batch, Ctrl-C end an add
  MayUpdate, \* TRUE: update_by_filter is called
  Lazy,      \* TRUE: the store was made without a dim
  MaxHandle, \* bound: handles issued
  Tries      \* attempts at a filtered retrieval (8 in the code)

VARIABLES
  fwd,    \* _str_to_u64
  docs,   \* _u64_to_doc
  index,  \* handle -> version whose vector it is
  dim,    \* TRUE: the index has a committed dim
  next,   \* _next_u64
  todo,   \* the rest of the write that holds the lock
  reader, \* the state of each reader
  stored, \* history: the documents the writes that returned have left
  goal,   \* history: those the write under way will leave
  busy,   \* history: the ids of the write under way, and those it changes
  orphans \* history: handles in the index that adds cut short left there

vars == <<fwd, docs, index, dim, next, todo, reader, stored, goal, busy, orphans>>

Doc(d) == [id |-> d.id, ver |-> d.ver, meta |-> d.meta]

Matches(d) == d.meta

(* beside, over: as in LangChainStore. *)
Idle == [pc |-> "idle", filtered |-> FALSE, post |-> FALSE, tries |-> 0,
         snap |-> {}, allow |-> {}, hits |-> {}, out |-> {},
         seen |-> {}, beside |-> {}, over |-> {}]

NoWrite == [ids |-> {}, over |-> {}]

Init == /\ fwd = <<>> /\ docs = <<>> /\ index = <<>> /\ dim = ~Lazy /\ next = 0 /\ todo = <<>>
        /\ reader = [r \in Reader |-> Idle]
        /\ stored = {} /\ goal = {} /\ busy = NoWrite /\ orphans = {}

-----------------------------------------------------------------------------
(* Writes. *)

Without(f, k) == [x \in DOMAIN f \ {k} |-> f[x]]

Ids(D) == {d.id : d \in D}

Over(D, d) == {x \in D : x.id # d.id} \cup {d}

First(ds, i) == \A j \in 1 .. i - 1 : ds[j].id # ds[i].id

Latest(ds, i) == Doc(ds[CHOOSE j \in DOMAIN ds :
                          /\ ds[j].id = ds[i].id
                          /\ \A k \in DOMAIN ds : ds[k].id = ds[i].id => k <= j])

(* FAIL: the documents before the first that is there already or has no    *)
(* embedding, each a batch of its own.                                     *)
Accepted(ds) ==
  LET stops == {i \in DOMAIN ds : \/ ds[i].id \in DOMAIN fwd
                                  \/ ds[i].bad
                                  \/ ~First(ds, i)}
      n == IF stops = {} THEN Len(ds) ELSE (CHOOSE i \in stops : \A j \in stops : i <= j) - 1
  IN  [i \in 1 .. n |-> Doc(ds[i])]

(* SKIP and OVERWRITE: one batch, duplicates resolved against the store    *)
(* and the batch so far.                                                   *)
ToWrite(ds, policy) ==
  LET keep == {i \in DOMAIN ds : First(ds, i) /\ (policy = "SKIP" => ds[i].id \notin DOMAIN fwd)}
  IN  [n \in 1 .. Cardinality(keep) |->
         LET i == SetToSortSeq(keep, <)[n]
         IN  IF policy = "SKIP" THEN Doc(ds[i]) ELSE Latest(ds, i)]

(* _commit_batch: the dictionaries, the index, then the old handles.       *)
(* "undo" is what the store held, should the add raise.                    *)
CommitBatch(k, from, undo) ==
  LET old == {i \in Ids(ToSet(k)) : i \in DOMAIN fwd}
      was == [i \in old |-> fwd[i]]
  IN  FlattenSeq([n \in DOMAIN k |-> <<[op |-> "fwd", id |-> k[n].id, h |-> from + n],
                                       [op |-> "doc", h |-> from + n, doc |-> k[n]]>>])
      \o <<[op |-> "add", from |-> from, batch |-> k, added |-> 0, was |-> was, undo |-> undo]>>
      \o FlattenSeq([n \in 1 .. Cardinality(old) |->
           LET h == was[SetToSeq(old)[n]]
           IN  <<[op |-> "remove", h |-> h], [op |-> "undoc", h |-> h]>>])

(* What InMemoryDocumentStore is left with: it takes one document after    *)
(* the other.                                                              *)
Reference(ds, policy, D) ==
  FoldLeft(LAMBDA acc, d :
             CASE acc.stop -> acc
               [] policy = "FAIL" /\ (d.bad \/ d.id \in Ids(acc.docs)) ->
                    [acc EXCEPT !.stop = TRUE]
               [] policy = "SKIP" /\ d.id \in Ids(acc.docs) -> acc
               [] OTHER -> [acc EXCEPT !.docs = Over(@, Doc(d))],
           [docs |-> D, stop |-> FALSE], ds).docs

(* All handles of the call are issued at its start: those of the documents *)
(* after a refused one stay unused.                                        *)
Script(ds, policy) ==
  IF policy = "FAIL"
    THEN LET k == Accepted(ds)
         IN  FlattenSeq([n \in DOMAIN k |->
               CommitBatch(<<k[n]>>, next + n - 1,
                           stored \cup {k[m] : m \in 1 .. n - 1})])
    ELSE LET k == ToWrite(ds, policy)
         IN  IF k = <<>> \/ \E i \in DOMAIN ds : ds[i].bad
               THEN <<>> ELSE CommitBatch(k, next, stored)

(* History: the reads under way are beside a write of ids, of which over   *)
(* are overwritten, updated or unwound.                                    *)
Meets(ids, over) ==
  reader' = [r \in Reader |->
               IF reader[r].pc = "idle" THEN reader[r]
               ELSE [reader[r] EXCEPT !.beside = @ \cup ids,
                       !.over = @ \cup over \cup (ids \cap reader[r].beside)]]

Start(script, g, ids, over) ==
  /\ todo' = script
  /\ goal' = g
  /\ stored' = IF script = <<>> THEN g ELSE stored
  /\ IF script = <<>> THEN UNCHANGED <<busy, reader>>
     ELSE busy' = [ids |-> ids, over |-> over] /\ Meets(ids, over)
  /\ UNCHANGED <<fwd, docs, index, dim, orphans>>

Written(script) ==
  {script[n].doc.id : n \in {m \in DOMAIN script : script[m].op = "doc"}}

WriteDocuments(ds, policy) ==
  /\ todo = <<>>
  /\ next + Len(ds) <= MaxHandle
  /\ LET script == Script(ds, policy)
     IN  /\ Start(script,
                  IF policy # "FAIL" /\ \E i \in DOMAIN ds : ds[i].bad
                    THEN stored ELSE Reference(ds, policy, stored),
                  Written(script), Written(script) \cap DOMAIN fwd)
         /\ next' = next + Len(SelectSeq(script, LAMBDA o : o.op = "doc"))

(* _remove_one: index first. *)
RemoveOne(i) == <<[op |-> "remove", h |-> fwd[i]],
                  [op |-> "unfwd", id |-> i],
                  [op |-> "undoc", h |-> fwd[i]]>>

(* delete_documents, delete_all_documents, delete_by_filter *)
DeleteDocuments(S) ==
  /\ todo = <<>>
  /\ Start(FlattenSeq([n \in 1 .. Cardinality(S \cap DOMAIN fwd) |->
                         RemoveOne(SetToSeq(S \cap DOMAIN fwd)[n])]),
           {d \in stored : d.id \notin S}, S, {})
  /\ UNCHANGED next

DeleteByFilter ==
  DeleteDocuments({docs[h].id : h \in {x \in DOMAIN docs : Matches(docs[x])}})

(* update_by_filter: the metadata of each match, in place. *)
UpdateByFilter ==
  LET hit == {h \in DOMAIN docs : Matches(docs[h])}
  IN  /\ MayUpdate
      /\ todo = <<>>
      /\ Start([n \in 1 .. Cardinality(hit) |-> [op |-> "meta", h |-> SetToSeq(hit)[n]]],
               {IF Matches(d) THEN [d EXCEPT !.meta = FALSE] ELSE d : d \in stored},
               {docs[h].id : h \in hit}, {docs[h].id : h \in hit})
      /\ UNCHANGED next

(* The add raised: what was there before is put back.                      *)
Unwind(o) ==
  FlattenSeq([n \in DOMAIN o.batch |-> <<[op |-> "undoc", h |-> o.from + n],
                                         [op |-> "unfwd", id |-> o.batch[n].id]>>])
  \o [n \in 1 .. Cardinality(DOMAIN o.was) |->
        LET i == SetToSeq(DOMAIN o.was)[n] IN [op |-> "fwd", id |-> i, h |-> o.was[i]]]

Moved(rest, g) ==
  /\ todo' = rest /\ goal' = g
  /\ stored' = IF rest = <<>> THEN g ELSE stored
  /\ reader' = [r \in Reader |->
                  IF rest = <<>> /\ reader[r].pc # "idle"
                    THEN [reader[r] EXCEPT !.seen = @ \cup {g}] ELSE reader[r]]
  /\ busy' = IF rest = <<>> THEN NoWrite ELSE busy
  /\ UNCHANGED next

Touch ==
  /\ todo # <<>>
  /\ LET o == Head(todo)
     IN  /\ o.op \in {"fwd", "unfwd", "doc", "undoc", "meta"}
         /\ fwd' = CASE o.op = "fwd" -> (o.id :> o.h) @@ fwd
                     [] o.op = "unfwd" -> Without(fwd, o.id)
                     [] OTHER -> fwd
         /\ docs' = CASE o.op = "doc" -> (o.h :> o.doc) @@ docs
                      [] o.op = "undoc" -> Without(docs, o.h)
                      [] o.op = "meta" -> [docs EXCEPT ![o.h].meta = FALSE]
                      [] OTHER -> docs
  /\ Moved(Tail(todo), goal)
  /\ UNCHANGED <<index, dim, orphans>>

IndexRemove == /\ todo # <<>> /\ Head(todo).op = "remove"
               /\ index' = Without(index, Head(todo).h)
               /\ Moved(Tail(todo), goal)
               /\ UNCHANGED <<fwd, docs, dim, orphans>>

Adding == todo # <<>> /\ Head(todo).op = "add"

AddRow == LET o == Head(todo)
          IN  /\ index' = (o.from + o.added + 1 :> o.batch[o.added + 1].ver) @@ index
              /\ dim' = TRUE
              /\ UNCHANGED <<fwd, docs>>

(* One slice.  With the last of them add_with_ids returns. *)
IndexAdd ==
  /\ Adding
  /\ AddRow
  /\ LET o == Head(todo)
     IN  Moved(IF o.added + 1 = Len(o.batch) THEN Tail(todo)
                 ELSE <<[o EXCEPT !.added = @ + 1]>> \o Tail(todo), goal)
  /\ UNCHANGED orphans

(* "except BaseException": the dictionaries are unwound. *)
AddRaises ==
  LET ids == Ids(ToSet(Head(todo).batch))
  IN  /\ todo' = Unwind(Head(todo))
      /\ goal' = Head(todo).undo
      /\ busy' = [busy EXCEPT !.over = @ \cup ids]
      /\ Meets({}, ids)
      /\ UNCHANGED <<next, stored>>

(* Refused as a whole: the wrapper asks before the first slice. *)
IndexAddFails == /\ MayFail
                 /\ Adding /\ Head(todo).added = 0
                 /\ AddRaises
                 /\ UNCHANGED <<fwd, docs, index, dim, orphans>>

(* KeyboardInterrupt behind a slice: the slices added stay. *)
IndexAddInterrupted ==
  /\ MayFail
  /\ Adding
  /\ AddRow
  /\ orphans' = orphans \cup (Head(todo).from + 1 .. Head(todo).from + Head(todo).added + 1)
  /\ AddRaises

Step == Touch \/ IndexRemove \/ IndexAdd \/ IndexAddFails \/ IndexAddInterrupted

-----------------------------------------------------------------------------
(* embedding_retrieval *)

At(r, l) == reader[r].pc = l

Become(r, s) == /\ reader' = [reader EXCEPT ![r] = s]
                /\ UNCHANGED <<fwd, docs, index, dim, next, todo, stored, goal, busy, orphans>>

Hits(H) == {[h |-> h, ver |-> index[h]] : h \in H}

Begin(r, filtered) ==
  /\ At(r, "idle")
  /\ Become(r, [Idle EXCEPT !.pc = IF fwd = <<>> THEN "done" ELSE "dim",
                            !.filtered = filtered, !.seen = {stored},
                            !.beside = busy.ids, !.over = busy.over])

(* The query's dim is checked against the index's.                         *)
ReadDim(r) ==
  /\ At(r, "dim")
  /\ Become(r, [reader[r] EXCEPT !.pc = IF ~dim THEN "ValueError"
                                        ELSE IF reader[r].filtered THEN "snapshot" ELSE "kernel"])

(* Every row: top_k is taken large enough. *)
Kernel(r) == /\ At(r, "kernel")
             /\ Become(r, [reader[r] EXCEPT !.pc = "translate", !.hits = Hits(DOMAIN index)])

(* list(self._u64_to_doc.items()): the handles, and the documents as they  *)
(* are: an update shows through.                                           *)
Snapshot(r) == /\ At(r, "snapshot")
               /\ Become(r, [reader[r] EXCEPT !.pc = "resolve", !.allow = {},
                               !.snap = {[h |-> h, doc |-> docs[h]] : h \in DOMAIN docs}])

Resolve(r) ==
  /\ At(r, "resolve")
  /\ \E s \in reader[r].snap :
       LET now == IF s.h \in DOMAIN docs THEN docs[s.h] ELSE s.doc
       IN  Become(r, [reader[r] EXCEPT !.snap = @ \ {s},
                        !.allow = IF Matches(now) THEN @ \cup {s.h} ELSE @])

Allowed(r) ==
  /\ At(r, "resolve") /\ reader[r].snap = {}
  /\ LET s == reader[r]
         used == [s EXCEPT !.allow = {}, !.tries = 0]
     IN  Become(r, CASE s.allow = {} -> [used EXCEPT !.pc = "done"]
                     [] s.allow # {} /\ s.allow \subseteq DOMAIN index ->
                          [used EXCEPT !.pc = "translate", !.hits = Hits(s.allow)]
                     [] OTHER -> [used EXCEPT !.tries = s.tries + 1,
                                     !.pc = IF s.tries + 1 < Tries THEN "snapshot" ELSE "fallback"])

(* Faulty: the last resort forgets the filter. *)
FallbackUnfiltered(r) ==
  /\ At(r, "fallback")
  /\ Become(r, [reader[r] EXCEPT !.pc = "translate", !.hits = Hits(DOMAIN index)])

Fallback(r) ==
  /\ At(r, "fallback")
  /\ Become(r, [reader[r] EXCEPT !.pc = "translate", !.post = TRUE, !.hits = Hits(DOMAIN index)])

Translate(r) ==
  /\ At(r, "translate")
  /\ \E x \in reader[r].hits :
       LET s == reader[r]
       IN  Become(r, [s EXCEPT !.hits = @ \ {x},
                        !.out = IF x.h \in DOMAIN docs /\ (s.post => Matches(docs[x.h]))
                                  THEN @ \cup {[doc |-> docs[x.h], ver |-> x.ver]} ELSE @])

Translated(r) == /\ At(r, "translate") /\ reader[r].hits = {}
                 /\ Become(r, [reader[r] EXCEPT !.pc = "done"])

Return(r) == reader[r].pc \in {"done", "ValueError"} /\ Become(r, Idle)

Retrieve(r) == \/ \E f \in BOOLEAN : Begin(r, f)
               \/ ReadDim(r) \/ Kernel(r) \/ Snapshot(r) \/ Resolve(r) \/ Allowed(r) \/ Fallback(r)
               \/ Translate(r) \/ Translated(r) \/ Return(r)

Next == \/ \E ds \in Call, p \in Policy : WriteDocuments(ds, p)
        \/ \E S \in SUBSET Id : DeleteDocuments(S)
        \/ DeleteByFilter \/ UpdateByFilter
        \/ Step
        \/ \E r \in Reader : Retrieve(r)

Spec == Init /\ [][Next]_vars

-----------------------------------------------------------------------------
(* With no write under way the index and the dictionaries hold the same    *)
(* documents, and they are those InMemoryDocumentStore would hold after    *)
(* the same writes, whatever the policy, the duplicates in a list, and the *)
(* batches refused or cut short (write_documents).  What an add cut short  *)
(* left in the index is all that is there without a document.              *)
AsReference ==
  todo = <<>> =>
    /\ {docs[h] : h \in DOMAIN docs} = stored
    /\ DOMAIN docs = DOMAIN index \ orphans
    /\ DOMAIN fwd = Ids(stored)
    /\ \A i \in DOMAIN fwd : fwd[i] \in DOMAIN docs /\ docs[fwd[i]].id = i
    /\ \A h \in DOMAIN docs : fwd[docs[h].id] = h /\ index[h] = docs[h].ver

(* "so a failed add leaves the store exactly as it was" (_commit_batch):   *)
(* no vector is without its document, with which the saved store loads.    *)
(* Does not hold, see the README.                                          *)
FailedAddUndone == todo = <<>> => DOMAIN index = DOMAIN docs

Passes(r, d) == reader[r].filtered => Matches(d)

(* What a retrieval owes whatever runs beside it.  Each document is scored *)
(* by its own vector, and those that no write beside it touched are all    *)
(* found.  Those it returns of ids that were not overwritten, updated,     *)
(* touched twice or unwound beside it were all there at one time, each     *)
(* once, and pass the filter.                                              *)
RetrievalsSound ==
  \A r \in Reader :
    At(r, "done") =>
      LET s   == reader[r]
          own == {x \in s.out : x.doc.id \notin s.over}
      IN  /\ \A x \in s.out : x.doc.ver = x.ver
          /\ \E V \in s.seen \cup {goal} : {x.doc : x \in own} \subseteq V
          /\ \A x \in own : Passes(r, x.doc)
          /\ \A x, y \in own : x.doc.id = y.doc.id => x = y
          /\ {d \in stored : d.id \notin s.beside /\ Passes(r, d)} \subseteq {x.doc : x \in s.out}

(* "By this point n_documents > 0, so the index has a committed dim"       *)
(* (embedding_retrieval): no retrieval is refused for a dim of None.       *)
(* Does not hold, see the README.                                          *)
DimCommitted == \A r \in Reader : ~At(r, "ValueError")

(* "A read that overlaps a write sees either the pre- or post-write state  *)
(* - never a torn one".  Does not hold, see the README.                    *)
NeverTorn ==
  \A r \in Reader :
    At(r, "done") => \E V \in reader[r].seen \cup {goal} :
                       {x.doc : x \in reader[r].out} \subseteq V
=============================================================================
