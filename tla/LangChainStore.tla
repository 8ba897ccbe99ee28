---------------------------- MODULE LangChainStore ----------------------------
(***************************************************************************)
(* The LangChain store (langchain.py): an IdMapIndex and three             *)
(* dictionaries, id -> handle, handle -> id and id -> document.  Writes    *)
(* hold the store's lock; reads take none, and go from the index to the    *)
(* dictionaries, or back, one dictionary operation at a time.              *)
(*                                                                         *)
(* A write is the script of its dictionary and index operations, of which  *)
(* each is atomic (the GIL, the index's RwLock).  A document is its id and *)
(* a version; the version stands for its text, its metadata and, in the    *)
(* index, for the vector it was embedded to.                               *)
(*                                                                         *)
(* The index adds a batch slice by slice (_interruptible.py), of one row   *)
(* here.  It may refuse a batch before the first slice, and Ctrl-C may     *)
(* end an add after any of them: the slices added stay in the index.       *)
(***************************************************************************)
EXTENDS Integers, FiniteSets, Sequences, SequencesExt, TLC

CONSTANTS
  Id, Ver,
  Match,     \* the versions whose metadata pass the reader's filter
  Reader,
  Reads,     \* the calls readers make: "search", "filter", "get"
  Batch,     \* the batches added: sequences of [id, ver]
  MayFail,   \* TRUE: the index may refuse a batch, Ctrl-C end an add
  MaxHandle, \* bound: handles issued
  MaxSeen,   \* bound: contents of the store that one read may overlap
  Tries,     \* attempts at a filtered search (8 in the code)
  None

VARIABLES
  maps,   \* fwd (_str_to_u64), rev (_u64_to_str), docs (_docs)
  index,  \* handle -> the document whose vector it is
  next,   \* _next_u64
  todo,   \* the rest of the write that holds the lock
  reader, \* the state of each reader
  stored, \* history: the documents the writes that returned have left
  goal,   \* history: those the write under way will leave
  busy,   \* history: the ids of the write under way, and those it overwrites
  orphans \* history: handles in the index that adds cut short left there

write == <<todo, stored, goal, busy, orphans>>
vars  == <<maps, index, next, reader, write>>

(* beside: the ids that writes beside the read touch; over: those of them  *)
(* that were overwritten, touched twice, or unwound.                       *)
Idle == [pc |-> "idle", call |-> "", snap |-> {}, allow |-> {}, hits |-> {}, tries |-> 0,
         post |-> FALSE, sid |-> None, row |-> None, out |-> {},
         seen |-> {}, beside |-> {}, over |-> {}]

NoWrite == [ids |-> {}, over |-> {}]

Init == /\ maps = [fwd |-> <<>>, rev |-> <<>>, docs |-> <<>>]
        /\ index = <<>> /\ next = 0 /\ todo = <<>>
        /\ reader = [r \in Reader |-> Idle]
        /\ stored = {} /\ goal = {} /\ busy = NoWrite /\ orphans = {}

-----------------------------------------------------------------------------
(* Writes. *)

Put(m, k, v) == [op |-> "put", map |-> m, key |-> k, val |-> v]
Pop(m, k)    == [op |-> "pop", map |-> m, key |-> k]

Without(f, k) == [x \in DOMAIN f \ {k} |-> f[x]]

(* resolve_duplicates: the last document of an id wins. *)
Kept(b) ==
  LET last == {i \in DOMAIN b : \A j \in DOMAIN b : j > i => b[j].id # b[i].id}
  IN  [n \in 1 .. Cardinality(last) |-> b[SetToSortSeq(last, <)[n]]]

(* _issue_handle *)
Handle(n) == next + n

Rows(k) == [h \in {Handle(n) : n \in DOMAIN k} |->
              k[CHOOSE n \in DOMAIN k : Handle(n) = h]]

Forward(d, h) == <<Put("fwd", d.id, h), Put("rev", h, d.id), Put("docs", d.id, d.ver)>>

(* The old handles of ids written again. *)
Old(k) == {[id |-> i, h |-> maps.fwd[i], ver |-> maps.docs[i]] :
             i \in {d.id : d \in ToSet(k)} \cap DOMAIN maps.fwd}

(* Maps, index, then the old vectors, index first. *)
AddScript(k) ==
  FlattenSeq([n \in DOMAIN k |-> Forward(k[n], Handle(n))])
  \o <<[op |-> "add", rows |-> Rows(k), left |-> DOMAIN Rows(k), old |-> Old(k)]>>
  \o FlattenSeq([n \in 1 .. Cardinality(Old(k)) |->
       LET o == SetToSeq(Old(k))[n] IN <<[op |-> "remove", key |-> o.h], Pop("rev", o.h)>>])

(* The add raised: what the dictionaries held before is put back. *)
Unwind(rows, old) ==
  FlattenSeq([n \in 1 .. Cardinality(DOMAIN rows) |->
     LET h == SetToSeq(DOMAIN rows)[n]
     IN  <<Pop("rev", h), Pop("fwd", rows[h].id), Pop("docs", rows[h].id)>>])
  \o FlattenSeq([n \in 1 .. Cardinality(old) |->
     LET o == SetToSeq(old)[n] IN Forward([id |-> o.id, ver |-> o.ver], o.h)])

Overwritten(k) == {d \in stored : d.id \notin {e.id : e \in ToSet(k)}} \cup ToSet(k)

(* History: the reads under way are beside a write of ids, of which over   *)
(* are overwritten or unwound.                                             *)
Meets(ids, over) ==
  reader' = [r \in Reader |->
               IF reader[r].pc = "idle" THEN reader[r]
               ELSE [reader[r] EXCEPT !.beside = @ \cup ids,
                       !.over = @ \cup over \cup (ids \cap reader[r].beside)]]

Writing(ids, over) == /\ busy' = [ids |-> ids, over |-> over]
                      /\ Meets(ids, over)
                      /\ UNCHANGED <<maps, index, stored, orphans>>

(* The writer's lock is free. *)
Unlocked == /\ todo = <<>>
            /\ \A r \in Reader : Cardinality(reader[r].seen) < MaxSeen

(* _store_texts_and_vectors takes the lock and issues the handles. *)
Add(b) == /\ Unlocked
          /\ next + Len(Kept(b)) <= MaxHandle
          /\ todo' = AddScript(Kept(b))
          /\ next' = next + Len(Kept(b))
          /\ goal' = Overwritten(Kept(b))
          /\ LET ids == {d.id : d \in ToSet(b)}
             IN  Writing(ids, ids \cap DOMAIN maps.fwd)

(* Index first; an id that is not there is skipped. *)
DeleteScript(i) ==
  <<[op |-> "remove", key |-> maps.fwd[i]], Pop("fwd", i),
    Pop("rev", maps.fwd[i]), Pop("docs", i)>>

Delete(S) == /\ Unlocked
             /\ todo' = FlattenSeq([n \in 1 .. Cardinality(S \cap DOMAIN maps.fwd) |->
                          DeleteScript(SetToSeq(S \cap DOMAIN maps.fwd)[n])])
             /\ goal' = {d \in stored : d.id \notin S}
             /\ IF S \cap DOMAIN maps.fwd = {}
                  THEN UNCHANGED <<maps, index, stored, orphans, busy, reader>>
                  ELSE Writing(S \cap DOMAIN maps.fwd, {})
             /\ UNCHANGED next

(* The write returns with its last step: readers may now see what it left. *)
Moved(rest, g) ==
  /\ todo' = rest
  /\ stored' = IF rest = <<>> THEN g ELSE stored
  /\ goal' = g
  /\ reader' = IF rest # <<>> THEN reader
               ELSE [r \in Reader |-> IF reader[r].pc = "idle" THEN reader[r]
                                      ELSE [reader[r] EXCEPT !.seen = @ \cup {g}]]
  /\ busy' = IF rest = <<>> THEN NoWrite ELSE busy

Touch == /\ todo # <<>> /\ Head(todo).op \in {"put", "pop"}
         /\ LET o == Head(todo)
            IN  maps' = [maps EXCEPT ![o.map] =
                           IF o.op = "put" THEN (o.key :> o.val) @@ @ ELSE Without(@, o.key)]
         /\ Moved(Tail(todo), goal)
         /\ UNCHANGED <<index, next, orphans>>

IndexRemove == /\ todo # <<>> /\ Head(todo).op = "remove"
               /\ index' = Without(index, Head(todo).key)
               /\ Moved(Tail(todo), goal)
               /\ UNCHANGED <<maps, next, orphans>>

Adding == todo # <<>> /\ Head(todo).op = "add"

NextRow == Min(Head(todo).left)

AddRow == index' = (NextRow :> Head(todo).rows[NextRow]) @@ index

(* One slice.  With the last of them add_with_ids returns. *)
IndexAdd == /\ Adding
            /\ AddRow
            /\ LET left == Head(todo).left \ {NextRow}
               IN  Moved(IF left = {} THEN Tail(todo)
                                      ELSE <<[Head(todo) EXCEPT !.left = left]>> \o Tail(todo),
                         goal)
            /\ UNCHANGED <<maps, next, orphans>>

(* "except BaseException": the dictionaries are unwound. *)
AddRaises ==
  LET o == Head(todo)
      ids == {o.rows[h].id : h \in DOMAIN o.rows}
  IN  /\ todo' = Unwind(o.rows, o.old)
      /\ goal' = stored
      /\ busy' = [busy EXCEPT !.over = @ \cup ids]
      /\ Meets({}, ids)
      /\ UNCHANGED <<maps, next, stored>>

(* Refused as a whole: the wrapper asks before the first slice. *)
IndexAddFails == /\ MayFail
                 /\ Adding /\ Head(todo).left = DOMAIN Head(todo).rows
                 /\ AddRaises
                 /\ UNCHANGED <<index, orphans>>

(* KeyboardInterrupt behind a slice: the slices added stay. *)
IndexAddInterrupted ==
  /\ MayFail
  /\ Adding
  /\ AddRow
  /\ orphans' = orphans \cup (DOMAIN Head(todo).rows \ Head(todo).left) \cup {NextRow}
  /\ AddRaises

-----------------------------------------------------------------------------
(* Reads. *)

At(r, l) == reader[r].pc = l

Become(r, s) == /\ reader' = [reader EXCEPT ![r] = s]
                /\ UNCHANGED <<maps, index, next, write>>

(* A search of an empty index returns at once. *)
Begin(r, call) ==
  /\ At(r, "idle") /\ call \in Reads
  /\ Become(r, [Idle EXCEPT !.call = call, !.seen = {stored},
                  !.beside = busy.ids, !.over = busy.over,
                  !.pc = CASE call = "get" -> "get"
                           [] call # "get" /\ index = <<>> -> "done"
                           [] call = "search" /\ index # <<>> -> "kernel"
                           [] OTHER -> "snapshot"])

(* What the kernel returns: handles, each with the row it was scored by.   *)
Hits(H) == {[h |-> h, row |-> index[h]] : h \in H}

(* No filter: the k best; k is taken large enough for all rows. *)
Kernel(r) == /\ At(r, "kernel")
             /\ Become(r, [reader[r] EXCEPT !.pc = "translate", !.hits = Hits(DOMAIN index)])

(* list(self._docs.items()) *)
Snapshot(r) == /\ At(r, "snapshot")
               /\ Become(r, [reader[r] EXCEPT !.pc = "resolve", !.allow = {},
                               !.snap = {[id |-> i, ver |-> maps.docs[i]] :
                                           i \in DOMAIN maps.docs}])

(* One entry of the snapshot: its handle now, the filter on what it was.   *)
Resolve(r) ==
  /\ At(r, "resolve")
  /\ \E d \in reader[r].snap :
       Become(r, [reader[r] EXCEPT
                    !.snap = @ \ {d},
                    !.allow = IF d.id \in DOMAIN maps.fwd /\ d.ver \in Match
                                THEN @ \cup {maps.fwd[d.id]} ELSE @])


(* index.search(allowlist=...): KeyError when a handle is not there. *)
Allowed(r) ==
  /\ At(r, "resolve") /\ reader[r].snap = {}
  /\ LET s == reader[r]
         used == [s EXCEPT !.allow = {}, !.tries = 0]
     IN  Become(r, CASE s.allow = {} -> [used EXCEPT !.pc = "done"]
                     [] s.allow # {} /\ s.allow \subseteq DOMAIN index ->
                          [used EXCEPT !.pc = "translate", !.hits = Hits(s.allow)]
                     [] OTHER -> [used EXCEPT !.tries = s.tries + 1,
                                     !.pc = IF s.tries + 1 < Tries THEN "snapshot" ELSE "fallback"])

(* Eight stale allowlists: an unfiltered search, filtered afterwards. *)
Fallback(r) ==
  /\ At(r, "fallback")
  /\ Become(r, [reader[r] EXCEPT !.pc = "translate", !.post = TRUE, !.hits = Hits(DOMAIN index)])

(* A hit whose handle no longer resolves is skipped. *)
Translate(r) ==
  /\ At(r, "translate")
  /\ \E x \in reader[r].hits :
       Become(r, IF x.h \in DOMAIN maps.rev
                   THEN [reader[r] EXCEPT !.hits = @ \ {x}, !.row = x.row,
                           !.pc = "lookup", !.sid = maps.rev[x.h]]
                   ELSE [reader[r] EXCEPT !.hits = @ \ {x}])

Lookup(r) ==
  /\ At(r, "lookup")
  /\ LET s == reader[r]
     IN  Become(r, [s EXCEPT !.pc = "translate", !.sid = None, !.row = None,
                      !.out = IF /\ s.sid \in DOMAIN maps.docs
                                 /\ s.post => maps.docs[s.sid] \in Match
                                THEN @ \cup {[doc |-> [id |-> s.sid, ver |-> maps.docs[s.sid]],
                                              row |-> s.row]}
                                ELSE @])

Translated(r) == /\ At(r, "translate") /\ reader[r].hits = {}
                 /\ Become(r, [reader[r] EXCEPT !.pc = "done"])

(* get_by_ids: each id looked up by itself. *)
GetOne(r) == /\ At(r, "get")
             /\ \E i \in Id :
                  Become(r, [reader[r] EXCEPT !.pc = "done",
                               !.out = LET d == [id |-> i, ver |-> maps.docs[i]]
                                       IN  IF i \in DOMAIN maps.docs
                                             THEN {[doc |-> d, row |-> d]} ELSE {}])

Return(r) == At(r, "done") /\ Become(r, Idle)

Read(r) == \/ \E c \in Reads : Begin(r, c)
           \/ Kernel(r) \/ Snapshot(r) \/ Resolve(r) \/ Allowed(r) \/ Fallback(r)
           \/ Translate(r) \/ Lookup(r) \/ Translated(r) \/ GetOne(r) \/ Return(r)

Step == Touch \/ IndexRemove \/ IndexAdd \/ IndexAddFails \/ IndexAddInterrupted

Next == \/ \E b \in Batch : Add(b)
        \/ \E S \in SUBSET Id : Delete(S)
        \/ Step
        \/ \E r \in Reader : Read(r)

Spec == Init /\ [][Next]_vars

-----------------------------------------------------------------------------
(* With no write under way the index and the three dictionaries say the    *)
(* same, and it is what the writes that returned, each all or nothing, add *)
(* up to: an upsert replaced its document, and a batch refused or cut      *)
(* short is unwound from all three, whatever it overwrote.  What an add    *)
(* cut short left in the index is all that is there without a document.    *)
Agree ==
  todo = <<>> =>
    /\ DOMAIN maps.fwd = DOMAIN maps.docs
    /\ {[id |-> i, ver |-> maps.docs[i]] : i \in DOMAIN maps.docs} = stored
    /\ DOMAIN maps.rev = DOMAIN index \ orphans
    /\ \A i \in DOMAIN maps.fwd : maps.rev[maps.fwd[i]] = i
    /\ \A h \in DOMAIN maps.rev : /\ maps.fwd[maps.rev[h]] = h
                                  /\ index[h] \in stored /\ index[h].id = maps.rev[h]

Passes(r, d) == reader[r].call = "filter" => d.ver \in Match

(* What a read owes whatever runs beside it.  Documents that no write      *)
(* beside it touched are all found.  Those it returns of ids that were not *)
(* overwritten, touched twice or unwound beside it were all there at one   *)
(* time, each once, scored by its own vector, and pass the filter.         *)
ReadsSound ==
  \A r \in Reader :
    At(r, "done") =>
      LET s   == reader[r]
          own == {x \in s.out : x.doc.id \notin s.over}
      IN  /\ \E V \in s.seen \cup {goal} : {x.doc : x \in own} \subseteq V
          /\ \A x \in own : x.row = x.doc /\ Passes(r, x.doc)
          /\ \A x, y \in own : x.doc.id = y.doc.id => x = y
          /\ s.call # "get" =>
               {d \in stored : d.id \notin s.beside /\ Passes(r, d)}
                 \subseteq {x.doc : x \in s.out}

(* "A read that overlaps a write sees either the pre- or post-write state  *)
(* - never a torn one": what a read returns was all there at one time,     *)
(* each document once and scored by its own vector.  Does not hold beside  *)
(* an upsert, see the README.                                              *)
NeverTorn ==
  \A r \in Reader :
    At(r, "done") =>
      /\ \E V \in reader[r].seen \cup {goal} :
           {x.doc : x \in reader[r].out} \subseteq V
      /\ \A x \in reader[r].out : x.row = x.doc
      /\ \A x, y \in reader[r].out : x.doc.id = y.doc.id => x = y

(* A filtered search returns documents that pass the filter.  Does not     *)
(* hold beside an upsert, see the README.                                  *)
FilterHolds ==
  \A r \in Reader : At(r, "done") => \A x \in reader[r].out : Passes(r, x.doc)
=============================================================================
