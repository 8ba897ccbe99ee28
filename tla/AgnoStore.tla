------------------------------ MODULE AgnoStore ------------------------------
(***************************************************************************)
(* The Agno store (agno.py): an IdMapIndex that create() makes and drop()  *)
(* takes away, a dictionary from handle to document, and three indexes     *)
(* beside it: the handles of an id, the ids of a name, the content hashes  *)
(* in use.  Two documents may share an id.  Writes hold the store's lock,  *)
(* reads take none.                                                        *)
(*                                                                         *)
(* A write is the script of its operations.  A document's id is derived    *)
(* from its own (base) and the content hash of its batch; base stands for  *)
(* its content id too, and meta for what the reader's filter looks at.     *)
(* The index adds a batch in slices of one row, and Ctrl-C may end it      *)
(* behind any of them.                                                     *)
(***************************************************************************)
EXTENDS Integers, FiniteSets, FiniteSetsExt, Sequences, SequencesExt, TLC

CONSTANTS
  Hash, Base, Name,
  NoName,    \* the name of an unnamed document
  Batch,     \* the lists inserted: of [base, name, meta]
  Reader,
  MayFail,   \* TRUE: the index may refuse a batch, Ctrl-C end an add
  MayDrop,   \* TRUE: drop() is called
  MaxHandle, MaxIndex, \* bounds: handles issued, indexes made
  Tries      \* attempts at a filtered search (8 in the code)

VARIABLES
  index,  \* index objects, each: handle -> the document of the vector
  cur,    \* _index: its number, or 0 for None
  docs,   \* _u64_to_doc
  ids,    \* _str_to_u64
  names,  \* _name_to_ids
  hashes, \* _content_hashes
  next,   \* _next_u64
  todo,   \* the rest of the write that holds the lock
  stored, \* history: handle -> document, as the writes that returned left them
  goal,   \* history: as the write under way will leave them
  busy,   \* history: the handles of the write under way, and those it updates
  orphans, \* history: handles in the index that adds cut short left there
  reader  \* the state of each reader

side == <<ids, names, hashes>>
vars == <<index, cur, docs, side, next, todo, stored, goal, busy, orphans, reader>>

(* beside: the handles that writes beside the search touch, updated: those *)
(* whose metadata they change; dropped: the index was dropped beside it.   *)
Idle == [pc |-> "idle", filtered |-> FALSE, tries |-> 0, obj |-> 0,
         snap |-> {}, allow |-> {}, hits |-> {}, kept |-> {}, out |-> {},
         beside |-> {}, updated |-> {}, dropped |-> FALSE]

NoWrite == [handles |-> {}, updated |-> {}]

Init == /\ index = [n \in 1 .. MaxIndex |-> <<>>]
        /\ cur = 0 /\ docs = <<>> /\ ids = <<>> /\ names = <<>> /\ hashes = {}
        /\ next = 0 /\ todo = <<>>
        /\ stored = <<>> /\ goal = <<>> /\ busy = NoWrite /\ orphans = {}
        /\ reader = [r \in Reader |-> Idle]

-----------------------------------------------------------------------------
(* Writes. *)

Without(f, S) == [x \in DOMAIN f \ S |-> f[x]]

Joined(f, k, x) == IF k \in DOMAIN f THEN [f EXCEPT ![k] = @ \cup {x}] ELSE (k :> {x}) @@ f

Parted(f, k, x) == IF k \notin DOMAIN f THEN f
                   ELSE IF f[k] \subseteq {x} THEN Without(f, {k})
                   ELSE [f EXCEPT ![k] = @ \ {x}]

DocId(d) == <<d.base, d.hash>>

Payload(d, c) == [base |-> d.base, name |-> d.name, hash |-> c, meta |-> d.meta]

Link(h, d) == [op |-> "link", h |-> h, doc |-> d]

(* _remove_handle: index first; nothing, if no document has the handle. *)
RemoveHandle(h) ==
  IF h \in DOMAIN docs
    THEN <<[op |-> "remove", h |-> h], [op |-> "undoc", h |-> h],
           [op |-> "unlink", h |-> h, doc |-> docs[h]]>>
    ELSE <<>>

(* _issue_handle *)
Handle(n) == next + n

Rows(c, ds) == [h \in {Handle(n) : n \in DOMAIN ds} |->
                  Payload(ds[CHOOSE n \in DOMAIN ds : Handle(n) = h], c)]

InsertScript(c, ds) ==
  [n \in DOMAIN ds |-> Link(Handle(n), Payload(ds[n], c))]
  \o <<[op |-> "add", rows |-> Rows(c, ds), left |-> DOMAIN Rows(c, ds)]>>

Removals(H) == FlattenSeq([n \in 1 .. Cardinality(H) |-> RemoveHandle(SetToSeq(H)[n])])

(* History: the searches under way are beside write w; of those that a     *)
(* drop overlaps nothing more is noted.                                    *)
Meets(w, drop) ==
  reader' = [r \in Reader |->
               CASE reader[r].pc = "idle" \/ reader[r].dropped -> reader[r]
                 [] drop -> [reader[r] EXCEPT !.dropped = TRUE, !.beside = {}, !.updated = {}]
                 [] OTHER -> [reader[r] EXCEPT !.beside = @ \cup w.handles,
                                               !.updated = @ \cup w.updated]]

(* The lock is taken: the write's script, what it will leave, and what of  *)
(* the store it touches.                                                   *)
Start(script, g, H) ==
  /\ todo' = script
  /\ goal' = g
  /\ stored' = IF script = <<>> THEN g ELSE stored
  /\ IF script = <<>> THEN UNCHANGED <<busy, reader>>
     ELSE LET op == script[1].op
              w  == [handles |-> H, updated |-> IF op = "meta" THEN H ELSE {}]
          IN  busy' = w /\ Meets(w, op = "ids")
  /\ UNCHANGED <<index, docs, side, orphans>>

(* Without an index: RuntimeError. *)
Insert(c, ds) == /\ todo = <<>> /\ cur # 0
                 /\ next + Len(ds) <= MaxHandle
                 /\ Start(InsertScript(c, ds), Rows(c, ds) @@ stored, DOMAIN Rows(c, ds))
                 /\ next' = next + Len(ds)
                 /\ UNCHANGED cur

HandlesForContentHash(c) == {h \in DOMAIN docs : docs[h].hash = c}

(* The new generation of a content hash, then the old one goes.            *)
Upsert(c, ds) ==
  /\ todo = <<>> /\ cur # 0
  /\ next + Len(ds) <= MaxHandle
  /\ Start(InsertScript(c, ds) \o Removals(HandlesForContentHash(c)),
           Rows(c, ds) @@ Without(stored, HandlesForContentHash(c)),
           DOMAIN Rows(c, ds) \cup HandlesForContentHash(c))
  /\ next' = next + Len(ds)
  /\ UNCHANGED cur

Delete(H) == /\ todo = <<>> /\ cur # 0
             /\ Start(Removals(H), Without(stored, H), H)
             /\ UNCHANGED <<next, cur>>

DeleteById(b, c)   == Delete(IF <<b, c>> \in DOMAIN ids THEN ids[<<b, c>>] ELSE {})
DeleteByName(n)    == n # NoName /\ Delete({h \in DOMAIN docs : docs[h].name = n})
DeleteByMetadata   == Delete({h \in DOMAIN docs : docs[h].meta})
DeleteByContentId(b) == Delete({h \in DOMAIN docs : docs[h].base = b})

(* update_metadata: in place, one document after the other. *)
UpdateMetadata(b) ==
  LET H == {h \in DOMAIN docs : docs[h].base = b}
  IN  /\ todo = <<>> /\ cur # 0
      /\ Start([n \in 1 .. Cardinality(H) |-> [op |-> "meta", h |-> SetToSeq(H)[n]]],
               [h \in DOMAIN stored |-> IF h \in H THEN [stored[h] EXCEPT !.meta = FALSE]
                                                   ELSE stored[h]],
               H)
      /\ UNCHANGED <<next, cur>>

(* create, with nothing saved under the path.  A dropped index that no      *)
(* search holds is gone, and its number is free again.                     *)
Create == /\ todo = <<>> /\ cur = 0
          /\ LET free == {n \in 1 .. MaxIndex : \A r \in Reader : reader[r].obj # n}
             IN  /\ free # {}
                 /\ cur' = Min(free)
                 /\ index' = [index EXCEPT ![Min(free)] = <<>>]
          /\ orphans' = {}
          /\ UNCHANGED <<docs, side, next, todo, stored, goal, busy, reader>>

Drop == /\ MayDrop
        /\ todo = <<>> /\ cur # 0
        /\ Start(<<[op |-> "ids"], [op |-> "docs"], [op |-> "next"], [op |-> "rest"]>>,
                 <<>>, DOMAIN docs)
        /\ cur' = 0
        /\ UNCHANGED next

(* The add raised: its documents go, and then what pointed to them.        *)
Unwind(rows) ==
  LET hs == SetToSeq(DOMAIN rows)
  IN  [n \in DOMAIN hs |-> [op |-> "undoc", h |-> hs[n]]]
      \o [n \in DOMAIN hs |-> [op |-> "unlink", h |-> hs[n], doc |-> rows[hs[n]]]]

(* Faulty: a name is kept while any document has its id. *)
UnlinkById(h, d) ==
  /\ ids' = Parted(ids, DocId(d), h)
  /\ names' = IF d.name = NoName \/ \E x \in DOMAIN docs : DocId(docs[x]) = DocId(d)
                THEN names ELSE Parted(names, d.name, DocId(d))
  /\ hashes' = IF \E x \in DOMAIN docs : docs[x].hash = d.hash THEN hashes ELSE hashes \ {d.hash}

(* _unlink_payload: an entry stays while a document needs it. *)
Unlink(h, d) ==
  /\ ids' = Parted(ids, DocId(d), h)
  /\ names' = IF \/ d.name = NoName
                 \/ \E x \in DOMAIN docs : DocId(docs[x]) = DocId(d) /\ docs[x].name = d.name
                THEN names ELSE Parted(names, d.name, DocId(d))
  /\ hashes' = IF \E x \in DOMAIN docs : docs[x].hash = d.hash THEN hashes ELSE hashes \ {d.hash}

Linked(h, d) ==
  /\ ids' = Joined(ids, DocId(d), h)
  /\ names' = IF d.name = NoName THEN names ELSE Joined(names, d.name, DocId(d))
  /\ hashes' = hashes \cup {d.hash}

Moved(rest, g) == /\ todo' = rest /\ goal' = g
                  /\ stored' = IF rest = <<>> THEN g ELSE stored
                  /\ busy' = IF rest = <<>> THEN NoWrite ELSE busy
                  /\ UNCHANGED <<cur, reader>>

Doing(o) == todo # <<>> /\ Head(todo).op = o

Done == Moved(Tail(todo), goal) /\ UNCHANGED orphans

DoLink == /\ Doing("link") /\ Done
          /\ docs' = (Head(todo).h :> Head(todo).doc) @@ docs
          /\ Linked(Head(todo).h, Head(todo).doc)
          /\ UNCHANGED <<index, next>>

DoUndoc == /\ Doing("undoc") /\ Done
           /\ docs' = Without(docs, {Head(todo).h})
           /\ UNCHANGED <<index, side, next>>

DoUnlink == /\ Doing("unlink") /\ Done
            /\ Unlink(Head(todo).h, Head(todo).doc)
            /\ UNCHANGED <<index, docs, next>>

DoMeta == /\ Doing("meta") /\ Done
          /\ docs' = [docs EXCEPT ![Head(todo).h].meta = FALSE]
          /\ UNCHANGED <<index, side, next>>

DoRemove == /\ Doing("remove") /\ Done
            /\ index' = [index EXCEPT ![cur] = Without(@, {Head(todo).h})]
            /\ UNCHANGED <<docs, side, next>>

NextRow == Min(Head(todo).left)

AddRow == /\ index' = [index EXCEPT ![cur] = (NextRow :> Head(todo).rows[NextRow]) @@ @]
          /\ UNCHANGED <<docs, side, next>>

(* One slice.  With the last of them add_with_ids returns. *)
DoAdd == /\ Doing("add")
         /\ AddRow
         /\ LET left == Head(todo).left \ {NextRow}
            IN  Moved(IF left = {} THEN Tail(todo)
                        ELSE <<[Head(todo) EXCEPT !.left = left]>> \o Tail(todo), goal)
         /\ UNCHANGED orphans

(* Refused as a whole: the wrapper asks before the first slice. *)
AddFails == /\ MayFail
            /\ Doing("add") /\ Head(todo).left = DOMAIN Head(todo).rows
            /\ Moved(Unwind(Head(todo).rows), stored)
            /\ UNCHANGED <<index, docs, side, next, orphans>>

(* KeyboardInterrupt behind a slice: the slices added stay. *)
AddInterrupted ==
  /\ MayFail
  /\ Doing("add")
  /\ AddRow
  /\ orphans' = orphans \cup (DOMAIN Head(todo).rows \ Head(todo).left) \cup {NextRow}
  /\ Moved(Unwind(Head(todo).rows), stored)

DoClear == /\ \/ Doing("ids")  /\ ids' = <<>> /\ UNCHANGED <<docs, next, names, hashes>>
              \/ Doing("docs") /\ docs' = <<>> /\ UNCHANGED <<next, side>>
              \/ Doing("next") /\ next' = 0 /\ UNCHANGED <<docs, side>>
              \/ Doing("rest") /\ names' = <<>> /\ hashes' = {} /\ UNCHANGED <<docs, next, ids>>
           /\ Done
           /\ UNCHANGED index

Step == \/ DoLink \/ DoUndoc \/ DoUnlink \/ DoMeta \/ DoRemove \/ DoAdd \/ AddFails
        \/ AddInterrupted \/ DoClear

-----------------------------------------------------------------------------
(* search *)

At(r, l) == reader[r].pc = l

Become(r, s) == /\ reader' = [reader EXCEPT ![r] = s]
                /\ UNCHANGED <<index, cur, docs, side, next, todo, stored, goal, busy, orphans>>

(* self._index is None or len(self._index) == 0: it is read twice.         *)
Begin(r, f) == /\ At(r, "idle")
               /\ Become(r, [Idle EXCEPT !.pc = IF cur = 0 THEN "done" ELSE "len",
                                         !.filtered = f, !.beside = busy.handles,
                                         !.updated = busy.updated])

LenIndex(r) == /\ At(r, "len")
               /\ Become(r, [reader[r] EXCEPT !.pc =
                               CASE cur = 0 -> "TypeError"
                                 [] cur # 0 /\ index[cur] = <<>> -> "done"
                                 [] OTHER -> "take"])

(* _retrieve takes its own reference to the index. *)
Retrieve(r) ==
  /\ At(r, "take")
  /\ Become(r, [reader[r] EXCEPT !.obj = cur,
                  !.pc = IF cur = 0 THEN "done"
                         ELSE IF reader[r].filtered THEN "snapshot" ELSE "all"])

Hits(r, H) == {[h |-> h, row |-> index[reader[r].obj][h]] : h \in H}

InIndex(r) == DOMAIN index[reader[r].obj]

(* The search without a filter, first or as the last resort. *)
SearchAll(r) ==
  /\ At(r, "all")
  /\ Become(r, [reader[r] EXCEPT !.hits = Hits(r, InIndex(r)),
                  !.pc = IF reader[r].filtered THEN "post" ELSE "build"])

(* The post-filter of the last resort, before anything is built.           *)
PostFilter(r) ==
  /\ At(r, "post")
  /\ \E x \in reader[r].hits :
       Become(r, [reader[r] EXCEPT !.hits = @ \ {x},
                    !.kept = IF x.h \in DOMAIN docs /\ docs[x.h].meta
                               THEN @ \cup {x} ELSE @])

PostFiltered(r) == /\ At(r, "post") /\ reader[r].hits = {}
                   /\ Become(r, [reader[r] EXCEPT !.pc = "build", !.hits = reader[r].kept,
                                                  !.kept = {}])

Snapshot(r) == /\ At(r, "snapshot")
               /\ Become(r, [reader[r] EXCEPT !.pc = "resolve", !.allow = {},
                               !.snap = {[h |-> h, doc |-> docs[h]] : h \in DOMAIN docs}])

Resolve(r) ==
  /\ At(r, "resolve")
  /\ \E s \in reader[r].snap :
       LET now == IF s.h \in DOMAIN docs THEN docs[s.h] ELSE s.doc
       IN  Become(r, [reader[r] EXCEPT !.snap = @ \ {s},
                        !.allow = IF now.meta THEN @ \cup {s.h} ELSE @])

Allowed(r) ==
  /\ At(r, "resolve") /\ reader[r].snap = {}
  /\ LET s == reader[r]
         used == [s EXCEPT !.allow = {}, !.tries = 0]
     IN  Become(r, CASE s.allow = {} -> [used EXCEPT !.pc = "done"]
                     [] s.allow # {} /\ s.allow \subseteq InIndex(r) ->
                          [used EXCEPT !.pc = "build", !.hits = Hits(r, s.allow)]
                     [] OTHER -> [used EXCEPT !.tries = s.tries + 1,
                                     !.pc = IF s.tries + 1 < Tries THEN "snapshot" ELSE "all"])

BuildResults(r) ==
  /\ At(r, "build")
  /\ \E x \in reader[r].hits :
       LET s == reader[r]
       IN  Become(r, [s EXCEPT !.hits = @ \ {x},
                        !.out = IF x.h \in DOMAIN docs
                                  THEN @ \cup {[h |-> x.h, doc |-> docs[x.h], row |-> x.row]}
                                  ELSE @])

Built(r) == /\ At(r, "build") /\ reader[r].hits = {}
            /\ Become(r, [reader[r] EXCEPT !.pc = "done"])

Return(r) == /\ reader[r].pc \in {"done", "TypeError"}
             /\ Become(r, Idle)

Search(r) == \/ \E f \in BOOLEAN : Begin(r, f)
             \/ LenIndex(r) \/ Retrieve(r) \/ SearchAll(r) \/ Snapshot(r) \/ Resolve(r)
             \/ Allowed(r) \/ PostFilter(r) \/ PostFiltered(r) \/ BuildResults(r) \/ Built(r) \/ Return(r)

Next == \/ \E c \in Hash, ds \in Batch : Insert(c, ds) \/ Upsert(c, ds)
        \/ \E b \in Base, c \in Hash : DeleteById(b, c)
        \/ \E n \in Name : DeleteByName(n)
        \/ DeleteByMetadata
        \/ \E b \in Base : DeleteByContentId(b) \/ UpdateMetadata(b)
        \/ Create \/ Drop
        \/ Step
        \/ \E r \in Reader : Search(r)

Spec == Init /\ [][Next]_vars

-----------------------------------------------------------------------------
(* With no write under way the documents are those the writes add up to,   *)
(* each with its vector, and the three indexes beside them hold what the   *)
(* documents say and nothing else (_unlink_payload, the unwind of insert). *)
(* What an add cut short left in the index is all that is there without a  *)
(* document.                                                               *)
SideIndexesExact ==
  todo = <<>> =>
    /\ docs = stored
    /\ cur # 0 => DOMAIN docs = DOMAIN index[cur] \ orphans
    /\ LET P == {docs[h] : h \in DOMAIN docs}
       IN  /\ hashes = {d.hash : d \in P}
           /\ DOMAIN ids = {DocId(d) : d \in P}
           /\ \A i \in DOMAIN ids : ids[i] = {h \in DOMAIN docs : DocId(docs[h]) = i}
           /\ DOMAIN names = {d.name : d \in P} \ {NoName}
           /\ \A n \in DOMAIN names : names[n] = {DocId(d) : d \in {x \in P : x.name = n}}

(* A search scores a document by its own vector.  Does not hold beside a   *)
(* drop, see the README.                                                   *)
OwnVector ==
  \A r \in Reader : At(r, "done") => \A x \in reader[r].out :
                      x.doc.base = x.row.base /\ x.doc.hash = x.row.hash

(* What a search owes beside any writes but a drop: each document is       *)
(* scored by its own vector and passes the filter, unless its metadata     *)
(* were updated beside it; those no write beside it touched are all found. *)
SearchesSound ==
  \A r \in Reader :
    At(r, "done") /\ ~reader[r].dropped =>
      LET s == reader[r]
          Passes(d) == s.filtered => d.meta
      IN  /\ \A x \in s.out : /\ x.doc.base = x.row.base /\ x.doc.hash = x.row.hash
                             /\ x.h \notin s.updated => Passes(x.doc)
          /\ {<<x.h, x.doc>> : x \in {y \in s.out : y.h \notin s.beside}}
               = {<<h, stored[h]>> : h \in {g \in DOMAIN stored \ s.beside : Passes(stored[g])}}

(* "a concurrent drop() nulls self._index, and a lock-free reader must not *)
(* trip over that mid-search" (_retrieve).  Does not hold, see the README. *)
DropIsSafe == \A r \in Reader : ~At(r, "TypeError")
=============================================================================
