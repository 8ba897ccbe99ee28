------------------------------- MODULE IdMap -------------------------------
(***************************************************************************)
(* IdMapIndex (turbovec/src/id_map.rs): external ids over the slots of the *)
(* inner index.  After a load the id -> slot map is not built until a call *)
(* needs it; until then a sorted copy of the loaded ids and the set of ids *)
(* added since stand in for it.                                            *)
(*                                                                         *)
(* Calls that take &self run concurrently (the bindings hold a read lock)  *)
(* and may build the map behind each other's backs; calls that take        *)
(* &mut self run alone, and are one step each.                             *)
(***************************************************************************)
EXTENDS Integers, Sequences

CONSTANTS
  Id,
  Thread,
  Batch,    \* the id arrays callers pass
  MaxLen,   \* bound: rows of the index
  Nobody

ASSUME BatchAssumption == Batch \subseteq Seq(Id) /\ <<>> \in Batch
ASSUME NobodyAssumption == Nobody \notin Thread

VARIABLES
  inner,          \* the id each row of the inner index was added with
  slotToId,
  ready,          \* id_to_slot (a OnceLock) is set
  idToSlot,
  sortedIds,      \* the ids of the load
  deferredAdded,  \* those added since, while the map is unset
  sortedLock,     \* the mutexes around these two
  addedLock,
  pc,             \* where each thread is
  asks,           \* "fresh": batch_addable; "rows": contains, allowlists;
                  \* "none": nothing
  batch,          \* its argument
  answer          \* what its last call returned

tables  == <<inner, slotToId>>
lazy    == <<ready, idToSlot, sortedIds, deferredAdded>>
locks   == <<sortedLock, addedLock>>
threads == <<pc, asks, batch, answer>>
vars    == <<tables, lazy, locks, threads>>

IdsOf(b) == {b[i] : i \in DOMAIN b}

Distinct(b) == \A i, j \in DOMAIN b : b[i] = b[j] => i = j

EmptyMap == [id \in {} |-> 0]

SlotOf(ids) == [id \in IdsOf(ids) |-> CHOOSE s \in DOMAIN ids : ids[s] = id]

Reply(ok, rows) == [ok |-> ok, rows |-> rows]

Go(t, l) == pc' = [pc EXCEPT ![t] = l]

(* new: the map is there, and empty.  A load: the map is not there.        *)
New == /\ slotToId = <<>>
       /\ ready = TRUE /\ sortedIds = {}

Loaded == /\ slotToId \in {ids \in Batch : Distinct(ids)}
          /\ ready = FALSE /\ sortedIds = IdsOf(slotToId)

Init == /\ New \/ Loaded
        /\ inner = slotToId
        /\ idToSlot = EmptyMap /\ deferredAdded = {}
        /\ sortedLock = Nobody /\ addedLock = Nobody
        /\ pc = [t \in Thread |-> "idle"]
        /\ asks = [t \in Thread |-> "none"]
        /\ batch = [t \in Thread |-> <<>>]
        /\ answer = [t \in Thread |-> Reply(TRUE, {})]

-----------------------------------------------------------------------------
(* Calls that take &self.                                                  *)

Call(t, what, b) ==
  /\ pc[t] = "idle"
  /\ asks' = [asks EXCEPT ![t] = what]
  /\ batch' = [batch EXCEPT ![t] = b]
  /\ Go(t, IF what = "fresh" THEN "probe" ELSE "get")
  /\ UNCHANGED <<tables, lazy, locks, answer>>

(* batch_addable: the map decides, when there is one ...                   *)
Probe(t) ==
  /\ pc[t] = "probe"
  /\ Go(t, IF ready THEN "get" ELSE "sorted")
  /\ UNCHANGED <<tables, lazy, locks, asks, batch, answer>>

LockSorted(t) ==
  /\ pc[t] = "sorted" /\ sortedLock = Nobody
  /\ sortedLock' = t
  /\ Go(t, "added")
  /\ UNCHANGED <<tables, lazy, addedLock, asks, batch, answer>>

LockAdded(t) ==
  /\ pc[t] = "added" /\ addedLock = Nobody
  /\ addedLock' = t
  /\ Go(t, "recheck")
  /\ UNCHANGED <<tables, lazy, sortedLock, asks, batch, answer>>

(* Faulty: no second look.                                                 *)
RecheckSkipped(t) ==
  /\ pc[t] = "recheck"
  /\ Go(t, "tables")
  /\ UNCHANGED <<tables, lazy, locks, asks, batch, answer>>

(* ... and may have been published before the locks were taken.            *)
Recheck(t) ==
  /\ pc[t] = "recheck"
  /\ Go(t, IF ready THEN "unlock" ELSE "tables")
  /\ UNCHANGED <<tables, lazy, locks, asks, batch, answer>>

Unlock(t) == sortedLock' = Nobody /\ addedLock' = Nobody

GiveUpTables(t) ==
  /\ pc[t] = "unlock"
  /\ Unlock(t)
  /\ Go(t, "get")
  /\ UNCHANGED <<tables, lazy, asks, batch, answer>>

InTables(id) == id \in sortedIds \/ id \in deferredAdded

Answered(t) == /\ asks' = [asks EXCEPT ![t] = "none"]
               /\ batch' = [batch EXCEPT ![t] = <<>>]
               /\ Go(t, "return")

FromTables(t) ==
  /\ pc[t] = "tables"
  /\ answer' = [answer EXCEPT ![t] =
       Reply(Distinct(batch[t]) /\ \A id \in IdsOf(batch[t]) : ~InTables(id), {})]
  /\ Unlock(t)
  /\ Answered(t)
  /\ UNCHANGED <<tables, lazy>>

(* ids(): the first look, the build, and the two clears, which every       *)
(* thread that found no map makes, whoever built it.                       *)
Get(t) ==
  /\ pc[t] = "get"
  /\ Go(t, IF ready THEN "answer" ELSE "build")
  /\ UNCHANGED <<tables, lazy, locks, asks, batch, answer>>

(* Faulty: publishes and returns.                                          *)
BuildOnly(t) ==
  /\ pc[t] = "build"
  /\ ready' = TRUE
  /\ idToSlot' = IF ready THEN idToSlot ELSE SlotOf(slotToId)
  /\ Go(t, "answer")
  /\ UNCHANGED <<tables, sortedIds, deferredAdded, locks, asks, batch, answer>>

Build(t) ==
  /\ pc[t] = "build"
  /\ ready' = TRUE
  /\ idToSlot' = IF ready THEN idToSlot ELSE SlotOf(slotToId)
  /\ Go(t, "clearSorted")
  /\ UNCHANGED <<tables, sortedIds, deferredAdded, locks, asks, batch, answer>>

ClearSorted(t) ==
  /\ pc[t] = "clearSorted" /\ sortedLock = Nobody
  /\ sortedIds' = {}
  /\ Go(t, "clearAdded")
  /\ UNCHANGED <<tables, ready, idToSlot, deferredAdded, locks, asks, batch, answer>>

ClearAdded(t) ==
  /\ pc[t] = "clearAdded" /\ addedLock = Nobody
  /\ deferredAdded' = {}
  /\ Go(t, "answer")
  /\ UNCHANGED <<tables, ready, idToSlot, sortedIds, locks, asks, batch, answer>>

(* The slots the map gives, and the ids of the rows found there.           *)
FromMap(t) ==
  LET ids   == IdsOf(batch[t])
      known == ids \subseteq DOMAIN idToSlot
  IN  IF asks[t] = "fresh"
        THEN Reply(Distinct(batch[t]) /\ ids \cap DOMAIN idToSlot = {}, {})
        ELSE Reply(known, IF known THEN {inner[idToSlot[id]] : id \in ids} ELSE {})

AnswerFromMap(t) ==
  /\ pc[t] = "answer"
  /\ answer' = [answer EXCEPT ![t] = FromMap(t)]
  /\ Answered(t)
  /\ UNCHANGED <<tables, lazy, locks>>

Return(t) ==
  /\ pc[t] = "return"
  /\ Go(t, "idle")
  /\ UNCHANGED <<tables, lazy, locks, asks, batch, answer>>

Step(t) == \/ Probe(t) \/ LockSorted(t) \/ LockAdded(t) \/ Recheck(t)
           \/ GiveUpTables(t) \/ FromTables(t)
           \/ Get(t) \/ Build(t) \/ ClearSorted(t) \/ ClearAdded(t)
           \/ AnswerFromMap(t) \/ Return(t)

-----------------------------------------------------------------------------
(* Calls that take &mut self.                                              *)

Alone == \A t \in Thread : pc[t] = "idle"

Known(id) == IF ready THEN id \in DOMAIN idToSlot ELSE InTables(id)

Addable(b) == Distinct(b) /\ \A id \in IdsOf(b) : ~Known(id)

Insert(b) == [id \in DOMAIN idToSlot \cup IdsOf(b) |->
                IF id \in IdsOf(b) THEN Len(inner) + SlotOf(b)[id] ELSE idToSlot[id]]

AddWithIds(t, b) ==
  /\ Alone
  /\ Addable(b) /\ Len(inner) + Len(b) <= MaxLen
  /\ inner' = inner \o b
  /\ idToSlot' = IF ready THEN Insert(b) ELSE idToSlot
  /\ deferredAdded' = IF ready THEN deferredAdded ELSE deferredAdded \cup IdsOf(b)
  /\ slotToId' = slotToId \o b
  /\ answer' = [answer EXCEPT ![t] = Reply(TRUE, {})]
  /\ UNCHANGED <<ready, sortedIds, locks, pc, asks, batch>>

(* An id is known or repeated, or the inner index refuses the vectors.     *)
AddFails(t) ==
  /\ Alone
  /\ answer' = [answer EXCEPT ![t] = Reply(FALSE, {})]
  /\ UNCHANGED <<tables, lazy, locks, pc, asks, batch>>

SwapPop(s, i) == [j \in 1 .. Len(s) - 1 |-> IF j = i THEN s[Len(s)] ELSE s[j]]

Built == IF ready THEN idToSlot ELSE SlotOf(slotToId)

(* Faulty: the id moved into the hole keeps its old slot.                  *)
ForgetOnly(id) == [k \in DOMAIN Built \ {id} |-> Built[k]]

Forget(id) ==
  LET moved == slotToId[Len(slotToId)]
  IN  [k \in DOMAIN Built \ {id} |-> IF k = moved THEN Built[id] ELSE Built[k]]

(* remove builds the map first, also for an id the index does not have.    *)
Remove(t, id) ==
  /\ Alone
  /\ ready' = TRUE
  /\ sortedIds' = IF ready THEN sortedIds ELSE {}
  /\ deferredAdded' = IF ready THEN deferredAdded ELSE {}
  /\ IF id \in DOMAIN Built
       THEN /\ inner' = SwapPop(inner, Built[id])
            /\ slotToId' = SwapPop(slotToId, Built[id])
            /\ idToSlot' = Forget(id)
       ELSE idToSlot' = Built /\ UNCHANGED tables
  /\ answer' = [answer EXCEPT ![t] = Reply(id \in DOMAIN Built, {})]
  /\ UNCHANGED <<locks, pc, asks, batch>>

-----------------------------------------------------------------------------
Read(t) == \E b \in Batch : Call(t, "fresh", b) \/ Call(t, "rows", b)

Write(t) == \/ \E b \in Batch : AddWithIds(t, b)
            \/ AddFails(t)
            \/ \E id \in Id : Remove(t, id)

Next == \E t \in Thread : Step(t) \/ Read(t) \/ Write(t)

(* A running call runs on: no mutex is held across a blocking call, and    *)
(* nothing is assumed of the order in which waiters get one.               *)
Spec == Init /\ [][Next]_vars /\ \A t \in Thread : WF_vars(Step(t))

-----------------------------------------------------------------------------
(* Each variable keeps to its type (the fields of IdMapIndex).             *)
TypeOK ==
  /\ inner \in Seq(Id) /\ slotToId \in Seq(Id)
  /\ ready \in BOOLEAN
  /\ idToSlot \in [DOMAIN idToSlot -> Nat] /\ DOMAIN idToSlot \subseteq Id
  /\ sortedIds \subseteq Id /\ deferredAdded \subseteq Id
  /\ {sortedLock, addedLock} \subseteq Thread \cup {Nobody}
  /\ pc \in [Thread -> {"idle", "probe", "sorted", "added", "recheck", "unlock",
       "tables", "get", "build", "clearSorted", "clearAdded", "answer", "return"}]
  /\ asks \in [Thread -> {"none", "fresh", "rows"}]
  /\ batch \in [Thread -> Batch]
  /\ answer \in [Thread -> [ok : BOOLEAN, rows : SUBSET Id]]

(* The two tables and the inner index stay in step through adds, failed    *)
(* adds and swap-removes: no id has two slots, each row is the one added   *)
(* under its id, and the map, once built, inverts slot_to_id (add_with_    *)
(* ids_2d, remove).                                                        *)
MapsAgree ==
  /\ inner = slotToId
  /\ Distinct(slotToId)
  /\ ready => /\ DOMAIN idToSlot = IdsOf(slotToId)
              /\ \A s \in DOMAIN slotToId : idToSlot[slotToId[s]] = s

(* While the map is unset, and for as long as a batch_addable that found   *)
(* it unset holds the locks, the two stand-in tables cover exactly the     *)
(* live ids (the comments of ids and batch_addable).                       *)
TablesTrusted ==
  (~ready \/ \E t \in Thread : pc[t] = "tables")
    => sortedIds \cup deferredAdded = IdsOf(slotToId)

(* No call leaves them behind a built map (the clears of ids).             *)
TablesFreed == Alone /\ ready => sortedIds = {} /\ deferredAdded = {}

(* Each call is one step on a set of ids: it answers as of the moment it   *)
(* runs, whichever of the tables and the map it was answered from, and     *)
(* reaches the rows added under the ids it names.                          *)
Abstract == INSTANCE IdSet WITH live <- IdsOf(slotToId)

ImplementsIdSet == Abstract!Spec
=============================================================================
