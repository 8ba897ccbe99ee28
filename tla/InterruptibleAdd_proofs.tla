----------------------- MODULE InterruptibleAdd_proofs -----------------------
(***************************************************************************)
(* For any ids, threads and batches: the tables stay in step, the stand-in *)
(* tables are intact whenever a call answers from them, and IdMap          *)
(* implements IdSet.                                                       *)
(*                                                                         *)
(* An add in slices adds all of its batch or, unless Ctrl-C stops it, none *)
(* of it, when no other thread writes meanwhile: for any ids, threads,     *)
(* batches and size of a slice.                                            *)
(***************************************************************************)
EXTENDS InterruptibleAdd, TLAPS

-----------------------------------------------------------------------------
(* Arrays of ids. *)

(* Appending a batch of new ids: the ids, and where they are.              *)
LEMMA Appended ==
  ASSUME NEW s \in Seq(Id), NEW b \in Seq(Id)
  PROVE  /\ s \o b \in Seq(Id)
         /\ IdsOf(s \o b) = IdsOf(s) \cup IdsOf(b)
         /\ Distinct(s) /\ Distinct(b) /\ IdsOf(s) \cap IdsOf(b) = {}
              => Distinct(s \o b)
<1> DEFINE c == s \o b
<1>1. /\ c \in Seq(Id) /\ Len(c) = Len(s) + Len(b)
      /\ DOMAIN s = 1 .. Len(s) /\ DOMAIN b = 1 .. Len(b) /\ DOMAIN c = 1 .. Len(c)
      /\ Len(s) \in Nat /\ Len(b) \in Nat
  OBVIOUS
<1>2. \A i \in 1 .. Len(c) : c[i] = IF i <= Len(s) THEN s[i] ELSE b[i - Len(s)]
  OBVIOUS
<1>3. \A i \in 1 .. Len(s) : i \in 1 .. Len(c) /\ c[i] = s[i]
  BY <1>1, <1>2
<1>4. \A i \in 1 .. Len(b) : i + Len(s) \in 1 .. Len(c) /\ c[i + Len(s)] = b[i]
  BY <1>1, <1>2
<1>5. IdsOf(c) = IdsOf(s) \cup IdsOf(b)
  <2>1. ASSUME NEW x \in IdsOf(c) PROVE x \in IdsOf(s) \cup IdsOf(b)
    <3>1. PICK i \in 1 .. Len(c) : x = c[i]
      BY <1>1 DEF IdsOf
    <3>2. CASE i <= Len(s)
      BY <1>1, <1>2, <3>1, <3>2 DEF IdsOf
    <3>3. CASE ~(i <= Len(s))
      <4>1. i - Len(s) \in 1 .. Len(b) /\ c[i] = b[i - Len(s)]
        BY <1>1, <1>2, <3>3
      <4> QED
        BY <1>1, <3>1, <4>1 DEF IdsOf
    <3> QED
      BY <3>2, <3>3
  <2>2. ASSUME NEW x \in IdsOf(s) \cup IdsOf(b) PROVE x \in IdsOf(c)
    BY <1>1, <1>3, <1>4 DEF IdsOf
  <2> QED
    BY <2>1, <2>2
<1>6. ASSUME Distinct(s), Distinct(b), IdsOf(s) \cap IdsOf(b) = {}
      PROVE  Distinct(c)
  <2> SUFFICES ASSUME NEW i \in 1 .. Len(c), NEW j \in 1 .. Len(c), c[i] = c[j]
               PROVE  i = j
    BY <1>1 DEF Distinct
  <2>1. CASE i <= Len(s) /\ j <= Len(s)
    BY <1>1, <1>2, <1>6, <2>1 DEF Distinct
  <2>2. CASE ~(i <= Len(s)) /\ ~(j <= Len(s))
    <3>1. /\ i - Len(s) \in 1 .. Len(b) /\ j - Len(s) \in 1 .. Len(b)
          /\ b[i - Len(s)] = b[j - Len(s)]
      BY <1>1, <1>2, <2>2
    <3>2. i - Len(s) = j - Len(s)
      BY <1>1, <1>6, <3>1 DEF Distinct
    <3> QED
      BY <1>1, <3>2
  <2>3. CASE i <= Len(s) /\ ~(j <= Len(s))
    <3>1. s[i] \in IdsOf(s) /\ b[j - Len(s)] \in IdsOf(b) /\ s[i] = b[j - Len(s)]
      BY <1>1, <1>2, <2>3 DEF IdsOf
    <3> QED
      BY <1>6, <3>1
  <2>4. CASE ~(i <= Len(s)) /\ j <= Len(s)
    <3>1. s[j] \in IdsOf(s) /\ b[i - Len(s)] \in IdsOf(b) /\ s[j] = b[i - Len(s)]
      BY <1>1, <1>2, <2>4 DEF IdsOf
    <3> QED
      BY <1>6, <3>1
  <2> QED
    BY <2>1, <2>2, <2>3, <2>4
<1> QED
  BY <1>1, <1>5, <1>6

(* SlotOf inverts an array without repetitions.                            *)
LEMMA Inverse ==
  ASSUME NEW s \in Seq(Id), Distinct(s)
  PROVE  /\ SlotOf(s) \in [IdsOf(s) -> Nat]
         /\ \A i \in DOMAIN s : SlotOf(s)[s[i]] = i
<1>1. DOMAIN s = 1 .. Len(s) /\ Len(s) \in Nat
  OBVIOUS
<1>2. ASSUME NEW i \in DOMAIN s
      PROVE  /\ s[i] \in IdsOf(s)
             /\ (CHOOSE k \in DOMAIN s : s[k] = s[i]) = i
  BY <1>1 DEF IdsOf, Distinct
<1>3. \A i \in DOMAIN s : SlotOf(s)[s[i]] = i
  BY <1>2 DEF SlotOf
<1>4. ASSUME NEW id \in IdsOf(s) PROVE SlotOf(s)[id] \in Nat
  <2>1. PICK i \in DOMAIN s : id = s[i]
    BY DEF IdsOf
  <2> QED
    BY <1>1, <1>3, <2>1
<1> QED
  BY <1>3, <1>4 DEF SlotOf

(* Swap-and-pop drops one id and moves the last one.                       *)
LEMMA SwapPopped ==
  ASSUME NEW s \in Seq(Id), Distinct(s), NEW i \in 1 .. Len(s)
  PROVE  /\ SwapPop(s, i) \in Seq(Id)
         /\ DOMAIN SwapPop(s, i) = 1 .. Len(s) - 1
         /\ Distinct(SwapPop(s, i))
         /\ IdsOf(SwapPop(s, i)) = IdsOf(s) \ {s[i]}
<1> DEFINE n == Len(s)
           p == SwapPop(s, i)
<1>1. n \in Nat \ {0} /\ DOMAIN s = 1 .. n /\ s \in [1 .. n -> Id] /\ n \in 1 .. n
  OBVIOUS
<1>2. /\ DOMAIN p = 1 .. n - 1
      /\ \A j \in 1 .. n - 1 : p[j] = IF j = i THEN s[n] ELSE s[j]
  BY DEF SwapPop
<1>3. p \in Seq(Id)
  <2>1. p = [j \in 1 .. n - 1 |-> IF j = i THEN s[n] ELSE s[j]]
    BY DEF SwapPop
  <2>2. p \in [1 .. n - 1 -> Id] /\ n - 1 \in Nat
    BY <1>1, <2>1
  <2> QED
    BY <2>2
<1>4. Distinct(p)
  BY <1>1, <1>2 DEF Distinct
<1>5. ASSUME NEW x \in IdsOf(p) PROVE x \in IdsOf(s) /\ x # s[i]
  <2>1. PICK j \in 1 .. n - 1 : x = p[j]
    BY <1>2 DEF IdsOf
  <2> QED
    BY <1>1, <1>2, <2>1 DEF IdsOf, Distinct
<1>7. n \in Nat /\ n >= 1
  BY <1>1
<1> HIDE DEF n
<1>6. ASSUME NEW x \in IdsOf(s), x # s[i] PROVE x \in IdsOf(p)
  <2>1. PICK j \in 1 .. n : x = s[j]
    BY <1>1 DEF IdsOf
  <2>2. CASE j = n
    <3>1. i \in 1 .. n - 1 /\ p[i] = x
      BY <1>1, <1>2, <1>6, <2>1, <2>2
    <3> QED
      BY <1>2, <3>1 DEF IdsOf
  <2>3. CASE j # n
    <3>1. j \in 1 .. n - 1
      BY <1>7, <2>3
    <3>0. j # i
      BY <1>6, <2>1
    <3>2. p[j] = x
      BY <1>2, <2>1, <3>0, <3>1
    <3> QED
      BY <1>2, <3>1, <3>2 DEF IdsOf
  <2> QED
    BY <2>2, <2>3
<1> QED
  BY <1>2, <1>3, <1>4, <1>5, <1>6 DEF n

-----------------------------------------------------------------------------
(* The inductive invariant. *)

TableHolders == {"added", "recheck", "unlock", "tables"}

(* Who holds the two mutexes (batch_addable).                              *)
Holders ==
  \A t \in Thread : /\ sortedLock = t <=> pc[t] \in TableHolders
                    /\ addedLock = t <=> pc[t] \in TableHolders \ {"added"}

(* A built map has cleared the tables, or a thread is about to (ids).      *)
Clearing ==
  /\ ready => sortedIds = {} \/ \E t \in Thread : pc[t] = "clearSorted"
  /\ ready => \/ deferredAdded = {}
              \/ \E t \in Thread : pc[t] \in {"clearSorted", "clearAdded"}

(* Past the build there is a map.                                          *)
MapBuilt ==
  \A t \in Thread : pc[t] \in {"clearSorted", "clearAdded", "answer"} => ready

(* A thread asks from its call to its answer, and only batch_addable looks *)
(* into the tables.                                                        *)
Asking ==
  \A t \in Thread :
    /\ asks[t] = "none" <=> pc[t] \in {"idle", "return"}
    /\ pc[t] \in TableHolders \cup {"probe", "sorted"} => asks[t] = "fresh"

IInv == /\ TypeOK /\ MapsAgree /\ TablesTrusted
        /\ Holders /\ Clearing /\ MapBuilt /\ Asking

LEMMA FreedFollows == IInv => TablesFreed
  BY DEF IInv, Clearing, TablesFreed, Alone

LEMMA InitIInv == Init => IInv
<1> SUFFICES ASSUME Init PROVE IInv
  OBVIOUS
<1>1. slotToId \in Seq(Id) /\ Distinct(slotToId)
  <2>1. CASE New
    BY <2>1 DEF New, Distinct
  <2>2. CASE Loaded
    BY <2>2, BatchAssumption DEF Loaded
  <2> QED
    BY <2>1, <2>2 DEF Init
<1>2. TypeOK
  <2>1. IdsOf(slotToId) \subseteq Id
    BY <1>1 DEF IdsOf
  <2>2. EmptyMap \in [DOMAIN EmptyMap -> Nat] /\ DOMAIN EmptyMap = {}
    BY DEF EmptyMap
  <2> QED
    BY <1>1, <2>1, <2>2, BatchAssumption DEF Init, New, Loaded, TypeOK, Reply
<1>3. MapsAgree
  <2>1. CASE New
    BY <1>1, <2>1 DEF Init, New, MapsAgree, IdsOf, EmptyMap
  <2>2. CASE Loaded
    BY <1>1, <2>2 DEF Init, Loaded, MapsAgree
  <2> QED
    BY <2>1, <2>2 DEF Init
<1>4. TablesTrusted
  BY DEF Init, New, Loaded, TablesTrusted
<1>5. Holders
  BY NobodyAssumption DEF Init, Holders, TableHolders
<1>6. Clearing /\ MapBuilt /\ Asking
  BY DEF Init, New, Loaded, Clearing, MapBuilt, Asking, TableHolders
<1> QED
  BY <1>2, <1>3, <1>4, <1>5, <1>6 DEF IInv

(* What the map holds once built, in either case.                          *)
LEMMA BuiltInverts ==
  ASSUME TypeOK, MapsAgree
  PROVE  /\ Built \in [IdsOf(slotToId) -> Nat]
         /\ \A s \in DOMAIN slotToId : Built[slotToId[s]] = s
<1>1. CASE ready
  BY <1>1 DEF Built, TypeOK, MapsAgree
<1>2. CASE ~ready
  BY <1>2, Inverse DEF Built, TypeOK, MapsAgree
<1> QED
  BY <1>1, <1>2

(* A thread moves; everything the other conjuncts speak of stays.          *)
LEMMA StepIInv ==
  ASSUME IInv, NEW t \in Thread, Step(t)
  PROVE  IInv'
<1> USE DEF IInv, Go, tables, lazy, locks, TypeOK, MapsAgree, TablesTrusted,
            Holders, TableHolders, Clearing, MapBuilt, Asking, Distinct, IdsOf
<1>1. /\ pc \in [Thread -> {"idle", "probe", "sorted", "added", "recheck",
             "unlock", "tables", "get", "build", "clearSorted", "clearAdded",
             "answer", "return"}]
      /\ \A u \in Thread : u # Nobody
  BY NobodyAssumption
<1>2. CASE Probe(t)
  BY <1>1, <1>2 DEF Probe
<1>3. CASE LockSorted(t)
  BY <1>1, <1>3 DEF LockSorted
<1>4. CASE LockAdded(t)
  BY <1>1, <1>4 DEF LockAdded
<1>5. CASE Recheck(t)
  BY <1>1, <1>5 DEF Recheck
<1>6. CASE GiveUpTables(t)
  BY <1>1, <1>6 DEF GiveUpTables, Unlock
<1>7. CASE FromTables(t)
  BY <1>1, <1>7, BatchAssumption DEF FromTables, Answered, Unlock, Reply
<1>8. CASE Get(t)
  BY <1>1, <1>8 DEF Get
<1>9. CASE Build(t)
  <2>1. idToSlot' = Built
    BY <1>9 DEF Build, Built
  <2>2. /\ idToSlot' \in [IdsOf(slotToId) -> Nat]
        /\ \A s \in DOMAIN slotToId : idToSlot'[slotToId[s]] = s
    BY <2>1, BuiltInverts
  <2>3. IdsOf(slotToId) \subseteq Id
    OBVIOUS
  <2>4. UNCHANGED <<tables, sortedIds, deferredAdded, locks, asks, batch, answer>>
        /\ ready' = TRUE /\ pc[t] = "build" /\ pc' = [pc EXCEPT ![t] = "clearSorted"]
    BY <1>9 DEF Build
  <2>5. TypeOK'
    BY <1>1, <2>2, <2>3, <2>4
  <2>6. MapsAgree'
    BY <2>2, <2>4
  <2>7. TablesTrusted'
    BY <1>1, <2>4
  <2>8. Holders' /\ Clearing' /\ MapBuilt' /\ Asking'
    BY <1>1, <2>4
  <2> QED
    BY <2>5, <2>6, <2>7, <2>8
<1>10. CASE ClearSorted(t)
  <2>1. /\ pc[t] = "clearSorted" /\ sortedLock = Nobody /\ sortedIds' = {}
        /\ pc' = [pc EXCEPT ![t] = "clearAdded"]
        /\ UNCHANGED <<tables, ready, idToSlot, deferredAdded, locks, asks, batch, answer>>
    BY <1>10 DEF ClearSorted
  <2>2. ready /\ \A u \in Thread : pc[u] # "tables"
    BY <1>1, <2>1
  <2> QED
    BY <1>1, <2>1, <2>2
<1>11. CASE ClearAdded(t)
  <2>1. /\ pc[t] = "clearAdded" /\ addedLock = Nobody /\ deferredAdded' = {}
        /\ pc' = [pc EXCEPT ![t] = "answer"]
        /\ UNCHANGED <<tables, ready, idToSlot, sortedIds, locks, asks, batch, answer>>
    BY <1>11 DEF ClearAdded
  <2>2. ready /\ \A u \in Thread : pc[u] # "tables"
    BY <1>1, <2>1
  <2> QED
    BY <1>1, <2>1, <2>2
<1>12. CASE AnswerFromMap(t)
  <2>1. /\ pc[t] = "answer" /\ pc' = [pc EXCEPT ![t] = "return"]
        /\ answer' = [answer EXCEPT ![t] = FromMap(t)]
        /\ asks' = [asks EXCEPT ![t] = "none"] /\ batch' = [batch EXCEPT ![t] = <<>>]
        /\ UNCHANGED <<tables, lazy, locks>>
    BY <1>12 DEF AnswerFromMap, Answered
  <2>2. FromMap(t) \in [ok : BOOLEAN, rows : SUBSET Id]
    <3> DEFINE ids == IdsOf(batch[t])
    <3>1. ready
      BY <2>1
    <3>2. ids \subseteq DOMAIN idToSlot => {inner[idToSlot[id]] : id \in ids} \subseteq Id
      <4> SUFFICES ASSUME NEW id \in DOMAIN idToSlot PROVE inner[idToSlot[id]] \in Id
        OBVIOUS
      <4>1. PICK s \in DOMAIN slotToId : id = slotToId[s]
        BY <3>1
      <4> QED
        BY <3>1, <4>1
    <3> QED
      BY <3>2 DEF FromMap, Reply
  <2> QED
    BY <1>1, <2>1, <2>2, BatchAssumption
<1>13. CASE Return(t)
  BY <1>1, <1>13 DEF Return
<1> QED
  BY <1>2, <1>3, <1>4, <1>5, <1>6, <1>7, <1>8, <1>9, <1>10, <1>11, <1>12, <1>13 DEF Step

(* An add extends every table by the same batch.                           *)
LEMMA AddIInv ==
  ASSUME IInv, NEW t \in Thread, NEW b \in Seq(Id), AddWithIds(t, b)
  PROVE  /\ IInv'
         /\ IdsOf(b) \cap IdsOf(slotToId) = {}
         /\ IdsOf(slotToId') = IdsOf(slotToId) \cup IdsOf(b)
<1> USE DEF IInv
<1>1. /\ Distinct(b) /\ \A id \in IdsOf(b) : ~Known(id)
      /\ inner' = inner \o b /\ slotToId' = slotToId \o b
      /\ idToSlot' = IF ready THEN Insert(b) ELSE idToSlot
      /\ deferredAdded' = IF ready THEN deferredAdded ELSE deferredAdded \cup IdsOf(b)
      /\ answer' = [answer EXCEPT ![t] = Reply(TRUE, {})]
      /\ UNCHANGED <<ready, sortedIds, sortedLock, addedLock, pc, asks, batch>>
      /\ \A u \in Thread : pc[u] = "idle"
  BY DEF AddWithIds, Addable, Alone, locks
<1>2. b \in Seq(Id) /\ slotToId \in Seq(Id) /\ inner = slotToId /\ Distinct(slotToId)
  BY DEF TypeOK, MapsAgree
<1>3. IdsOf(b) \cap IdsOf(slotToId) = {}
  BY <1>1 DEF Known, InTables, MapsAgree, TablesTrusted
<1>4. /\ slotToId' \in Seq(Id) /\ Distinct(slotToId') /\ inner' = slotToId'
      /\ IdsOf(slotToId') = IdsOf(slotToId) \cup IdsOf(b)
  BY <1>1, <1>2, <1>3, Appended
<1>5. IdsOf(b) \subseteq Id
  BY <1>2 DEF IdsOf
<1>6. ASSUME ready
      PROVE  /\ idToSlot' \in [IdsOf(slotToId') -> Nat]
             /\ \A s \in DOMAIN slotToId' : idToSlot'[slotToId'[s]] = s
  <2>1. idToSlot' = [id \in IdsOf(slotToId) \cup IdsOf(b) |->
                IF id \in IdsOf(b) THEN Len(slotToId) + SlotOf(b)[id] ELSE idToSlot[id]]
    BY <1>1, <1>2, <1>6 DEF Insert, MapsAgree
  <2>2. SlotOf(b) \in [IdsOf(b) -> Nat] /\ \A i \in DOMAIN b : SlotOf(b)[b[i]] = i
    BY <1>1, <1>2, Inverse
  <2>3. idToSlot' \in [IdsOf(slotToId') -> Nat]
    <3>1. Len(slotToId) \in Nat /\ idToSlot \in [IdsOf(slotToId) -> Nat]
      BY <1>2, <1>6 DEF TypeOK, MapsAgree
    <3>2. \A id \in IdsOf(b) : Len(slotToId) + SlotOf(b)[id] \in Nat
      BY <2>2, <3>1
    <3> QED
      BY <1>4, <2>1, <3>1, <3>2
  <2>4. ASSUME NEW s \in DOMAIN slotToId' PROVE idToSlot'[slotToId'[s]] = s
    <3>1. /\ Len(slotToId) \in Nat /\ Len(b) \in Nat
          /\ DOMAIN slotToId = 1 .. Len(slotToId) /\ DOMAIN b = 1 .. Len(b)
          /\ s \in 1 .. Len(slotToId) + Len(b)
          /\ slotToId'[s] = IF s <= Len(slotToId) THEN slotToId[s]
                                                  ELSE b[s - Len(slotToId)]
      BY <1>1, <1>2
    <3>2. CASE s <= Len(slotToId)
      <4>1. slotToId'[s] = slotToId[s] /\ s \in DOMAIN slotToId
        BY <3>1, <3>2
      <4>2. slotToId[s] \in IdsOf(slotToId) /\ slotToId[s] \notin IdsOf(b)
        BY <1>3, <4>1 DEF IdsOf
      <4>3. idToSlot'[slotToId[s]] = idToSlot[slotToId[s]]
        BY <2>1, <4>2
      <4> QED
        BY <1>6, <4>1, <4>3 DEF MapsAgree
    <3>3. CASE ~(s <= Len(slotToId))
      <4> DEFINE i == s - Len(slotToId)
      <4>1. i \in DOMAIN b /\ slotToId'[s] = b[i] /\ s = Len(slotToId) + i
        BY <3>1, <3>3
      <4>2. b[i] \in IdsOf(b)
        BY <4>1 DEF IdsOf
      <4>3. idToSlot'[b[i]] = Len(slotToId) + SlotOf(b)[b[i]]
        BY <2>1, <4>2
      <4> QED
        BY <2>2, <4>1, <4>3
    <3> QED
      BY <3>2, <3>3
  <2> QED
    BY <2>3, <2>4
<1>7. TypeOK'
  <2>1. idToSlot' \in [DOMAIN idToSlot' -> Nat] /\ DOMAIN idToSlot' \subseteq Id
    <3>1. CASE ready
      BY <1>4, <1>5, <1>6, <3>1 DEF TypeOK, IdsOf
    <3>2. CASE ~ready
      BY <1>1, <3>2 DEF TypeOK
    <3> QED
      BY <3>1, <3>2
  <2> QED
    BY <1>1, <1>4, <1>5, <2>1 DEF TypeOK, Reply
<1>8. MapsAgree'
  BY <1>1, <1>4, <1>6 DEF MapsAgree
<1>9. TablesTrusted'
  BY <1>1, <1>4 DEF TablesTrusted
<1>10. Holders' /\ Clearing' /\ MapBuilt' /\ Asking'
  BY <1>1 DEF Holders, Clearing, MapBuilt, Asking
<1> QED
  BY <1>3, <1>4, <1>7, <1>8, <1>9, <1>10

(* A remove builds the map, and takes one id from every table.             *)
LEMMA RemoveIInv ==
  ASSUME IInv, NEW t \in Thread, NEW id \in Id, Remove(t, id)
  PROVE  /\ IInv'
         /\ IdsOf(slotToId') = IdsOf(slotToId) \ {id}
         /\ answer' = [answer EXCEPT ![t] = Reply(id \in IdsOf(slotToId), {})]
<1> USE DEF IInv
<1>1. /\ ready' = TRUE
      /\ sortedIds' = IF ready THEN sortedIds ELSE {}
      /\ deferredAdded' = IF ready THEN deferredAdded ELSE {}
      /\ answer' = [answer EXCEPT ![t] = Reply(id \in DOMAIN Built, {})]
      /\ UNCHANGED <<sortedLock, addedLock, pc, asks, batch>>
      /\ \A u \in Thread : pc[u] = "idle"
  BY DEF Remove, Alone, locks
<1>2. /\ Built \in [IdsOf(slotToId) -> Nat]
      /\ \A s \in DOMAIN slotToId : Built[slotToId[s]] = s
  BY BuiltInverts
<1>3. slotToId \in Seq(Id) /\ inner = slotToId /\ Distinct(slotToId)
  BY DEF TypeOK, MapsAgree
<1>4. /\ Len(slotToId) \in Nat /\ DOMAIN slotToId = 1 .. Len(slotToId)
      /\ IdsOf(slotToId) \subseteq Id
  BY <1>3 DEF IdsOf
<1>5. /\ inner' = slotToId' /\ slotToId' \in Seq(Id) /\ Distinct(slotToId')
      /\ IdsOf(slotToId') = IdsOf(slotToId) \ {id}
      /\ idToSlot' \in [IdsOf(slotToId') -> Nat]
      /\ \A s \in DOMAIN slotToId' : idToSlot'[slotToId'[s]] = s
  <2>1. CASE id \notin IdsOf(slotToId)
    <3>1. idToSlot' = Built /\ UNCHANGED <<inner, slotToId>>
      BY <1>2, <2>1 DEF Remove, tables
    <3> QED
      BY <1>2, <1>3, <2>1, <3>1
  <2>2. CASE id \in IdsOf(slotToId)
    <3> DEFINE n == Len(slotToId)
               i == Built[id]
    <3>1. PICK k \in 1 .. n : slotToId[k] = id
      BY <1>4, <2>2 DEF IdsOf
    <3>2. i \in 1 .. n /\ slotToId[i] = id
      BY <1>2, <1>4, <3>1
    <3>3. slotToId' = SwapPop(slotToId, i) /\ inner' = SwapPop(inner, i)
            /\ idToSlot' = Forget(id)
      BY <1>2, <2>2 DEF Remove
    <3>4. /\ slotToId' \in Seq(Id) /\ DOMAIN slotToId' = 1 .. n - 1
          /\ Distinct(slotToId') /\ IdsOf(slotToId') = IdsOf(slotToId) \ {id}
      BY <1>3, <3>2, <3>3, SwapPopped
    <3>5. idToSlot' = [x \in IdsOf(slotToId) \ {id} |->
                         IF x = slotToId[n] THEN i ELSE Built[x]]
      BY <1>2, <3>3 DEF Forget
    <3>6. n \in 1 .. n
      BY <1>4, <3>2
    <3>7. idToSlot' \in [IdsOf(slotToId') -> Nat]
      <4>1. i \in Nat
        BY <1>4, <3>2
      <4> QED
        BY <1>2, <3>4, <3>5, <4>1
    <3>8. ASSUME NEW s \in 1 .. n - 1 PROVE idToSlot'[slotToId'[s]] = s
      <4>1. /\ slotToId'[s] = IF s = i THEN slotToId[n] ELSE slotToId[s]
            /\ s \in 1 .. n /\ s # n
        <5>1. slotToId' = [j \in 1 .. n - 1 |-> IF j = i THEN slotToId[n] ELSE slotToId[j]]
          BY <3>3 DEF SwapPop
        <5>2. s \in 1 .. n /\ s # n
          <6>1. n \in Nat
            BY <1>4
          <6> HIDE DEF n
          <6> QED
            BY <6>1
        <5> QED
          BY <5>1, <5>2
      <4>2. slotToId'[s] \in IdsOf(slotToId) \ {id}
        BY <3>4 DEF IdsOf
      <4>3. CASE s = i
        BY <3>5, <4>1, <4>2, <4>3
      <4>4. CASE s # i
        <5>1. slotToId'[s] = slotToId[s]
          BY <4>1, <4>4
        <5>2. slotToId[s] # slotToId[n]
          BY <1>3, <1>4, <3>6, <4>1 DEF Distinct
        <5>3. idToSlot'[slotToId[s]] = Built[slotToId[s]]
          BY <3>5, <4>2, <5>1, <5>2
        <5> QED
          BY <1>2, <1>4, <4>1, <5>1, <5>3
      <4> QED
        BY <4>3, <4>4
    <3>9. inner' = slotToId'
      BY <1>3, <3>3
    <3> QED
      BY <3>4, <3>7, <3>8, <3>9
  <2> QED
    BY <2>1, <2>2
<1>6. TypeOK'
  <2>1. IdsOf(slotToId') \subseteq Id
    BY <1>4, <1>5
  <2> QED
    BY <1>1, <1>5, <2>1 DEF TypeOK, Reply
<1>7. MapsAgree' /\ TablesTrusted' /\ Holders' /\ Clearing' /\ MapBuilt' /\ Asking'
  BY <1>1, <1>5 DEF MapsAgree, TablesTrusted, Holders, Clearing, MapBuilt, Asking
<1> QED
  BY <1>1, <1>2, <1>5, <1>6, <1>7

LEMMA NextIInv == IInv /\ [Next]_vars => IInv'
<1> SUFFICES ASSUME IInv, [Next]_vars PROVE IInv'
  OBVIOUS
<1>1. CASE UNCHANGED vars
  BY <1>1 DEF vars, tables, lazy, locks, threads, IInv, TypeOK, MapsAgree,
     TablesTrusted, Holders, TableHolders, Clearing, MapBuilt, Asking, Distinct, IdsOf
<1>2. ASSUME NEW t \in Thread, Step(t) PROVE IInv'
  BY <1>2, StepIInv
<1>3. ASSUME NEW t \in Thread, NEW b \in Batch, NEW what \in {"fresh", "rows"},
             Call(t, what, b)
      PROVE  IInv'
  <2>1. pc' \in [Thread -> {"idle", "probe", "sorted", "added", "recheck", "unlock",
             "tables", "get", "build", "clearSorted", "clearAdded", "answer", "return"}]
    BY <1>3 DEF Call, Go, IInv, TypeOK
  <2>2. /\ pc[t] = "idle" /\ pc' = [pc EXCEPT ![t] = IF what = "fresh" THEN "probe" ELSE "get"]
        /\ asks' = [asks EXCEPT ![t] = what] /\ batch' = [batch EXCEPT ![t] = b]
        /\ UNCHANGED <<tables, lazy, locks, answer>>
    BY <1>3 DEF Call, Go
  <2> QED
    BY <2>1, <2>2 DEF tables, lazy, locks, IInv, TypeOK, MapsAgree,
       TablesTrusted, Holders, TableHolders, Clearing, MapBuilt, Asking, Distinct, IdsOf
<1>4. ASSUME NEW t \in Thread, Write(t) PROVE IInv'
  <2>1. CASE AddFails(t)
    BY <2>1 DEF AddFails, Reply, tables, lazy, locks, IInv, TypeOK, MapsAgree,
       TablesTrusted, Holders, TableHolders, Clearing, MapBuilt, Asking, Distinct, IdsOf
  <2> QED
    BY <1>4, <2>1, BatchAssumption, AddIInv, RemoveIInv DEF Write
<1> QED
  BY <1>1, <1>2, <1>3, <1>4 DEF Next, Read

(* IInv holds in every reachable state.                                    *)
THEOREM IdMapInvariance == Spec => []IInv
  BY InitIInv, NextIInv, PTL DEF Spec

(* Each variable keeps to its type (the fields of IdMapIndex).             *)
THEOREM IdMapTyped == Spec => []TypeOK
<1>1. IInv => TypeOK
  BY DEF IInv
<1> QED
  BY IdMapInvariance, <1>1, PTL

(* The slots, the ids and the map agree through adds, failed adds and      *)
(* swap-removes (add_with_ids_2d, remove).                                 *)
THEOREM IdMapCorrect == Spec => []MapsAgree
<1>1. IInv => MapsAgree
  BY DEF IInv
<1> QED
  BY IdMapInvariance, <1>1, PTL

(* Whenever batch_addable answers from the tables that stand in for the    *)
(* map, they hold exactly the live ids, whoever builds the map meanwhile.  *)
THEOREM StandInsTrusted == Spec => []TablesTrusted
<1>1. IInv => TablesTrusted
  BY DEF IInv
<1> QED
  BY IdMapInvariance, <1>1, PTL

(* Once no call runs, a built map has left none of them behind (ids).      *)
THEOREM StandInsFreed == Spec => []TablesFreed
  BY IdMapInvariance, FreedFollows, PTL

-----------------------------------------------------------------------------
(* The refinement. *)

LEMMA SameSets ==
  /\ \A b : Abstract!IdsOf(b) = IdsOf(b)
  /\ \A b : Abstract!Distinct(b) <=> Distinct(b)
  /\ \A ok, rows : Abstract!Reply(ok, rows) = Reply(ok, rows)
  BY DEF Abstract!IdsOf, IdsOf, Abstract!Distinct, Distinct, Abstract!Reply, Reply

(* What a batch_addable or a lookup answers is true of the ids now.        *)
LEMMA Answers ==
  ASSUME IInv, NEW t \in Thread, FromTables(t) \/ AnswerFromMap(t)
  PROVE  Abstract!AnswerFresh(t) \/ Abstract!AnswerRows(t)
<1> USE DEF IInv
<1> DEFINE ids == IdsOf(batch[t])
           fresh == Reply(Distinct(batch[t]) /\ ids \cap IdsOf(slotToId) = {}, {})
           rows  == Reply(ids \subseteq IdsOf(slotToId),
                          IF ids \subseteq IdsOf(slotToId) THEN ids ELSE {})
<1>1. /\ UNCHANGED <<slotToId, IdsOf(slotToId)>>
      /\ asks' = [asks EXCEPT ![t] = "none"] /\ batch' = [batch EXCEPT ![t] = <<>>]
  BY DEF FromTables, AnswerFromMap, Answered, tables, IdsOf
<1>2. SUFFICES \/ asks[t] = "fresh" /\ answer' = [answer EXCEPT ![t] = fresh]
               \/ asks[t] = "rows" /\ answer' = [answer EXCEPT ![t] = rows]
  BY <1>1, SameSets DEF Abstract!AnswerFresh, Abstract!AnswerRows, Abstract!Fresh,
     Abstract!Answer, Abstract!Return
<1>3. CASE FromTables(t)
  <2>1. asks[t] = "fresh" /\ sortedIds \cup deferredAdded = IdsOf(slotToId)
    BY <1>3 DEF FromTables, TablesTrusted, Asking, TableHolders
  <2>2. (\A id \in ids : ~InTables(id)) <=> ids \cap IdsOf(slotToId) = {}
    BY <2>1 DEF InTables
  <2> QED
    BY <1>3, <2>1, <2>2 DEF FromTables, Reply
<1>4. CASE AnswerFromMap(t)
  <2>1. ready /\ asks[t] \in {"fresh", "rows"}
    BY <1>4 DEF AnswerFromMap, MapBuilt, Asking, TypeOK
  <2>2. DOMAIN idToSlot = IdsOf(slotToId)
    BY <2>1 DEF MapsAgree
  <2>3. ASSUME ids \subseteq IdsOf(slotToId)
        PROVE  {inner[idToSlot[id]] : id \in ids} = ids
    <3>1. ASSUME NEW id \in ids PROVE inner[idToSlot[id]] = id
      <4>1. PICK s \in DOMAIN slotToId : id = slotToId[s]
        BY <2>3 DEF IdsOf
      <4> QED
        BY <2>1, <4>1 DEF MapsAgree
    <3> QED
      BY <3>1
  <2>4. answer' = [answer EXCEPT ![t] = FromMap(t)]
    BY <1>4 DEF AnswerFromMap
  <2>5. CASE asks[t] = "fresh"
    <3>1. FromMap(t) = Reply(Distinct(batch[t]) /\ ids \cap DOMAIN idToSlot = {}, {})
      BY <2>5 DEF FromMap
    <3> QED
      BY <2>2, <2>4, <2>5, <3>1
  <2>6. CASE asks[t] = "rows"
    <3>1. FromMap(t) = Reply(ids \subseteq DOMAIN idToSlot,
             IF ids \subseteq DOMAIN idToSlot THEN {inner[idToSlot[id]] : id \in ids} ELSE {})
      BY <2>6 DEF FromMap
    <3>2. (IF ids \subseteq DOMAIN idToSlot THEN {inner[idToSlot[id]] : id \in ids} ELSE {})
            = (IF ids \subseteq IdsOf(slotToId) THEN ids ELSE {})
      BY <2>2, <2>3
    <3>3. FromMap(t) = rows
      BY <2>2, <3>1, <3>2
    <3> QED
      BY <2>4, <2>6, <3>3
  <2> QED
    BY <2>1, <2>5, <2>6
<1> QED
  BY <1>3, <1>4

LEMMA RefinementInit == Init => Abstract!Init
<1> SUFFICES ASSUME Init PROVE Abstract!Init
  OBVIOUS
<1>1. IdsOf(slotToId) \in SUBSET Id
  BY InitIInv DEF IInv, TypeOK, IdsOf
<1> QED
  BY <1>1, SameSets DEF Init, Abstract!Init

(* Every step of IdMap is one of IdSet's calls, or changes nothing there.  *)
LEMMA RefinementStep ==
  IInv /\ [Next]_vars => [Abstract!Next]_(Abstract!vars)
<1> DEFINE Same == UNCHANGED <<IdsOf(slotToId), asks, batch, answer>>
<1> SUFFICES ASSUME IInv, [Next]_vars PROVE Abstract!Next \/ Same
  BY SameSets DEF Abstract!vars
<1>1. CASE UNCHANGED vars
  BY <1>1 DEF vars, tables, threads, IdsOf
<1>2. ASSUME NEW t \in Thread, Step(t) PROVE Abstract!Next \/ Same
  <2>1. CASE FromTables(t) \/ AnswerFromMap(t)
    BY <2>1, Answers DEF Abstract!Next
  <2>2. CASE ~(FromTables(t) \/ AnswerFromMap(t))
    BY <1>2, <2>2 DEF Step, Probe, LockSorted, LockAdded, Recheck, GiveUpTables,
       Get, Build, ClearSorted, ClearAdded, Return, tables, IdsOf
  <2> QED
    BY <2>1, <2>2
<1>3. ASSUME NEW t \in Thread, NEW b \in Batch, NEW what \in {"fresh", "rows"},
             Call(t, what, b)
      PROVE  Abstract!Next
  <2>1. asks[t] = "none" /\ UNCHANGED IdsOf(slotToId)
    BY <1>3 DEF Call, IInv, Asking, tables, IdsOf
  <2>2. Abstract!Ask(t, what, b)
    BY <1>3, <2>1, SameSets DEF Abstract!Ask, Call
  <2> QED
    BY <2>2 DEF Abstract!Next
<1>4. \A t \in Thread : Alone => asks[t] = "none"
  BY DEF Alone, IInv, Asking
<1>5. ASSUME NEW t \in Thread, NEW b \in Batch, AddWithIds(t, b)
      PROVE  Abstract!Next
  <2>1. Abstract!Add(t, b)
    BY <1>4, <1>5, BatchAssumption, AddIInv, SameSets DEF Abstract!Add, Abstract!Fresh, Abstract!Answer,
       AddWithIds, Addable
  <2> QED
    BY <2>1 DEF Abstract!Next
<1>6. ASSUME NEW t \in Thread, AddFails(t) PROVE Abstract!Next
  <2>1. Abstract!AddFails(t)
    BY <1>4, <1>6, SameSets DEF Abstract!AddFails, Abstract!Answer, AddFails, tables, IdsOf
  <2> QED
    BY <2>1 DEF Abstract!Next
<1>7. ASSUME NEW t \in Thread, NEW id \in Id, Remove(t, id)
      PROVE  Abstract!Next
  <2>1. Abstract!Remove(t, id)
    BY <1>4, <1>7, RemoveIInv, SameSets DEF Abstract!Remove, Abstract!Answer, Remove
  <2> QED
    BY <2>1 DEF Abstract!Next
<1> QED
  BY <1>1, <1>2, <1>3, <1>5, <1>6, <1>7 DEF Next, Read, Write

(* IdMap implements IdSet: no caller can tell the lazy map, its stand-in   *)
(* tables and the slots from a set of ids that answers at once.            *)
THEOREM IdMapImplementsIdSet == Spec => ImplementsIdSet
<1>1. Init => IInv /\ Abstract!Init
  BY InitIInv, RefinementInit
<1>2. IInv /\ [Next]_vars => IInv' /\ [Abstract!Next]_(Abstract!vars)
  BY NextIInv, RefinementStep
<1> QED
  BY <1>1, <1>2, PTL DEF Spec, ImplementsIdSet, Abstract!Spec


-----------------------------------------------------------------------------
(* Cutting an array of ids. *)

LEMMA SameArray ==
  ASSUME NEW s \in Seq(Id), NEW r \in Seq(Id), Len(s) = Len(r),
         \A i \in 1 .. Len(s) : s[i] = r[i]
  PROVE  s = r
<1>1. s \in [1 .. Len(s) -> Id] /\ r \in [1 .. Len(s) -> Id]
  OBVIOUS
<1> QED
  BY <1>1

LEMMA AppendAssociates ==
  ASSUME NEW a \in Seq(Id), NEW b \in Seq(Id), NEW c \in Seq(Id)
  PROVE  (a \o b) \o c = a \o (b \o c)
<1>1. /\ a \o b \in Seq(Id) /\ Len(a \o b) = Len(a) + Len(b)
      /\ \A i \in 1 .. Len(a) + Len(b) :
           (a \o b)[i] = IF i <= Len(a) THEN a[i] ELSE b[i - Len(a)]
  OBVIOUS
<1>2. /\ b \o c \in Seq(Id) /\ Len(b \o c) = Len(b) + Len(c)
      /\ \A i \in 1 .. Len(b) + Len(c) :
           (b \o c)[i] = IF i <= Len(b) THEN b[i] ELSE c[i - Len(b)]
  OBVIOUS
<1> DEFINE ab == a \o b
           bc == b \o c
           n  == Len(a) + Len(b) + Len(c)
<1>3. Len(a) \in Nat /\ Len(b) \in Nat /\ Len(c) \in Nat
  OBVIOUS
<1> HIDE DEF ab, bc
<1>4. /\ ab \o c \in Seq(Id) /\ Len(ab \o c) = n
      /\ \A i \in 1 .. n : (ab \o c)[i] = IF i <= Len(a) + Len(b) THEN ab[i]
                                            ELSE c[i - (Len(a) + Len(b))]
  BY <1>1, <1>3 DEF ab
<1>5. /\ a \o bc \in Seq(Id) /\ Len(a \o bc) = n
      /\ \A i \in 1 .. n : (a \o bc)[i] = IF i <= Len(a) THEN a[i]
                                            ELSE bc[i - Len(a)]
  BY <1>2, <1>3 DEF bc
<1>6. \A i \in 1 .. n : (ab \o c)[i] = (a \o bc)[i]
  BY <1>1, <1>2, <1>3, <1>4, <1>5 DEF ab, bc
<1> QED
  BY <1>4, <1>5, <1>6, SameArray DEF ab, bc

LEMMA RestOf ==
  ASSUME NEW s \in Seq(Id), NEW k \in 0 .. Len(s)
  PROVE  /\ SubSeq(s, k + 1, Len(s)) \in Seq(Id)
         /\ Len(SubSeq(s, k + 1, Len(s))) = Len(s) - k
         /\ \A i \in 1 .. Len(s) - k : SubSeq(s, k + 1, Len(s))[i] = s[k + i]
<1>1. Len(s) \in Nat /\ k \in Nat /\ k <= Len(s)
  OBVIOUS
<1> QED
  BY <1>1

(* The front of an array and what follows it, in one and in two cuts.      *)
LEMMA Cut ==
  ASSUME NEW s \in Seq(Id), NEW k \in 0 .. Len(s), NEW m \in 0 .. Len(s) - k
  PROVE  LET r == SubSeq(s, k + 1, Len(s))
             c == SubSeq(r, 1, m)
         IN  /\ r \in Seq(Id) /\ Len(r) = Len(s) - k
             /\ c \in Seq(Id) /\ Len(c) = m
             /\ SubSeq(r, m + 1, Len(r)) = SubSeq(s, k + m + 1, Len(s))
             /\ SubSeq(s, 1, k) \in Seq(Id) /\ Len(SubSeq(s, 1, k)) = k
             /\ SubSeq(s, 1, k) \o c = SubSeq(s, 1, k + m)
<1> DEFINE n == Len(s)
           r == SubSeq(s, k + 1, n)
           c == SubSeq(r, 1, m)
           f == SubSeq(s, 1, k)
<1>1. n \in Nat /\ k \in Nat /\ m \in Nat /\ k <= n /\ k + m <= n
  OBVIOUS
<1>2. /\ r \in Seq(Id) /\ Len(r) = n - k
      /\ \A i \in 1 .. n - k : r[i] = s[k + i]
  BY <1>1
<1>3. c \in Seq(Id) /\ Len(c) = m /\ \A i \in 1 .. m : c[i] = s[k + i]
  BY <1>1, <1>2
<1>4. f \in Seq(Id) /\ Len(f) = k /\ \A i \in 1 .. k : f[i] = s[i]
  BY <1>1
<1>5. SubSeq(r, m + 1, Len(r)) = SubSeq(s, k + m + 1, n)
  <2> HIDE DEF r
  <2>1. /\ SubSeq(r, m + 1, Len(r)) \in Seq(Id)
        /\ Len(SubSeq(r, m + 1, Len(r))) = n - k - m
        /\ \A i \in 1 .. n - k - m : SubSeq(r, m + 1, Len(r))[i] = r[m + i]
    BY <1>1, <1>2
  <2>2. /\ SubSeq(s, k + m + 1, n) \in Seq(Id)
        /\ Len(SubSeq(s, k + m + 1, n)) = n - k - m
        /\ \A i \in 1 .. n - k - m : SubSeq(s, k + m + 1, n)[i] = s[k + m + i]
    BY <1>1
  <2>3. \A i \in 1 .. n - k - m : r[m + i] = s[k + m + i]
    BY <1>1, <1>2
  <2> HIDE DEF n
  <2>4. n - k - m \in Nat
    BY <1>1
  <2> QED
    BY <2>1, <2>2, <2>3, <2>4, SameArray
<1>6. f \o c = SubSeq(s, 1, k + m)
  <2> HIDE DEF f, c
  <2>0. f \in Seq(Id) /\ c \in Seq(Id) /\ Len(f) = k /\ Len(c) = m
    BY <1>3, <1>4
  <2>1. f \o c \in Seq(Id) /\ Len(f \o c) = k + m
    BY <2>0
  <2>2. \A i \in 1 .. k + m : (f \o c)[i] = IF i <= k THEN f[i] ELSE c[i - k]
    BY <2>0
  <2>3. \A i \in 1 .. k + m : (f \o c)[i] = s[i]
    <3> SUFFICES ASSUME NEW i \in 1 .. k + m PROVE (f \o c)[i] = s[i]
      OBVIOUS
    <3>1. CASE i <= k
      BY <1>1, <1>4, <2>2, <3>1
    <3>2. CASE ~(i <= k)
      <4>1. i - k \in 1 .. m /\ k + (i - k) = i
        BY <1>1, <3>2
      <4> QED
        BY <1>3, <2>2, <3>2, <4>1
    <3> QED
      BY <3>1, <3>2
  <2>4. /\ SubSeq(s, 1, k + m) \in Seq(Id) /\ Len(SubSeq(s, 1, k + m)) = k + m
        /\ \A i \in 1 .. k + m : SubSeq(s, 1, k + m)[i] = s[i]
    BY <1>1
  <2> QED
    BY <2>1, <2>3, <2>4, SameArray
<1> QED
  BY <1>2, <1>3, <1>4, <1>5, <1>6

(* A slice of an array without repetitions repeats nothing that was in     *)
(* front of it, and nothing of its own.                                    *)
LEMMA CutDistinct ==
  ASSUME NEW s \in Seq(Id), Distinct(s),
         NEW k \in 0 .. Len(s), NEW m \in 0 .. Len(s) - k
  PROVE  LET c == SubSeq(SubSeq(s, k + 1, Len(s)), 1, m)
         IN  /\ Distinct(c) /\ IdsOf(c) \subseteq IdsOf(s)
             /\ IdsOf(c) \cap IdsOf(SubSeq(s, 1, k)) = {}
<1> DEFINE n == Len(s)
           r == SubSeq(s, k + 1, n)
           c == SubSeq(r, 1, m)
           f == SubSeq(s, 1, k)
<1>1. /\ n \in Nat /\ k \in Nat /\ m \in Nat /\ k <= n /\ k + m <= n
      /\ DOMAIN s = 1 .. n
  OBVIOUS
<1>2. DOMAIN c = 1 .. m /\ \A i \in 1 .. m : c[i] = s[k + i]
  <2>1. /\ r \in Seq(Id) /\ Len(r) = n - k
        /\ \A i \in 1 .. n - k : r[i] = s[k + i]
    BY RestOf
  <2> HIDE DEF r, n
  <2>2. Len(c) = m /\ c \in Seq(Id) /\ \A i \in 1 .. m : c[i] = r[i]
    BY <1>1, <2>1
  <2>3. DOMAIN c = 1 .. m
    BY <2>2
  <2> QED
    BY <1>1, <2>1, <2>2, <2>3
<1>3. DOMAIN f = 1 .. k /\ \A i \in 1 .. k : f[i] = s[i]
  BY <1>1
<1> HIDE DEF c, f
<1>4. \A i \in 1 .. m : k + i \in 1 .. n
  BY <1>1
<1>5. \A i \in 1 .. k : i \in 1 .. n
  BY <1>1
<1>6. Distinct(c)
  <2> SUFFICES ASSUME NEW i \in 1 .. m, NEW j \in 1 .. m, c[i] = c[j]
               PROVE  i = j
    BY <1>2 DEF Distinct
  <2>1. k + i = k + j
    BY <1>1, <1>2, <1>4 DEF Distinct
  <2> QED
    BY <1>1, <2>1
<1>7. IdsOf(c) \subseteq IdsOf(s)
  BY <1>1, <1>2, <1>4 DEF IdsOf
<1>8. IdsOf(c) \cap IdsOf(f) = {}
  <2> SUFFICES ASSUME NEW i \in 1 .. m, NEW j \in 1 .. k, c[i] = f[j]
               PROVE  FALSE
    BY <1>2, <1>3 DEF IdsOf
  <2>1. k + i = j
    BY <1>1, <1>2, <1>3, <1>4, <1>5 DEF Distinct
  <2> QED
    BY <1>1, <2>1
<1> QED
  BY <1>6, <1>7, <1>8 DEF c, f

-----------------------------------------------------------------------------
(* The inductive invariant. *)

Done(t) == Len(whole[t]) - Len(rest[t])

CallTyped ==
  /\ stage \in [Loader -> {"none", "asking", "slices", "whole"}]
  /\ whole \in [Loader -> Seq(Id)] /\ rest \in [Loader -> Seq(Id)]
  /\ before \in [Loader -> Seq(Id)]
  /\ touched \in [Loader -> BOOLEAN]
  /\ outcome \in [Loader -> {"none", "ok", "raised", "cancelled"}]

(* A loader is inside the index only to ask, and asks about its batch.     *)
OnlyAsks(t) ==
  /\ stage[t] = "asking" <=> pc[t] # "idle"
  /\ asks[t] # "none" => asks[t] = "fresh" /\ batch[t] = whole[t]

(* What is to come is the end of the batch; until it is known how to add   *)
(* it, all of it.  A call under way has not ended.                         *)
UnderWay(t) ==
  /\ Done(t) \in 0 .. Len(whole[t])
  /\ rest[t] = SubSeq(whole[t], Done(t) + 1, Len(whole[t]))
  /\ stage[t] # "none" => outcome[t] = "none"
  /\ stage[t] \in {"asking", "whole"} => rest[t] = whole[t]

Fits(t) == Distinct(whole[t]) /\ IdsOf(whole[t]) \cap IdsOf(before[t]) = {}

(* While nobody else writes: the index is as the call left it, and its     *)
(* answer stays true when the slices go in.                                *)
Undisturbed(t) ==
  ~touched[t] =>
    /\ stage[t] \in {"asking", "whole"} => slotToId = before[t]
    /\ pc[t] = "return" /\ answer[t].ok => Fits(t)
    /\ stage[t] = "slices" => slotToId = before[t] \o Added(t) /\ Fits(t)

(* WholeOrNothing, of one call.                                            *)
Ended(t) ==
  ~touched[t] =>
    /\ outcome[t] = "raised" => slotToId = before[t]
    /\ outcome[t] = "ok" => slotToId = before[t] \o whole[t]
    /\ outcome[t] = "cancelled" => slotToId = before[t] \o Added(t)

Own(t) == OnlyAsks(t) /\ UnderWay(t) /\ Undisturbed(t) /\ Ended(t)

AInv == IInv /\ CallTyped /\ \A t \in Loader : Own(t)

LEMMA EndedIsWholeOrNothing == (\A t \in Loader : Ended(t)) <=> WholeOrNothing
  BY DEF Ended, WholeOrNothing
LEMMA InitAInv == AInit => AInv
<1> SUFFICES ASSUME AInit PROVE AInv
  OBVIOUS
<1>1. IInv
  BY InitIInv DEF AInit
<1>2. CallTyped
  BY DEF AInit, CallTyped
<1>3. ASSUME NEW t \in Loader PROVE Own(t)
  <2>1. t \in Thread
    BY LoaderAssumption
  <2>2. Done(t) = 0 /\ SubSeq(whole[t], 1, 0) = <<>> /\ Len(whole[t]) = 0
    BY DEF AInit, Done
  <2> QED
    BY <2>1, <2>2 DEF AInit, Init, Own, OnlyAsks, UnderWay, Undisturbed, Ended
<1> QED
  BY <1>1, <1>2, <1>3 DEF AInv

(* Ids are known exactly when they are live.                               *)
LEMMA KnownAreLive ==
  ASSUME IInv, NEW id PROVE Known(id) <=> id \in IdsOf(slotToId)
  BY DEF IInv, MapsAgree, TablesTrusted, Known, InTables

(* A step within a call moves one thread and leaves the ids alone.         *)
LEMMA StepsMoveOne ==
  ASSUME IInv, NEW t \in Thread, Step(t)
  PROVE  /\ pc[t] # "idle" /\ (pc[t] # "return" => pc'[t] # "idle")
         /\ slotToId' = slotToId
         /\ \A u \in Thread \ {t} : /\ pc'[u] = pc[u] /\ asks'[u] = asks[u]
                                    /\ batch'[u] = batch[u] /\ answer'[u] = answer[u]
  BY DEF IInv, TypeOK, Step, Probe, LockSorted, LockAdded, Recheck, GiveUpTables,
     FromTables, Answered, Get, Build, ClearSorted, ClearAdded, AnswerFromMap,
     Return, Go, tables

(* What another thread does leaves a loader's call as it was, or touches   *)
(* it.                                                                     *)
LEMMA BystanderOwn ==
  ASSUME NEW u \in Loader, Own(u),
         UNCHANGED <<stage[u], whole[u], rest[u], before[u], outcome[u]>>,
         UNCHANGED <<pc[u], asks[u], batch[u], answer[u]>>,
         touched'[u] \/ (touched'[u] = touched[u] /\ slotToId' = slotToId)
  PROVE  Own(u)'
  BY DEF Own, OnlyAsks, UnderWay, Undisturbed, Ended, Fits, Added, Done

-----------------------------------------------------------------------------
(* The steps of a loader. *)

LEMMA AskAInv ==
  ASSUME AInv, NEW t \in Loader, NEW b \in Batch, Ask(t, b)
  PROVE  AInv'
<1>1. t \in Thread /\ b \in Seq(Id)
  BY LoaderAssumption, BatchAssumption
<1>2. /\ pc[t] = "idle" /\ asks' = [asks EXCEPT ![t] = "fresh"]
      /\ batch' = [batch EXCEPT ![t] = b] /\ pc' = [pc EXCEPT ![t] = "probe"]
      /\ UNCHANGED <<slotToId, answer>>
  BY DEF Ask, Call, Go, tables
<1>3. /\ whole' = [whole EXCEPT ![t] = b] /\ rest' = [rest EXCEPT ![t] = b]
      /\ before' = [before EXCEPT ![t] = slotToId]
      /\ touched' = [touched EXCEPT ![t] = FALSE]
      /\ outcome' = [outcome EXCEPT ![t] = "none"]
      /\ stage' = [stage EXCEPT ![t] = "asking"]
  BY DEF Ask, Begin, To
<1>4. IInv'
  <2>1. Next
    BY <1>1 DEF Ask, Next, Read
  <2> QED
    BY <2>1, NextIInv DEF AInv
<1>5. slotToId \in Seq(Id) /\ TypeOK /\ CallTyped
  BY DEF AInv, IInv, TypeOK
<1>6. CallTyped'
  BY <1>1, <1>3, <1>5 DEF CallTyped
<1>7. Own(t)'
  <2>1. /\ whole'[t] = b /\ rest'[t] = b /\ before'[t] = slotToId /\ ~touched'[t]
        /\ outcome'[t] = "none" /\ stage'[t] = "asking"
        /\ pc'[t] = "probe" /\ asks'[t] = "fresh" /\ batch'[t] = b
    BY <1>1, <1>2, <1>3, <1>5 DEF CallTyped, TypeOK
  <2>2. Done(t)' = 0 /\ b = SubSeq(b, 0 + 1, Len(b)) /\ 0 \in 0 .. Len(b)
    <3>1. b = SubSeq(b, 1, Len(b))
      BY <1>1, SameArray
    <3> QED
      BY <1>1, <2>1, <3>1 DEF Done
  <2> QED
    BY <1>2, <2>1, <2>2 DEF Own, OnlyAsks, UnderWay, Undisturbed, Ended
<1>8. ASSUME NEW u \in Loader \ {t} PROVE Own(u)'
  BY <1>2, <1>3, <1>5, LoaderAssumption, BystanderOwn DEF AInv, CallTyped, TypeOK
<1> QED
  BY <1>4, <1>6, <1>7, <1>8 DEF AInv

LEMMA LeaveWholeAInv ==
  ASSUME AInv, NEW t \in Loader, NEW b \in Batch, LeaveWhole(t, b)
  PROVE  AInv'
<1>1. t \in Thread /\ b \in Seq(Id)
  BY LoaderAssumption, BatchAssumption
<1>2. pc[t] = "idle" /\ UNCHANGED vars
  BY DEF LeaveWhole
<1>3. /\ whole' = [whole EXCEPT ![t] = b] /\ rest' = [rest EXCEPT ![t] = b]
      /\ before' = [before EXCEPT ![t] = slotToId]
      /\ touched' = [touched EXCEPT ![t] = FALSE]
      /\ outcome' = [outcome EXCEPT ![t] = "none"]
      /\ stage' = [stage EXCEPT ![t] = "whole"]
  BY DEF LeaveWhole, Begin, To
<1>4. IInv'
  BY <1>2, NextIInv DEF AInv
<1>5. slotToId \in Seq(Id) /\ TypeOK /\ CallTyped
  BY DEF AInv, IInv, TypeOK
<1>6. CallTyped'
  BY <1>1, <1>3, <1>5 DEF CallTyped
<1>7. Own(t)'
  <2>1. /\ whole'[t] = b /\ rest'[t] = b /\ before'[t] = slotToId /\ ~touched'[t]
        /\ outcome'[t] = "none" /\ stage'[t] = "whole"
        /\ pc'[t] = "idle" /\ asks'[t] = "none" /\ slotToId' = slotToId
    BY <1>1, <1>2, <1>3, <1>5 DEF CallTyped, TypeOK, AInv, IInv, Asking,
       vars, tables, threads
  <2>2. Done(t)' = 0 /\ b = SubSeq(b, 0 + 1, Len(b)) /\ 0 \in 0 .. Len(b)
    <3>1. b = SubSeq(b, 1, Len(b))
      BY <1>1, SameArray
    <3> QED
      BY <1>1, <2>1, <3>1 DEF Done
  <2> QED
    BY <2>1, <2>2 DEF Own, OnlyAsks, UnderWay, Undisturbed, Ended
<1>8. ASSUME NEW u \in Loader \ {t} PROVE Own(u)'
  BY <1>2, <1>3, <1>5, LoaderAssumption, BystanderOwn DEF AInv, CallTyped, TypeOK,
     vars, tables, threads
<1> QED
  BY <1>4, <1>6, <1>7, <1>8 DEF AInv
(* Within the question, the answer is true of the ids as they are now.     *)
LEMMA InsideAInv ==
  ASSUME AInv, NEW t \in Loader, Inside(t)
  PROVE  AInv'
<1>1. /\ t \in Thread /\ Step(t) /\ pc[t] # "return"
      /\ UNCHANGED <<stage, whole, rest, before, touched, outcome>>
  BY LoaderAssumption DEF Inside, call, hist
<1>2. IInv /\ CallTyped /\ Own(t)
  BY DEF AInv
<1>3. IInv' /\ CallTyped'
  BY <1>1, <1>2, StepIInv DEF CallTyped
<1>4. /\ pc[t] # "idle" /\ pc'[t] # "idle" /\ slotToId' = slotToId
      /\ stage[t] = "asking" /\ rest[t] = whole[t] /\ outcome[t] = "none"
  BY <1>1, <1>2, StepsMoveOne DEF Own, OnlyAsks, UnderWay
<1>5. OnlyAsks(t)'
  <2>1. \/ asks'[t] = "none"
        \/ asks'[t] = asks[t] /\ batch'[t] = batch[t]
    BY <1>1, <1>2 DEF IInv, TypeOK, Step, Probe, LockSorted, LockAdded, Recheck,
       GiveUpTables, FromTables, Answered, Get, Build, ClearSorted, ClearAdded,
       AnswerFromMap, Return
  <2> QED
    BY <1>1, <1>2, <1>4, <2>1 DEF Own, OnlyAsks
<1>6. ASSUME ~touched[t], pc'[t] = "return", answer'[t].ok
      PROVE  Fits(t)
  <2>1. slotToId = before[t]
    BY <1>2, <1>4, <1>6 DEF Own, Undisturbed
  <2>2. FromTables(t) \/ AnswerFromMap(t)
    BY <1>1, <1>2, <1>6 DEF IInv, TypeOK, Step, Probe, LockSorted, LockAdded, Recheck,
       GiveUpTables, Get, Build, ClearSorted, ClearAdded, Return, Go
  <2>3. asks[t] # "none"
    BY <1>1, <1>2, <2>2 DEF IInv, Asking, FromTables, AnswerFromMap
  <2>4. asks[t] = "fresh" /\ batch[t] = whole[t]
    BY <1>2, <2>3 DEF Own, OnlyAsks
  <2>5. Abstract!AnswerFresh(t)
    BY <1>1, <1>2, <2>2, <2>4, Answers DEF Abstract!AnswerRows
  <2>6. answer'[t].ok = (Distinct(batch[t]) /\ IdsOf(batch[t]) \cap IdsOf(slotToId) = {})
    BY <1>1, <1>2, <2>5, SameSets DEF Abstract!AnswerFresh, Abstract!Answer,
       Abstract!Fresh, Reply, IInv, TypeOK
  <2> QED
    BY <1>6, <2>1, <2>4, <2>6 DEF Fits
<1>7. Own(t)'
  BY <1>1, <1>2, <1>4, <1>5, <1>6 DEF Own, UnderWay, Undisturbed, Ended, Done, Fits, Added
<1>8. ASSUME NEW u \in Loader \ {t} PROVE Own(u)'
  BY <1>1, <1>2, StepsMoveOne, LoaderAssumption, BystanderOwn DEF AInv
<1> QED
  BY <1>3, <1>7, <1>8 DEF AInv

(* The answer decides between the slices and the whole batch.              *)
LEMMA AskedAInv ==
  ASSUME AInv, NEW t \in Loader, Asked(t)
  PROVE  AInv'
<1>1. /\ t \in Thread /\ Step(t) /\ stage[t] = "asking"
      /\ pc[t] = "return" /\ pc' = [pc EXCEPT ![t] = "idle"]
      /\ stage' = [stage EXCEPT ![t] = IF answer[t].ok THEN "slices" ELSE "whole"]
      /\ UNCHANGED <<whole, rest, before, touched, outcome, slotToId, asks, batch, answer>>
  BY LoaderAssumption DEF Asked, Return, Go, To, Step, hist, tables
<1>2. IInv /\ CallTyped /\ Own(t)
  BY DEF AInv
<1>7. pc'[t] = "idle" /\ \A u \in Thread \ {t} : pc'[u] = pc[u]
  BY <1>1, <1>2 DEF IInv, TypeOK
<1>3. IInv'
  BY <1>1, <1>2, StepIInv
<1>4. CallTyped'
  BY <1>1, <1>2 DEF CallTyped
<1>5. Own(t)'
  <2>1. /\ pc'[t] = "idle" /\ asks'[t] = "none" /\ rest[t] = whole[t]
        /\ stage'[t] \in {"slices", "whole"}
        /\ stage'[t] = "slices" => answer[t].ok
        /\ outcome[t] = "none"
    BY <1>1, <1>2, <1>7 DEF Own, UnderWay, IInv, Asking, CallTyped
  <2>2. Added(t) = <<>> /\ before[t] \o <<>> = before[t]
    <3>1. whole[t] \in Seq(Id) /\ before[t] \in Seq(Id)
      BY <1>2 DEF CallTyped
    <3> QED
      BY <2>1, <3>1 DEF Added
  <2>3. OnlyAsks(t)' /\ UnderWay(t)' /\ Ended(t)'
    BY <1>1, <1>2, <2>1 DEF Own, OnlyAsks, UnderWay, Ended, Done, Added
  <2>4. Undisturbed(t)'
    <3>1. ~touched[t] => slotToId = before[t] /\ (answer[t].ok => Fits(t))
      BY <1>1, <1>2 DEF Own, Undisturbed
    <3>2. Added(t)' = Added(t) /\ (Fits(t)' <=> Fits(t))
      BY <1>1 DEF Added, Fits
    <3> QED
      BY <1>1, <2>1, <2>2, <3>1, <3>2 DEF Undisturbed
  <2> QED
    BY <2>3, <2>4 DEF Own
<1>6. ASSUME NEW u \in Loader \ {t} PROVE Own(u)'
  <2>1. u \in Thread /\ UNCHANGED <<stage[u], pc[u]>>
    BY <1>1, <1>2, <1>7, LoaderAssumption DEF CallTyped
  <2> QED
    BY <1>1, <2>1, BystanderOwn DEF AInv
<1> QED
  BY <1>3, <1>4, <1>5, <1>6 DEF AInv

(* The next slice: how much of the batch is in afterwards.                 *)
LEMMA SliceIs ==
  ASSUME AInv, NEW t \in Loader
  PROVE  /\ Slice(t) \in Seq(Id)
         /\ Added(t) \in Seq(Id)
         /\ Len(Slice(t)) \in 0 .. Len(whole[t]) - Done(t)
         /\ SubSeq(rest[t], Len(Slice(t)) + 1, Len(rest[t]))
              = SubSeq(whole[t], Done(t) + Len(Slice(t)) + 1, Len(whole[t]))
         /\ Added(t) \o Slice(t) = SubSeq(whole[t], 1, Done(t) + Len(Slice(t)))
         /\ Distinct(whole[t]) => /\ Distinct(Slice(t))
                                  /\ IdsOf(Slice(t)) \subseteq IdsOf(whole[t])
                                  /\ IdsOf(Slice(t)) \cap IdsOf(Added(t)) = {}
<1> DEFINE s == whole[t]
           k == Done(t)
           m == Least(Chunk, Len(rest[t]))
<1>1. s \in Seq(Id) /\ rest[t] \in Seq(Id) /\ k \in 0 .. Len(s)
      /\ rest[t] = SubSeq(s, k + 1, Len(s))
  BY DEF AInv, CallTyped, Own, UnderWay
<1>2. Len(rest[t]) = Len(s) - k /\ Added(t) = SubSeq(s, 1, k)
  <2>1. Len(s) \in Nat /\ Len(rest[t]) \in Nat
    BY <1>1
  <2>2. Len(s) - Len(rest[t]) = k
    BY DEF Done
  <2>3. Added(t) = SubSeq(s, 1, Len(s) - Len(rest[t]))
    BY DEF Added
  <2> HIDE DEF k, s
  <2>4. Len(rest[t]) = Len(s) - k
    BY <1>1, <2>1, <2>2
  <2> QED
    BY <2>2, <2>3, <2>4
<1>3. m \in 0 .. Len(s) - k
  BY <1>1, <1>2, ChunkAssumption DEF Least
<1>4. Slice(t) = SubSeq(SubSeq(s, k + 1, Len(s)), 1, m)
  BY <1>1 DEF Slice
<1> HIDE DEF s, k, m
<1>5. /\ Slice(t) \in Seq(Id) /\ Len(Slice(t)) = m
      /\ SubSeq(rest[t], m + 1, Len(rest[t])) = SubSeq(s, k + m + 1, Len(s))
      /\ SubSeq(s, 1, k) \in Seq(Id)
      /\ SubSeq(s, 1, k) \o Slice(t) = SubSeq(s, 1, k + m)
  BY <1>1, <1>3, <1>4, Cut
<1>6. Distinct(s) => /\ Distinct(Slice(t)) /\ IdsOf(Slice(t)) \subseteq IdsOf(s)
                     /\ IdsOf(Slice(t)) \cap IdsOf(SubSeq(s, 1, k)) = {}
  BY <1>1, <1>3, <1>4, CutDistinct
<1> QED
  BY <1>2, <1>3, <1>5, <1>6 DEF s, k
(* A write of t's own adds nothing to what another loader has been told;   *)
(* it touches that loader's call.                                          *)
LEMMA WriterOwn ==
  ASSUME AInv, NEW t \in Loader, NEW u \in Loader \ {t}, Touch(t),
         UNCHANGED <<stage[u], whole[u], rest[u], before[u], outcome[u]>>,
         UNCHANGED <<pc, asks, batch, answer[u]>>
  PROVE  Own(u)'
<1>1. touched'[u]
  BY DEF Touch
<1>2. OnlyAsks(u) /\ UnderWay(u)
  BY DEF AInv, Own
<1> QED
  BY <1>1, <1>2 DEF Own, OnlyAsks, UnderWay, Undisturbed, Ended, Done

(* One slice more is in; after the last one, all of them are.              *)
LEMMA AddSliceAInv ==
  ASSUME AInv, NEW t \in Loader, AddSlice(t)
  PROVE  AInv'
<1> DEFINE c == Slice(t)
<1>1. /\ t \in Thread /\ stage[t] = "slices" /\ AddWithIds(t, c) /\ Touch(t)
      /\ rest' = [rest EXCEPT ![t] = SubSeq(rest[t], Len(c) + 1, Len(rest[t]))]
      /\ IF rest'[t] = <<>>
           THEN /\ stage' = [stage EXCEPT ![t] = "none"]
                /\ outcome' = [outcome EXCEPT ![t] = "ok"]
           ELSE UNCHANGED <<stage, outcome>>
      /\ UNCHANGED <<whole, before>>
  BY LoaderAssumption DEF AddSlice, End, To
<1>2. IInv /\ CallTyped /\ Own(t) /\ c \in Seq(Id)
  BY SliceIs DEF AInv
<1>3. IInv'
  BY <1>1, <1>2, AddIInv
<1>4. /\ slotToId' = slotToId \o c /\ pc[t] = "idle"
      /\ answer' = [answer EXCEPT ![t] = Reply(TRUE, {})]
      /\ UNCHANGED <<pc, asks, batch>>
  BY <1>1 DEF AddWithIds, Alone
<1> HIDE DEF c
<1>5. rest'[t] \in Seq(Id) /\ rest' = [rest EXCEPT ![t] = rest'[t]]
      /\ rest'[t] = SubSeq(rest[t], Len(c) + 1, Len(rest[t]))
  BY <1>1, <1>2 DEF CallTyped
<1>6. CallTyped'
  <2>1. touched' \in [Loader -> BOOLEAN]
    BY <1>1, <1>2 DEF Touch, CallTyped
  <2> QED
    BY <1>1, <1>2, <1>5, <2>1 DEF CallTyped
<1>7. /\ Done(t) \in 0 .. Len(whole[t])
      /\ Len(c) \in 0 .. Len(whole[t]) - Done(t)
      /\ rest'[t] = SubSeq(whole[t], Done(t) + Len(c) + 1, Len(whole[t]))
      /\ Added(t) \o c = SubSeq(whole[t], 1, Done(t) + Len(c))
      /\ Added(t) \in Seq(Id) /\ whole[t] \in Seq(Id) /\ before[t] \in Seq(Id)
  <2>1. /\ c \in Seq(Id) /\ Added(t) \in Seq(Id)
        /\ Len(c) \in 0 .. Len(whole[t]) - Done(t)
        /\ SubSeq(rest[t], Len(c) + 1, Len(rest[t]))
             = SubSeq(whole[t], Done(t) + Len(c) + 1, Len(whole[t]))
        /\ Added(t) \o c = SubSeq(whole[t], 1, Done(t) + Len(c))
    BY SliceIs DEF c
  <2> QED
    BY <1>2, <1>5, <2>1 DEF Own, UnderWay, CallTyped
<1>8. /\ Len(rest'[t]) = Len(whole[t]) - (Done(t) + Len(c))
      /\ Done(t)' = Done(t) + Len(c)
      /\ Added(t)' = SubSeq(whole[t], 1, Done(t) + Len(c))
  <2> DEFINE n == Len(whole[t])
             d == Done(t) + Len(c)
  <2>1. n \in Nat /\ d \in 0 .. n
    BY <1>7
  <2>2. Len(rest'[t]) = n - d
    BY <1>7, <2>1, RestOf
  <2>3. n - Len(rest'[t]) = d
    <3> HIDE DEF n, d
    <3> QED
      BY <2>1, <2>2
  <2>4. whole'[t] = whole[t]
    BY <1>1
  <2> QED
    BY <2>2, <2>3, <2>4 DEF Done, Added
<1>9. Added(t)' = Added(t) \o c
  BY <1>7, <1>8
<1>10. ASSUME rest'[t] = <<>> PROVE Added(t)' = whole[t]
  <2>1. Done(t) + Len(c) = Len(whole[t])
    BY <1>7, <1>8, <1>10
  <2> QED
    BY <1>7, <1>8, <2>1, SameArray
<1>11. ASSUME ~touched'[t]
       PROVE  Fits(t)' /\ slotToId' = before[t] \o Added(t)'
  <2>1. ~touched[t]
    BY <1>1, <1>11 DEF Touch
  <2>2. Fits(t) /\ slotToId = before[t] \o Added(t)
    BY <1>1, <1>2, <2>1 DEF Own, Undisturbed
  <2>3. (before[t] \o Added(t)) \o c = before[t] \o (Added(t) \o c)
    BY <1>2, <1>7, AppendAssociates
  <2> QED
    BY <1>1, <1>4, <1>9, <2>2, <2>3 DEF Fits
<1>12. Own(t)'
  <2>1. pc'[t] = "idle" /\ asks'[t] = "none" /\ stage'[t] # "asking"
    BY <1>1, <1>2, <1>4 DEF IInv, Asking, CallTyped
  <2>2. OnlyAsks(t)'
    BY <2>1 DEF OnlyAsks
  <2>3. UnderWay(t)'
    <3>1. /\ Done(t)' \in 0 .. Len(whole[t])
          /\ rest'[t] = SubSeq(whole[t], Done(t)' + 1, Len(whole[t]))
      BY <1>7, <1>8
    <3>2. /\ stage'[t] # "none" => outcome'[t] = "none"
          /\ stage'[t] \in {"none", "slices"}
      BY <1>1, <1>2 DEF CallTyped, Own, UnderWay
    <3> QED
      BY <1>1, <3>1, <3>2 DEF UnderWay
  <2>4. /\ outcome'[t] \in {"none", "ok"}
        /\ outcome'[t] = "ok" => rest'[t] = <<>>
        /\ stage'[t] \in {"none", "slices"}
    BY <1>1, <1>2 DEF CallTyped, Own, UnderWay
  <2>5. Undisturbed(t)'
    BY <1>1, <1>11, <2>1, <2>4 DEF Undisturbed
  <2>6. Ended(t)'
    BY <1>1, <1>10, <1>11, <2>4 DEF Ended
  <2> QED
    BY <2>2, <2>3, <2>5, <2>6 DEF Own
<1>13. ASSUME NEW u \in Loader \ {t} PROVE Own(u)'
  <2>1. /\ u \in Thread /\ UNCHANGED <<whole[u], before[u], pc, asks, batch>>
        /\ rest'[u] = rest[u] /\ stage'[u] = stage[u] /\ outcome'[u] = outcome[u]
    BY <1>1, <1>2, <1>4, LoaderAssumption DEF CallTyped
  <2>2. answer'[u] = answer[u]
    BY <1>2, <1>4, <2>1 DEF IInv, TypeOK
  <2> QED
    BY <1>1, <2>1, <2>2, WriterOwn
<1> QED
  BY <1>3, <1>6, <1>12, <1>13 DEF AInv
(* The whole batch is in, in one call of the index.                        *)
LEMMA AddWholeAInv ==
  ASSUME AInv, NEW t \in Loader, AddWhole(t)
  PROVE  AInv'
<1>1. /\ t \in Thread /\ stage[t] = "whole" /\ AddWithIds(t, whole[t]) /\ Touch(t)
      /\ stage' = [stage EXCEPT ![t] = "none"]
      /\ outcome' = [outcome EXCEPT ![t] = "ok"]
      /\ UNCHANGED <<whole, rest, before>>
  BY LoaderAssumption DEF AddWhole, End, To
<1>2. IInv /\ CallTyped /\ Own(t) /\ whole[t] \in Seq(Id)
  BY DEF AInv, CallTyped
<1>3. IInv'
  BY <1>1, <1>2, AddIInv
<1>4. /\ slotToId' = slotToId \o whole[t] /\ pc[t] = "idle"
      /\ answer' = [answer EXCEPT ![t] = Reply(TRUE, {})]
      /\ UNCHANGED <<pc, asks, batch>>
  BY <1>1 DEF AddWithIds, Alone
<1>5. CallTyped'
  <2>1. touched' \in [Loader -> BOOLEAN]
    BY <1>1, <1>2 DEF Touch, CallTyped
  <2> QED
    BY <1>1, <1>2, <2>1 DEF CallTyped
<1>6. Own(t)'
  <2>1. /\ pc'[t] = "idle" /\ asks'[t] = "none"
        /\ stage'[t] = "none" /\ outcome'[t] = "ok"
    BY <1>1, <1>2, <1>4 DEF IInv, Asking, CallTyped
  <2>2. touched'[t] \/ ~touched[t]
    BY <1>1 DEF Touch
  <2>3. ~touched'[t] => slotToId' = before[t] \o whole[t]
    BY <1>1, <1>2, <1>4, <2>2 DEF Own, Undisturbed
  <2>4. UnderWay(t)'
    BY <1>1, <1>2, <2>1 DEF Own, UnderWay, Done
  <2> QED
    BY <1>1, <2>1, <2>3, <2>4 DEF Own, OnlyAsks, Undisturbed, Ended
<1>7. ASSUME NEW u \in Loader \ {t} PROVE Own(u)'
  <2>1. /\ u \in Thread /\ UNCHANGED <<whole[u], rest[u], before[u], pc, asks, batch>>
        /\ stage'[u] = stage[u] /\ outcome'[u] = outcome[u]
    BY <1>1, <1>2, <1>4, LoaderAssumption DEF CallTyped
  <2>2. answer'[u] = answer[u]
    BY <1>2, <1>4, <2>1 DEF IInv, TypeOK
  <2> QED
    BY <1>1, <2>1, <2>2, WriterOwn
<1> QED
  BY <1>3, <1>5, <1>6, <1>7 DEF AInv

(* A slice of a batch that fits is refused by no index it was checked      *)
(* against: only the first slice can fail, and then nothing is in.         *)
LEMMA RefusedSlice ==
  ASSUME AInv, NEW t \in Loader, stage[t] = "slices", ~touched[t],
         rest[t] = whole[t] \/ ~Addable(Slice(t))
  PROVE  slotToId = before[t]
<1>1. Fits(t) /\ slotToId = before[t] \o Added(t)
  BY DEF AInv, Own, Undisturbed
<1>2. before[t] \in Seq(Id) /\ whole[t] \in Seq(Id) /\ Added(t) \in Seq(Id)
  BY SliceIs DEF AInv, CallTyped
<1>3. IdsOf(slotToId) = IdsOf(before[t]) \cup IdsOf(Added(t))
  BY <1>1, <1>2, Appended
<1>4. /\ Distinct(Slice(t)) /\ IdsOf(Slice(t)) \subseteq IdsOf(whole[t])
      /\ IdsOf(Slice(t)) \cap IdsOf(Added(t)) = {}
  BY <1>1, SliceIs DEF Fits
<1>5. Addable(Slice(t))
  <2>1. IInv /\ \A id \in IdsOf(Slice(t)) : id \notin IdsOf(slotToId)
    BY <1>1, <1>3, <1>4 DEF Fits, AInv
  <2> QED
    BY <1>4, <2>1, KnownAreLive DEF Addable
<1>6. Added(t) = <<>>
  <2>1. rest[t] = whole[t] /\ Len(whole[t]) \in Nat
    BY <1>2, <1>5
  <2>2. Added(t) = SubSeq(whole[t], 1, 0)
    BY <2>1 DEF Added
  <2> QED
    BY <1>2, <2>2
<1> QED
  BY <1>1, <1>2, <1>6

(* A refusal of the index ends the call, and changes no id.                *)
LEMMA FailsAInv ==
  ASSUME AInv, NEW t \in Loader, SliceFails(t) \/ WholeFails(t)
  PROVE  AInv'
<1>1. /\ t \in Thread /\ AddFails(t)
      /\ stage[t] \in {"slices", "whole"}
      /\ stage[t] = "slices" => rest[t] = whole[t] \/ ~Addable(Slice(t))
      /\ stage' = [stage EXCEPT ![t] = "none"]
      /\ outcome' = [outcome EXCEPT ![t] = "raised"]
      /\ UNCHANGED <<whole, rest, before, touched>>
  BY LoaderAssumption DEF SliceFails, WholeFails, End, To
<1>2. IInv /\ CallTyped /\ Own(t)
  BY DEF AInv
<1>3. /\ slotToId' = slotToId /\ pc[t] = "idle"
      /\ answer' = [answer EXCEPT ![t] = Reply(FALSE, {})]
      /\ UNCHANGED <<pc, asks, batch>>
  BY <1>1 DEF AddFails, Alone, tables
<1>4. IInv'
  <2>1. Next
    BY <1>1 DEF Next, Write
  <2> QED
    BY <1>2, <2>1, NextIInv
<1>5. CallTyped'
  BY <1>1, <1>2 DEF CallTyped
<1>6. Own(t)'
  <2>1. /\ pc'[t] = "idle" /\ asks'[t] = "none"
        /\ stage'[t] = "none" /\ outcome'[t] = "raised"
    BY <1>1, <1>2, <1>3 DEF IInv, Asking, CallTyped
  <2>2. ~touched[t] => slotToId = before[t]
    BY <1>1, <1>2, RefusedSlice DEF Own, Undisturbed
  <2>3. UnderWay(t)'
    BY <1>1, <1>2, <2>1 DEF Own, UnderWay, Done
  <2> QED
    BY <1>1, <1>3, <2>1, <2>2, <2>3 DEF Own, OnlyAsks, Undisturbed, Ended
<1>7. ASSUME NEW u \in Loader \ {t} PROVE Own(u)'
  <2>1. /\ u \in Thread /\ UNCHANGED <<whole[u], rest[u], before[u], touched[u]>>
        /\ UNCHANGED <<pc[u], asks[u], batch[u]>>
        /\ stage'[u] = stage[u] /\ outcome'[u] = outcome[u]
    BY <1>1, <1>2, <1>3, LoaderAssumption DEF CallTyped
  <2>2. answer'[u] = answer[u]
    BY <1>2, <1>3, <2>1 DEF IInv, TypeOK
  <2> QED
    BY <1>3, <2>1, <2>2, BystanderOwn DEF AInv
<1> QED
  BY <1>4, <1>5, <1>6, <1>7 DEF AInv

(* Ctrl-C between two slices: what is in stays in.                         *)
LEMMA CancelAInv ==
  ASSUME AInv, NEW t \in Loader, Cancel(t)
  PROVE  AInv'
<1>1. /\ t \in Thread /\ stage[t] = "slices"
      /\ stage' = [stage EXCEPT ![t] = "none"]
      /\ outcome' = [outcome EXCEPT ![t] = "cancelled"]
      /\ UNCHANGED <<vars, whole, rest, before, touched>>
  BY LoaderAssumption DEF Cancel, End, To
<1>2. IInv /\ CallTyped /\ Own(t)
  BY DEF AInv
<1>3. UNCHANGED <<slotToId, pc, asks, batch, answer>>
  BY <1>1 DEF vars, tables, threads
<1>4. IInv'
  BY <1>1, <1>2, NextIInv
<1>5. CallTyped'
  BY <1>1, <1>2 DEF CallTyped
<1>6. Own(t)'
  <2>1. /\ pc[t] = "idle" /\ stage'[t] = "none" /\ outcome'[t] = "cancelled"
    BY <1>1, <1>2 DEF Own, OnlyAsks, CallTyped
  <2>2. OnlyAsks(t)' /\ UnderWay(t)'
    BY <1>1, <1>2, <1>3, <2>1 DEF Own, OnlyAsks, UnderWay, Done
  <2>3. ~touched[t] => slotToId = before[t] \o Added(t)
    BY <1>1, <1>2 DEF Own, Undisturbed
  <2>4. Added(t)' = Added(t)
    BY <1>1 DEF Added
  <2> QED
    BY <1>1, <1>3, <2>1, <2>2, <2>3, <2>4 DEF Own, Undisturbed, Ended
<1>7. ASSUME NEW u \in Loader \ {t} PROVE Own(u)'
  BY <1>1, <1>2, <1>3, BystanderOwn DEF AInv, CallTyped
<1> QED
  BY <1>4, <1>5, <1>6, <1>7 DEF AInv

-----------------------------------------------------------------------------
(* The steps of the other threads. *)

LEMMA OtherAInv ==
  ASSUME AInv, NEW t \in Thread \ Loader, Other(t)
  PROVE  AInv'
<1>1. IInv /\ CallTyped /\ Next
  BY DEF AInv, Other, Next
<1>2. IInv'
  BY <1>1, NextIInv
<1>3. UNCHANGED <<stage, whole, rest, before, outcome>>
  BY DEF Other, call, hist
<1>4. CallTyped'
  <2>1. touched' \in [Loader -> BOOLEAN]
    BY <1>1 DEF Other, Touch, hist, CallTyped
  <2> QED
    BY <1>1, <1>3, <2>1 DEF CallTyped
<1>5. ASSUME NEW u \in Loader PROVE Own(u)'
  <2>1. u \in Thread /\ u # t
    BY LoaderAssumption
  <2>2. CASE (Read(t) \/ Step(t)) /\ UNCHANGED <<call, hist>>
    <3>1. /\ pc'[u] = pc[u] /\ asks'[u] = asks[u] /\ batch'[u] = batch[u]
          /\ answer'[u] = answer[u] /\ slotToId' = slotToId
      <4>1. CASE Step(t)
        BY <1>1, <2>1, <4>1, StepsMoveOne
      <4>2. CASE Read(t)
        BY <1>1, <2>1, <4>2 DEF Read, Call, Go, tables, IInv, TypeOK
      <4> QED
        BY <2>2, <4>1, <4>2
    <3> QED
      BY <1>3, <2>2, <3>1, BystanderOwn DEF hist, AInv
  <2>3. CASE Write(t) /\ Touch(t)
    <3>1. touched'[u]
      BY <2>1, <2>3 DEF Touch
    <3>2. UNCHANGED <<pc, asks, batch>>
      BY <2>3 DEF Write, AddWithIds, AddFails, Remove
    <3>3. OnlyAsks(u) /\ UnderWay(u)
      BY DEF AInv, Own
    <3> QED
      BY <1>3, <3>1, <3>2, <3>3 DEF Own, OnlyAsks, UnderWay, Undisturbed, Ended, Done
  <2> QED
    BY <2>2, <2>3 DEF Other
<1> QED
  BY <1>2, <1>4, <1>5 DEF AInv

LEMMA StutterAInv ==
  ASSUME AInv, UNCHANGED avars
  PROVE  AInv'
<1>1. UNCHANGED <<vars, stage, whole, rest, before, touched, outcome>>
  BY DEF avars, call, hist
<1>2. IInv' /\ CallTyped'
  BY <1>1, NextIInv DEF AInv, CallTyped
<1>3. ASSUME NEW u \in Loader PROVE Own(u)'
  BY <1>1, BystanderOwn DEF AInv, vars, tables, threads
<1> QED
  BY <1>2, <1>3 DEF AInv

LEMMA NextAInv == AInv /\ [ANext]_avars => AInv'
  BY AskAInv, LeaveWholeAInv, AskedAInv, CancelAInv, AddSliceAInv, AddWholeAInv,
     FailsAInv, InsideAInv, OtherAInv, StutterAInv DEF ANext, Load

(* If no other thread wrote since the call began, a call that raised added *)
(* nothing, one that returned added the batch in order, and an interrupted *)
(* one the slices before it (_interruptible.py, Atomicity).                *)
THEOREM SlicesAreAtomic == ASpec => []WholeOrNothing
<1>1. AInv => WholeOrNothing
  BY EndedIsWholeOrNothing DEF AInv, Own
<1> QED
  BY InitAInv, NextAInv, <1>1, PTL DEF ASpec
=============================================================================
