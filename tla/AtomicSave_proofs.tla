------------------------- MODULE AtomicSave_proofs -------------------------
(***************************************************************************)
(* The files of saves.  With one writing store whose handles never         *)
(* restart, IInv is inductive: no crash, failed save or racing load pairs  *)
(* a vector with the payload of another node.  SweepInv is inductive for   *)
(* the temp files of any saves: sweeps take what kills left and no more.   *)
(***************************************************************************)
EXTENDS AtomicSave, TempFiles, FiniteSetTheorems, TLAPS

-----------------------------------------------------------------------------
(* Mappings. *)

(* A mapping is a function from some of the handles to nodes.              *)
LEMMA MappingIs ==
  \A m : m \in Mapping <=> DOMAIN m \subseteq Handle /\ m \in [DOMAIN m -> Node]
<1> TAKE m
<1>1. ASSUME m \in Mapping
      PROVE  DOMAIN m \subseteq Handle /\ m \in [DOMAIN m -> Node]
  <2>1. PICK H \in SUBSET Handle : m \in [H -> Node]
    BY <1>1 DEF Mapping
  <2> QED
    BY <2>1
<1>2. ASSUME DOMAIN m \subseteq Handle, m \in [DOMAIN m -> Node]
      PROVE  m \in Mapping
  BY <1>2 DEF Mapping
<1> QED
  BY <1>1, <1>2

(* The empty mapping is one.                                               *)
LEMMA EmptyMapping == Empty \in Mapping /\ DOMAIN Empty = {}
  BY MappingIs DEF Empty

(* Dropping handles leaves a mapping.                                      *)
LEMMA WithoutMapping ==
  ASSUME NEW m \in Mapping, NEW H
  PROVE  /\ Without(m, H) \in Mapping
         /\ DOMAIN Without(m, H) \subseteq DOMAIN m
         /\ \A h \in DOMAIN Without(m, H) : Without(m, H)[h] = m[h]
<1>1. DOMAIN m \subseteq Handle /\ m \in [DOMAIN m -> Node]
  BY MappingIs
<1>2. DOMAIN Without(m, H) = DOMAIN m \ H
  BY DEF Without
<1>3. Without(m, H) \in [DOMAIN m \ H -> Node]
  BY <1>1 DEF Without
<1>4. \A h \in DOMAIN m \ H : Without(m, H)[h] = m[h]
  BY DEF Without
<1> QED
  BY <1>1, <1>2, <1>3, <1>4, MappingIs

(* Adding a handle leaves a mapping.                                       *)
LEMMA WithMapping ==
  ASSUME NEW m \in Mapping, NEW g \in Handle, NEW node \in Node
  PROVE  /\ With(m, g, node) \in Mapping
         /\ DOMAIN With(m, g, node) = DOMAIN m \cup {g}
         /\ \A h \in DOMAIN m \ {g} : With(m, g, node)[h] = m[h]
<1>1. DOMAIN m \subseteq Handle /\ m \in [DOMAIN m -> Node]
  BY MappingIs
<1>2. DOMAIN With(m, g, node) = DOMAIN m \cup {g}
  BY DEF With
<1>3. With(m, g, node) \in [DOMAIN m \cup {g} -> Node]
  BY <1>1 DEF With
<1>4. \A h \in DOMAIN m \ {g} : With(m, g, node)[h] = m[h]
  BY DEF With
<1> QED
  BY <1>1, <1>2, <1>3, <1>4, MappingIs

(* Files whose handles agree, and which give no handle two nodes, are of   *)
(* one save.                                                               *)
LEMMA AgreeSame ==
  ASSUME NEW i \in Mapping, NEW j \in Mapping,
         Cardinality(DOMAIN j) = Cardinality(DOMAIN i), DOMAIN j \subseteq DOMAIN i,
         Compatible(i, j)
  PROVE  i = j
<1>1. /\ DOMAIN i \subseteq Handle /\ i \in [DOMAIN i -> Node]
      /\ j \in [DOMAIN j -> Node]
  BY MappingIs
<1>2. IsFiniteSet(DOMAIN i)
  <2>1. IsFiniteSet(Handle)
    BY FS_Interval, BoundAssumption DEF Handle
  <2> QED
    BY <1>1, <2>1, FS_Subset
<1>3. DOMAIN i = DOMAIN j
  BY <1>2, FS_Subset
<1> QED
  BY <1>1, <1>3 DEF Compatible

-----------------------------------------------------------------------------
(* Edits of the open store. *)

(* The only writer is the only active store.                               *)
LEMMA OnlyActive ==
  ASSUME OneWriter, NEW w \in Writer
  PROVE  Active \subseteq {w}
BY DEF OneWriter, Active

(* An edit that gives no handle a new meaning keeps the invariant.         *)
LEMMA EditInv ==
  ASSUME IInv, OneWriter, NEW w \in Store, Writing(w),
         UNCHANGED <<stage, buffer, disk, saved, broken>>, TypeOK',
         \A s \in Store \ {w} :
           index'[s] = index[s] /\ nodes'[s] = nodes[s] /\ next'[s] = next[s],
         index'[w] = nodes'[w], \A h \in DOMAIN index'[w] : h <= next'[w],
         next[w] <= next'[w], next'[w] <= adds', adds <= adds',
         \A h \in DOMAIN index'[w] :
           h <= next[w] => h \in DOMAIN index[w] /\ index'[w][h] = index[w][h]
  PROVE  IInv'
<1> USE DEF IInv
<1>1. w \in Writer /\ stage[w] = "ready" /\ Active = {w} /\ Saving = {}
  <2>1. w \in Writer /\ stage[w] = "ready" /\ w \in Active
    BY DEF Writing, Active, Open
  <2>2. Active = {w}
    BY <2>1, OnlyActive
  <2>3. Saving = {}
    BY <2>1, <2>2 DEF StoreInv, Active, Open, Saving
  <2> QED
    BY <2>1, <2>2, <2>3
<1>2. Active' = Active /\ Saving' = Saving /\ Open' = Open
  BY DEF Active, Open, Saving
<1>3. ASSUME NEW m, Known(m, w), \A h \in DOMAIN m : h \in Int
      PROVE  Compatible(m, index'[w]) /\ \A h \in DOMAIN m : h <= next'[w]
  <2>1. \A h \in DOMAIN m : h <= next[w] /\ h <= next'[w]
    BY <1>3 DEF Known, TypeOK
  <2>2. ASSUME NEW h \in DOMAIN m \cap DOMAIN index'[w]
        PROVE  m[h] = index'[w][h]
    BY <1>3, <2>1, <2>2 DEF Known, Compatible
  <2> QED
    BY <2>1, <2>2 DEF Compatible
<1>4. \A m \in Mapping : \A h \in DOMAIN m : h \in Int
  BY MappingIs DEF Handle
<1>5. StoreInv'
  BY <1>1, <1>2 DEF StoreInv, Coherent, Open, Saving
<1>6. ReadInv'
  <2> SUFFICES ASSUME NEW s \in Store PROVE ReadOK(s)'
    BY DEF ReadInv
  <2>1. /\ buffer[s].tvim # NoFile => buffer[s].tvim \in Mapping
        /\ buffer[s].side # NoFile => buffer[s].side.nodes \in Mapping
    BY DEF TypeOK, SideCar
  <2>2. CASE stage[s] = "index read"
    BY <1>1, <1>2, <1>3, <1>4, <2>1, <2>2 DEF ReadInv, ReadOK, Known, disk
  <2>3. CASE stage[s] = "side read"
    BY <1>1, <1>2, <1>3, <1>4, <2>1, <2>3 DEF ReadInv, ReadOK, Known, disk
  <2> QED
    BY <2>2, <2>3 DEF ReadOK
<1>7. DiskInv'
  <2>1. /\ tvim # NoFile => tvim \in Mapping
        /\ side # NoFile => side.nodes \in Mapping
    BY DEF TypeOK, SideCar
  <2> QED
    BY <1>1, <1>2, <1>3, <1>4, <2>1 DEF DiskInv, Known, disk
<1>8. Watermarks'
  <2>1. \A j \in mside \ {NoFile} : j.next \in Int
    BY DEF TypeOK, SideCar
  <2>2. \A s \in Store : buffer[s].side # NoFile => buffer[s].side.next \in Int
    BY DEF TypeOK, SideCar
  <2>3. adds \in Int /\ adds' \in Int /\ \A s \in Store : next[s] \in Int
    BY DEF TypeOK
  <2>4. \A s \in Store : next'[s] <= adds'
    BY <2>3 DEF Watermarks
  <2> QED
    BY <2>1, <2>2, <2>3, <2>4 DEF Watermarks, disk
<1>9. SaveInv'
  BY <1>1, <1>2 DEF SaveInv, disk
<1> QED
  BY <1>5, <1>6, <1>7, <1>8, <1>9

(* A new node gets a handle no file or load has seen.                      *)
LEMMA AddStep == ASSUME IInv, OneWriter, NEW w \in Store, Add(w) PROVE IInv'
<1> USE DEF IInv
<1>1. PICK id \in NodeId :
        LET m == With(Without(index[w], Handles(w, id)), Issue(w), <<id, adds + 1>>)
        IN /\ index' = [index EXCEPT ![w] = m]
           /\ nodes' = [nodes EXCEPT ![w] = m]
  <2>1. index[w] = nodes[w]
    BY DEF Add, Writing, StoreInv, Coherent, Open
  <2> QED
    BY <2>1 DEF Add
<1> DEFINE h == Issue(w)
           rest == Without(index[w], Handles(w, id))
           m == With(rest, h, <<id, adds + 1>>)
<1>2. /\ next[w] \in Nat /\ next[w] <= adds /\ adds \in Nat
      /\ adds + 1 \in 1 .. MaxAdds /\ h = next[w] + 1 /\ h \in Handle
  BY BoundAssumption DEF TypeOK, Watermarks, Add, Issue, Handle
<1>3. index[w] \in Mapping /\ \A g \in DOMAIN index[w] : g <= next[w]
  BY DEF TypeOK, StoreInv, Add, Writing, Active, Open
<1>4. /\ rest \in Mapping /\ DOMAIN rest \subseteq DOMAIN index[w]
      /\ \A g \in DOMAIN rest : rest[g] = index[w][g]
  BY <1>3, WithoutMapping
<1>5. <<id, adds + 1>> \in Node
  BY <1>2 DEF Node
<1>6. /\ m \in Mapping /\ DOMAIN m = DOMAIN rest \cup {h}
      /\ \A g \in DOMAIN rest \ {h} : m[g] = rest[g]
  BY <1>2, <1>4, <1>5, WithMapping
<1>7. /\ index' = [index EXCEPT ![w] = m] /\ nodes' = [nodes EXCEPT ![w] = m]
      /\ next' = [next EXCEPT ![w] = next[w] + 1] /\ adds' = adds + 1
      /\ Writing(w) /\ UNCHANGED <<stage, buffer, disk, saved, broken, stops>>
  BY <1>1 DEF Add
<1>8. /\ index'[w] = m /\ nodes'[w] = m /\ next'[w] = next[w] + 1
      /\ \A s \in Store \ {w} :
           index'[s] = index[s] /\ nodes'[s] = nodes[s] /\ next'[s] = next[s]
  BY <1>7 DEF TypeOK
<1>9. TypeOK'
  BY <1>2, <1>6, <1>7, BoundAssumption DEF TypeOK, disk, Handle
<1>10. /\ \A g \in DOMAIN m : g <= next[w] + 1
       /\ \A g \in DOMAIN m : g <= next[w] =>
            g \in DOMAIN index[w] /\ m[g] = index[w][g]
  <2>1. \A g \in DOMAIN rest : g \in Int /\ g <= next[w] /\ g # h
    BY <1>2, <1>3, <1>4, MappingIs DEF Handle
  <2> QED
    BY <1>2, <1>4, <1>6, <2>1
<1> HIDE DEF m, rest, h
<1> QED
  BY <1>2, <1>7, <1>8, <1>9, <1>10, EditInv

(* A refused batch only spends handles.                                    *)
LEMMA AddFailsStep == ASSUME IInv, OneWriter, NEW w \in Store, AddFails(w) PROVE IInv'
<1> USE DEF IInv
<1>1. /\ next[w] \in Nat /\ next[w] <= adds /\ adds \in Nat /\ adds < MaxAdds
      /\ \A g \in DOMAIN index[w] : g \in Int /\ g <= next[w]
      /\ index[w] = nodes[w]
  <2>1. \A g \in DOMAIN index[w] : g \in Int
    BY MappingIs DEF TypeOK, Handle
  <2> QED
    BY <2>1 DEF TypeOK, Watermarks, AddFails, Writing, StoreInv, Coherent, Active, Open
<1>2. /\ next' = [next EXCEPT ![w] = next[w] + 1] /\ adds' = adds + 1
      /\ UNCHANGED <<index, nodes, stage, buffer, disk, saved, broken, stops>>
      /\ Writing(w)
  BY DEF AddFails
<1>3. /\ next'[w] = next[w] + 1
      /\ \A s \in Store \ {w} : next'[s] = next[s]
  BY <1>2 DEF TypeOK
<1>4. TypeOK'
  BY <1>1, <1>2, BoundAssumption DEF TypeOK, disk
<1> QED
  BY <1>1, <1>2, <1>3, <1>4, EditInv

(* A removed node leaves the others as they are.                           *)
LEMMA RemoveStep == ASSUME IInv, OneWriter, NEW w \in Store, Remove(w) PROVE IInv'
<1> USE DEF IInv
<1>1. index[w] = nodes[w] /\ index[w] \in Mapping /\ next[w] \in Int /\ adds \in Int
      /\ next[w] <= adds /\ \A g \in DOMAIN index[w] : g <= next[w]
  BY DEF TypeOK, Watermarks, Remove, Writing, StoreInv, Coherent, Active, Open
<1>2. PICK id \in NodeId :
        LET m == Without(index[w], Handles(w, id))
        IN /\ index' = [index EXCEPT ![w] = m]
           /\ nodes' = [nodes EXCEPT ![w] = m]
  BY <1>1 DEF Remove
<1> DEFINE m == Without(index[w], Handles(w, id))
<1>3. /\ m \in Mapping /\ DOMAIN m \subseteq DOMAIN index[w]
      /\ \A g \in DOMAIN m : m[g] = index[w][g]
  BY <1>1, WithoutMapping
<1>4. /\ UNCHANGED <<next, adds, stage, buffer, disk, saved, broken, stops>>
      /\ Writing(w)
  BY DEF Remove
<1>5. /\ index'[w] = m /\ nodes'[w] = m
      /\ \A s \in Store \ {w} : index'[s] = index[s] /\ nodes'[s] = nodes[s]
  BY <1>2 DEF TypeOK
<1>6. TypeOK'
  BY <1>2, <1>3, <1>4 DEF TypeOK, disk
<1> HIDE DEF m
<1> QED
  BY <1>1, <1>3, <1>4, <1>5, <1>6, EditInv

-----------------------------------------------------------------------------
(* A store made from nothing. *)

(* There are no files, so no load under way has read one.                  *)
LEMMA CreateStep ==
  ASSUME IInv, OneWriter, ~Reissues, NEW w \in Store, Create(w)
  PROVE  IInv'
<1> USE DEF IInv
<1>1. /\ w \in Writer /\ stage[w] = "closed" /\ tvim = NoFile /\ side = NoFile
      /\ index' = [index EXCEPT ![w] = Empty] /\ nodes' = [nodes EXCEPT ![w] = Empty]
      /\ next' = [next EXCEPT ![w] = 0] /\ stage' = [stage EXCEPT ![w] = "ready"]
      /\ UNCHANGED <<buffer, disk, saved, broken, adds, stops>>
  BY DEF Create
<1>2. /\ index'[w] = Empty /\ nodes'[w] = Empty /\ next'[w] = 0 /\ stage'[w] = "ready"
      /\ \A s \in Store \ {w} : /\ index'[s] = index[s] /\ nodes'[s] = nodes[s]
                               /\ next'[s] = next[s] /\ stage'[s] = stage[s]
  BY <1>1 DEF TypeOK
<1>3. Active = {} /\ Active' = {w} /\ Saving = {} /\ Saving' = {}
  <2>1. \A s \in Writer : s = w
    BY <1>1 DEF OneWriter
  <2>2. Active = {} /\ Saving = {}
    BY <1>1, <2>1 DEF Active, Open, Saving, StoreInv
  <2>3. Saving' = {}
    BY <1>2, <2>2 DEF Saving
  <2>4. Active' = {w}
    BY <1>1, <1>2, <2>1 DEF Active, Open
  <2> QED
    BY <2>2, <2>3, <2>4
<1>4. \A s \in Store : stage[s] \notin {"index read", "side read"}
  BY <1>1, <1>3 DEF ReadInv, ReadOK
<1>5. TypeOK'
  <2>1. /\ index' \in [Store -> Mapping] /\ nodes' \in [Store -> Mapping]
        /\ stage' \in [Store -> Stages]
    BY <1>1, EmptyMapping DEF TypeOK, Stages
  <2>2. next' \in [Store -> 0 .. MaxAdds]
    BY <1>1, BoundAssumption DEF TypeOK
  <2> QED
    BY <1>1, <2>1, <2>2 DEF TypeOK, disk
<1>6. StoreInv'
  BY <1>1, <1>2, <1>3, EmptyMapping DEF StoreInv, Coherent, Open, Saving
<1>7. ReadInv'
  BY <1>2, <1>4 DEF ReadInv, ReadOK
<1>8. DiskInv'
  BY <1>1, <1>3 DEF DiskInv, disk
<1>9. Watermarks'
  BY <1>1, <1>2 DEF Watermarks, TypeOK, disk
<1>10. SaveInv'
  BY <1>1, <1>3 DEF SaveInv, disk
<1> QED
  BY <1>5, <1>6, <1>7, <1>8, <1>9, <1>10

-----------------------------------------------------------------------------
(* Saving. *)

(* What is known of a store that saves: it is the only active one.         *)
LEMMA SavingFacts ==
  ASSUME IInv, OneWriter, NEW w \in Store, stage[w] \in {"staged", "half", "both"}
  PROVE  /\ w \in Writer /\ Active = {w} /\ Saving = {w}
         /\ index[w] = nodes[w] /\ index[w] \in Mapping
         /\ Known(index[w], w) /\ next[w] \in 0 .. MaxAdds /\ next[w] <= adds
<1> USE DEF IInv
<1>1. w \in Writer /\ w \in Active /\ w \in Saving /\ w \in Open
  BY DEF StoreInv, Active, Open, Saving
<1>2. Active = {w} /\ Saving = {w}
  BY <1>1, OnlyActive DEF StoreInv, Active, Open
<1> QED
  BY <1>1, <1>2 DEF StoreInv, Coherent, Known, Compatible, TypeOK, Watermarks

(* Staging syncs away what an older process left: all the files there may  *)
(* be are the visible ones.                                                *)
LEMMA StageStep == ASSUME IInv, OneWriter, NEW w \in Store, Stage(w) PROVE IInv'
<1> USE DEF IInv
<1>1. /\ w \in Writer /\ stage[w] = "ready" /\ stage' = [stage EXCEPT ![w] = "staged"]
      /\ mtvim' = {tvim} /\ mside' = {side}
      /\ UNCHANGED <<index, nodes, next, tvim, side, buffer, saved, broken, adds, stops>>
  BY DEF Stage, Writing, WriteTemps, SyncDir, memory
<1>2. /\ stage'[w] = "staged"
      /\ \A s \in Store \ {w} : stage'[s] = stage[s]
  BY <1>1 DEF TypeOK
<1>3. Active = {w} /\ Active' = {w} /\ Saving = {} /\ Saving' = {w} /\ Open' = Open
  <2>1. Active = {w}
    BY <1>1, OnlyActive DEF Active, Open
  <2>2. Saving = {}
    BY <1>1, <2>1 DEF StoreInv, Active, Open, Saving
  <2>3. Saving' = {w}
    BY <1>2, <2>2 DEF Saving
  <2>4. Open' = Open
    BY <1>1, <1>2 DEF Open, Saving
  <2> QED
    BY <2>1, <2>2, <2>3, <2>4 DEF Active
<1>4. tvim \in mtvim /\ side \in mside
  BY DEF TypeOK
<1>5. TypeOK'
  BY <1>1 DEF TypeOK, Stages
<1>6. StoreInv'
  BY <1>1, <1>2, <1>3 DEF StoreInv, Coherent
<1>7. ReadInv'
  BY <1>1, <1>2, <1>3 DEF ReadInv, ReadOK, Known
<1>8. DiskInv'
  BY <1>1, <1>3, <1>4 DEF DiskInv, Known
<1>9. Watermarks'
  BY <1>1, <1>4 DEF Watermarks
<1>10. SaveInv'
  <2>1. ~broken => (tvim # NoFile /\ side # NoFile => tvim = side.nodes)
    BY <1>3 DEF SaveInv
  <2>2. saved # NoSave => tvim = saved.nodes /\ side = saved
    BY <1>4 DEF SaveInv
  <2> QED
    BY <1>1, <1>2, <1>3, <2>1, <2>2 DEF SaveInv
<1> QED
  BY <1>5, <1>6, <1>7, <1>8, <1>9, <1>10

(* The new index is the writer's: a side-car that agrees with it is one it  *)
(* knows, so of the same nodes.                                            *)
LEMMA ReplaceIndexStep ==
  ASSUME IInv, OneWriter, NEW w \in Store, ReplaceIndex(w) PROVE IInv'
<1> USE DEF IInv
<1>1. /\ stage[w] = "staged" /\ stage' = [stage EXCEPT ![w] = "half"]
      /\ tvim' = index[w] /\ mtvim' = mtvim \cup {index[w]}
      /\ saved' = NoSave /\ broken' = FALSE
      /\ UNCHANGED <<index, nodes, next, buffer, side, mside, adds, stops>>
  BY DEF ReplaceIndex, memory
<1>2. /\ stage'[w] = "half"
      /\ \A s \in Store \ {w} : stage'[s] = stage[s]
  BY <1>1 DEF TypeOK
<1>3. /\ w \in Writer /\ Active = {w} /\ Saving = {w} /\ index[w] = nodes[w]
      /\ index[w] \in Mapping /\ Known(index[w], w)
  BY <1>1, SavingFacts
<1>4. Active' = {w} /\ Saving' = {w} /\ Open' = Open
  <2>1. Saving' = {w}
    BY <1>2, <1>3 DEF Saving
  <2>2. Open' = Open
    BY <1>1, <1>2, <1>3, <2>1 DEF Open
  <2> QED
    BY <1>3, <2>1, <2>2 DEF Active
<1>5. ASSUME NEW j \in SideCar, Known(j.nodes, w), Agree(index[w], j)
      PROVE  index[w] = j.nodes
  <2>1. Compatible(index[w], j.nodes)
    BY <1>5 DEF Known, Compatible
  <2> QED
    BY <1>3, <1>5, <2>1, AgreeSame DEF Agree, SideCar
<1>6. TypeOK'
  BY <1>1, <1>3 DEF TypeOK, Stages
<1>7. StoreInv'
  BY <1>1, <1>3, <1>4 DEF StoreInv, Coherent
<1>8. ReadInv'
  <2> SUFFICES ASSUME NEW s \in Store PROVE ReadOK(s)'
    BY DEF ReadInv
  <2>1. s = w => ReadOK(s)'
    BY <1>2 DEF ReadOK
  <2>2. CASE s # w /\ stage[s] = "index read"
    BY <1>1, <1>2, <1>3, <1>4, <2>2 DEF ReadInv, ReadOK, Known
  <2>3. CASE s # w /\ stage[s] = "side read"
    <3>1. buffer[s].side \in SideCar
      BY <2>3 DEF TypeOK, ReadInv, ReadOK
    <3> QED
      BY <1>1, <1>2, <1>3, <1>4, <1>5, <2>3, <3>1 DEF ReadInv, ReadOK, Known
  <2> QED
    BY <1>2, <2>1, <2>2, <2>3 DEF ReadOK
<1>9. DiskInv'
  <2>1. \A j \in mside \ {NoFile} : j \in SideCar /\ Known(j.nodes, w)
    BY <1>3 DEF DiskInv, TypeOK
  <2>2. \A i \in mtvim' \ {NoFile}, j \in mside' \ {NoFile} : Agree(i, j) => i = j.nodes
    BY <1>1, <1>5, <2>1 DEF DiskInv
  <2> QED
    BY <1>1, <1>3, <1>4, <2>2 DEF DiskInv, Known
<1>10. Watermarks'
  BY <1>1 DEF Watermarks
<1>11. SaveInv'
  BY <1>1, <1>2, <1>4 DEF SaveInv
<1> QED
  BY <1>6, <1>7, <1>8, <1>9, <1>10, <1>11

(* So is the new side-car.                                                 *)
LEMMA ReplaceSideCarStep ==
  ASSUME IInv, OneWriter, NEW w \in Store, ReplaceSideCar(w) PROVE IInv'
<1> USE DEF IInv
<1>1. /\ stage[w] = "half" /\ stage' = [stage EXCEPT ![w] = "both"]
      /\ side' = Payload(w) /\ mside' = mside \cup {Payload(w)}
      /\ UNCHANGED <<index, nodes, next, buffer, tvim, mtvim, saved, broken, adds, stops>>
  BY DEF ReplaceSideCar, memory
<1>2. /\ stage'[w] = "both"
      /\ \A s \in Store \ {w} : stage'[s] = stage[s]
  BY <1>1 DEF TypeOK
<1>3. /\ w \in Writer /\ Active = {w} /\ Saving = {w} /\ index[w] = nodes[w]
      /\ index[w] \in Mapping /\ Known(index[w], w)
      /\ next[w] \in 0 .. MaxAdds /\ next[w] <= adds
  BY <1>1, SavingFacts
<1>4. Active' = {w} /\ Saving' = {w} /\ Open' = Open
  <2>1. Saving' = {w}
    BY <1>2, <1>3 DEF Saving
  <2>2. Open' = Open
    BY <1>1, <1>2, <1>3, <2>1 DEF Open
  <2> QED
    BY <1>3, <2>1, <2>2 DEF Active
<1>5. /\ Payload(w) \in SideCar /\ Payload(w).nodes = index[w]
      /\ Payload(w).next = next[w] /\ Payload(w) # NoFile
  BY <1>3, NoneAssumption DEF Payload, SideCar
<1>6. ASSUME NEW i \in Mapping, Known(i, w), Agree(i, Payload(w))
      PROVE  i = Payload(w).nodes
  BY <1>3, <1>5, <1>6, AgreeSame DEF Known, Agree
<1>7. TypeOK'
  BY <1>1, <1>5 DEF TypeOK, Stages
<1>8. StoreInv'
  BY <1>1, <1>3, <1>4 DEF StoreInv, Coherent
<1>9. ReadInv'
  <2> SUFFICES ASSUME NEW s \in Store PROVE ReadOK(s)'
    BY DEF ReadInv
  <2>1. s = w => ReadOK(s)'
    BY <1>2 DEF ReadOK
  <2>2. CASE s # w /\ stage[s] = "index read"
    <3>1. buffer[s].tvim \in Mapping
      BY <2>2 DEF TypeOK, ReadInv, ReadOK
    <3> QED
      BY <1>1, <1>2, <1>3, <1>4, <1>6, <2>2, <3>1 DEF ReadInv, ReadOK, Known
  <2>3. CASE s # w /\ stage[s] = "side read"
    BY <1>1, <1>2, <1>3, <1>4, <2>3 DEF ReadInv, ReadOK, Known
  <2> QED
    BY <1>2, <2>1, <2>2, <2>3 DEF ReadOK
<1>10. DiskInv'
  <2>1. \A i \in mtvim \ {NoFile} : i \in Mapping /\ Known(i, w)
    BY <1>3 DEF DiskInv, TypeOK
  <2>2. \A i \in mtvim' \ {NoFile}, j \in mside' \ {NoFile} : Agree(i, j) => i = j.nodes
    BY <1>1, <1>6, <2>1 DEF DiskInv
  <2> QED
    BY <1>1, <1>3, <1>4, <1>5, <2>2 DEF DiskInv, Known
<1>11. Watermarks'
  BY <1>1, <1>3, <1>5 DEF Watermarks
<1>12. SaveInv'
  <2>1. Payload(w)' = Payload(w)
    BY <1>1 DEF Payload
  <2> QED
    BY <1>1, <1>2, <1>3, <1>4, <2>1 DEF SaveInv
<1> QED
  BY <1>7, <1>8, <1>9, <1>10, <1>11, <1>12

(* A store that stops saving stays open, and nothing else changes.         *)
LEMMA Unstaged ==
  ASSUME IInv, OneWriter, NEW w \in Store, stage[w] \in {"staged", "half", "both"},
         stage' = [stage EXCEPT ![w] = "ready"]
  PROVE  /\ stage' \in [Store -> Stages] /\ stage'[w] = "ready"
         /\ \A s \in Store \ {w} : stage'[s] = stage[s]
         /\ Active = {w} /\ Active' = {w} /\ Saving = {w} /\ Saving' = {} /\ Open' = Open
<1> USE DEF IInv
<1>1. /\ stage' \in [Store -> Stages] /\ stage'[w] = "ready"
      /\ \A s \in Store \ {w} : stage'[s] = stage[s]
  BY DEF TypeOK, Stages
<1>2. w \in Writer /\ Active = {w} /\ Saving = {w}
  BY SavingFacts
<1>3. Saving' = {}
  BY <1>1, <1>2 DEF Saving
<1>4. Open' = Open
  BY <1>1, <1>2, <1>3 DEF Open
<1> QED
  BY <1>1, <1>2, <1>3, <1>4 DEF Active

(* A save that returns has made its two files the only ones possible.      *)
LEMMA ReturnStep == ASSUME IInv, OneWriter, NEW w \in Store, Return(w) PROVE IInv'
<1> USE DEF IInv
<1>1. /\ stage[w] = "both" /\ stage' = [stage EXCEPT ![w] = "ready"]
      /\ mtvim' = {tvim} /\ mside' = {side} /\ saved' = Payload(w)
      /\ UNCHANGED <<index, nodes, next, buffer, tvim, side, broken, adds, stops>>
  BY DEF Return, SyncDir, memory
<1>2. /\ stage' \in [Store -> Stages] /\ stage'[w] = "ready"
      /\ \A s \in Store \ {w} : stage'[s] = stage[s]
      /\ Active = {w} /\ Active' = {w} /\ Saving = {w} /\ Saving' = {} /\ Open' = Open
  BY <1>1, Unstaged
<1>3. /\ index[w] = nodes[w] /\ tvim = index[w] /\ side = Payload(w)
      /\ Payload(w).nodes = nodes[w] /\ Payload(w) \in SideCar
  <2>1. index[w] = nodes[w] /\ index[w] \in Mapping /\ next[w] \in 0 .. MaxAdds
    BY <1>1, SavingFacts
  <2> QED
    BY <1>1, <1>2, <2>1 DEF SaveInv, Payload, SideCar
<1>4. tvim \in mtvim /\ side \in mside
  BY DEF TypeOK
<1>5. TypeOK'
  BY <1>1, <1>2, <1>3 DEF TypeOK
<1>6. StoreInv'
  BY <1>1, <1>2 DEF StoreInv, Coherent
<1>7. ReadInv'
  BY <1>1, <1>2 DEF ReadInv, ReadOK, Known
<1>8. DiskInv'
  BY <1>1, <1>2, <1>4 DEF DiskInv, Known
<1>9. Watermarks'
  BY <1>1, <1>4 DEF Watermarks
<1>10. SaveInv'
  BY <1>1, <1>2, <1>3 DEF SaveInv
<1> QED
  BY <1>5, <1>6, <1>7, <1>8, <1>9, <1>10

(* A save that raises leaves the files as they are.                        *)
LEMMA SaveFailsStep == ASSUME IInv, OneWriter, NEW w \in Store, SaveFails(w) PROVE IInv'
<1> USE DEF IInv
<1>1. /\ stage[w] \in {"staged", "half"} /\ stage' = [stage EXCEPT ![w] = "ready"]
      /\ broken' = (broken \/ stage[w] = "half")
      /\ UNCHANGED <<memory, disk, buffer, saved, adds, stops>>
  BY DEF SaveFails
<1>2. /\ stage' \in [Store -> Stages] /\ stage'[w] = "ready"
      /\ \A s \in Store \ {w} : stage'[s] = stage[s]
      /\ Active = {w} /\ Active' = {w} /\ Saving = {w} /\ Saving' = {} /\ Open' = Open
  BY <1>1, Unstaged
<1>3. TypeOK'
  BY <1>1, <1>2 DEF TypeOK, memory, disk
<1>4. StoreInv'
  BY <1>1, <1>2 DEF StoreInv, Coherent, memory
<1>5. ReadInv'
  BY <1>1, <1>2 DEF ReadInv, ReadOK, Known, memory, disk
<1>6. DiskInv'
  BY <1>1, <1>2 DEF DiskInv, Known, memory, disk
<1>7. Watermarks'
  BY <1>1 DEF Watermarks, memory, disk
<1>8. SaveInv'
  <2>1. ~broken' => ~broken /\ \A v \in Saving : stage[v] = "staged"
    BY <1>1, <1>2 DEF TypeOK
  <2> QED
    BY <1>1, <1>2, <2>1 DEF SaveInv, disk
<1> QED
  BY <1>3, <1>4, <1>5, <1>6, <1>7, <1>8

-----------------------------------------------------------------------------
(* Loading. *)

(* A step of a load that opens no store changes nobody's status.           *)
LEMMA Unopened ==
  ASSUME IInv, NEW s \in Store, NEW x \in {"closed", "index read", "side read"},
         stage[s] \in {"closed", "index read", "side read"},
         stage' = [stage EXCEPT ![s] = x]
  PROVE  /\ stage' \in [Store -> Stages] /\ stage'[s] = x
         /\ \A t \in Store \ {s} : stage'[t] = stage[t]
         /\ Active' = Active /\ Saving' = Saving /\ Open' = Open
         /\ \A w \in Saving : stage'[w] = stage[w]
<1>1. /\ stage' \in [Store -> Stages] /\ stage'[s] = x
      /\ \A t \in Store \ {s} : stage'[t] = stage[t]
  BY DEF IInv, TypeOK, Stages
<1>2. Saving' = Saving /\ s \notin Saving
  BY <1>1 DEF Saving
<1>3. Open' = Open
  BY <1>1, <1>2 DEF Open
<1> QED
  BY <1>1, <1>2, <1>3 DEF Active, Saving

(* What a load reads first is known to the active writer.                  *)
LEMMA ReadFirstStep == ASSUME IInv, NEW s \in Store, ReadFirst(s) PROVE IInv'
<1> USE DEF IInv
<1>1. /\ stage[s] = "closed"
      /\ UNCHANGED <<index, nodes, next, tvim, side, mtvim, mside, saved, broken, adds, stops>>
  BY DEF ReadFirst, memory, disk
<1>2. PICK x \in {"index read", "side read"} :
        /\ stage' = [stage EXCEPT ![s] = x]
        /\ x = "index read" => tvim # NoFile /\ buffer' = [buffer EXCEPT ![s].tvim = tvim]
        /\ x = "side read" => side # NoFile /\ buffer' = [buffer EXCEPT ![s].side = side]
  BY DEF ReadFirst
<1>3. /\ stage' \in [Store -> Stages] /\ stage'[s] = x
      /\ \A t \in Store \ {s} : stage'[t] = stage[t]
      /\ Active' = Active /\ Saving' = Saving /\ Open' = Open
      /\ \A w \in Saving : stage'[w] = stage[w]
  BY <1>1, <1>2, Unopened
<1>4. /\ tvim \in mtvim /\ side \in mside
      /\ tvim \in Mapping \cup {NoFile} /\ side \in SideCar \cup {NoFile}
  BY DEF TypeOK
<1>5. /\ \A t \in Store \ {s} : buffer'[t] = buffer[t]
      /\ x = "index read" => buffer'[s].tvim = tvim /\ buffer'[s].side = buffer[s].side
      /\ x = "side read" => buffer'[s].side = side /\ buffer'[s].tvim = buffer[s].tvim
      /\ buffer' \in [Store -> [tvim : Mapping \cup {NoFile}, side : SideCar \cup {NoFile}]]
  BY <1>2, <1>4 DEF TypeOK
<1>6. TypeOK'
  BY <1>1, <1>3, <1>5 DEF TypeOK
<1>7. StoreInv'
  BY <1>1, <1>3 DEF StoreInv, Coherent
<1>8. tvim # NoFile /\ side # NoFile /\ Agree(tvim, side) => tvim = side.nodes
  BY <1>4 DEF DiskInv
<1>9. ReadInv'
  <2> SUFFICES ASSUME NEW t \in Store PROVE ReadOK(t)'
    BY DEF ReadInv
  <2>1. CASE t # s
    BY <1>1, <1>3, <1>5, <2>1 DEF ReadInv, ReadOK, Known
  <2>2. CASE t = s /\ x = "index read"
    BY <1>1, <1>2, <1>3, <1>5, <1>8, <2>2 DEF DiskInv, ReadOK, Known
  <2>3. CASE t = s /\ x = "side read"
    BY <1>1, <1>2, <1>3, <1>5, <1>8, <2>3 DEF DiskInv, ReadOK, Known
  <2> QED
    BY <2>1, <2>2, <2>3
<1>10. DiskInv'
  BY <1>1, <1>3 DEF DiskInv, Known
<1>11. Watermarks'
  BY <1>1, <1>2, <1>4, <1>5 DEF Watermarks
<1>12. SaveInv'
  BY <1>1, <1>3 DEF SaveInv, Payload
<1> QED
  BY <1>6, <1>7, <1>9, <1>10, <1>11, <1>12

(* A load that raises leaves the store closed.                             *)
LEMMA LoadFailsStep == ASSUME IInv, NEW s \in Store, LoadFails(s) PROVE IInv'
<1> USE DEF IInv
<1>1. /\ stage[s] \in {"index read", "side read"}
      /\ stage' = [stage EXCEPT ![s] = "closed"] /\ buffer' = [buffer EXCEPT ![s] = Unread]
      /\ UNCHANGED <<index, nodes, next, tvim, side, mtvim, mside, saved, broken, adds, stops>>
  BY DEF LoadFails, memory, disk
<1>2. /\ stage' \in [Store -> Stages] /\ stage'[s] = "closed"
      /\ \A t \in Store \ {s} : stage'[t] = stage[t]
      /\ Active' = Active /\ Saving' = Saving /\ Open' = Open
      /\ \A w \in Saving : stage'[w] = stage[w]
  BY <1>1, Unopened
<1>3. /\ buffer'[s].side = NoFile
      /\ \A t \in Store \ {s} : buffer'[t] = buffer[t]
      /\ buffer' \in [Store -> [tvim : Mapping \cup {NoFile}, side : SideCar \cup {NoFile}]]
  BY <1>1 DEF TypeOK, Unread
<1>4. TypeOK'
  BY <1>1, <1>2, <1>3 DEF TypeOK
<1>5. StoreInv'
  BY <1>1, <1>2 DEF StoreInv, Coherent
<1>6. ReadInv'
  BY <1>1, <1>2, <1>3 DEF ReadInv, ReadOK, Known
<1>7. DiskInv'
  BY <1>1, <1>2 DEF DiskInv, Known
<1>8. Watermarks'
  BY <1>1, <1>3 DEF Watermarks
<1>9. SaveInv'
  BY <1>1, <1>2 DEF SaveInv, Payload
<1> QED
  BY <1>4, <1>5, <1>6, <1>7, <1>8, <1>9

(* What a load adopts is one save's; the writer then knows both files.     *)
LEMMA ReadSecondStep ==
  ASSUME IInv, OneWriter, NEW s \in Store, ReadSecond(s) PROVE IInv'
<1> USE DEF IInv
<1> DEFINE i == Pair(s).tvim
           j == Pair(s).side
<1>1. /\ stage[s] \in {"index read", "side read"} /\ i # NoFile /\ j # NoFile /\ Agree(i, j)
      /\ index' = [index EXCEPT ![s] = i] /\ nodes' = [nodes EXCEPT ![s] = j.nodes]
      /\ next' = [next EXCEPT ![s] = j.next]
      /\ stage' = [stage EXCEPT ![s] = "ready"] /\ buffer' = [buffer EXCEPT ![s] = Unread]
      /\ UNCHANGED <<tvim, side, mtvim, mside, saved, broken, adds, stops>>
  BY DEF ReadSecond, Loads, disk
<1>2. /\ index'[s] = i /\ nodes'[s] = j.nodes /\ next'[s] = j.next /\ stage'[s] = "ready"
      /\ buffer'[s].side = NoFile /\ stage' \in [Store -> Stages]
      /\ \A t \in Store \ {s} : /\ index'[t] = index[t] /\ nodes'[t] = nodes[t]
                               /\ next'[t] = next[t] /\ stage'[t] = stage[t]
                               /\ buffer'[t] = buffer[t]
  BY <1>1 DEF TypeOK, Stages, Unread
<1>3. tvim \in mtvim /\ side \in mside /\ i \in Mapping /\ j \in SideCar
  BY <1>1 DEF TypeOK, Pair
<1>4. i = j.nodes
  BY <1>1 DEF ReadInv, ReadOK, Pair
<1>5. /\ j.next \in 0 .. MaxAdds /\ j.next <= adds /\ j.nodes \in Mapping
      /\ \A h \in DOMAIN i : h <= j.next
  <2>1. j.next <= adds
    BY <1>1, <1>3 DEF Watermarks, Pair
  <2> QED
    BY <1>1, <1>3, <1>4, <2>1 DEF SideCar, Agree
<1>6. Saving' = Saving /\ s \notin Saving /\ Open' = Open \cup {s} /\ s \notin Open
  <2>1. Saving' = Saving /\ s \notin Saving
    BY <1>1, <1>2 DEF Saving
  <2> QED
    BY <1>1, <1>2, <2>1 DEF Open
<1> HIDE DEF i, j
<1>7. TypeOK'
  <2>1. buffer' \in [Store -> [tvim : Mapping \cup {NoFile}, side : SideCar \cup {NoFile}]]
    BY <1>1 DEF TypeOK, Unread
  <2>2. /\ index' \in [Store -> Mapping] /\ nodes' \in [Store -> Mapping]
        /\ next' \in [Store -> 0 .. MaxAdds]
    BY <1>1, <1>3, <1>5 DEF TypeOK
  <2> QED
    BY <1>1, <1>2, <2>1, <2>2 DEF TypeOK
<1>8. Watermarks'
  BY <1>1, <1>2, <1>5 DEF Watermarks
<1>9. CASE s \notin Writer
  <2>1. Active' = Active /\ s \notin Active
    BY <1>6, <1>9 DEF Active
  <2>2. \A w \in Active : w \in Store \ {s}
    BY <1>6, <2>1 DEF Active, Open, Saving
  <2>3. \A w \in Saving : w \in Store \ {s}
    BY <1>6 DEF Saving
  <2>4. StoreInv'
    BY <1>2, <1>4, <1>6, <2>1, <2>2 DEF StoreInv, Coherent, Open, Saving
  <2>5. ReadInv'
    <3> SUFFICES ASSUME NEW t \in Store PROVE ReadOK(t)'
      BY DEF ReadInv
    <3>1. t = s => ReadOK(t)'
      BY <1>2 DEF ReadOK
    <3>2. \A w \in Active : index'[w] = index[w] /\ next'[w] = next[w]
      BY <1>2, <2>2
    <3>3. t # s => ReadOK(t)'
      <4> SUFFICES ASSUME t # s PROVE ReadOK(t)'
        OBVIOUS
      <4>1. ReadOK(t) /\ stage'[t] = stage[t] /\ buffer'[t] = buffer[t]
        BY <1>2 DEF ReadInv
      <4>2. tvim' = tvim /\ side' = side
        BY <1>1
      <4> QED
        BY <4>1, <4>2, <2>1, <3>2 DEF ReadOK, Known
    <3> QED
      BY <3>1, <3>3
  <2>6. DiskInv'
    BY <1>1, <1>2, <1>6, <2>1, <2>2, <2>3 DEF DiskInv, Known
  <2>7. SaveInv'
    <3>1. \A w \in Saving : /\ stage'[w] = stage[w] /\ index'[w] = index[w]
                            /\ Payload(w)' = Payload(w)
      BY <1>2, <2>3 DEF Payload
    <3>2. UNCHANGED <<tvim, side, mtvim, mside, saved, broken>> /\ Saving' = Saving
      BY <1>1, <1>6
    <3> QED
      BY <3>1, <3>2 DEF SaveInv
  <2> QED
    BY <1>7, <1>8, <2>4, <2>5, <2>6, <2>7
<1>10. CASE s \in Writer
  <2>1. Active = {} /\ Active' = {s} /\ Saving = {}
    <3>1. \A w \in Writer : w = s
      BY <1>10 DEF OneWriter
    <3> QED
      BY <1>6, <1>10, <3>1 DEF Active, StoreInv
  <2>2. i = tvim /\ j = side
    BY <1>1, <2>1 DEF ReadInv, ReadOK, Pair, i, j
  <2>3. Compatible(i, i)
    BY DEF Compatible
  <2>4. StoreInv'
    BY <1>2, <1>4, <1>5, <1>6, <2>1 DEF StoreInv, Coherent, Open, Saving
  <2>5. ReadInv'
    <3> SUFFICES ASSUME NEW t \in Store PROVE ReadOK(t)'
      BY DEF ReadInv
    <3>1. t = s => ReadOK(t)'
      BY <1>2 DEF ReadOK
    <3>2. t # s => ReadOK(t)'
      <4> SUFFICES ASSUME t # s PROVE ReadOK(t)'
        OBVIOUS
      <4>1. ReadOK(t) /\ stage'[t] = stage[t] /\ buffer'[t] = buffer[t]
        BY <1>2 DEF ReadInv
      <4>2. tvim' = tvim /\ side' = side
        BY <1>1
      <4>3. stage[t] = "index read" => buffer[t].tvim = i
        BY <4>1, <2>1, <2>2 DEF ReadOK
      <4>4. stage[t] = "side read" => buffer[t].side.nodes = i
        BY <4>1, <2>1, <2>2, <1>4 DEF ReadOK
      <4>5. Compatible(i, index'[s]) /\ \A h \in DOMAIN i : h <= next'[s]
        BY <1>2, <1>5, <2>3
      <4>6. stage[t] = "index read" => Known(buffer[t].tvim, s)'
        BY <4>1, <4>3, <4>5 DEF Known
      <4>7. stage[t] = "side read" => Known(buffer[t].side.nodes, s)'
        BY <4>1, <4>4, <4>5 DEF Known
      <4> QED
        BY <4>1, <4>2, <4>6, <4>7, <2>1 DEF ReadOK
    <3> QED
      BY <3>1, <3>2
  <2>6. DiskInv'
    BY <1>1, <1>2, <1>4, <1>5, <1>6, <2>1, <2>2, <2>3 DEF DiskInv, Known
  <2>7. SaveInv'
    BY <1>1, <1>6, <2>1 DEF SaveInv
  <2> QED
    BY <1>7, <1>8, <2>4, <2>5, <2>6, <2>7
<1> QED
  BY <1>9, <1>10

-----------------------------------------------------------------------------
(* Kills and power failures. *)

(* No store is open afterwards; a save under way counts as cut short.      *)
LEMMA StopFacts ==
  ASSUME IInv, Stop
  PROVE  /\ Active' = {} /\ Saving' = {} /\ Open' = {} /\ StoreInv' /\ ReadInv'
         /\ index' \in [Store -> Mapping] /\ nodes' \in [Store -> Mapping]
         /\ next' \in [Store -> 0 .. MaxAdds] /\ stage' \in [Store -> Stages]
         /\ buffer' \in [Store -> [tvim : Mapping \cup {NoFile}, side : SideCar \cup {NoFile}]]
         /\ broken' \in BOOLEAN /\ stops' \in 0 .. MaxStops
         /\ UNCHANGED <<saved, adds>>
         /\ \A s \in Store : next'[s] = 0 /\ buffer'[s].side = NoFile
         /\ ~broken' => ~broken /\ \A w \in Saving : stage[w] = "staged"
<1> USE DEF IInv
<1>1. \A s \in Store : stage'[s] = "closed"
  BY DEF Stop
<1>2. Active' = {} /\ Saving' = {} /\ Open' = {}
  <2>1. Saving' = {}
    BY <1>1 DEF Saving
  <2>2. Open' = {}
    BY <1>1, <2>1 DEF Open
  <2> QED
    BY <2>1, <2>2 DEF Active
<1>3. StoreInv' /\ ReadInv'
  BY <1>1, <1>2 DEF StoreInv, Coherent, ReadInv, ReadOK
<1>4. /\ index' \in [Store -> Mapping] /\ nodes' \in [Store -> Mapping]
      /\ next' \in [Store -> 0 .. MaxAdds] /\ stage' \in [Store -> Stages]
      /\ buffer' \in [Store -> [tvim : Mapping \cup {NoFile}, side : SideCar \cup {NoFile}]]
  BY EmptyMapping, BoundAssumption DEF Stop, Stages, Unread
<1>5. /\ broken' \in BOOLEAN /\ UNCHANGED <<saved, adds>>
      /\ \A s \in Store : next'[s] = 0 /\ buffer'[s].side = NoFile
  BY DEF Stop, Unread, TypeOK
<1>6. stops' \in 0 .. MaxStops
  BY BoundAssumption DEF Stop, TypeOK
<1>7. ~broken' => ~broken /\ \A w \in Saving : stage[w] = "staged"
  BY DEF Stop, Saving
<1> QED
  BY <1>2, <1>3, <1>4, <1>5, <1>6, <1>7

(* A killed process leaves the files as they are.                          *)
LEMMA KillStep == ASSUME IInv, Kill PROVE IInv'
<1> USE DEF IInv
<1>1. Stop /\ UNCHANGED <<tvim, side, mtvim, mside>>
  BY DEF Kill, disk
<1>2. TypeOK'
  BY <1>1, StopFacts DEF TypeOK
<1>3. DiskInv'
  BY <1>1, StopFacts DEF DiskInv
<1>4. Watermarks'
  BY <1>1, StopFacts DEF Watermarks, TypeOK
<1>5. SaveInv'
  BY <1>1, StopFacts DEF SaveInv
<1> QED
  BY <1>1, <1>2, <1>3, <1>4, <1>5, StopFacts

(* A power failure leaves one of the files there may be.                   *)
LEMMA PowerCutStep == ASSUME IInv, PowerCut PROVE IInv'
<1> USE DEF IInv
<1>1. /\ Stop /\ tvim' \in mtvim /\ side' \in mside
      /\ mtvim' = {tvim'} /\ mside' = {side'}
  BY DEF PowerCut
<1>2. TypeOK'
  BY <1>1, StopFacts DEF TypeOK
<1>3. DiskInv'
  BY <1>1, StopFacts DEF DiskInv
<1>4. Watermarks'
  BY <1>1, StopFacts DEF Watermarks, TypeOK
<1>5. SaveInv'
  BY <1>1, StopFacts DEF SaveInv
<1> QED
  BY <1>1, <1>2, <1>3, <1>4, <1>5, StopFacts

-----------------------------------------------------------------------------
(* The theorems. *)

(* The invariant holds at the start.                                       *)
LEMMA InitInv == Init => IInv
<1> SUFFICES ASSUME Init PROVE IInv
  OBVIOUS
<1>1. \A s \in Store : stage[s] = "closed" /\ next[s] = 0 /\ buffer[s].side = NoFile
  BY DEF Init, Unread
<1>2. Saving = {} /\ Open = {} /\ Active = {}
  <2>1. Saving = {}
    BY <1>1 DEF Saving
  <2>2. Open = {}
    BY <1>1, <2>1 DEF Open
  <2> QED
    BY <2>1, <2>2 DEF Active
<1>3. TypeOK
  <2>1. index \in [Store -> Mapping] /\ nodes \in [Store -> Mapping]
    BY EmptyMapping DEF Init
  <2>2. next \in [Store -> 0 .. MaxAdds] /\ adds \in 0 .. MaxAdds /\ stops \in 0 .. MaxStops
    BY BoundAssumption DEF Init
  <2>3. /\ stage \in [Store -> Stages]
        /\ buffer \in [Store -> [tvim : Mapping \cup {NoFile}, side : SideCar \cup {NoFile}]]
    BY DEF Init, Stages, Unread
  <2> QED
    BY <2>1, <2>2, <2>3 DEF Init, TypeOK
<1>4. StoreInv /\ ReadInv
  BY <1>1, <1>2 DEF StoreInv, Coherent, ReadInv, ReadOK
<1>5. DiskInv /\ Watermarks /\ SaveInv
  BY <1>1, <1>2 DEF Init, DiskInv, Watermarks, SaveInv
<1> QED
  BY <1>3, <1>4, <1>5 DEF IInv

(* Every step keeps it.                                                    *)
LEMMA NextInv == ASSUME OneWriter, ~Reissues, IInv, [Next]_vars PROVE IInv'
<1>1. ASSUME NEW s \in Store, Create(s) PROVE IInv'
  BY <1>1, CreateStep
<1>2. ASSUME NEW s \in Store, Add(s) \/ AddFails(s) \/ Remove(s) PROVE IInv'
  BY <1>2, AddStep, AddFailsStep, RemoveStep
<1>3. ASSUME NEW s \in Store, Clear(s) PROVE IInv'
  BY <1>3 DEF Clear
<1>4. ASSUME NEW s \in Store, Stage(s) \/ ReplaceIndex(s) \/ ReplaceSideCar(s)
      PROVE IInv'
  BY <1>4, StageStep, ReplaceIndexStep, ReplaceSideCarStep
<1>5. ASSUME NEW s \in Store, Return(s) \/ SaveFails(s) PROVE IInv'
  BY <1>5, ReturnStep, SaveFailsStep
<1>6. ASSUME NEW s \in Store, ReadFirst(s) \/ ReadSecond(s) \/ LoadFails(s)
      PROVE IInv'
  BY <1>6, ReadFirstStep, ReadSecondStep, LoadFailsStep
<1>7. ASSUME Kill \/ PowerCut PROVE IInv'
  BY <1>7, KillStep, PowerCutStep
<1>8. CASE UNCHANGED vars
  <2> USE <1>8 DEF vars, memory, disk, IInv
  <2>1. Saving' = Saving
    BY DEF Saving
  <2>2. Open' = Open
    BY <2>1 DEF Open
  <2>3. Active' = Active
    BY <2>2 DEF Active
  <2>4. TypeOK'
    BY DEF TypeOK
  <2>5. StoreInv'
    BY <2>1, <2>2, <2>3 DEF StoreInv, Coherent
  <2>6. ReadInv'
    BY <2>3 DEF ReadInv, ReadOK, Known
  <2>7. DiskInv' /\ Watermarks'
    BY <2>1, <2>3 DEF DiskInv, Known, Watermarks
  <2>8. SaveInv'
    BY <2>1 DEF SaveInv, Payload
  <2> QED
    BY <2>4, <2>5, <2>6, <2>7, <2>8
<1> QED
  BY <1>1, <1>2, <1>3, <1>4, <1>5, <1>6, <1>7, <1>8 DEF Next

(* With one writing store whose handles never restart, the invariant holds *)
(* in every reachable state, whatever else loads, fails, or stops.         *)
THEOREM PairInvariance == OneWriter /\ ~Reissues => (Spec => []IInv)
<1>1. ASSUME OneWriter, ~Reissues PROVE Spec => []IInv
  <2>1. Init => IInv
    BY InitInv
  <2>2. IInv /\ [Next]_vars => IInv'
    BY <1>1, NextInv
  <2> QED
    BY <2>1, <2>2, PTL DEF Spec
<1> QED
  BY <1>1

(* The maps of a store are functions of its handles, and a file or a       *)
(* buffer is whole or absent, whatever a save or a load stopped at.        *)
THEOREM PairTyped == OneWriter /\ ~Reissues => (Spec => []TypeOK)
<1>1. IInv => TypeOK
  BY DEF IInv
<1> QED
  BY <1>1, PairInvariance, PTL

(* No load pairs a vector with another node's payload: what the handle     *)
(* check of a load lets through is one save's pair of files.               *)
THEOREM PairCoherent == OneWriter /\ ~Reissues => (Spec => []Coherent)
<1>1. IInv => Coherent
  BY DEF IInv, StoreInv
<1> QED
  BY <1>1, PairInvariance, PTL

(* A save that returned is what the files hold, after kills and power      *)
(* failures too, until the next save replaces one of them.                 *)
THEOREM PairDurable == OneWriter /\ ~Reissues => (Spec => []SaveSurvives)
<1>1. IInv => SaveSurvives
  BY DEF IInv, SaveInv, SaveSurvives, TypeOK
<1> QED
  BY <1>1, PairInvariance, PTL

-----------------------------------------------------------------------------
(* The temp files of saves. *)

(* Some numbers have a least among them: the order is well founded.        *)
LEMMA LeastNat == ASSUME NEW T, T \subseteq Nat, T # {}
               PROVE  \E x \in T : \A y \in T : x <= y
<1> DEFINE R == {p \in Nat \X Nat : p[1] < p[2]}
<1>1. IsWellFoundedOn(OpToRel(<, Nat), Nat)
  BY NatLessThanWellFounded
<1>2. OpToRel(<, Nat) = R
  BY DEF OpToRel
<1>3. IsWellFoundedOn(R, Nat)
  BY <1>1, <1>2
<1>a. \A a, b \in Nat : a < b => <<a, b>> \in R
  OBVIOUS
<1> HIDE DEF R
<1>4. PICK x \in T : \A y \in T : ~ (<<y, x>> \in R)
  BY <1>3, WFMin
<1>5. x \in Nat /\ \A y \in T : y \in Nat /\ ~ (y < x)
  BY <1>4, <1>a
<1>6. \A y \in T : x <= y
  BY <1>5
<1> QED BY <1>6

(* Numbers up to a bound, some of them, have a greatest.                   *)
LEMMA GreatestOf == ASSUME NEW n \in Nat, NEW S \in SUBSET (0 .. n), S # {}
                    PROVE  Max(S) \in S /\ \A y \in S : Max(S) >= y
<1>1. \E x \in S : \A y \in S : x >= y
  <2> DEFINE T == {x \in 0 .. n : \A y \in S : x >= y}
  <2>1. n \in T
    OBVIOUS
  <2>2. PICK m \in T : \A y \in T : m <= y
    <3>1. T \subseteq Nat /\ T # {}
      BY <2>1
    <3> QED
      BY <3>1, LeastNat
  <2>3. SUFFICES ASSUME m \notin S PROVE FALSE
    BY <2>2
  <2>4. \A y \in S : y <= m - 1
    BY <2>2, <2>3
  <2>5. m - 1 \in T
    <3>1. PICK y \in S : TRUE
      OBVIOUS
    <3>2. y <= m - 1 /\ y \in Nat /\ m \in 0 .. n
      BY <2>2, <2>4, <3>1
    <3>3. m - 1 \in 0 .. n
      BY <3>2
    <3> QED
      BY <2>4, <3>3
  <2> QED
    BY <2>2, <2>5
<1> QED
  BY <1>1 DEF Max

(* A character has the bytes of its width.                                 *)
LEMMA OneCharacter == ASSUME NEW c, Width[c] \in Nat PROVE Bytes(<<c>>) = Width[c]
<1> DEFINE F(g) == g = [s \in SUBSET {1} |-> IF s = {} THEN 0
                          ELSE Width[<<c>>[CHOOSE x \in s : TRUE]] + g[s \ {CHOOSE x \in s : TRUE}]]
           h == [s \in SUBSET {1} |-> IF s = {} THEN 0 ELSE Width[c]]
<1>1. Bytes(<<c>>) = (CHOOSE g : F(g))[{1}]
  <2>1. DOMAIN <<c>> = {1}
    OBVIOUS
  <2> QED
    BY <2>1 DEF Bytes, FoldFunction, FoldFunctionOnSet, MapThenFoldSet
<1>2. \A s \in SUBSET {1} : s # {} => (CHOOSE x \in s : TRUE) = 1 /\ s = {1}
  OBVIOUS
<1>3. ASSUME NEW g, F(g) PROVE g[{1}] = Width[c]
  <2>1. g[{}] = 0
    BY <1>3
  <2>2. (CHOOSE x \in {1} : TRUE) = 1 /\ {1} \ {1} = {} /\ <<c>>[1] = c
    OBVIOUS
  <2>3. g[{1}] = Width[<<c>>[CHOOSE x \in {1} : TRUE]] + g[{1} \ {CHOOSE x \in {1} : TRUE}]
    BY <1>3
  <2>4. g[{1}] = Width[c] + 0
    BY <2>1, <2>2, <2>3
  <2> QED
    BY <2>4
<1>4. F(h)
  <2>1. h[{}] = 0
    OBVIOUS
  <2> SUFFICES ASSUME NEW s \in SUBSET {1}, s # {}
               PROVE  Width[c] = Width[<<c>>[CHOOSE x \in s : TRUE]] + h[s \ {CHOOSE x \in s : TRUE}]
    OBVIOUS
  <2>2. (CHOOSE x \in s : TRUE) = 1 /\ s \ {1} = {} /\ <<c>>[1] = c
    BY <1>2
  <2> HIDE DEF h
  <2>3. h[s \ {CHOOSE x \in s : TRUE}] = 0
    BY <2>1, <2>2
  <2>4. Width[<<c>>[CHOOSE x \in s : TRUE]] = Width[c]
    BY <2>2
  <2> QED
    BY <2>3, <2>4
<1> HIDE DEF F, h
<1>5. F(CHOOSE g : F(g))
  BY <1>4
<1> QED
  BY <1>1, <1>3, <1>5

(* A shortened stem keeps the first character at least.                    *)
LEMMA StemKeeps == ASSUME NEW d \in Dest, NEW i \in Pid PROVE Prefix(d, NameMax - SuffixLen[i]) # <<>>
<1> DEFINE n == NameMax - SuffixLen[i]
           S == {k \in 0 .. Len(d) : Bytes(SubSeq(d, 1, k)) <= n}
<1>1. /\ d \in Seq(DOMAIN Width) /\ Len(d) \in Nat /\ Len(d) >= 1
      /\ Width[d[1]] \in Nat /\ Width[d[1]] + SuffixLen[i] <= NameMax
      /\ NameMax \in Nat /\ SuffixLen[i] \in Nat
  <2>1. d \in Seq(DOMAIN Width) /\ d # <<>>
    BY TempAssumption
  <2>2. Len(d) \in Nat /\ Len(d) # 0
    BY <2>1
  <2> QED
    BY <2>1, <2>2, TempAssumption
<1>2. SubSeq(d, 1, 1) = <<d[1]>>
  <2>1. 1 \in 1 .. Len(d) /\ d[1] \in DOMAIN Width
    BY <1>1
  <2>2. SubSeq(d, 1, 1) \in Seq(DOMAIN Width) /\ Len(SubSeq(d, 1, 1)) = 1
    BY <1>1, <2>1
  <2>3. SubSeq(d, 1, 1)[1] = d[1]
    BY <1>1, <2>1
  <2>4. ASSUME NEW t \in Seq(DOMAIN Width), Len(t) = 1 PROVE t = <<t[1]>>
    BY <2>4
  <2> QED
    BY <2>2, <2>3, <2>4
<1>3. 1 \in S
  <2>1. Bytes(<<d[1]>>) = Width[d[1]]
    BY <1>1, OneCharacter
  <2>2. Width[d[1]] <= n
    BY <1>1
  <2>3. Bytes(SubSeq(d, 1, 1)) <= n
    BY <1>2, <2>1, <2>2
  <2> QED
    BY <1>1, <2>3
<1>4. Max(S) \in S /\ Max(S) >= 1
  <2> S \in SUBSET (0 .. Len(d))
    OBVIOUS
  <2> HIDE DEF S
  <2> QED
    BY <1>1, <1>3, GreatestOf
<1>5. Max(S) \in 1 .. Len(d)
  BY <1>1, <1>4
<1>6. Prefix(d, n) = SubSeq(d, 1, Max(S))
  BY DEF Prefix
<1> HIDE DEF S
<1>7. Len(SubSeq(d, 1, Max(S))) = Max(S)
  BY <1>1, <1>5
<1> QED
  BY <1>5, <1>6, <1>7

-----------------------------------------------------------------------------
(* The invariant. *)

LEMMA TempsStart == TempInit => SweepInv
<1> SUFFICES ASSUME TempInit PROVE SweepInv
  OBVIOUS
<1>1. Names = {}
  BY DEF TempInit, Names
<1>2. TempsTyped
  BY <1>1 DEF TempInit, TempsTyped, Names
<1>3. HeldTemps /\ GoneTemps /\ NamedFor /\ DueTemps
  BY <1>1 DEF TempInit, HeldTemps, GoneTemps, NamedFor, DueTemps
<1> QED
  BY <1>2, <1>3 DEF SweepInv

(* A save begins: what is due is the sweep's to look at. *)
LEMMA BeginKeeps == ASSUME SweepInv, NEW p \in Process, NEW d \in Dest, Begin(p, d) PROVE SweepInv'
<1>1. /\ Names' = Names /\ temps' = temps /\ exists' = exists /\ torn' = torn
      /\ removed' = removed /\ tmp' = tmp /\ pid' = pid /\ seq' = seq
      /\ dest' = [dest EXCEPT ![p] = d] /\ tries' = [tries EXCEPT ![p] = 0] /\ at[p] = "idle"
  BY DEF Begin, files, Names
<1>2. \/ /\ at' = [at EXCEPT ![p] = "sweep"] /\ todo' = [todo EXCEPT ![p] = Names]
         /\ due' = [due EXCEPT ![p] = {n \in Names : temps[n].for = d /\ temps[n].stale}]
         /\ swept' = [swept EXCEPT ![p] = IF Cardinality(@) >= Cap THEN @ ELSE @ \cup {d}]
      \/ /\ at' = [at EXCEPT ![p] = "create"] /\ todo' = todo /\ due' = due /\ swept' = swept
  BY DEF Begin, Go
<1>t. TempsTyped
  BY DEF SweepInv
<1>3. TempsTyped'
  <2>1. swept' \in [Process -> SUBSET Dest]
    BY <1>t, <1>2 DEF TempsTyped
  <2>2. due' \in [Process -> SUBSET TmpName] /\ todo' \in [Process -> SUBSET TmpName]
    BY <1>t, <1>2 DEF TempsTyped
  <2>3. /\ at' \in [Process -> {"idle", "sweep", "remove", "create", "write"}]
        /\ dest' \in [Process -> Dest \cup {NoName}] /\ tries' \in [Process -> Nat]
        /\ \A q \in Process : at'[q] # "idle" => dest'[q] \in Dest
    BY <1>t, <1>1, <1>2 DEF TempsTyped
  <2> QED
    BY <1>t, <1>1, <2>1, <2>2, <2>3 DEF TempsTyped
<1>4. HeldTemps'
  BY <1>t, <1>1, <1>2 DEF SweepInv, HeldTemps, TempsTyped
<1>5. GoneTemps' /\ NamedFor'
  BY <1>1 DEF SweepInv, GoneTemps, NamedFor
<1>6. DueTemps'
  BY <1>t, <1>1, <1>2 DEF SweepInv, DueTemps, TempsTyped
<1> QED
  BY <1>3, <1>4, <1>5, <1>6 DEF SweepInv

(* A name a sweep looks at and does not take may be another destination's. *)
LEMMA ExamineKeeps == ASSUME SweepInv, NEW p \in Process, NEW n \in todo[p], Examine(p, n)
                      PROVE  SweepInv'
<1>1. /\ Names' = Names /\ temps' = temps /\ exists' = exists /\ torn' = torn
      /\ removed' = removed /\ dest' = dest /\ tries' = tries /\ pid' = pid /\ seq' = seq
      /\ swept' = swept /\ due' = due
      /\ at[p] = "sweep" /\ todo' = [todo EXCEPT ![p] = @ \ {n}]
  BY DEF Examine, files, proc, Names
<1>2. \/ /\ n \in Names /\ Stale(n)
         /\ at' = [at EXCEPT ![p] = "remove"] /\ tmp' = [tmp EXCEPT ![p] = n]
      \/ /\ ~ (n \in Names /\ Ours(dest[p], n) /\ Stale(n))
         /\ at' = at /\ tmp' = tmp
  BY DEF Examine, Go
<1>t. TempsTyped
  BY DEF SweepInv
<1>3. TempsTyped'
  <2>1. todo' \in [Process -> SUBSET TmpName] /\ tmp' \in [Process -> TmpName \cup {NoName}]
    BY <1>t, <1>1, <1>2 DEF TempsTyped
  <2>2. /\ at' \in [Process -> {"idle", "sweep", "remove", "create", "write"}]
        /\ \A q \in Process : at'[q] # "idle" => dest'[q] \in Dest
    BY <1>t, <1>1, <1>2 DEF TempsTyped
  <2> QED
    BY <1>t, <1>1, <2>1, <2>2 DEF TempsTyped
<1>4. HeldTemps'
  BY <1>t, <1>1, <1>2 DEF SweepInv, HeldTemps, TempsTyped, Stale
<1>5. GoneTemps' /\ NamedFor'
  BY <1>1 DEF SweepInv, GoneTemps, NamedFor
<1>6. DueTemps'
  <2>1. ASSUME n \in due[p] \cap Names, ~ Ours(dest[p], n)
        PROVE  n.stem # dest[p] /\ n.stem \in exists
    <3>1. temps[n].for = dest[p] /\ n.pid \in Pid /\ dest[p] \in Dest
      BY <2>1, <1>1, <1>t DEF SweepInv, DueTemps, GoneTemps, TempsTyped, TmpName
    <3>2. n.stem = Stem(dest[p], n.pid)
      BY <2>1, <3>1 DEF SweepInv, NamedFor
    <3>3. n.stem # dest[p]
      BY <2>1 DEF Ours
    <3>4. n.stem = Prefix(dest[p], NameMax - SuffixLen[n.pid])
      BY <3>2, <3>3 DEF Stem
    <3>5. n.stem # <<>>
      BY <3>1, <3>4, StemKeeps
    <3> QED
      BY <2>1, <3>3, <3>4, <3>5 DEF Ours, Cut
  <2>2. ASSUME n \in due[p] \cap Names, ~ Stale(n) PROVE FALSE
    BY <2>2 DEF SweepInv, DueTemps, GoneTemps, Stale
  <2>3. ASSUME NEW q \in Process
        PROVE  /\ at'[q] \in {"idle", "write"} => due'[q] = {}
               /\ \A m \in due'[q] : \/ m \in removed'
                                     \/ m \in Names' /\ temps'[m].stale /\ temps'[m].for = dest'[q]
    BY <1>t, <1>1, <1>2 DEF SweepInv, DueTemps, TempsTyped
  <2>4. ASSUME NEW q \in Process, NEW m \in due'[q] \cap Names'
        PROVE  \/ m.stem # dest'[q] /\ m.stem \in exists'
               \/ at'[q] \in {"sweep", "remove"} /\ m \in todo'[q]
               \/ at'[q] = "remove" /\ m = tmp'[q]
    <3>1. \/ m.stem # dest[q] /\ m.stem \in exists
          \/ at[q] \in {"sweep", "remove"} /\ m \in todo[q]
          \/ at[q] = "remove" /\ m = tmp[q]
      BY <1>1 DEF SweepInv, DueTemps
    <3>2. CASE q # p
      BY <3>1, <3>2, <1>t, <1>1, <1>2 DEF TempsTyped
    <3>3. CASE q = p /\ m # n
      BY <3>1, <3>3, <1>t, <1>1, <1>2 DEF TempsTyped
    <3>4. CASE q = p /\ m = n
      BY <3>4, <2>1, <2>2, <1>t, <1>1, <1>2 DEF TempsTyped
    <3> QED
      BY <3>2, <3>3, <3>4
  <2> QED
    BY <2>3, <2>4 DEF DueTemps
<1> QED
  BY <1>3, <1>4, <1>5, <1>6 DEF SweepInv

(* What a sweep removes was stale, so no save writes it. *)
LEMMA UnlinkKeeps == ASSUME SweepInv, NEW p \in Process, Unlink(p) PROVE SweepInv'
<1>1. /\ Names' = Names \ {tmp[p]} /\ \A n \in Names' : temps'[n] = temps[n]
      /\ temps' = [n \in Names \ {tmp[p]} |-> temps[n]]
      /\ exists' = exists /\ torn' = torn /\ dest' = dest /\ tries' = tries /\ todo' = todo
      /\ pid' = pid /\ seq' = seq /\ swept' = swept /\ due' = due
      /\ at[p] = "remove" /\ at' = [at EXCEPT ![p] = "sweep"] /\ tmp' = [tmp EXCEPT ![p] = NoName]
      /\ removed' = removed \cup {n \in Names : n = tmp[p]}
  BY DEF Unlink, Go, proc, Names
<1>t. TempsTyped
  BY DEF SweepInv
<1>2. removed \subseteq removed' /\ \A n \in Names : n \in Names' \/ n \in removed'
  BY <1>1
<1>3. TempsTyped'
  <2>1. temps' \in [Names' -> [by : Process \cup {NoName}, for : Dest, stale : BOOLEAN]]
    BY <1>t, <1>1 DEF TempsTyped
  <2>2. /\ at' \in [Process -> {"idle", "sweep", "remove", "create", "write"}]
        /\ tmp' \in [Process -> TmpName \cup {NoName}]
        /\ \A q \in Process : at'[q] # "idle" => dest'[q] \in Dest
        /\ Names' \subseteq TmpName /\ removed' \subseteq TmpName
    BY <1>t, <1>1 DEF TempsTyped
  <2> QED
    BY <1>t, <1>1, <2>1, <2>2 DEF TempsTyped
<1>4. HeldTemps'
  <2>1. tmp[p] \in Names => temps[tmp[p]].stale
    BY <1>1 DEF SweepInv, HeldTemps, GoneTemps
  <2>2. ASSUME NEW q \in Process, at'[q] = "write"
        PROVE  tmp'[q] \in Names' /\ temps'[tmp'[q]].by = q /\ ~temps'[tmp'[q]].stale
    <3>1. q # p /\ at[q] = "write" /\ tmp'[q] = tmp[q]
      BY <2>2, <1>t, <1>1 DEF TempsTyped
    <3>2. tmp[q] \in Names /\ temps[tmp[q]].by = q /\ ~temps[tmp[q]].stale
      BY <3>1 DEF SweepInv, HeldTemps
    <3> QED
      BY <2>1, <3>1, <3>2, <1>1
  <2>3. ASSUME NEW q \in Process, at'[q] = "remove"
        PROVE  tmp'[q] \in removed' \/ (tmp'[q] \in Names' /\ temps'[tmp'[q]].stale)
    <3>1. q # p /\ at[q] = "remove" /\ tmp'[q] = tmp[q]
      BY <2>3, <1>t, <1>1 DEF TempsTyped
    <3>2. tmp[q] \in removed \/ (tmp[q] \in Names /\ temps[tmp[q]].stale)
      BY <3>1 DEF SweepInv, HeldTemps
    <3> QED
      BY <3>1, <3>2, <1>1, <1>2
  <2> QED
    BY <2>2, <2>3 DEF HeldTemps
<1>5. GoneTemps' /\ NamedFor'
  <2>1. NamedFor'
    BY <1>1 DEF SweepInv, NamedFor
  <2> QED
    BY <2>1, <1>1 DEF SweepInv, GoneTemps
<1>6. DueTemps'
  <2>1. ASSUME NEW q \in Process
        PROVE  /\ at'[q] \in {"idle", "write"} => due'[q] = {}
               /\ \A m \in due'[q] : \/ m \in removed'
                                     \/ m \in Names' /\ temps'[m].stale /\ temps'[m].for = dest'[q]
    <3>1. \A m \in due[q] : m \in removed \/ (m \in Names /\ temps[m].stale /\ temps[m].for = dest[q])
      BY DEF SweepInv, DueTemps
    <3>2. at[q] \in {"idle", "write"} => due[q] = {}
      BY DEF SweepInv, DueTemps
    <3> QED
      BY <3>1, <3>2, <1>t, <1>1, <1>2 DEF TempsTyped
  <2>2. ASSUME NEW q \in Process, NEW m \in due'[q] \cap Names'
        PROVE  \/ m.stem # dest'[q] /\ m.stem \in exists'
               \/ at'[q] \in {"sweep", "remove"} /\ m \in todo'[q]
               \/ at'[q] = "remove" /\ m = tmp'[q]
    <3>1. \/ m.stem # dest[q] /\ m.stem \in exists
          \/ at[q] \in {"sweep", "remove"} /\ m \in todo[q]
          \/ at[q] = "remove" /\ m = tmp[q]
      BY <1>1 DEF SweepInv, DueTemps
    <3>2. m # tmp[p]
      BY <1>1
    <3> QED
      BY <3>1, <3>2, <1>t, <1>1 DEF TempsTyped
  <2> QED
    BY <2>1, <2>2 DEF DueTemps
<1> QED
  BY <1>3, <1>4, <1>5, <1>6 DEF SweepInv

LEMMA EndSweepKeeps == ASSUME SweepInv, NEW p \in Process, EndSweep(p) PROVE SweepInv'
<1>1. /\ Names' = Names /\ temps' = temps /\ exists' = exists /\ torn' = torn
      /\ removed' = removed /\ dest' = dest /\ tmp' = tmp /\ tries' = tries /\ todo' = todo
      /\ pid' = pid /\ seq' = seq /\ swept' = swept /\ due' = due
      /\ at[p] = "sweep" /\ todo[p] = {} /\ at' = [at EXCEPT ![p] = "create"]
  BY DEF EndSweep, Go, files, proc, Names
<1>t. TempsTyped
  BY DEF SweepInv
<1>3. TempsTyped'
  <2>1. /\ at' \in [Process -> {"idle", "sweep", "remove", "create", "write"}]
        /\ \A q \in Process : at'[q] # "idle" => dest'[q] \in Dest
    BY <1>t, <1>1 DEF TempsTyped
  <2> QED
    BY <1>t, <1>1, <2>1 DEF TempsTyped
<1>4. HeldTemps'
  BY <1>t, <1>1 DEF SweepInv, HeldTemps, TempsTyped
<1>5. GoneTemps' /\ NamedFor'
  BY <1>1 DEF SweepInv, GoneTemps, NamedFor
<1>6. DueTemps'
  BY <1>t, <1>1 DEF SweepInv, DueTemps, TempsTyped
<1> QED
  BY <1>3, <1>4, <1>5, <1>6 DEF SweepInv

(* A name that exists is refused, and a removed one is not drawn again. *)
LEMMA CreateTmpKeeps == ASSUME SweepInv, NEW p \in Process, NEW r \in Rand, CreateTmp(p, r)
                        PROVE  SweepInv'
<1> DEFINE n == [stem |-> Stem(dest[p], pid[p]), pid |-> pid[p], seq |-> seq[p], rand |-> r]
<1>1. /\ exists' = exists /\ torn' = torn /\ dest' = dest /\ todo' = todo
      /\ pid' = pid /\ swept' = swept /\ removed' = removed /\ n \notin removed
      /\ at[p] = "create" /\ due' = [due EXCEPT ![p] = {}] /\ seq' = [seq EXCEPT ![p] = @ + 1]
  BY DEF CreateTmp
<1>t. TempsTyped
  BY DEF SweepInv
<1>n. n \in TmpName /\ dest[p] \in Dest /\ pid[p] \in Pid
  <2>1. dest[p] \in Dest /\ pid[p] \in Pid /\ seq[p] \in Nat
    BY <1>t, <1>1 DEF TempsTyped
  <2> QED
    BY <2>1 DEF TmpName
<1>2. CASE n \in Names
  <2>1. /\ temps' = temps /\ Names' = Names /\ tmp' = tmp /\ tries' = [tries EXCEPT ![p] = @ + 1]
        /\ at' = [at EXCEPT ![p] = IF tries[p] + 1 = Tries THEN "idle" ELSE "create"]
    BY <1>2 DEF CreateTmp, Taken, Go, Names
  <2>2. TempsTyped'
    <3>1. /\ at' \in [Process -> {"idle", "sweep", "remove", "create", "write"}]
          /\ seq' \in [Process -> Nat] /\ tries' \in [Process -> Nat]
          /\ \A q \in Process : at'[q] # "idle" => dest'[q] \in Dest
          /\ due' \in [Process -> SUBSET TmpName]
      BY <1>t, <1>n, <1>1, <2>1 DEF TempsTyped
    <3> QED
      BY <1>t, <1>1, <2>1, <3>1 DEF TempsTyped
  <2>3. HeldTemps'
    BY <1>t, <1>1, <2>1 DEF SweepInv, HeldTemps, TempsTyped
  <2>4. GoneTemps' /\ NamedFor'
    BY <1>1, <2>1 DEF SweepInv, GoneTemps, NamedFor
  <2>5. DueTemps'
    BY <1>t, <1>1, <2>1 DEF SweepInv, DueTemps, TempsTyped
  <2> QED
    BY <2>2, <2>3, <2>4, <2>5 DEF SweepInv
<1>3. CASE n \notin Names
  <2>1. /\ temps' = [m \in Names \cup {n} |-> IF m = n THEN [by |-> p, for |-> dest[p], stale |-> FALSE]
                                           ELSE temps[m]]
        /\ tmp' = [tmp EXCEPT ![p] = n] /\ at' = [at EXCEPT ![p] = "write"] /\ tries' = tries
    BY <1>3 DEF CreateTmp, Taken, Go
  <2>2. /\ Names' = Names \cup {n} /\ \A m \in Names : temps'[m] = temps[m]
        /\ temps'[n] = [by |-> p, for |-> dest[p], stale |-> FALSE]
    BY <1>3, <2>1 DEF Names
  <2> HIDE DEF n
  <2>3. TempsTyped'
    <3>1. temps' \in [Names' -> [by : Process \cup {NoName}, for : Dest, stale : BOOLEAN]]
      BY <1>t, <1>n, <2>1, <2>2 DEF TempsTyped
    <3>2. /\ at' \in [Process -> {"idle", "sweep", "remove", "create", "write"}]
          /\ tmp' \in [Process -> TmpName \cup {NoName}]
          /\ seq' \in [Process -> Nat]
          /\ \A q \in Process : at'[q] # "idle" => dest'[q] \in Dest
          /\ due' \in [Process -> SUBSET TmpName] /\ Names' \subseteq TmpName
      BY <1>t, <1>n, <1>1, <2>1, <2>2 DEF TempsTyped
    <3> QED
      BY <1>t, <1>1, <2>1, <3>1, <3>2 DEF TempsTyped
  <2>4. HeldTemps'
    <3>1. ASSUME NEW q \in Process, at'[q] = "write"
          PROVE  tmp'[q] \in Names' /\ temps'[tmp'[q]].by = q /\ ~temps'[tmp'[q]].stale
      <4>1. CASE q = p
        <5>1. tmp'[q] = n
          BY <4>1, <1>t, <2>1 DEF TempsTyped
        <5> QED
          BY <4>1, <5>1, <2>2
      <4>2. CASE q # p
        <5>1. at[q] = "write" /\ tmp'[q] = tmp[q]
          BY <4>2, <3>1, <1>t, <2>1 DEF TempsTyped
        <5>2. tmp[q] \in Names /\ temps[tmp[q]].by = q /\ ~temps[tmp[q]].stale
          BY <5>1 DEF SweepInv, HeldTemps
        <5> QED
          BY <5>1, <5>2, <2>2
      <4> QED
        BY <4>1, <4>2
    <3>2. ASSUME NEW q \in Process, at'[q] = "remove"
          PROVE  tmp'[q] \in removed' \/ (tmp'[q] \in Names' /\ temps'[tmp'[q]].stale)
      <4>1. at[q] = "remove" /\ tmp'[q] = tmp[q]
        BY <3>2, <1>t, <2>1 DEF TempsTyped
      <4>2. tmp[q] \in removed \/ (tmp[q] \in Names /\ temps[tmp[q]].stale)
        BY <4>1 DEF SweepInv, HeldTemps
      <4> QED
        BY <4>1, <4>2, <1>1, <2>2
    <3> QED
      BY <3>1, <3>2 DEF HeldTemps
  <2>5. GoneTemps'
    BY <1>1, <2>2 DEF SweepInv, GoneTemps
  <2>6. NamedFor'
    <3>1. n.stem = Stem(dest[p], pid[p]) /\ n.pid = pid[p]
      BY DEF n
    <3>2. \A m \in Names : m.stem = Stem(temps[m].for, m.pid)
      BY DEF SweepInv, NamedFor
    <3> QED
      BY <3>1, <3>2, <2>2 DEF NamedFor
  <2>7. DueTemps'
    <3>1. ASSUME NEW q \in Process, q # p
          PROVE  due'[q] = due[q] /\ at'[q] = at[q] /\ tmp'[q] = tmp[q]
      BY <3>1, <1>t, <1>1, <2>1 DEF TempsTyped
    <3>2. due'[p] = {}
      BY <1>t, <1>1 DEF TempsTyped
    <3>3. ASSUME NEW q \in Process, NEW m \in due'[q]
          PROVE  /\ q # p /\ m \in due[q] /\ m # n
                 /\ m \in removed \/ (m \in Names /\ temps[m].stale /\ temps[m].for = dest[q])
      <4>1. q # p /\ m \in due[q]
        BY <3>1, <3>2
      <4>2. m \in removed \/ (m \in Names /\ temps[m].stale /\ temps[m].for = dest[q])
        BY <4>1 DEF SweepInv, DueTemps
      <4> QED
        BY <4>1, <4>2, <1>1, <1>3
    <3>4. ASSUME NEW q \in Process, NEW m \in due'[q] \cap Names'
          PROVE  \/ m.stem # dest'[q] /\ m.stem \in exists'
                 \/ at'[q] \in {"sweep", "remove"} /\ m \in todo'[q]
                 \/ at'[q] = "remove" /\ m = tmp'[q]
      <4>1. q # p /\ m \in due[q] \cap Names
        BY <3>3, <2>2
      <4>2. \/ m.stem # dest[q] /\ m.stem \in exists
            \/ at[q] \in {"sweep", "remove"} /\ m \in todo[q]
            \/ at[q] = "remove" /\ m = tmp[q]
        BY <4>1 DEF SweepInv, DueTemps
      <4> QED
        BY <4>1, <4>2, <3>1, <1>1
    <3>5. ASSUME NEW q \in Process, at'[q] \in {"idle", "write"} PROVE due'[q] = {}
      <4>1. CASE q = p
        BY <4>1, <3>2
      <4>2. CASE q # p
        BY <4>2, <3>5, <3>1 DEF SweepInv, DueTemps
      <4> QED
        BY <4>1, <4>2
    <3>6. ASSUME NEW q \in Process, NEW m \in due'[q]
          PROVE  m \in removed' \/ (m \in Names' /\ temps'[m].stale /\ temps'[m].for = dest'[q])
      BY <3>3, <2>2, <1>1
    <3> QED
      BY <3>4, <3>5, <3>6 DEF DueTemps
  <2> QED
    BY <2>3, <2>4, <2>5, <2>6, <2>7 DEF SweepInv
<1> QED
  BY <1>2, <1>3

(* The end of a save takes its own temp, which is due to no sweep. *)
LEMMA EndKeeps ==
  ASSUME SweepInv, NEW p \in Process, at[p] = "write", Done(p),
         temps' = [n \in Names \ {tmp[p]} |-> temps[n]],
         exists \subseteq exists', exists' \subseteq Dest, torn' = {}
  PROVE  SweepInv'
<1>1. /\ Names' = Names \ {tmp[p]} /\ \A n \in Names' : temps'[n] = temps[n]
      /\ dest' = dest /\ tries' = tries /\ todo' = todo /\ removed' = removed
      /\ pid' = pid /\ seq' = seq /\ swept' = swept /\ due' = due
      /\ at' = [at EXCEPT ![p] = "idle"] /\ tmp' = [tmp EXCEPT ![p] = NoName]
  BY DEF Done, Go, proc, Names
<1>t. TempsTyped
  BY DEF SweepInv
<1>2. tmp[p] \in Names /\ temps[tmp[p]].by = p /\ ~temps[tmp[p]].stale
  BY DEF SweepInv, HeldTemps
<1>3. TempsTyped'
  <2>1. temps' \in [Names' -> [by : Process \cup {NoName}, for : Dest, stale : BOOLEAN]]
    BY <1>t, <1>1 DEF TempsTyped
  <2>2. /\ at' \in [Process -> {"idle", "sweep", "remove", "create", "write"}]
        /\ tmp' \in [Process -> TmpName \cup {NoName}]
        /\ \A q \in Process : at'[q] # "idle" => dest'[q] \in Dest
        /\ Names' \subseteq TmpName
    BY <1>t, <1>1 DEF TempsTyped
  <2> QED
    BY <1>t, <1>1, <2>1, <2>2 DEF TempsTyped
<1>4. HeldTemps'
  <2>1. ASSUME NEW q \in Process, at'[q] = "write"
        PROVE  tmp'[q] \in Names' /\ temps'[tmp'[q]].by = q /\ ~temps'[tmp'[q]].stale
    <3>1. q # p /\ at[q] = "write" /\ tmp'[q] = tmp[q]
      BY <2>1, <1>t, <1>1 DEF TempsTyped
    <3>2. tmp[q] \in Names /\ temps[tmp[q]].by = q /\ ~temps[tmp[q]].stale
      BY <3>1 DEF SweepInv, HeldTemps
    <3> QED
      BY <3>1, <3>2, <1>1, <1>2
  <2>2. ASSUME NEW q \in Process, at'[q] = "remove"
        PROVE  tmp'[q] \in removed' \/ (tmp'[q] \in Names' /\ temps'[tmp'[q]].stale)
    <3>1. at[q] = "remove" /\ tmp'[q] = tmp[q]
      BY <2>2, <1>t, <1>1 DEF TempsTyped
    <3>2. tmp[q] \in removed \/ (tmp[q] \in Names /\ temps[tmp[q]].stale)
      BY <3>1 DEF SweepInv, HeldTemps
    <3> QED
      BY <3>1, <3>2, <1>1, <1>2
  <2> QED
    BY <2>1, <2>2 DEF HeldTemps
<1>5. GoneTemps' /\ NamedFor'
  BY <1>1 DEF SweepInv, GoneTemps, NamedFor
<1>6. DueTemps'
  <2>1. ASSUME NEW q \in Process, NEW m \in due[q]
        PROVE  m \in removed \/ (m \in Names' /\ temps[m].stale /\ temps[m].for = dest[q])
    BY <1>1, <1>2 DEF SweepInv, DueTemps
  <2>2. ASSUME NEW q \in Process
        PROVE  /\ at'[q] \in {"idle", "write"} => due'[q] = {}
               /\ \A m \in due'[q] : \/ m \in removed'
                                     \/ m \in Names' /\ temps'[m].stale /\ temps'[m].for = dest'[q]
    <3>1. at[q] \in {"idle", "write"} => due[q] = {}
      BY DEF SweepInv, DueTemps
    <3> QED
      BY <2>1, <3>1, <1>t, <1>1 DEF TempsTyped
  <2>3. ASSUME NEW q \in Process, NEW m \in due'[q] \cap Names'
        PROVE  \/ m.stem # dest'[q] /\ m.stem \in exists'
               \/ at'[q] \in {"sweep", "remove"} /\ m \in todo'[q]
               \/ at'[q] = "remove" /\ m = tmp'[q]
    <3>1. m \in due[q] \cap Names /\ q # p
      BY <1>1 DEF SweepInv, DueTemps
    <3>2. \/ m.stem # dest[q] /\ m.stem \in exists
          \/ at[q] \in {"sweep", "remove"} /\ m \in todo[q]
          \/ at[q] = "remove" /\ m = tmp[q]
      BY <3>1 DEF SweepInv, DueTemps
    <3> QED
      BY <3>1, <3>2, <1>t, <1>1 DEF TempsTyped
  <2> QED
    BY <2>2, <2>3 DEF DueTemps
<1> QED
  BY <1>3, <1>4, <1>5, <1>6 DEF SweepInv

(* A rename gives its destination the save's own file. *)
LEMMA RenameKeeps == ASSUME SweepInv, NEW p \in Process, Rename(p) PROVE SweepInv'
<1>1. temps[tmp[p]].by = p /\ torn = {} /\ dest[p] \in Dest /\ exists \subseteq Dest
  BY DEF Rename, SweepInv, HeldTemps, GoneTemps, TempsTyped
<1>2. exists \subseteq exists' /\ exists' \subseteq Dest /\ torn' = {}
  BY <1>1 DEF Rename
<1> QED
  BY <1>2, EndKeeps DEF Rename

LEMMA WriteFailsKeeps == ASSUME SweepInv, NEW p \in Process, WriteFails(p) PROVE SweepInv'
<1>1. exists \subseteq exists' /\ exists' \subseteq Dest /\ torn' = {}
  BY DEF WriteFails, SweepInv, GoneTemps, TempsTyped
<1> QED
  BY <1>1, EndKeeps DEF WriteFails

(* What changes of a temp in a kill is who made it. *)
LEMMA KillProcessKeeps == ASSUME SweepInv, NEW p \in Process, KillProcess(p) PROVE SweepInv'
<1>1. /\ Names' = Names
      /\ \A n \in Names : temps'[n] = IF temps[n].by = p THEN [temps[n] EXCEPT !.by = NoName]
                                       ELSE temps[n]
      /\ temps' = [n \in Names |-> temps'[n]]
      /\ exists' = exists /\ torn' = torn /\ dest' = dest /\ tries' = tries /\ removed' = removed
      /\ at' = [at EXCEPT ![p] = "idle"] /\ tmp' = [tmp EXCEPT ![p] = NoName]
      /\ todo' = [todo EXCEPT ![p] = {}] /\ seq' = [seq EXCEPT ![p] = 0]
      /\ swept' = [swept EXCEPT ![p] = {}] /\ due' = [due EXCEPT ![p] = {}]
  BY DEF KillProcess, Go, Names
<1>2. PICK i \in Pid : pid' = [pid EXCEPT ![p] = i]
  BY DEF KillProcess
<1>t. TempsTyped
  BY DEF SweepInv
<1>r. ASSUME NEW n \in Names
      PROVE  /\ temps'[n] \in [by : Process \cup {NoName}, for : Dest, stale : BOOLEAN]
             /\ temps'[n].for = temps[n].for /\ temps'[n].stale = temps[n].stale
             /\ temps[n].by # p => temps'[n].by = temps[n].by
  <2>1. temps[n] \in [by : Process \cup {NoName}, for : Dest, stale : BOOLEAN]
    BY <1>t DEF TempsTyped
  <2> QED
    BY <2>1, <1>1
<1>3. TempsTyped'
  <2>1. temps' \in [Names' -> [by : Process \cup {NoName}, for : Dest, stale : BOOLEAN]]
    BY <1>1, <1>r
  <2>2. /\ at' \in [Process -> {"idle", "sweep", "remove", "create", "write"}]
        /\ tmp' \in [Process -> TmpName \cup {NoName}] /\ seq' \in [Process -> Nat]
        /\ pid' \in [Process -> Pid]
        /\ \A q \in Process : at'[q] # "idle" => dest'[q] \in Dest
    BY <1>t, <1>1, <1>2 DEF TempsTyped
  <2>3. /\ todo' \in [Process -> SUBSET TmpName] /\ due' \in [Process -> SUBSET TmpName]
        /\ swept' \in [Process -> SUBSET Dest]
    BY <1>t, <1>1 DEF TempsTyped
  <2> QED
    BY <1>t, <1>1, <2>1, <2>2, <2>3 DEF TempsTyped
<1>o. ASSUME NEW q \in Process, q # p
      PROVE  at'[q] = at[q] /\ tmp'[q] = tmp[q] /\ due'[q] = due[q] /\ todo'[q] = todo[q]
  BY <1>o, <1>t, <1>1 DEF TempsTyped
<1>p. at'[p] = "idle" /\ due'[p] = {}
  BY <1>t, <1>1 DEF TempsTyped
<1>4. HeldTemps'
  <2>1. ASSUME NEW q \in Process, at'[q] = "write"
        PROVE  tmp'[q] \in Names' /\ temps'[tmp'[q]].by = q /\ ~temps'[tmp'[q]].stale
    <3>1. q # p
      BY <2>1, <1>p
    <3>2. at[q] = "write" /\ tmp'[q] = tmp[q]
      BY <2>1, <3>1, <1>o
    <3>3. tmp[q] \in Names /\ temps[tmp[q]].by = q /\ ~temps[tmp[q]].stale
      BY <3>2 DEF SweepInv, HeldTemps
    <3> QED
      BY <3>1, <3>2, <3>3, <1>1, <1>r
  <2>2. ASSUME NEW q \in Process, at'[q] = "remove"
        PROVE  tmp'[q] \in removed' \/ (tmp'[q] \in Names' /\ temps'[tmp'[q]].stale)
    <3>1. q # p
      BY <2>2, <1>p
    <3>2. at[q] = "remove" /\ tmp'[q] = tmp[q]
      BY <2>2, <3>1, <1>o
    <3>3. tmp[q] \in removed \/ (tmp[q] \in Names /\ temps[tmp[q]].stale)
      BY <3>2 DEF SweepInv, HeldTemps
    <3> QED
      BY <3>2, <3>3, <1>1, <1>r
  <2> QED
    BY <2>1, <2>2 DEF HeldTemps
<1>5. GoneTemps' /\ NamedFor'
  BY <1>1, <1>r DEF SweepInv, GoneTemps, NamedFor
<1>6. DueTemps'
  <2>1. ASSUME NEW q \in Process
        PROVE  /\ at'[q] \in {"idle", "write"} => due'[q] = {}
               /\ \A m \in due'[q] : \/ m \in removed'
                                     \/ m \in Names' /\ temps'[m].stale /\ temps'[m].for = dest'[q]
               /\ \A m \in due'[q] \cap Names' :
                    \/ m.stem # dest'[q] /\ m.stem \in exists'
                    \/ at'[q] \in {"sweep", "remove"} /\ m \in todo'[q]
                    \/ at'[q] = "remove" /\ m = tmp'[q]
    <3>1. CASE q = p
      BY <3>1, <1>p
    <3>2. CASE q # p
      BY <3>2, <1>o, <1>1, <1>r DEF SweepInv, DueTemps
    <3> QED
      BY <3>1, <3>2
  <2> QED
    BY <2>1 DEF DueTemps
<1> QED
  BY <1>3, <1>4, <1>5, <1>6 DEF SweepInv

(* An hour ages the temps that no save is writing. *)
LEMMA HourKeeps == ASSUME SweepInv, Hour PROVE SweepInv'
<1>1. /\ Names' = Names /\ \A n \in Names : temps'[n] = [temps[n] EXCEPT !.stale = TRUE]
      /\ temps' = [n \in Names |-> temps'[n]]
      /\ exists' = exists /\ torn' = torn /\ removed' = removed /\ due' = due
      /\ at' = at /\ dest' = dest /\ tmp' = tmp /\ tries' = tries /\ todo' = todo
      /\ pid' = pid /\ seq' = seq /\ swept' = swept
      /\ \A p \in Process : at[p] # "write"
  BY DEF Hour, save, proc, Names
<1>t. TempsTyped
  BY DEF SweepInv
<1>r. ASSUME NEW n \in Names
      PROVE  /\ temps'[n] \in [by : Process \cup {NoName}, for : Dest, stale : BOOLEAN]
             /\ temps'[n].for = temps[n].for /\ temps'[n].stale
  <2>1. temps[n] \in [by : Process \cup {NoName}, for : Dest, stale : BOOLEAN]
    BY <1>t DEF TempsTyped
  <2> QED
    BY <2>1, <1>1
<1>2. TempsTyped'
  <2>1. temps' \in [Names' -> [by : Process \cup {NoName}, for : Dest, stale : BOOLEAN]]
    BY <1>1, <1>r
  <2> QED
    BY <1>t, <1>1, <2>1 DEF TempsTyped
<1>3. HeldTemps'
  BY <1>1, <1>r DEF SweepInv, HeldTemps
<1>4. GoneTemps' /\ NamedFor'
  BY <1>1, <1>r DEF SweepInv, GoneTemps, NamedFor
<1>5. DueTemps'
  BY <1>1, <1>r DEF SweepInv, DueTemps
<1> QED
  BY <1>2, <1>3, <1>4, <1>5 DEF SweepInv

LEMMA TempsStep == ASSUME SweepInv, [TempNext]_tempVars PROVE SweepInv'
<1>1. CASE TempNext
  BY <1>1, BeginKeeps, ExamineKeeps, UnlinkKeeps, EndSweepKeeps, CreateTmpKeeps, RenameKeeps,
     WriteFailsKeeps, KillProcessKeeps, HourKeeps DEF TempNext
<1>2. CASE UNCHANGED tempVars
  <2>1. /\ Names' = Names /\ temps' = temps /\ exists' = exists /\ torn' = torn
        /\ removed' = removed /\ due' = due
        /\ at' = at /\ dest' = dest /\ tmp' = tmp /\ tries' = tries /\ todo' = todo
        /\ pid' = pid /\ seq' = seq /\ swept' = swept
    BY <1>2 DEF tempVars, files, save, proc, Names
  <2> QED
    BY <2>1 DEF SweepInv, TempsTyped, HeldTemps, GoneTemps, NamedFor, DueTemps
<1> QED
  BY <1>1, <1>2

(* Whatever the processes, their pids and kills, the names and the order   *)
(* of the sweeps' looks and removals, the invariant of the temps holds     *)
(* (io.rs, sweep_stale_tmps, create_tmp).                                  *)
THEOREM TempsInvariance == TempSpec => []SweepInv
  BY TempsStart, TempsStep, PTL DEF TempSpec

(* No sweep removes the temp of a save under way, nor does another save    *)
(* write to it; and what kills left for a destination is gone when its     *)
(* sweep ends, or may be another destination's.                            *)
THEOREM SweepsCorrect == TempSpec => []SweepsTakeTheDead
<1>1. SweepInv => LiveTempsKept
  BY DEF SweepInv, HeldTemps, GoneTemps, LiveTempsKept
<1>2. SweepInv => LeaksReclaimed
  BY DEF SweepInv, DueTemps, LeaksReclaimed
<1>3. SweepInv => SweepsTakeTheDead
  BY <1>1, <1>2 DEF SweepsTakeTheDead
<1> QED
  BY <1>3, TempsInvariance, PTL
=============================================================================
