--------------------------- MODULE SyncV7_proofs ---------------------------
(***************************************************************************)
(* IInv is inductive when no process exits with unsynced writes, and what  *)
(* follows from it; then, for a reader beside the writer: a load that one  *)
(* sync at most overlaps sees a commit, and one no older than the last     *)
(* acknowledged when it opened the file, at whatever moments it reads each *)
(* header and each unit; last, for an index that never adds a vector twice *)
(* and a disk that never tears a header write: SyncV7 implements           *)
(* DurableStore, and a load yields the last commit or the one the last     *)
(* sync was making.                                                        *)
(***************************************************************************)
EXTENDS SyncReader, FiniteSetTheorems, TLAPS

-----------------------------------------------------------------------------
(* Block arithmetic. *)

(* A slot's unit is a natural number.                                      *)
LEMMA UnitNat == \A s \in Nat : Unit(s) \in Nat
  BY BlockAssumption DEF Unit

(* The rows in whole units are at most the rows.                           *)
LEMMA WholeNat == \A m \in Nat : Whole(m) \in Nat /\ Whole(m) <= m
  BY BlockAssumption DEF Whole

(* A slot lies in the whole units exactly when its unit is one of them.    *)
LEMMA UnitWhole == \A s, m \in Nat : s < Whole(m) <=> Unit(s) < m \div Block
  BY BlockAssumption DEF Whole, Unit

(* The appended units hold the slots between the two whole-unit bounds.    *)
LEMMA UnitAppended ==
  \A s, m0, m \in Nat :
    Unit(s) \in Appended(m0, m) <=> Whole(m0) <= s /\ s < Whole(m)
<1> SUFFICES ASSUME NEW s \in Nat, NEW m0 \in Nat, NEW m \in Nat
             PROVE  Unit(s) \in Appended(m0, m) <=> Whole(m0) <= s /\ s < Whole(m)
  OBVIOUS
<1>1. m0 \div Block \in Nat /\ m \div Block \in Nat
  BY BlockAssumption
<1>2. s < Whole(m) <=> Unit(s) < m \div Block
  BY UnitWhole
<1>3. s < Whole(m0) <=> Unit(s) < m0 \div Block
  BY UnitWhole
<1>4. Unit(s) \in Nat /\ Whole(m0) \in Nat /\ Whole(m) \in Nat
  BY UnitNat, WholeNat
<1> QED
  BY <1>1, <1>2, <1>3, <1>4 DEF Appended

(* Two consecutive generations live in the two header slots.               *)
LEMMA Parity == \A g \in Nat : /\ g % 2 \in {0, 1} /\ (g + 1) % 2 \in {0, 1}
                               /\ g % 2 # (g + 1) % 2
  OBVIOUS

(* Slots and row counts are natural numbers.                               *)
LEMMA SlotNat == Slot \subseteq Nat /\ \A m \in 0 .. Capacity : m \in Nat
  BY CapacityAssumption DEF Slot

-----------------------------------------------------------------------------
(* Steps that leave the file alone. *)

(* A step that leaves the file alone keeps what is said of its headers.    *)
LEMMA FileFrame ==
  ASSUME BaseInv, OtherInv, UNCHANGED <<file, acked>>
  PROVE  BaseInv' /\ OtherInv'
BY DEF BaseInv, OtherInv, file, Base, BaseSlot, OtherSlot, HasFile, Settled

(* Such a step keeps the acknowledged header and what is adoptable.        *)
LEMMA BaseFrame ==
  ASSUME UNCHANGED <<file, acked>>
  PROVE  /\ Base' = Base /\ HasFile' = HasFile
         /\ Adoptable(hdr, cell)' = Adoptable(hdr, cell)
BY DEF file, Base, BaseSlot, HasFile

(* Such a step keeps the visible and the durable image in agreement.       *)
LEMMA ImageFrame ==
  ASSUME ImageInv, UNCHANGED <<file, up>>
  PROVE  ImageInv'
BY DEF ImageInv, file, HasFile

(* The last acknowledged commit is a header body. *)
LEMMA BaseType ==
  ASSUME TypeOK, BaseInv, HasFile
  PROVE  /\ Base \in Body /\ Base.n \in 0 .. Capacity /\ Base.gen \in Nat
         /\ Base.row \in [Slot -> Row] /\ Base.delta \in [Slot -> Row]
         /\ Base.snap \in [Slot -> Row] /\ Base.mat \in SUBSET Nat
         /\ Base.n \in Nat /\ Whole(Base.n) \in Nat /\ Whole(Base.n) <= Base.n
<1>1. hdr[BaseSlot] \in Header
  BY Parity DEF TypeOK, BaseSlot
<1>2. Base \in Body
  BY <1>1 DEF Header, Base, BaseInv
<1> QED
  BY <1>2, WholeNat, CapacityAssumption DEF Body

-----------------------------------------------------------------------------
(* Edits. *)

(* Every vector of a batch is a vector.                                    *)
LEMMA BatchRows ==
  \A e \in 0 .. MaxEdits, k \in 0 .. Capacity :
    \A v \in Batch(e, k) : \A j \in 0 .. k - 1 : v[j] \in Vec
<1> SUFFICES ASSUME NEW e \in 0 .. MaxEdits, NEW k \in 0 .. Capacity,
                    NEW v \in Batch(e, k), NEW j \in 0 .. k - 1
             PROVE  v[j] \in Vec
  OBVIOUS
<1>1. j \in Slot
  BY CapacityAssumption DEF Slot
<1>2. CASE FreshRows
  <2>1. v = [i \in 0 .. k - 1 |-> e * Capacity + i]
    BY <1>2 DEF Batch
  <2>2. v[j] = e * Capacity + j
    BY <2>1, Zenon
  <2>3. e * Capacity + j \in Vec
    BY <1>1, <1>2, BoundAssumption
  <2> QED
    BY <2>2, <2>3
<1>3. CASE ~FreshRows
  BY <1>3 DEF Batch
<1> QED
  BY <1>2, <1>3

(* A row an unmarked slot holds in a whole unit of the bound commit is a   *)
(* row of the index: the slot is below the row count.                      *)
LEMMA CleanSlot ==
  ASSUME IInv, Bound, cursor.cal = cal,
         NEW s \in Slot \ fresh, s < Whole(cursor.n)
  PROVE  s < n /\ rows[s] = Base.snap[s]
<1>1. rows[s] = Base.snap[s]
  BY DEF IInv, CursorInv
<1>2. HasFile /\ cursor.n = Base.n
  BY DEF IInv, CursorInv
<1>3. s < Base.n
  BY <1>2, BaseType, SlotNat DEF IInv
<1>4. Base.snap[s] \in Cell
  BY <1>2, <1>3 DEF IInv, BaseInv, WellFormed
<1> QED
  BY <1>1, <1>4, MarkerAssumption DEF IInv, RowsInv

(* An edit keeps the bound commit and marks every row it changes.          *)
LEMMA EditCursor ==
  ASSUME IInv, UNCHANGED <<file, up, pending, cursor, job, acked>>,
         cal' \in Nat, cal <= cal',
         Bound /\ cursor.cal = cal' =>
           \A s \in Slot \ fresh' : s < Whole(cursor.n) => rows'[s] = Base.snap[s]
  PROVE  CursorInv'
<1>1. Bound' = Bound
  BY DEF Bound
<1>2. Bound => /\ cursor.cal \in Nat /\ cal \in Nat
  BY DEF IInv, TypeOK, Bound, Cursor
<1> SUFFICES ASSUME Bound
             PROVE  CursorInv'
  BY <1>1 DEF CursorInv
<1>3. /\ Base' = Base /\ HasFile' = HasFile
      /\ Adoptable(hdr, cell)' = Adoptable(hdr, cell)
  BY BaseFrame
<1>4. /\ up /\ HasFile
      /\ cursor = [gen |-> acked.gen, n |-> Base.n, cal |-> acked.cal]
      /\ pending = Redo(Base)
      /\ cursor.cal <= cal
      /\ job = Idle => \A i \in Adoptable(hdr, cell) : hdr[i].gen <= acked.gen
  BY DEF IInv, CursorInv
<1>5. cursor.cal <= cal'
  BY <1>2, <1>4
<1>6. UNCHANGED hdr
  BY DEF file
<1> QED
  BY <1>1, <1>3, <1>4, <1>5, <1>6 DEF CursorInv

(* encode_and_append writes only slots past the row count.                 *)
LEMMA AddStep == ASSUME IInv, Add PROVE IInv'
<1> USE DEF IInv
<1>1. PICK k \in BatchSizes :
        /\ n + k <= Capacity
        /\ n' = n + k
        /\ \E v \in Batch(edits + 1, k) :
             rows' = [s \in Slot |-> IF n <= s /\ s < n + k
                                     THEN <<v[s - n], cal>> ELSE rows[s]]
  BY DEF Add
<1>2. PICK v \in Batch(edits + 1, k) :
        rows' = [s \in Slot |-> IF n <= s /\ s < n + k
                                THEN <<v[s - n], cal>> ELSE rows[s]]
  BY <1>1
<1>3. /\ n \in Nat /\ cal \in Nat /\ edits \in Nat /\ k \in Nat
      /\ k \in 0 .. Capacity /\ n' \in 0 .. Capacity /\ edits + 1 \in 0 .. MaxEdits
  BY <1>1, BoundAssumption, CapacityAssumption DEF TypeOK, Add
<1>4. \A j \in 0 .. k - 1 : v[j] \in Vec
  BY <1>3, <1>2, BatchRows
<1>5. \A s \in Slot : IF s < n' THEN rows'[s] \in Cell ELSE rows'[s] = NoRow
  <2> SUFFICES ASSUME NEW s \in Slot
               PROVE  IF s < n' THEN rows'[s] \in Cell ELSE rows'[s] = NoRow
    OBVIOUS
  <2>1. CASE n <= s /\ s < n + k
    <3>1. s - n \in 0 .. k - 1
      BY <2>1, <1>3, SlotNat
    <3> QED
      BY <3>1, <2>1, <1>1, <1>2, <1>3, <1>4 DEF Cell
  <2>2. CASE ~(n <= s /\ s < n + k)
    BY <2>2, <1>1, <1>2, <1>3, SlotNat DEF RowsInv
  <2> QED
    BY <2>1, <2>2
<1>6. TypeOK'
  <2>1. rows' \in [Slot -> Row]
    BY <1>2, <1>5 DEF Row
  <2> QED
    BY <2>1, <1>3 DEF TypeOK, Add, file
<1>7. UNCHANGED <<file, up, cal, pending, fresh, cursor, job, acked>> /\ job = Idle
  BY DEF Add, Ready
<1>8. Bound /\ cursor.cal = cal' =>
       \A s \in Slot \ fresh : s < Whole(cursor.n) => rows'[s] = Base.snap[s]
  <2> SUFFICES ASSUME Bound, cursor.cal = cal,
                      NEW s \in Slot \ fresh, s < Whole(cursor.n)
               PROVE  rows'[s] = Base.snap[s]
    BY <1>7
  <2>1. s < n /\ rows[s] = Base.snap[s]
    BY CleanSlot
  <2> QED
    BY <2>1, <1>2, <1>3, SlotNat
<1>9. CursorInv'
  BY <1>7, <1>8, <1>3, EditCursor
<1> QED
  BY <1>5, <1>6, <1>7, <1>9, FileFrame, ImageFrame DEF RowsInv, JobInv

(* swap_remove marks both slots it changes (mark_dirty).                   *)
LEMMA SwapRemoveStep == ASSUME IInv, SwapRemove PROVE IInv'
<1> USE DEF IInv
<1>1. PICK i \in 0 .. n - 1 :
        /\ fresh' = MarkDirty({i, n - 1})
        /\ rows' = [rows EXCEPT ![i] = rows[n - 1], ![n - 1] = NoRow]
  BY DEF SwapRemove
<1>2. /\ n \in Nat /\ n > 0 /\ n' = n - 1 /\ n' \in 0 .. Capacity
      /\ cal \in Nat /\ edits \in Nat /\ n - 1 \in Slot /\ i \in Slot
      /\ rows \in [Slot -> Row]
  BY CapacityAssumption DEF SwapRemove, TypeOK, Slot
<1>3. \A s \in Slot : rows'[s] = IF s = n - 1 THEN NoRow
                                 ELSE IF s = i THEN rows[n - 1] ELSE rows[s]
  BY <1>1, <1>2
<1>4. \A s \in Slot : IF s < n' THEN rows'[s] \in Cell ELSE rows'[s] = NoRow
  BY <1>2, <1>3, SlotNat DEF RowsInv
<1>5. UNCHANGED <<file, up, cal, pending, cursor, job, acked>> /\ job = Idle
  BY DEF SwapRemove, Ready
<1>6. fresh' \subseteq Slot /\ fresh \subseteq fresh'
  BY <1>1, <1>2 DEF MarkDirty, TypeOK
<1>7. TypeOK'
  <2>1. NoRow \in Row /\ rows[n - 1] \in Row
    BY <1>2 DEF Row
  <2>2. rows' \in [Slot -> Row]
    BY <1>1, <1>2, <2>1
  <2>3. UNCHANGED <<tried, cuts>> /\ edits' = edits + 1
    BY DEF SwapRemove
  <2> QED
    BY <2>2, <2>3, <1>2, <1>5, <1>6 DEF TypeOK, file
<1>8. Bound /\ cursor.cal = cal' =>
       \A s \in Slot \ fresh' : s < Whole(cursor.n) => rows'[s] = Base.snap[s]
  <2> SUFFICES ASSUME Bound, cursor.cal = cal,
                      NEW s \in Slot \ fresh', s < Whole(cursor.n)
               PROVE  rows'[s] = Base.snap[s]
    BY <1>5
  <2>1. s # i /\ s # n - 1
    BY <1>1 DEF MarkDirty, Bound
  <2> QED
    BY <2>1, <1>3, <1>6, CleanSlot
<1>9. CursorInv'
  BY <1>5, <1>8, <1>2, EditCursor
<1> QED
  BY <1>4, <1>5, <1>7, <1>9, FileFrame, ImageFrame DEF RowsInv, JobInv

(* calibrate_2d outdates the cursor's calibration.                         *)
LEMMA CalibrateStep == ASSUME IInv, Calibrate PROVE IInv'
<1> USE DEF IInv
<1>1. cal \in Nat /\ cal' = cal + 1 /\ n \in Nat
  BY CapacityAssumption DEF Calibrate, TypeOK
<1>2. UNCHANGED <<file, up, n, pending, fresh, cursor, job, acked>> /\ job = Idle
  BY DEF Calibrate, Ready
<1>3. \A s \in Slot : IF s < n' THEN rows'[s] \in Cell ELSE rows'[s] = NoRow
  BY <1>1, <1>2 DEF Calibrate, RowsInv, Cell
<1>4. TypeOK'
  <2>1. rows' \in [Slot -> Row]
    BY <1>3 DEF Row, Calibrate
  <2> QED
    BY <2>1, <1>1 DEF TypeOK, Calibrate, file
<1>5. Bound => cursor.cal <= cal /\ cursor.cal \in Nat
  BY DEF CursorInv, TypeOK, Bound, Cursor
<1>6. CursorInv'
  BY <1>1, <1>2, <1>5, EditCursor
<1> QED
  BY <1>2, <1>3, <1>4, <1>6, FileFrame, ImageFrame DEF RowsInv, JobInv

-----------------------------------------------------------------------------
(* Dropping the binding, as a failed sync does, is always safe.            *)
LEMMA UnbindStep ==
  ASSUME IInv, WriteFullError \/ SyncError
  PROVE  IInv'
<1> USE DEF IInv
<1>1. /\ UNCHANGED <<file, up, n, rows, cal, pending, fresh, acked, tried, edits, cuts>>
      /\ cursor' = NoCursor /\ job' = Idle
  BY DEF WriteFullError, SyncError, Ready
<1>2. TypeOK'
  <2>1. Idle \in [stage : Stages, todo : SUBSET Nat, body : Body \cup {NoBody},
                  carried : SUBSET Slot]
    BY DEF Idle, Stages
  <2> QED
    BY <1>1, <2>1 DEF TypeOK, file
<1> QED
  BY <1>1, <1>2, FileFrame, ImageFrame DEF RowsInv, JobInv, CursorInv, Bound

-----------------------------------------------------------------------------
(* The plan of an incremental sync. *)

(* The slots of a unit are on one side of a whole-unit boundary.           *)
LEMMA SameUnit ==
  \A s, t, m \in Nat : Unit(s) = Unit(t) /\ s < Whole(m) => t < Whole(m)
BY UnitWhole

(* Carried rows are live and in dirtied units; written units hold none of  *)
(* them; a written unit that was committed before holds no fresh slot.     *)
LEMMA PlanUnits ==
  ASSUME NEW m0 \in 0 .. Capacity, NEW m \in 0 .. Capacity,
         NEW P \in SUBSET Slot, NEW F \in SUBSET Slot,
         NEW carry, carry = Carried(m0, m, P, F),
         NEW todo, todo = Materialize(m0, m, P, F) \cup Appended(m0, m)
  PROVE  \A s \in Slot :
            /\ s \in carry => s < Whole(m0) /\ s < Whole(m)
            /\ s \in carry => \A t \in Slot : Unit(t) = Unit(s) => Unit(t) \notin todo
            /\ Unit(s) \in todo => s < Whole(m)
            /\ Unit(s) \in todo /\ s < Whole(m0) => s \notin F
            /\ s < Whole(m) /\ Whole(m0) <= s => Unit(s) \in todo
            /\ s < Whole(m) /\ s < Whole(m0) /\ s \in P \cup F =>
                 s \in carry \/ Unit(s) \in todo
            /\ s < Whole(m) /\ s < Whole(m0) /\ s \in F => s \in carry
<1> TAKE s \in Slot
<1>1. m0 \in Nat /\ m \in Nat /\ s \in Nat /\ Slot \subseteq Nat
  BY SlotNat
<1>2. Whole(m0) \in Nat /\ Whole(m) \in Nat
  BY <1>1, WholeNat
<1>3. \A t \in Slot : Unit(t) \in Appended(m0, m) <=> Whole(m0) <= t /\ t < Whole(m)
  BY <1>1, UnitAppended
<1>4. \A t, u \in Slot : /\ Unit(t) = Unit(u) /\ t < Whole(m) => u < Whole(m)
                         /\ Unit(t) = Unit(u) /\ t < Whole(m0) => u < Whole(m0)
  BY <1>1, SameUnit
<1>5. s \in carry => s < Whole(m0) /\ s < Whole(m)
  BY DEF Carried, Live
<1>6. s \in carry => \A t \in Slot : Unit(t) = Unit(s) => Unit(t) \notin todo
  <2> SUFFICES ASSUME s \in carry, NEW t \in Slot, Unit(t) = Unit(s)
               PROVE  Unit(t) \notin todo
    OBVIOUS
  <2>1. Unit(t) \in FreshUnits(m0, m, F)
    BY DEF Carried
  <2>2. t < Whole(m0) /\ t \in Nat
    BY <1>1, <1>4, <1>5
  <2> QED
    BY <1>2, <1>3, <2>1, <2>2 DEF Materialize
<1>7. Unit(s) \in todo => s < Whole(m)
  <2>1. CASE Unit(s) \in Materialize(m0, m, P, F)
    <3>1. PICK t \in P : Unit(t) = Unit(s) /\ t < Whole(m)
      BY <2>1 DEF Materialize, Live
    <3> QED
      BY <3>1, <1>4
  <2> QED
    BY <2>1, <1>3
<1>8. Unit(s) \in todo /\ s < Whole(m0) => s \notin F
  <2> SUFFICES ASSUME Unit(s) \in todo, s < Whole(m0), s \in F
               PROVE  FALSE
    OBVIOUS
  <2>1. Unit(s) \in Materialize(m0, m, P, F)
    BY <1>1, <1>2, <1>3
  <2>2. s \in Live(m0, m, F)
    BY <1>7 DEF Live
  <2> QED
    BY <2>1, <2>2 DEF Materialize, FreshUnits
<1>9. s < Whole(m) /\ Whole(m0) <= s => Unit(s) \in todo
  BY <1>3
<1>10. s < Whole(m) /\ s < Whole(m0) /\ s \in P \cup F =>
         s \in carry \/ Unit(s) \in todo
  BY DEF Carried, Materialize, FreshUnits, Live
<1>11. s < Whole(m) /\ s < Whole(m0) /\ s \in F => s \in carry
  BY DEF Carried, FreshUnits, Live
<1> QED
  BY <1>5, <1>6, <1>7, <1>8, <1>9, <1>10, <1>11

(* The redo groups and the materialized units of a plan that fits have     *)
(* room in its header.                                                     *)
LEMMA UnitsRoom ==
  ASSUME NEW S \in SUBSET Slot
  PROVE  /\ IsFiniteSet(S) /\ IsFiniteSet({Unit(s) : s \in S})
         /\ Cardinality({Unit(s) : s \in S}) <= Cardinality(S)
         /\ Cardinality({Unit(s) : s \in S}) \in Nat /\ Cardinality(S) \in Nat
         /\ \A U \in SUBSET {Unit(s) : s \in S} :
              /\ Cardinality(U) \in Nat
              /\ Cardinality(U) <= Cardinality({Unit(s) : s \in S})
<1>1. IsFiniteSet(Slot)
  BY FS_Interval, CapacityAssumption DEF Slot
<1>2. IsFiniteSet(S)
  BY <1>1, FS_Subset
<1>3. /\ IsFiniteSet({Unit(s) : s \in S})
      /\ Cardinality({Unit(s) : s \in S}) <= Cardinality(S)
  <2> DEFINE f == [s \in S |-> Unit(s)]
             img == {Unit(s) : s \in S}
  <2>1. f \in Surjection(S, img)
    BY DEF Surjection
  <2> QED
    BY <1>2, <2>1, FS_Surjection
<1> QED
  BY <1>2, <1>3, FS_Subset, FS_CardinalityType

(* The header plan_incremental builds is a commit made from the bound one. *)
LEMMA PlanFollows ==
  ASSUME IInv, Ready, Bound, cursor.cal = cal, PlanFits,
         NEW carry, carry = Carried(cursor.n, n, pending, fresh),
         NEW mat, mat = Materialize(cursor.n, n, pending, fresh),
         NEW todo, todo = mat \cup Appended(cursor.n, n),
         NEW b, b = HeaderSlot(cursor.gen + 1, n, rows, carry, mat, todo)
  PROVE  /\ b \in Body /\ todo \subseteq Nat /\ carry \subseteq Slot
         /\ Follows(b, Base) /\ Room(b)
         /\ b.n = n /\ b.snap = rows /\ b.gen = acked.gen + 1
         /\ carry = Redo(b)
         /\ \A s \in Slot :
              /\ Unit(s) \in todo <=> b.delta[s] # NoRow
              /\ b.delta[s] # NoRow /\ s < Whole(Base.n) => rows[s] = Base.snap[s]
<1> USE DEF IInv
<1>1. /\ HasFile /\ cursor.gen = acked.gen /\ cursor.n = Base.n
      /\ pending = Redo(Base) /\ pending \subseteq Slot /\ fresh \subseteq Slot
      /\ acked.gen \in Nat
  BY DEF CursorInv, TypeOK
<1>2. /\ Base.n \in 0 .. Capacity /\ n \in 0 .. Capacity
      /\ Base.n \in Nat /\ n \in Nat /\ Slot \subseteq Nat
      /\ Whole(n) \in Nat /\ Whole(n) <= n
      /\ Whole(Base.n) \in Nat /\ Whole(Base.n) <= Base.n
  BY <1>1, BaseType, SlotNat, WholeNat DEF TypeOK
<1>3. \A s \in Slot :
        /\ s \in carry => s < Whole(Base.n) /\ s < Whole(n)
        /\ s \in carry => \A t \in Slot : Unit(t) = Unit(s) => Unit(t) \notin todo
        /\ Unit(s) \in todo => s < Whole(n)
        /\ Unit(s) \in todo /\ s < Whole(Base.n) => s \notin fresh
        /\ s < Whole(n) /\ Whole(Base.n) <= s => Unit(s) \in todo
        /\ s < Whole(n) /\ s < Whole(Base.n) /\ s \in pending \cup fresh =>
             s \in carry \/ Unit(s) \in todo
        /\ s < Whole(n) /\ s < Whole(Base.n) /\ s \in fresh => s \in carry
  <2>1. /\ carry = Carried(Base.n, n, pending, fresh)
        /\ todo = Materialize(Base.n, n, pending, fresh) \cup Appended(Base.n, n)
    BY <1>1
  <2>2. pending \in SUBSET Slot /\ fresh \in SUBSET Slot
    BY <1>1
  <2>3. Base.n \in 0 .. Capacity /\ n \in 0 .. Capacity
    BY <1>2
  <2> HIDE DEF IInv
  <2> QED
    BY ONLY <2>1, <2>2, <2>3, PlanUnits
<1>4. carry \subseteq Slot
  BY <1>1 DEF Carried, Live
<1>5. mat \subseteq {Unit(s) : s \in Redo(Base)}
  BY <1>1 DEF Materialize, Live
<1>6. mat \subseteq Nat /\ todo \subseteq Nat
  <2>1. Redo(Base) \subseteq Nat
    BY <1>2 DEF Redo
  <2>2. mat \subseteq Nat
    BY <1>5, <2>1, UnitNat
  <2>3. Base.n \div Block \in Nat
    BY <1>2, BlockAssumption
  <2>4. Appended(Base.n, n) \subseteq Nat
    BY <2>3, <1>2, BlockAssumption DEF Appended
  <2> QED
    BY <1>1, <2>2, <2>4
<1>7. /\ b.gen = acked.gen + 1 /\ b.n = n /\ b.snap = rows /\ b.mat = mat
      /\ b.row = [s \in Slot |-> IF s \in carry \/ (Whole(n) <= s /\ s < n)
                                 THEN rows[s] ELSE NoRow]
      /\ b.delta = [s \in Slot |-> IF Unit(s) \in todo THEN rows[s] ELSE NoRow]
  BY <1>1 DEF HeaderSlot
<1>8. \A s \in Slot : s < n => rows[s] \in Cell /\ rows[s] # NoRow
  BY MarkerAssumption DEF RowsInv
<1>9. rows \in [Slot -> Row] /\ NoRow \in Row
  BY DEF TypeOK, Row
<1>10. b \in Body
  <2>1. b.row \in [Slot -> Row] /\ b.delta \in [Slot -> Row]
    BY <1>7, <1>9
  <2> QED
    BY <1>1, <1>2, <1>6, <1>7, <1>9, <2>1 DEF Body, HeaderSlot
<1>18. \A s \in Slot : s < Whole(n) => s < n /\ ~(Whole(n) <= s)
  BY <1>2
<1>11. \A s \in Slot : b.delta[s] # NoRow <=> Unit(s) \in todo
  <2> TAKE s \in Slot
  <2>1. b.delta[s] = IF Unit(s) \in todo THEN rows[s] ELSE NoRow
    BY <1>7
  <2> QED
    BY <2>1, <1>18, <1>3, <1>8
<1>12. \A s \in Slot : b.row[s] # NoRow <=> s \in carry \/ (Whole(n) <= s /\ s < n)
  <2> TAKE s \in Slot
  <2>1. b.row[s] = IF s \in carry \/ (Whole(n) <= s /\ s < n) THEN rows[s] ELSE NoRow
    BY <1>7
  <2> QED
    BY <2>1, <1>18, <1>3, <1>8
<1>13. carry = Redo(b)
  <2>1. \A s \in Slot : s \in carry <=> s < Whole(n) /\ b.row[s] # NoRow
    BY <1>3, <1>12, <1>18
  <2> QED
    BY <2>1, <1>4, <1>7 DEF Redo
<1>14. WellFormed(b)
  <2>1. \A s \in Slot : IF s < b.n THEN b.snap[s] \in Cell ELSE b.snap[s] = NoRow
    BY <1>7 DEF RowsInv
  <2>2. \A s \in Slot : b.row[s] # NoRow => s < b.n /\ b.row[s] = b.snap[s]
    BY <1>2, <1>3, <1>7, <1>12
  <2>3. \A s \in Slot : Whole(b.n) <= s /\ s < b.n => b.row[s] # NoRow
    BY <1>7, <1>12
  <2>4. \A s \in Slot : b.delta[s] # NoRow => s < Whole(b.n) /\ b.delta[s] = b.snap[s]
    BY <1>3, <1>7, <1>11
  <2>5. \A s \in Redo(b), t \in Slot : Unit(s) = Unit(t) => b.delta[t] = NoRow
    BY <1>3, <1>4, <1>11, <1>13
  <2> QED
    BY <2>1, <2>2, <2>3, <2>4, <2>5 DEF WellFormed
<1>15. \A s \in Slot : s \notin fresh /\ s < Whole(Base.n) => rows[s] = Base.snap[s]
  BY <1>1 DEF CursorInv
<1>16. Follows(b, Base)
  <2>1. ASSUME NEW s \in Slot, s < Whole(n)
        PROVE  \/ b.row[s] # NoRow /\ s < Whole(Base.n)
               \/ b.delta[s] # NoRow
               \/ s < Whole(Base.n) /\ Base.row[s] = NoRow /\ b.snap[s] = Base.snap[s]
    <3>1. CASE s \in carry \/ Unit(s) \in todo
      BY <3>1, <1>3, <1>11, <1>12
    <3>2. CASE ~(s \in carry \/ Unit(s) \in todo)
      <4>1. s < Whole(Base.n) /\ s \notin pending /\ s \notin fresh
        BY <3>2, <2>1, <1>2, <1>3
      <4>2. Base.row[s] = NoRow
        BY <4>1, <1>1 DEF Redo
      <4> QED
        BY <4>1, <4>2, <1>7, <1>15
    <3> QED
      BY <3>1, <3>2
  <2> QED
    BY <2>1, <1>1, <1>7, <1>14 DEF Follows, BaseInv
<1>17. Room(b)
  <2>1. Cardinality({Unit(s) : s \in Redo(b)}) <= MaxOps
    BY <1>4, <1>13, UnitsRoom, MaxOpsAssumption DEF PlanFits
  <2>2. Redo(Base) \subseteq Slot /\ Cardinality({Unit(s) : s \in Redo(Base)}) <= MaxOps
    BY <1>1 DEF BaseInv, Room
  <2>3. Cardinality(mat) <= MaxOps
    BY <1>5, <2>2, UnitsRoom, MaxOpsAssumption
  <2> QED
    BY <2>1, <2>3, <1>7 DEF Room
<1> QED
  BY <1>3, <1>4, <1>6, <1>7, <1>10, <1>11, <1>13, <1>15, <1>16, <1>17

(* plan_incremental starts a job that JobInv describes.                    *)
LEMMA BeginSyncStep == ASSUME IInv, BeginSync PROVE IInv'
<1> USE DEF IInv
<1> DEFINE carry == Carried(cursor.n, n, pending, fresh)
           mat   == Materialize(cursor.n, n, pending, fresh)
           todo  == mat \cup Appended(cursor.n, n)
           b     == HeaderSlot(cursor.gen + 1, n, rows, carry, mat, todo)
           stage == IF StaleAhead(cursor.gen, hdr, cell) THEN "wipe" ELSE "units"
<1>1. /\ Ready /\ Bound /\ cursor.cal = cal /\ PlanFits
      /\ UNCHANGED <<file, up, index, acked, edits, cuts>> /\ tried' = rows
      /\ job' = [stage |-> stage, todo |-> todo, body |-> b, carried |-> carry]
  BY DEF BeginSync, Incremental, State, Bound
<1>2. stage \in Stages /\ stage # "fsync"
  BY DEF Stages
<1> HIDE DEF stage, b, todo, mat, carry
<1>3. /\ b \in Body /\ todo \subseteq Nat /\ carry \subseteq Slot
      /\ Follows(b, Base) /\ Room(b)
      /\ b.n = n /\ b.snap = rows /\ b.gen = acked.gen + 1
      /\ carry = Redo(b)
      /\ \A s \in Slot :
           /\ Unit(s) \in todo <=> b.delta[s] # NoRow
           /\ b.delta[s] # NoRow /\ s < Whole(Base.n) => rows[s] = Base.snap[s]
  BY <1>1, PlanFollows DEF b, todo, mat, carry
<1>4. UNCHANGED <<n, rows, cal, pending, fresh, cursor>> /\ job = Idle
  BY <1>1 DEF index, Ready
<1>5. TypeOK'
  BY <1>1, <1>2, <1>3, <1>4 DEF TypeOK, file
<1>6. BaseInv' /\ OtherInv' /\ ImageInv' /\ RowsInv'
  BY <1>1, <1>4, FileFrame, ImageFrame DEF RowsInv
<1>7. Base' = Base /\ HasFile' = HasFile /\ Adoptable(hdr, cell)' = Adoptable(hdr, cell)
  BY <1>1, BaseFrame
<1>8. CursorInv'
  BY <1>1, <1>4, <1>7 DEF CursorInv, Bound, file
<1>9. JobInv'
  <2>1. /\ job'.stage = stage /\ job'.todo = todo /\ job'.body = b
        /\ job'.carried = carry
    BY <1>1
  <2>2. b # NoBody
    BY <1>3, NoBodyAssumption
  <2> QED
    BY <2>1, <2>2, <1>1, <1>2, <1>3, <1>4, <1>7 DEF JobInv, Bound
<1> QED
  BY <1>5, <1>6, <1>8, <1>9

-----------------------------------------------------------------------------
(* Writing: the header slot that is not Base's, and units Base can do      *)
(* without.                                                                *)

(* A tear of a header write mixes generations and bodies of the headers    *)
(* that were there; it makes no new body.                                  *)
LEMMA TornBodies ==
  ASSUME NEW old \in SUBSET Header, NEW v \in Header
  PROVE  /\ MaybeHdr(old, v) \in SUBSET Header
         /\ v \in MaybeHdr(old, v)
         /\ \A w \in MaybeHdr(old, v) :
              \/ w.body = NoBody
              \/ w.body = v.body
              \/ \E h \in old : w.body = h.body
<1>1. Blank \in Header /\ Blank.body = NoBody
  BY DEF Blank, Header, NoGen
<1>2. \A h \in old : h \in Header
  OBVIOUS
<1>3. \A g \in Header, h \in Header : [gen |-> g.gen, body |-> h.body] \in Header
  BY DEF Header
<1>4. \A w \in Tears(old, v) :
        /\ w \in Header
        /\ w.body = NoBody \/ w.body = v.body \/ \E h \in old : w.body = h.body
  BY <1>1, <1>2, <1>3 DEF Tears
<1> QED
  BY <1>4 DEF MaybeHdr

(* An idle job is in no stage of a sync.                                   *)
LEMMA IdleStage == Idle.stage = "idle"
  BY DEF Idle

(* What JobInv says of a job that is under way.                            *)
LEMMA JobFacts ==
  ASSUME IInv, job # Idle
  PROVE  /\ Bound /\ HasFile /\ up
         /\ acked.gen \in Nat /\ Base.gen = acked.gen
         /\ BaseSlot \in {0, 1} /\ OtherSlot \in {0, 1} /\ BaseSlot # OtherSlot
         /\ job.body \in Body /\ job.body # NoBody
         /\ job.body.gen = acked.gen + 1 /\ job.body.gen % 2 = OtherSlot
<1>1. Bound /\ HasFile /\ up /\ Follows(job.body, Base) /\ job.body # NoBody
  BY DEF IInv, JobInv, CursorInv
<1>2. acked.gen \in Nat /\ Base.gen = acked.gen
  BY <1>1 DEF IInv, BaseInv, TypeOK
<1>3. job.body \in Body
  BY <1>1 DEF IInv, TypeOK
<1> QED
  BY <1>1, <1>2, <1>3, Parity DEF Follows, BaseSlot, OtherSlot

(* A header write goes to the slot the bound commit is not in.             *)
LEMMA PutHeaderInv ==
  ASSUME IInv, job # Idle,
         NEW v \in Header, v.body \in {NoBody, job.body}, PutHeader(v),
         UNCHANGED <<sb, cell, mcell, up, acked>>
  PROVE  /\ hdr' \in [{0, 1} -> Header] /\ mhdr' \in [{0, 1} -> SUBSET Header]
         /\ Base' = Base /\ HasFile' = HasFile /\ hdr'[OtherSlot] = v
         /\ ImageInv' /\ BaseInv' /\ OtherInv'
<1> USE DEF IInv
<1>1. /\ HasFile /\ up /\ job.body.gen % 2 = OtherSlot
      /\ BaseSlot \in {0, 1} /\ OtherSlot \in {0, 1} /\ BaseSlot # OtherSlot
  BY JobFacts
<1>2. hdr \in [{0, 1} -> Header] /\ mhdr \in [{0, 1} -> SUBSET Header]
  BY DEF TypeOK
<1>3. /\ hdr' = [hdr EXCEPT ![OtherSlot] = v]
      /\ mhdr' = [mhdr EXCEPT ![OtherSlot] = MaybeHdr(mhdr[OtherSlot], v)]
  BY <1>1 DEF PutHeader
<1> DEFINE M == MaybeHdr(mhdr[OtherSlot], v)
<1>4. /\ M \in SUBSET Header /\ v \in M
      /\ \A w \in M : \/ w.body = NoBody
                      \/ w.body = v.body
                      \/ \E h \in mhdr[OtherSlot] : w.body = h.body
  BY <1>1, <1>2, TornBodies
<1> HIDE DEF M
<1>5. mhdr' = [mhdr EXCEPT ![OtherSlot] = M]
  BY <1>3 DEF M
<1>6. hdr' \in [{0, 1} -> Header] /\ mhdr' \in [{0, 1} -> SUBSET Header]
  BY <1>1, <1>2, <1>3, <1>4, <1>5
<1>7. /\ hdr'[OtherSlot] = v /\ mhdr'[OtherSlot] = M
      /\ hdr'[BaseSlot] = hdr[BaseSlot] /\ mhdr'[BaseSlot] = mhdr[BaseSlot]
  BY <1>1, <1>2, <1>3, <1>5
<1>8. BaseSlot' = BaseSlot /\ OtherSlot' = OtherSlot /\ HasFile' = HasFile
  BY DEF BaseSlot, OtherSlot, HasFile
<1>9. Base' = Base
  BY <1>7, <1>8 DEF Base
<1>10. \A i \in {0, 1} : i = BaseSlot \/ i = OtherSlot
  BY <1>1
<1>11. ImageInv'
  BY <1>1, <1>4, <1>7, <1>8, <1>10 DEF ImageInv
<1>12. BaseInv'
  BY <1>1, <1>7, <1>8, <1>9 DEF BaseInv, Settled
<1>13. OtherInv'
  <2>1. Follows(job.body, Base)
    BY DEF JobInv
  <2>2. \A w \in M : w.body = NoBody \/ w.body.gen < acked.gen \/ Follows(w.body, Base)
    BY <1>1, <1>4, <2>1 DEF OtherInv
  <2> QED
    BY <2>2, <1>7, <1>8, <1>9 DEF OtherInv
<1> QED
  BY <1>6, <1>7, <1>8, <1>9, <1>11, <1>12, <1>13

(* The repair batch only destroys the other slot's header.                 *)
LEMMA WriteWipeStep == ASSUME IInv, WriteWipe PROVE IInv'
<1> USE DEF IInv
<1>1. /\ job.stage = "wipe" /\ up /\ PutHeader(Blank)
      /\ job' = [job EXCEPT !.stage = "wipe fsync"]
      /\ UNCHANGED <<sb, cell, mcell, up, n, rows, cal, pending, fresh, cursor,
                     acked, tried, edits, cuts>>
  BY DEF WriteWipe, index
<1>2. job # Idle
  BY <1>1, IdleStage
<1>3. /\ job' \in [stage : Stages, todo : SUBSET Nat, body : Body \cup {NoBody},
                   carried : SUBSET Slot]
      /\ job'.stage = "wipe fsync" /\ job'.todo = job.todo /\ job'.body = job.body
      /\ job'.carried = job.carried
  BY <1>1 DEF TypeOK, Stages
<1>4. Blank \in Header /\ Blank.body = NoBody
  BY DEF Blank, Header
<1>5. /\ hdr' \in [{0, 1} -> Header] /\ mhdr' \in [{0, 1} -> SUBSET Header]
      /\ Base' = Base /\ HasFile' = HasFile
      /\ ImageInv' /\ BaseInv' /\ OtherInv'
  BY <1>1, <1>2, <1>4, PutHeaderInv
<1>6. TypeOK' /\ RowsInv'
  BY <1>1, <1>3, <1>5 DEF TypeOK, RowsInv
<1>7. job' # Idle
  BY <1>3, IdleStage
<1>8. CursorInv'
  BY <1>1, <1>5, <1>7 DEF CursorInv, Bound
<1>9. JobInv'
  BY <1>1, <1>2, <1>3, <1>5 DEF JobInv, Bound
<1> QED
  BY <1>5, <1>6, <1>8, <1>9

(* The last op of the batch puts the new commit in the other slot.         *)
LEMMA WriteHeaderStep == ASSUME IInv, WriteHeader PROVE IInv'
<1> USE DEF IInv
<1>1. /\ job.stage = "units" /\ job.todo = {} /\ up /\ PutHeader(Sealed(job.body))
      /\ job' = [job EXCEPT !.stage = "fsync"]
      /\ UNCHANGED <<sb, cell, mcell, up, n, rows, cal, pending, fresh, cursor,
                     acked, tried, edits, cuts>>
  BY DEF WriteHeader, index
<1>2. job # Idle
  BY <1>1, IdleStage
<1>3. /\ job' \in [stage : Stages, todo : SUBSET Nat, body : Body \cup {NoBody},
                   carried : SUBSET Slot]
      /\ job'.stage = "fsync" /\ job'.todo = job.todo /\ job'.body = job.body
      /\ job'.carried = job.carried
  BY <1>1 DEF TypeOK, Stages
<1>4. Sealed(job.body) \in Header /\ Sealed(job.body).body = job.body
  BY <1>2, JobFacts DEF Sealed, Header
<1>5. /\ hdr' \in [{0, 1} -> Header] /\ mhdr' \in [{0, 1} -> SUBSET Header]
      /\ Base' = Base /\ HasFile' = HasFile /\ hdr'[OtherSlot] = Sealed(job.body)
      /\ ImageInv' /\ BaseInv' /\ OtherInv'
  BY <1>1, <1>2, <1>4, PutHeaderInv
<1>6. TypeOK' /\ RowsInv'
  BY <1>1, <1>3, <1>5 DEF TypeOK, RowsInv
<1>7. job' # Idle
  BY <1>3, IdleStage
<1>8. CursorInv'
  BY <1>1, <1>5, <1>7 DEF CursorInv, Bound
<1>9. JobInv'
  <2>1. OtherSlot' = OtherSlot
    BY <1>1 DEF OtherSlot
  <2> QED
    BY <2>1, <1>1, <1>2, <1>3, <1>5 DEF JobInv, Bound
<1> QED
  BY <1>5, <1>6, <1>8, <1>9

(* What may be on disk only ever shrinks in an fsync or a power failure.   *)
LEMMA Shrink ==
  ASSUME IInv, UNCHANGED <<sb, acked>>,
         cell' \in [Slot -> Disk], hdr' \in [{0, 1} -> Header],
         \A s \in Slot : cell'[s] \in mcell[s],
         \A i \in {0, 1} : hdr'[i] \in mhdr[i],
         mcell' = [s \in Slot |-> {cell'[s]}],
         mhdr' = [i \in {0, 1} |-> {hdr'[i]}],
         up' => up
  PROVE  /\ mcell' \in [Slot -> SUBSET Disk] /\ mhdr' \in [{0, 1} -> SUBSET Header]
         /\ (HasFile => Base' = Base)
         /\ HasFile' = HasFile /\ OtherSlot' = OtherSlot
         /\ BaseInv' /\ OtherInv' /\ (HasFile => ImageInv')
<1> USE DEF IInv
<1>1. mcell' \in [Slot -> SUBSET Disk] /\ mhdr' \in [{0, 1} -> SUBSET Header]
  BY DEF TypeOK
<1>2. BaseSlot' = BaseSlot /\ OtherSlot' = OtherSlot /\ HasFile' = HasFile
  BY DEF BaseSlot, OtherSlot, HasFile
<1>3. BaseSlot \in {0, 1} /\ OtherSlot \in {0, 1}
  BY Parity DEF TypeOK, BaseSlot, OtherSlot
<1>4. HasFile => hdr'[BaseSlot] = hdr[BaseSlot]
  BY <1>3 DEF BaseInv
<1>5. HasFile => Base' = Base
  BY <1>2, <1>4 DEF Base
<1>6. BaseInv'
  <2> SUFFICES ASSUME HasFile PROVE BaseInv'
    BY <1>2 DEF BaseInv
  <2>1. Settled(Base)'
    <3>1. \A s \in Slot : mcell'[s] = {cell'[s]} /\ cell'[s] \in mcell[s]
      OBVIOUS
    <3>2. Settled(Base)
      BY DEF BaseInv
    <3> QED
      BY <3>1, <3>2, <1>5 DEF Settled
  <2>2. mhdr'[BaseSlot] = {hdr'[BaseSlot]}
    BY <1>3
  <2> QED
    BY <2>1, <2>2, <1>2, <1>4, <1>5 DEF BaseInv
<1>7. OtherInv'
  BY <1>2, <1>3, <1>5 DEF OtherInv
<1>8. HasFile => ImageInv'
  BY <1>2 DEF ImageInv
<1> QED
  BY <1>1, <1>2, <1>5, <1>6, <1>7, <1>8

(* The barrier after the repair batch settles what it wrote.               *)
LEMMA WipeFsyncStep == ASSUME IInv, WipeFsync PROVE IInv'
<1> USE DEF IInv
<1>1. /\ job.stage = "wipe fsync" /\ up
      /\ job' = [job EXCEPT !.stage = "units"]
      /\ mcell' = [s \in Slot |-> {cell'[s]}]
      /\ mhdr' = [i \in {0, 1} |-> {hdr'[i]}]
      /\ UNCHANGED <<sb, cell, hdr, up, n, rows, cal, pending, fresh, cursor,
                     acked, tried, edits, cuts>>
  BY DEF WipeFsync, Fsync, index
<1>2. job # Idle
  BY <1>1, IdleStage
<1>3. /\ job' \in [stage : Stages, todo : SUBSET Nat, body : Body \cup {NoBody},
                   carried : SUBSET Slot]
      /\ job'.stage = "units" /\ job'.todo = job.todo /\ job'.body = job.body
      /\ job'.carried = job.carried
  BY <1>1 DEF TypeOK, Stages
<1>4. /\ cell' \in [Slot -> Disk] /\ hdr' \in [{0, 1} -> Header]
      /\ \A s \in Slot : cell'[s] \in mcell[s]
      /\ \A i \in {0, 1} : hdr'[i] \in mhdr[i]
  BY <1>1 DEF TypeOK, ImageInv
<1>5. /\ mcell' \in [Slot -> SUBSET Disk] /\ mhdr' \in [{0, 1} -> SUBSET Header]
      /\ (HasFile => Base' = Base)
      /\ HasFile' = HasFile /\ OtherSlot' = OtherSlot
      /\ BaseInv' /\ OtherInv' /\ (HasFile => ImageInv')
  BY <1>1, <1>4, Shrink
<1>6. HasFile
  BY <1>2, JobFacts
<1>7. TypeOK' /\ RowsInv'
  BY <1>1, <1>3, <1>4, <1>5 DEF TypeOK, RowsInv
<1>8. job' # Idle
  BY <1>3, IdleStage
<1>9. CursorInv'
  BY <1>1, <1>5, <1>6, <1>8 DEF CursorInv, Bound
<1>10. JobInv'
  BY <1>1, <1>2, <1>3, <1>5, <1>6 DEF JobInv, Bound
<1> QED
  BY <1>5, <1>6, <1>7, <1>9, <1>10

(* A unit write adds to a slot only the new row and a torn one.            *)
LEMMA TornCells ==
  ASSUME NEW old \in SUBSET Disk, NEW v \in Cell
  PROVE  /\ MaybeCell(old, v) \in SUBSET Disk /\ v \in MaybeCell(old, v)
         /\ Hole \notin old => Hole \notin MaybeCell(old, v)
         /\ old = {v} => MaybeCell(old, v) = {v}
<1>1. v \in Disk /\ Junk \in Disk /\ v # Hole /\ Junk # Hole
  BY MarkerAssumption DEF Disk
<1>2. CASE old = {v}
  BY <1>1, <1>2 DEF MaybeCell
<1>3. CASE old # {v}
  <2>1. MaybeCell(old, v) = old \cup {v, Junk}
    BY <1>3 DEF MaybeCell
  <2> QED
    BY <1>1, <1>3, <2>1
<1> QED
  BY <1>2, <1>3

(* The units a sync writes are ones the bound commit does not read.        *)
LEMMA WriteUnitStep == ASSUME IInv, WriteUnit PROVE IInv'
<1> USE DEF IInv
<1>1. /\ job.stage = "units" /\ up
      /\ UNCHANGED <<sb, hdr, mhdr, up, n, rows, cal, pending, fresh, cursor,
                     acked, tried, edits, cuts>>
  BY DEF WriteUnit, index
<1>2. PICK b \in job.todo :
        /\ cell' = [s \in Slot |-> IF Unit(s) = b THEN rows[s] ELSE cell[s]]
        /\ mcell' = [s \in Slot |-> IF Unit(s) = b THEN MaybeCell(mcell[s], rows[s])
                                                   ELSE mcell[s]]
        /\ job' = [job EXCEPT !.todo = job.todo \ {b}]
  BY DEF WriteUnit
<1>3. job # Idle
  BY <1>1, IdleStage
<1>4. /\ job' \in [stage : Stages, todo : SUBSET Nat, body : Body \cup {NoBody},
                   carried : SUBSET Slot]
      /\ job'.stage = "units" /\ job'.todo = job.todo \ {b} /\ job'.body = job.body
      /\ job'.carried = job.carried
  BY <1>1, <1>2 DEF TypeOK
<1>5. /\ HasFile /\ Follows(job.body, Base) /\ WellFormed(job.body)
      /\ job.body.delta \in [Slot -> Row] /\ job.body.snap = rows
  BY <1>3, JobFacts DEF JobInv, Follows, Body
<1>6. \A s \in Slot : Unit(s) = b => /\ job.body.delta[s] # NoRow
                                     /\ rows[s] = job.body.delta[s]
                                     /\ rows[s] \in Cell
  BY <1>2, <1>3, <1>5 DEF JobInv, WellFormed, Row
<1>7. \A s \in Slot : /\ Unit(s) # b => cell'[s] = cell[s] /\ mcell'[s] = mcell[s]
                      /\ Unit(s) = b => /\ cell'[s] = rows[s]
                                        /\ mcell'[s] = MaybeCell(mcell[s], rows[s])
  <2> DEFINE new(s) == MaybeCell(mcell[s], rows[s])
  <2>1. mcell' = [s \in Slot |-> IF Unit(s) = b THEN new(s) ELSE mcell[s]]
    BY <1>2
  <2> HIDE DEF new
  <2>2. \A s \in Slot : /\ Unit(s) # b => cell'[s] = cell[s] /\ mcell'[s] = mcell[s]
                        /\ Unit(s) = b => cell'[s] = rows[s] /\ mcell'[s] = new(s)
    BY <1>2, <2>1
  <2> QED
    BY <2>2 DEF new
<1>8. \A s \in Slot : /\ mcell[s] \subseteq Disk /\ cell[s] \in Disk
                      /\ cell[s] \in mcell[s]
  BY DEF TypeOK, ImageInv
<1>9. \A s \in Slot : /\ cell'[s] \in Disk /\ mcell'[s] \subseteq Disk
                      /\ cell'[s] \in mcell'[s]
  <2> TAKE s \in Slot
  <2>1. CASE Unit(s) = b
    <3>1. rows[s] \in Cell /\ mcell[s] \in SUBSET Disk
      BY <2>1, <1>6, <1>8
    <3>2. /\ MaybeCell(mcell[s], rows[s]) \in SUBSET Disk
          /\ rows[s] \in MaybeCell(mcell[s], rows[s])
      BY <3>1, TornCells
    <3> QED
      BY <2>1, <3>1, <3>2, <1>7 DEF Disk
  <2> QED
    BY <2>1, <1>7, <1>8
<1>10. HasFile' = HasFile /\ Base' = Base /\ OtherSlot' = OtherSlot
       /\ BaseSlot' = BaseSlot
  BY <1>1 DEF HasFile, Base, BaseSlot, OtherSlot
<1>11. TypeOK' /\ RowsInv'
  <2>1. cell' \in [Slot -> Disk] /\ mcell' \in [Slot -> SUBSET Disk]
    BY <1>2, <1>9
  <2> QED
    BY <2>1, <1>1, <1>4 DEF TypeOK, RowsInv
<1>12. ImageInv'
  BY <1>1, <1>9, <1>10 DEF ImageInv
<1>13. Settled(Base)'
  <2> SUFFICES ASSUME NEW s \in Slot, s < Whole(Base.n)
               PROVE  /\ Hole \notin mcell'[s]
                      /\ Base.row[s] = NoRow => mcell'[s] = {Base.snap[s]}
    BY <1>10 DEF Settled
  <2>1. Hole \notin mcell[s] /\ (Base.row[s] = NoRow => mcell[s] = {Base.snap[s]})
    BY <1>5 DEF BaseInv, Settled
  <2>2. CASE Unit(s) = b
    <3>1. Base.row[s] = NoRow => rows[s] = Base.snap[s]
      <4>1. job.body.delta[s] # NoRow
        BY <2>2, <1>6
      <4> QED
        BY <4>1, <1>3 DEF JobInv
    <3> QED
      BY <2>1, <2>2, <3>1, <1>6, <1>7, <1>8, TornCells
  <2> QED
    BY <2>1, <2>2, <1>7
<1>14. BaseInv' /\ OtherInv'
  BY <1>1, <1>10, <1>13 DEF BaseInv, OtherInv
<1>15. job' # Idle
  BY <1>4, IdleStage
<1>16. CursorInv'
  BY <1>1, <1>10, <1>15 DEF CursorInv, Bound
<1>17. JobInv'
  <2>1. \A s \in Slot :
          /\ Unit(s) \in job.todo \ {b} => job.body.delta[s] # NoRow
          /\ job.body.delta[s] # NoRow /\ Unit(s) \notin job.todo \ {b} =>
               cell'[s] = job.body.delta[s]
    BY <1>3, <1>6, <1>7 DEF JobInv
  <2> QED
    BY <2>1, <1>1, <1>3, <1>4, <1>10 DEF JobInv, Bound
<1> QED
  BY <1>11, <1>12, <1>14, <1>16, <1>17

-----------------------------------------------------------------------------
(* A new commit becomes Base. *)

(* A commit made from Base whose units are all on disk can replace it.     *)
LEMMA Promote ==
  ASSUME IInv, HasFile,
         NEW h \in Body, hdr[OtherSlot].body = h, hdr[OtherSlot].gen = h.gen,
         Follows(h, Base), Room(h), Verified(h, cell),
         UNCHANGED <<sb, cell, hdr>>,
         \A s \in Slot : mcell'[s] = {cell[s]},
         \A i \in {0, 1} : mhdr'[i] = {hdr[i]},
         acked' = [gen |-> h.gen, cal |-> sb.cal, rows |-> h.snap]
  PROVE  /\ Base' = h /\ HasFile' = HasFile
         /\ BaseInv' /\ OtherInv'
         /\ \A i \in {0, 1} : hdr[i].gen <= h.gen
<1> USE DEF IInv
<1>1. /\ acked.gen \in Nat /\ Base.gen = acked.gen /\ Base # NoBody
      /\ hdr[BaseSlot].gen = acked.gen /\ h.gen = acked.gen + 1
      /\ h # NoBody /\ WellFormed(h) /\ WellFormed(Base)
  BY NoBodyAssumption DEF BaseInv, TypeOK, Follows
<1>2. /\ BaseSlot \in {0, 1} /\ OtherSlot \in {0, 1} /\ BaseSlot # OtherSlot
      /\ BaseSlot' = OtherSlot /\ OtherSlot' = BaseSlot
  BY <1>1 DEF BaseSlot, OtherSlot
<1>3. Base' = h /\ HasFile' = HasFile
  BY <1>2 DEF Base, HasFile
<1>4. \A i \in {0, 1} : hdr[i].gen <= h.gen
  BY <1>1, <1>2
<1>5. \A s \in Slot : s < Whole(h.n) =>
        mcell'[s] = {cell[s]} /\ cell[s] # Hole /\ (h.row[s] = NoRow => cell[s] = h.snap[s])
  <2> SUFFICES ASSUME NEW s \in Slot, s < Whole(h.n)
               PROVE  cell[s] # Hole /\ (h.row[s] = NoRow => cell[s] = h.snap[s])
    OBVIOUS
  <2>1. s < Whole(Base.n) =>
          cell[s] # Hole /\ (Base.row[s] = NoRow => cell[s] = Base.snap[s])
    BY DEF BaseInv, Settled, ImageInv
  <2>2. CASE h.delta[s] # NoRow
    <3>1. cell[s] = h.delta[s] /\ h.delta[s] = h.snap[s]
      BY <2>2, <1>1 DEF Verified, WellFormed
    <3>2. h.delta[s] \in Cell
      BY <2>2 DEF Body, Row
    <3> QED
      BY <3>1, <3>2, MarkerAssumption
  <2>3. CASE h.delta[s] = NoRow
    BY <2>1, <2>3 DEF Follows
  <2> QED
    BY <2>2, <2>3
<1>6. Settled(h)'
  BY <1>5 DEF Settled
<1>7. BaseInv'
  <2>1. /\ sb'.cal = acked'.cal /\ acked'.gen = h.gen /\ acked'.rows = h.snap
        /\ hdr'[OtherSlot].gen = h.gen
        /\ mhdr'[OtherSlot] = {hdr'[OtherSlot]}
    BY <1>2
  <2>2. Settled(Base)'
    BY <1>3, <1>6 DEF Settled
  <2> QED
    BY <2>1, <2>2, <1>1, <1>2, <1>3 DEF BaseInv
<1>8. OtherInv'
  <2>1. mhdr'[BaseSlot] = {hdr[BaseSlot]} /\ hdr[BaseSlot].body = Base
    BY <1>2 DEF Base
  <2>2. \A w \in mhdr'[BaseSlot] : w.body.gen < acked'.gen
    BY <2>1, <1>1
  <2> QED
    BY <2>2, <1>2 DEF OtherInv
<1> QED
  BY <1>3, <1>4, <1>7, <1>8

(* After the fsync the new commit is the acknowledged one.                 *)
LEMMA CommitStep == ASSUME IInv, Commit PROVE IInv'
<1> USE DEF IInv
<1>1. /\ job.stage = "fsync" /\ up
      /\ mcell' = [s \in Slot |-> {cell[s]}]
      /\ mhdr' = [i \in {0, 1} |-> {hdr[i]}]
      /\ pending' = job.carried /\ fresh' = {}
      /\ cursor' = [gen |-> job.body.gen, n |-> n, cal |-> cal]
      /\ acked' = [gen |-> job.body.gen, cal |-> cal, rows |-> rows]
      /\ job' = Idle
      /\ UNCHANGED <<sb, cell, hdr, up, n, rows, cal, tried, edits, cuts>>
  BY DEF Commit, Fsync
<1>2. job # Idle
  BY <1>1, IdleStage
<1> DEFINE h == job.body
<1>3. /\ HasFile /\ h \in Body /\ h.gen = acked.gen + 1
      /\ OtherSlot \in {0, 1} /\ acked.gen \in Nat
  BY <1>2, JobFacts
<1>4. /\ Bound /\ cursor.cal = cal /\ Follows(h, Base) /\ Room(h)
      /\ h.n = n /\ h.snap = rows /\ job.carried = Redo(h)
      /\ \A s \in Slot : h.delta[s] # NoRow => cell[s] = h.delta[s]
      /\ hdr[OtherSlot] = Sealed(h)
  BY <1>1, <1>2 DEF JobInv
<1>5. cal = sb.cal
  BY <1>3, <1>4 DEF CursorInv, BaseInv
<1>6. hdr[OtherSlot].body = h /\ hdr[OtherSlot].gen = h.gen
  BY <1>4 DEF Sealed
<1>7. /\ Base' = h /\ HasFile' = HasFile /\ BaseInv' /\ OtherInv'
      /\ \A i \in {0, 1} : hdr[i].gen <= h.gen
  <2> HIDE DEF h
  <2>1. Verified(h, cell)
    BY <1>4 DEF Verified
  <2>2. /\ UNCHANGED <<sb, cell, hdr>>
        /\ \A s \in Slot : mcell'[s] = {cell[s]}
        /\ \A i \in {0, 1} : mhdr'[i] = {hdr[i]}
    BY <1>1
  <2>3. acked' = [gen |-> h.gen, cal |-> sb.cal, rows |-> h.snap]
    BY <1>1, <1>4, <1>5 DEF h
  <2> QED
    BY <1>3, <1>4, <1>6, <2>1, <2>2, <2>3, Promote
<1>8. TypeOK'
  <2>1. cursor' \in Cursor /\ acked' \in [gen : Nat, cal : Nat, rows : [Slot -> Row]]
    BY <1>1, <1>3 DEF TypeOK, Cursor
  <2>2. job' \in [stage : Stages, todo : SUBSET Nat, body : Body \cup {NoBody},
                  carried : SUBSET Slot]
    BY <1>1 DEF Idle, Stages
  <2>3. mcell' \in [Slot -> SUBSET Disk] /\ mhdr' \in [{0, 1} -> SUBSET Header]
    BY <1>1 DEF TypeOK
  <2> QED
    BY <2>1, <2>2, <2>3, <1>1 DEF TypeOK
<1>9. ImageInv' /\ RowsInv'
  BY <1>1, <1>3, <1>7 DEF ImageInv, RowsInv
<1>10. CursorInv'
  <2>1. /\ cursor'.gen = h.gen /\ cursor'.n = n /\ cursor'.cal = cal
        /\ acked'.gen = h.gen /\ acked'.cal = cal
        /\ cursor' = [gen |-> acked'.gen, n |-> Base'.n, cal |-> acked'.cal]
    BY <1>1, <1>4, <1>7
  <2>2. cal \in Nat
    BY DEF TypeOK
  <2>3. \A i \in Adoptable(hdr, cell) : hdr[i].gen <= h.gen
    BY <1>7 DEF Adoptable
  <2>4. Adoptable(hdr, cell)' = Adoptable(hdr, cell)
    BY <1>1
  <2> QED
    BY <2>1, <2>2, <2>3, <2>4, <1>1, <1>3, <1>4, <1>7 DEF CursorInv, Bound
<1>11. JobInv'
  BY <1>1 DEF JobInv
<1> QED
  BY <1>7, <1>8, <1>9, <1>10, <1>11

(* write_full replaces the whole file with one settled commit.             *)
LEMMA WriteFullStep == ASSUME IInv, WriteFull PROVE IInv'
<1> USE DEF IInv
<1> DEFINE h == HeaderSlot(0, n, rows, {}, {}, {})
<1>1. /\ sb' = [cal |-> cal, layout |-> Layout(n)]
      /\ cell' = [s \in Slot |-> IF s < Whole(n) THEN rows[s] ELSE Hole]
      /\ mcell' = [s \in Slot |-> {cell'[s]}]
      /\ hdr' = [i \in {0, 1} |-> IF i = 0 THEN Sealed(h) ELSE Blank]
      /\ mhdr' = [i \in {0, 1} |-> {hdr'[i]}]
      /\ cursor' = [gen |-> 0, n |-> n, cal |-> cal]
      /\ pending' = {} /\ fresh' = {}
      /\ acked' = [gen |-> 0, cal |-> cal, rows |-> rows]
      /\ tried' = rows
      /\ UNCHANGED <<up, n, rows, cal, job, edits, cuts>>
      /\ up /\ job = Idle
  BY DEF WriteFull, Ready
<1>2. /\ n \in 0 .. Capacity /\ n \in Nat /\ Slot \subseteq Nat /\ cal \in Nat
      /\ Whole(n) \in Nat /\ Whole(n) <= n
      /\ rows \in [Slot -> Row] /\ NoRow \in Row
  BY WholeNat, SlotNat DEF TypeOK, Row
<1>3. \A s \in Slot : s < n => rows[s] \in Cell /\ rows[s] # NoRow /\ rows[s] # Hole
  BY MarkerAssumption DEF RowsInv
<1>4. /\ h.gen = 0 /\ h.n = n /\ h.snap = rows /\ h.mat = {}
      /\ h.row = [s \in Slot |-> IF Whole(n) <= s /\ s < n THEN rows[s] ELSE NoRow]
      /\ h.delta = [s \in Slot |-> NoRow]
  BY DEF HeaderSlot
<1>5. h \in Body
  <2>1. h.row \in [Slot -> Row] /\ h.delta \in [Slot -> Row]
    BY <1>2, <1>4
  <2> QED
    BY <1>2, <1>4, <2>1 DEF Body, HeaderSlot
<1> HIDE DEF h
<1>6. /\ \A s \in Slot : h.row[s] = IF Whole(n) <= s /\ s < n THEN rows[s] ELSE NoRow
      /\ \A s \in Slot : h.delta[s] = NoRow
  BY <1>4
<1>7. Redo(h) = {}
  <2>1. \A s \in Slot : s < Whole(n) => h.row[s] = NoRow
    BY <1>2, <1>6
  <2> QED
    BY <2>1, <1>4 DEF Redo
<1>8. WellFormed(h)
  <2>1. \A s \in Slot : IF s < h.n THEN h.snap[s] \in Cell ELSE h.snap[s] = NoRow
    BY <1>4 DEF RowsInv
  <2>2. /\ \A s \in Slot : h.row[s] # NoRow => s < h.n /\ h.row[s] = h.snap[s]
        /\ \A s \in Slot : Whole(h.n) <= s /\ s < h.n => h.row[s] # NoRow
    BY <1>3, <1>4, <1>6
  <2> QED
    BY <1>6, <1>7, <2>1, <2>2 DEF WellFormed
<1>9. Room(h)
  <2>1. {Unit(s) : s \in Redo(h)} = {}
    BY <1>7
  <2> QED
    BY <2>1, <1>4, FS_EmptySet, MaxOpsAssumption DEF Room
<1>10. /\ BaseSlot' = 0 /\ OtherSlot' = 1
       /\ hdr'[0] = Sealed(h) /\ hdr'[1] = Blank
       /\ hdr'[0].body = h /\ hdr'[0].gen = 0 /\ hdr'[1].body = NoBody /\ hdr'[1].gen = -1
  BY <1>1, <1>4 DEF BaseSlot, OtherSlot, Sealed, Blank, NoGen
<1>11. Base' = h
  BY <1>10 DEF Base
<1>12. sb' \in Superblock /\ HasFile' /\ sb'.cal = cal
  BY <1>1, <1>2, NoneAssumption DEF Superblock, Layout, HasFile
<1>13. \A s \in Slot : /\ mcell'[s] = {cell'[s]}
                       /\ s < Whole(n) => cell'[s] = rows[s] /\ cell'[s] # Hole
                       /\ cell'[s] \in Disk
  BY <1>1, <1>2, <1>3 DEF Disk
<1>14. TypeOK'
  <2>1. Sealed(h) \in Header /\ Blank \in Header
    BY <1>4, <1>5 DEF Sealed, Blank, Header
  <2>2. hdr' \in [{0, 1} -> Header] /\ mhdr' \in [{0, 1} -> SUBSET Header]
    BY <2>1, <1>1
  <2>3. cell' \in [Slot -> Disk] /\ mcell' \in [Slot -> SUBSET Disk]
    BY <1>1, <1>13
  <2>4. cursor' \in Cursor /\ acked' \in [gen : Nat, cal : Nat, rows : [Slot -> Row]]
    BY <1>1, <1>2 DEF Cursor
  <2> QED
    BY <2>2, <2>3, <2>4, <1>1, <1>2, <1>12 DEF TypeOK
<1>15. RowsInv' /\ ImageInv' /\ JobInv'
  BY <1>1, <1>13 DEF RowsInv, ImageInv, JobInv
<1>16. Settled(Base)'
  BY <1>4, <1>11, <1>13 DEF Settled
<1>17. mhdr'[0] = {hdr'[0]} /\ mhdr'[1] = {hdr'[1]}
  BY <1>1
<1>18. BaseInv'
  BY <1>1, <1>4, <1>5, <1>8, <1>9, <1>10, <1>11, <1>12, <1>16, <1>17,
     NoBodyAssumption DEF BaseInv
<1>19. OtherInv'
  BY <1>10, <1>17 DEF OtherInv
<1>20. CursorInv'
  <2>1. cursor' = [gen |-> acked'.gen, n |-> Base'.n, cal |-> acked'.cal]
    BY <1>1, <1>4, <1>11
  <2>2. cursor'.cal <= cal'
    BY <1>1, <1>2
  <2>3. \A i \in {0, 1} : hdr'[i].gen <= acked'.gen
    BY <1>1, <1>10
  <2>4. \A i \in Adoptable(hdr', cell') : hdr'[i].gen <= acked'.gen
    BY <2>3 DEF Adoptable
  <2> QED
    BY <2>1, <2>2, <2>4, <1>1, <1>4, <1>7, <1>11, <1>12 DEF CursorInv
<1> QED
  BY <1>14, <1>15, <1>18, <1>19, <1>20

-----------------------------------------------------------------------------
(* Reading. *)

(* The larger generation of a set of slots exists.                         *)
LEMMA NewestExists ==
  ASSUME NEW h, NEW slots \in SUBSET {0, 1}, slots # {},
         \A i \in slots : h[i].gen \in Int
  PROVE  /\ Newest(slots, h) \in slots
         /\ \A j \in slots : h[j].gen <= h[Newest(slots, h)].gen
<1> DEFINE g == [i \in slots |-> h[i].gen]
<1>1. \E i \in slots : \A j \in slots : h[j].gen <= h[i].gen
  <2>1. \A i \in slots : h[i].gen = g[i] /\ g[i] \in Int
    OBVIOUS
  <2> HIDE DEF g
  <2>2. \A i \in slots : i = 0 \/ i = 1
    OBVIOUS
  <2>3. CASE 0 \in slots /\ 1 \in slots
    BY <2>1, <2>2, <2>3
  <2>4. CASE ~(0 \in slots /\ 1 \in slots)
    <3>1. PICK i \in slots : TRUE
      OBVIOUS
    <3>2. \A j \in slots : j = i
      BY <2>2, <2>4, <3>1
    <3> QED
      BY <2>1, <3>1, <3>2
  <2> QED
    BY <2>3, <2>4
<1> QED
  BY <1>1 DEF Newest

(* The acknowledged commit can be adopted, whatever a power failure left.  *)
LEMMA BaseAdoptable ==
  ASSUME IInv, HasFile
  PROVE  BaseSlot \in Adoptable(hdr, cell)
<1> USE DEF IInv
<1>1. /\ Base \in Body /\ Base.n \in 0 .. Capacity /\ Base.n \in Nat
      /\ Whole(Base.n) \in Nat /\ Whole(Base.n) <= Base.n
  BY BaseType
<1>2. /\ hdr[BaseSlot].body = Base /\ Base # NoBody
      /\ hdr[BaseSlot].gen = acked.gen /\ Base.gen = acked.gen
      /\ WellFormed(Base) /\ Room(Base)
      /\ BaseSlot \in {0, 1} /\ acked.gen % 2 = BaseSlot
  BY Parity DEF BaseInv, TypeOK, Base, BaseSlot
<1>3. \A s \in Slot : s < Whole(Base.n) =>
        cell[s] # Hole /\ (Base.row[s] = NoRow => cell[s] = Base.snap[s])
  BY DEF BaseInv, Settled, ImageInv
<1>4. Fits(Base.n, cell)
  <2>1. CASE Whole(Base.n) = 0
    BY <2>1 DEF Fits
  <2>2. CASE Whole(Base.n) # 0
    <3> DEFINE t == Whole(Base.n) - 1
    <3>1. t \in Slot /\ t < Whole(Base.n) /\ t >= Whole(Base.n) - 1
      BY <2>2, <1>1, CapacityAssumption DEF Slot
    <3> QED
      BY <3>1, <1>3 DEF Fits
  <2> QED
    BY <2>1, <2>2
<1>5. Verified(Base, cell)
  <2> SUFFICES ASSUME NEW s \in Slot, Base.delta[s] # NoRow
               PROVE  cell[s] = Base.delta[s]
    BY DEF Verified
  <2>1. s < Whole(Base.n) /\ Base.delta[s] = Base.snap[s]
    BY <1>2 DEF WellFormed
  <2>2. s \notin Redo(Base)
    BY <1>2 DEF WellFormed
  <2> QED
    BY <1>3, <2>1, <2>2 DEF Redo
<1>6. Parses(BaseSlot, hdr, cell)
  BY <1>2, <1>4 DEF Parses
<1> QED
  BY <1>2, <1>5, <1>6 DEF Adoptable

(* What a load adopts: Base, or a commit made from it whose units are      *)
(* there; in both cases every row it gathers is the commit's.              *)
LEMMA ChosenCommit ==
  ASSUME IInv, HasFile,
         NEW i, i = Newest(Adoptable(hdr, cell), hdr),
         NEW h, h = Chosen(hdr, cell)
  PROVE  /\ i \in Adoptable(hdr, cell) /\ h = hdr[i].body
         /\ h \in Body /\ hdr[i].gen = h.gen /\ Room(h) /\ Verified(h, cell)
         /\ WellFormed(h)
         /\ \A j \in Adoptable(hdr, cell) : hdr[j].gen <= h.gen
         /\ \/ i = BaseSlot /\ h = Base
            \/ i = OtherSlot /\ Follows(h, Base)
         /\ Gather(h, cell) = h.snap
<1> USE DEF IInv
<1>1. /\ BaseSlot \in Adoptable(hdr, cell) /\ Adoptable(hdr, cell) \subseteq {0, 1}
  BY BaseAdoptable DEF Adoptable
<1>2. \A j \in {0, 1} : hdr[j] \in Header /\ hdr[j].gen \in Int
                        /\ hdr[j].body \in Body \cup {NoBody}
  BY DEF TypeOK, Header, NoGen
<1>3. /\ i \in Adoptable(hdr, cell)
      /\ \A j \in Adoptable(hdr, cell) : hdr[j].gen <= hdr[i].gen
  <2>1. /\ Adoptable(hdr, cell) \in SUBSET {0, 1} /\ Adoptable(hdr, cell) # {}
        /\ \A j \in Adoptable(hdr, cell) : hdr[j].gen \in Int
    BY <1>1, <1>2
  <2> QED
    BY <2>1, NewestExists
<1>4. h = hdr[i].body /\ i \in {0, 1}
  BY <1>1, <1>3 DEF Chosen
<1>5. /\ h # NoBody /\ hdr[i].gen = h.gen /\ h.gen % 2 = i
      /\ Room(h) /\ Verified(h, cell)
  BY <1>3, <1>4 DEF Adoptable, Parses
<1>6. h \in Body
  BY <1>2, <1>4, <1>5
<1>7. /\ BaseSlot \in {0, 1} /\ OtherSlot \in {0, 1} /\ BaseSlot # OtherSlot
      /\ hdr[BaseSlot].gen = acked.gen /\ WellFormed(Base) /\ acked.gen \in Nat
      /\ Base = hdr[BaseSlot].body
  BY Parity DEF BaseInv, TypeOK, BaseSlot, OtherSlot, Base
<1>8. \/ i = BaseSlot /\ h = Base
      \/ i = OtherSlot /\ Follows(h, Base)
  <2>1. CASE i = BaseSlot
    BY <2>1, <1>4, <1>7
  <2>2. CASE i # BaseSlot
    <3>1. i = OtherSlot /\ hdr[i] \in mhdr[i]
      BY <2>2, <1>4, <1>7 DEF ImageInv
    <3>2. h.gen \in Nat /\ acked.gen <= h.gen
      BY <1>1, <1>3, <1>5, <1>6, <1>7 DEF Body
    <3> QED
      BY <3>1, <3>2, <1>4, <1>5, <1>7 DEF OtherInv
  <2> QED
    BY <2>1, <2>2
<1>9. WellFormed(h)
  BY <1>7, <1>8 DEF Follows
<1>10. \A s \in Slot : s < Whole(Base.n) /\ Base.row[s] = NoRow => cell[s] = Base.snap[s]
  BY DEF BaseInv, Settled, ImageInv
<1>11. h.n \in Nat /\ Slot \subseteq Nat /\ Whole(h.n) \in Nat
  BY <1>6, SlotNat, WholeNat DEF Body
<1>12. \A s \in Slot : Gather(h, cell)[s] = h.snap[s]
  <2> SUFFICES ASSUME NEW s \in Slot
               PROVE  Gather(h, cell)[s] = h.snap[s]
    OBVIOUS
  <2>1. Gather(h, cell)[s] = IF s >= h.n THEN NoRow
                             ELSE IF h.row[s] # NoRow THEN h.row[s] ELSE cell[s]
    BY DEF Gather
  <2>2. CASE s >= h.n
    BY <2>1, <2>2, <1>9, <1>11 DEF WellFormed
  <2>3. CASE s < h.n /\ h.row[s] # NoRow
    BY <2>1, <2>3, <1>9, <1>11 DEF WellFormed
  <2>4. CASE s < h.n /\ h.row[s] = NoRow
    <3>1. s < Whole(h.n)
      BY <2>4, <1>9, <1>11 DEF WellFormed
    <3>2. h.delta[s] # NoRow => cell[s] = h.snap[s]
      BY <1>5, <1>9 DEF Verified, WellFormed
    <3>3. h = Base => cell[s] = h.snap[s]
      BY <3>1, <2>4, <1>10
    <3>4. Follows(h, Base) => cell[s] = h.snap[s]
      <4>1. Follows(h, Base) =>
              \/ h.delta[s] # NoRow
              \/ s < Whole(Base.n) /\ Base.row[s] = NoRow /\ h.snap[s] = Base.snap[s]
        BY <3>1, <2>4 DEF Follows
      <4> QED
        BY <4>1, <3>2, <1>10
    <3>5. cell[s] = h.snap[s]
      BY <3>3, <3>4, <1>8
    <3>6. ~(s >= h.n)
      BY <2>4, <1>11
    <3> QED
      BY <3>5, <3>6, <2>1, <2>4
  <2> QED
    BY <2>2, <2>3, <2>4, <1>11
<1>13. Gather(h, cell) = h.snap
  <2>1. h.snap \in [Slot -> Row]
    BY <1>6 DEF Body
  <2>2. Gather(h, cell) = [s \in Slot |-> Gather(h, cell)[s]]
    BY DEF Gather
  <2> QED
    BY <2>1, <2>2, <1>12
<1> QED
  BY <1>3, <1>4, <1>5, <1>6, <1>8, <1>9, <1>13

(* What load adopts becomes the acknowledged commit.                       *)
LEMMA LoadStep == ASSUME IInv, Load PROVE IInv'
<1> USE DEF IInv
<1> DEFINE h == Chosen(hdr, cell)
           i == Newest(Adoptable(hdr, cell), hdr)
<1>1. /\ ~up /\ up' = TRUE /\ cal' = sb.cal /\ fresh' = {}
      /\ n' = h.n /\ rows' = Gather(h, cell) /\ pending' = Redo(h)
      /\ cursor' = [gen |-> h.gen, n |-> h.n, cal |-> sb.cal]
      /\ acked' = [gen |-> h.gen, cal |-> sb.cal, rows |-> rows']
      /\ tried' = rows'
      /\ UNCHANGED <<sb, cell, hdr, mcell, mhdr, job, edits, cuts>>
  BY DEF Load, file
<1>2. /\ HasFile /\ job = Idle
      /\ \A s \in Slot : mcell[s] = {cell[s]}
      /\ \A j \in {0, 1} : mhdr[j] = {hdr[j]}
  BY <1>1 DEF ImageInv, JobInv, CursorInv
<1>3. /\ h \in Body /\ hdr[i].gen = h.gen /\ Room(h) /\ Verified(h, cell)
      /\ WellFormed(h) /\ h = hdr[i].body
      /\ \A j \in Adoptable(hdr, cell) : hdr[j].gen <= h.gen
      /\ \/ i = BaseSlot /\ h = Base
         \/ i = OtherSlot /\ Follows(h, Base)
      /\ Gather(h, cell) = h.snap
  BY <1>2, ChosenCommit
<1> HIDE DEF h, i
<1>4. /\ h.gen \in Nat /\ h.n \in 0 .. Capacity /\ h.snap \in [Slot -> Row]
      /\ Redo(h) \subseteq Slot
  BY <1>3 DEF Body, Redo
<1>5. sb.cal \in Nat /\ sb \in Superblock
  BY <1>2 DEF TypeOK, HasFile, Superblock
<1>6. TypeOK'
  <2>1. cursor' \in Cursor /\ acked' \in [gen : Nat, cal : Nat, rows : [Slot -> Row]]
    BY <1>1, <1>3, <1>4, <1>5 DEF Cursor
  <2> QED
    BY <2>1, <1>1, <1>3, <1>4, <1>5 DEF TypeOK
<1>7. Base' = h /\ HasFile' /\ BaseInv' /\ OtherInv'
  <2>1. CASE i = BaseSlot /\ h = Base
    <3>1. acked' = acked
      <4>1. acked = [gen |-> acked.gen, cal |-> acked.cal, rows |-> acked.rows]
        BY DEF TypeOK
      <4> QED
        BY <4>1, <2>1, <1>1, <1>2, <1>3 DEF BaseInv
    <3> QED
      BY <3>1, <2>1, <1>1, <1>2, FileFrame, BaseFrame DEF file
  <2>2. CASE i = OtherSlot /\ Follows(h, Base)
    <3>1. acked' = [gen |-> h.gen, cal |-> sb.cal, rows |-> h.snap]
      BY <1>1, <1>3
    <3>2. hdr[OtherSlot].body = h /\ hdr[OtherSlot].gen = h.gen
      BY <2>2, <1>3
    <3>3. /\ UNCHANGED <<sb, cell, hdr>>
          /\ \A s \in Slot : mcell'[s] = {cell[s]}
          /\ \A j \in {0, 1} : mhdr'[j] = {hdr[j]}
      BY <1>1, <1>2
    <3> QED
      BY <3>1, <3>2, <3>3, <2>2, <1>2, <1>3, Promote
  <2> QED
    BY <2>1, <2>2, <1>3
<1>8. RowsInv'
  BY <1>1, <1>3 DEF RowsInv, WellFormed
<1>9. ImageInv'
  BY <1>1, <1>2, <1>7 DEF ImageInv
<1>10. CursorInv'
  <2>1. cursor' = [gen |-> acked'.gen, n |-> Base'.n, cal |-> acked'.cal]
    BY <1>1, <1>7
  <2>2. cursor'.cal <= cal' /\ acked'.gen = h.gen
    BY <1>1, <1>5
  <2>3. Adoptable(hdr, cell)' = Adoptable(hdr, cell)
    BY <1>1
  <2> QED
    BY <2>1, <2>2, <2>3, <1>1, <1>3, <1>7 DEF CursorInv
<1>11. JobInv'
  BY <1>1, <1>2 DEF JobInv
<1> QED
  BY <1>6, <1>7, <1>8, <1>9, <1>10, <1>11

-----------------------------------------------------------------------------
(* The environment. *)

(* A process that is gone holds no cursor and no job.                      *)
LEMMA DownInv ==
  ASSUME Down
  PROVE  /\ RowsInv' /\ CursorInv' /\ JobInv'
         /\ up' = FALSE /\ n' = 0 /\ rows' = Empty /\ cal' = 0
         /\ pending' = {} /\ fresh' = {} /\ cursor' = NoCursor /\ job' = Idle
BY SlotNat DEF Down, RowsInv, CursorInv, JobInv, Bound, Empty

(* The types of what a process that is gone held.                          *)
LEMMA DownType ==
  ASSUME Down
  PROVE  /\ up' \in BOOLEAN
         /\ n' \in 0 .. Capacity /\ rows' \in [Slot -> Row] /\ cal' \in Nat
         /\ pending' \subseteq Slot /\ fresh' \subseteq Slot
         /\ cursor' \in Cursor \cup {NoCursor}
         /\ job' \in [stage : Stages, todo : SUBSET Nat, body : Body \cup {NoBody},
                      carried : SUBSET Slot]
<1>1. Empty \in [Slot -> Row]
  BY DEF Empty, Row
<1>2. Idle \in [stage : Stages, todo : SUBSET Nat, body : Body \cup {NoBody},
                carried : SUBSET Slot]
  BY DEF Idle, Stages
<1>3. /\ up' = FALSE /\ n' = 0 /\ rows' = Empty /\ cal' = 0
      /\ pending' = {} /\ fresh' = {} /\ cursor' = NoCursor /\ job' = Idle
  BY DownInv
<1>4. up' \in BOOLEAN
  BY <1>3
<1>5. n' \in 0 .. Capacity /\ cal' \in Nat /\ pending' \subseteq Slot
      /\ fresh' \subseteq Slot /\ cursor' \in Cursor \cup {NoCursor}
  BY <1>3, CapacityAssumption
<1> QED
  BY <1>1, <1>2, <1>3, <1>4, <1>5

(* A power failure leaves one of the images the file may have.             *)
LEMMA PowerCutStep == ASSUME IInv, PowerCut PROVE IInv'
<1> USE DEF IInv
<1>1. /\ HasFile /\ Down /\ cuts' = cuts + 1
      /\ mcell' = [s \in Slot |-> {cell'[s]}]
      /\ UNCHANGED <<sb, acked, tried, edits>>
  BY DEF PowerCut, HasFile
<1>2. cell' \in [Slot -> Disk] /\ \A s \in Slot : cell'[s] \in mcell[s]
  <2> DEFINE unsure == {s \in Slot : mcell[s] # {cell[s]}}
  <2>1. PICK c \in [unsure -> UNION {mcell[s] : s \in unsure}] :
          /\ \A s \in unsure : c[s] \in mcell[s]
          /\ cell' = [s \in Slot |-> IF s \in unsure THEN c[s] ELSE cell[s]]
    BY DEF PowerCut
  <2>2. \A s \in Slot : cell[s] \in mcell[s] /\ mcell[s] \subseteq Disk
    BY DEF ImageInv, TypeOK
  <2> HIDE DEF unsure
  <2>3. \A s \in Slot : cell'[s] \in mcell[s] /\ cell'[s] \in Disk
    BY <2>1, <2>2
  <2> QED
    BY <2>1, <2>3
<1>3. /\ hdr' \in [{0, 1} -> Header]
      /\ \A i \in {0, 1} : hdr'[i] \in mhdr[i]
      /\ mhdr' = [i \in {0, 1} |-> {hdr'[i]}]
  <2>1. PICK a \in mhdr[0], b \in mhdr[1] :
          /\ hdr' = [i \in {0, 1} |-> IF i = 0 THEN a ELSE b]
          /\ mhdr' = [i \in {0, 1} |-> IF i = 0 THEN {a} ELSE {b}]
    BY DEF PowerCut
  <2>2. a \in Header /\ b \in Header
    BY DEF TypeOK
  <2> QED
    BY <2>1, <2>2
<1>4. up' = FALSE
  BY <1>1, DownInv
<1>5. /\ mcell' \in [Slot -> SUBSET Disk] /\ mhdr' \in [{0, 1} -> SUBSET Header]
      /\ HasFile' = HasFile /\ BaseInv' /\ OtherInv' /\ (HasFile => ImageInv')
  BY <1>1, <1>2, <1>3, <1>4, Shrink
<1>6. TypeOK'
  BY <1>1, <1>2, <1>3, <1>5, DownType DEF TypeOK
<1> QED
  BY <1>1, <1>5, <1>6, DownInv

(* A process that exits leaves a file with no unsynced write.              *)
LEMMA ExitStep == ASSUME IInv, Exit, ~DirtyRestarts PROVE IInv'
<1> USE DEF IInv
<1>1. /\ HasFile /\ Down /\ ~Dirty
      /\ UNCHANGED <<file, acked, tried, edits, cuts>>
  BY DEF Exit, HasFile
<1>2. TypeOK'
  <2>1. UNCHANGED <<sb, cell, hdr, mcell, mhdr, acked, tried, edits, cuts>>
    BY <1>1 DEF file
  <2> QED
    BY <2>1, <1>1, DownType DEF TypeOK
<1>3. ImageInv'
  <2>1. /\ \A s \in Slot : mcell[s] = {cell[s]}
        /\ \A i \in {0, 1} : mhdr[i] = {hdr[i]}
    BY <1>1 DEF Dirty
  <2>2. HasFile' /\ UNCHANGED <<cell, hdr, mcell, mhdr>>
    BY <1>1 DEF HasFile, file
  <2> QED
    BY <2>1, <2>2 DEF ImageInv
<1> QED
  BY <1>1, <1>2, <1>3, FileFrame, DownInv

-----------------------------------------------------------------------------
(* The invariant. *)

(* An index that has never synced satisfies the invariant.                 *)
LEMMA InitInv == Init => IInv
<1> SUFFICES ASSUME Init PROVE IInv
  OBVIOUS
<1>1. /\ sb = NoFile /\ up = TRUE /\ n = Start /\ cal = 0
      /\ cell = [s \in Slot |-> Hole] /\ mcell = [s \in Slot |-> {Hole}]
      /\ hdr = [i \in {0, 1} |-> Blank] /\ mhdr = [i \in {0, 1} |-> {Blank}]
      /\ pending = {} /\ fresh = {} /\ cursor = NoCursor /\ job = Idle
      /\ acked = [gen |-> 0, cal |-> 0, rows |-> Empty] /\ tried = Empty
      /\ edits = 0 /\ cuts = 0
  BY DEF Init
<1>2. Start \in 0 .. Capacity /\ Start \in Nat /\ Slot \subseteq Nat
  BY BoundAssumption, CapacityAssumption, SlotNat
<1>3. PICK v \in Batch(0, Start) :
        rows = [s \in Slot |-> IF s < Start THEN <<v[s], 0>> ELSE NoRow]
  BY DEF Init
<1>4. \A j \in 0 .. Start - 1 : v[j] \in Vec
  BY <1>2, BatchRows, BoundAssumption
<1>5. \A s \in Slot : IF s < Start THEN rows[s] \in Cell ELSE rows[s] = NoRow
  BY <1>2, <1>3, <1>4 DEF Cell
<1>6. rows \in [Slot -> Row]
  BY <1>3, <1>5 DEF Row
<1>7. TypeOK
  <2>1. Hole \in Disk /\ Blank \in Header /\ Empty \in [Slot -> Row]
    BY DEF Disk, Blank, Header, Empty, Row
  <2>2. Idle \in [stage : Stages, todo : SUBSET Nat, body : Body \cup {NoBody},
                  carried : SUBSET Slot]
    BY DEF Idle, Stages
  <2>3. cell \in [Slot -> Disk] /\ mcell \in [Slot -> SUBSET Disk]
    BY <2>1, <1>1
  <2>4. hdr \in [{0, 1} -> Header] /\ mhdr \in [{0, 1} -> SUBSET Header]
    BY <2>1, <1>1
  <2> QED
    BY <2>1, <2>2, <2>3, <2>4, <1>1, <1>2, <1>6 DEF TypeOK
<1>8. ~HasFile /\ ~Bound
  BY <1>1 DEF HasFile, Bound
<1>9. ImageInv
  BY <1>1 DEF ImageInv
<1> QED
  BY <1>1, <1>5, <1>7, <1>8, <1>9
     DEF IInv, RowsInv, BaseInv, OtherInv, CursorInv, JobInv

(* Every step keeps the invariant.                                         *)
LEMMA NextInv == ASSUME ~DirtyRestarts, IInv, [Next]_vars PROVE IInv'
<1>1. CASE Add
  BY <1>1, AddStep
<1>2. CASE SwapRemove
  BY <1>2, SwapRemoveStep
<1>3. CASE Calibrate
  BY <1>3, CalibrateStep
<1>4. CASE WriteFull
  BY <1>4, WriteFullStep
<1>5. CASE WriteFullError \/ SyncError
  BY <1>5, UnbindStep
<1>6. CASE BeginSync
  BY <1>6, BeginSyncStep
<1>7. CASE WriteWipe
  BY <1>7, WriteWipeStep
<1>8. CASE WipeFsync
  BY <1>8, WipeFsyncStep
<1>9. CASE WriteUnit
  BY <1>9, WriteUnitStep
<1>10. CASE WriteHeader
  BY <1>10, WriteHeaderStep
<1>11. CASE Commit
  BY <1>11, CommitStep
<1>12. CASE PowerCut
  BY <1>12, PowerCutStep
<1>13. CASE Exit
  BY <1>13, ExitStep
<1>14. CASE Load
  BY <1>14, LoadStep
<1>15. CASE UNCHANGED vars
  <2>1. UNCHANGED <<file, up, n, rows, cal, pending, fresh, cursor, job, acked, tried,
                    edits, cuts>>
    BY <1>15 DEF vars, index
  <2>2. BaseInv' /\ OtherInv' /\ ImageInv'
    BY <2>1, FileFrame, ImageFrame DEF IInv
  <2>3. TypeOK' /\ RowsInv'
    BY <2>1 DEF IInv, TypeOK, RowsInv, file
  <2>4. Base' = Base /\ HasFile' = HasFile
        /\ Adoptable(hdr, cell)' = Adoptable(hdr, cell)
    BY <2>1, BaseFrame
  <2>5. CursorInv'
    BY <2>1, <2>4 DEF IInv, CursorInv, Bound, file
  <2>6. JobInv'
    BY <2>1, <2>4 DEF IInv, JobInv, Bound, file, OtherSlot
  <2> QED
    BY <2>2, <2>3, <2>5, <2>6 DEF IInv
<1> QED
  BY <1>1, <1>2, <1>3, <1>4, <1>5, <1>6, <1>7, <1>8, <1>9, <1>10, <1>11, <1>12,
     <1>13, <1>14, <1>15 DEF Next

(* While no process exits with unsynced writes, every reachable state      *)
(* satisfies the invariant: for every capacity, block, header room, tear   *)
(* of a header write and number of power failures.                         *)
THEOREM Invariance == ~DirtyRestarts => (Spec => []IInv)
<1> SUFFICES ASSUME ~DirtyRestarts
             PROVE  Spec => []IInv
  OBVIOUS
<1>1. IInv /\ [Next]_vars => IInv'
  BY NextInv
<1> QED
  BY <1>1, InitInv, PTL DEF Spec

-----------------------------------------------------------------------------
(* What the invariant gives a user of the file. *)

(* The invariant implies every safety property.                            *)
LEMMA Consequences ==
  ASSUME IInv
  PROVE  /\ TypeOK /\ Loadable /\ RecoversACommit /\ AckedSurvives
         /\ NeverWedged /\ DirtyTracking
<1> USE DEF IInv
<1>1. Loadable
  BY BaseAdoptable DEF Loadable
<1>2. RecoversACommit
  BY ChosenCommit DEF RecoversACommit, Recovered
<1>3. AckedSurvives
  <2> SUFFICES ASSUME HasFile
               PROVE  /\ sb.cal = acked.cal
                      /\ Chosen(hdr, cell).gen \in {acked.gen, acked.gen + 1}
                      /\ Chosen(hdr, cell).gen = acked.gen => Recovered = acked.rows
    BY DEF AckedSurvives
  <2> DEFINE h == Chosen(hdr, cell)
  <2>1. /\ h = Base \/ Follows(h, Base)
        /\ Gather(h, cell) = h.snap
    BY ChosenCommit
  <2>2. /\ Base.gen = acked.gen /\ acked.gen \in Nat /\ Base.snap = acked.rows
        /\ sb.cal = acked.cal
    BY DEF BaseInv, TypeOK
  <2> HIDE DEF h
  <2>3. h.gen \in {acked.gen, acked.gen + 1} /\ (h.gen = acked.gen => h = Base)
    BY <2>1, <2>2 DEF Follows
  <2> QED
    BY <2>1, <2>2, <2>3 DEF h, Recovered
<1>4. NeverWedged
  <2> SUFFICES ASSUME Ready, Bound, State = "Foreign"
               PROVE  FALSE
    BY DEF NeverWedged
  <2>1. /\ HasFile /\ cursor.gen = acked.gen /\ acked.gen \in Nat
        /\ \A i \in Adoptable(hdr, cell) : hdr[i].gen <= acked.gen
    BY DEF CursorInv, Ready, TypeOK
  <2>2. BaseSlot \in Adoptable(hdr, cell) /\ hdr[BaseSlot].gen = acked.gen
    BY <2>1, BaseAdoptable DEF BaseInv
  <2> DEFINE i == Newest(Adoptable(hdr, cell), hdr)
  <2>3. i \in Adoptable(hdr, cell) /\ hdr[BaseSlot].gen <= hdr[i].gen
    <3>1. hdr[i].gen = Chosen(hdr, cell).gen /\ i \in Adoptable(hdr, cell)
          /\ \A j \in Adoptable(hdr, cell) : hdr[j].gen <= Chosen(hdr, cell).gen
      BY <2>1, ChosenCommit
    <3> QED
      BY <3>1, <2>2
  <2>4. hdr[i].gen = acked.gen
    <3>1. i \in {0, 1} /\ hdr[i].gen \in Int
      BY <2>3 DEF Adoptable, TypeOK, Header, NoGen
    <3> QED
      BY <3>1, <2>1, <2>2, <2>3
  <2>5. Holds(Adoptable(hdr, cell), cursor.gen, hdr)
    BY <2>1, <2>2, <2>4 DEF Holds
  <2> QED
    BY <2>1, <2>2, <2>5 DEF State, CursorState, HasFile
<1>5. DirtyTracking
  <2> SUFFICES ASSUME Bound, cursor.cal = cal,
                      NEW s \in Live(cursor.n, n, Slot) \ (pending \cup fresh)
               PROVE  cell[s] = rows[s]
    BY DEF DirtyTracking
  <2>1. /\ HasFile /\ cursor.n = Base.n /\ pending = Redo(Base)
        /\ s \in Slot /\ s < Whole(Base.n) /\ s \notin fresh
    BY DEF CursorInv, Live
  <2>2. rows[s] = Base.snap[s]
    BY <2>1, CleanSlot
  <2>3. Base.row[s] = NoRow
    BY <2>1 DEF Redo
  <2> QED
    BY <2>1, <2>2, <2>3 DEF BaseInv, Settled, ImageInv
<1> QED
  BY <1>1, <1>2, <1>3, <1>4, <1>5

(* The types of the model's variables; a row read back from a file is a    *)
(* row, never torn bytes (load_image).                                     *)
THEOREM TypeCorrect == ~DirtyRestarts => (Spec => []TypeOK)
<1>1. IInv => TypeOK
  BY Consequences
<1> QED
  BY <1>1, Invariance, PTL

(* A power failure at any point of a sync, with any tear, leaves a file    *)
(* that loads (parse_image finds an adoptable header).                     *)
THEOREM AlwaysLoadable == ~DirtyRestarts => (Spec => []Loadable)
<1>1. IInv => Loadable
  BY Consequences
<1> QED
  BY <1>1, Invariance, PTL

(* What loads is the content of one commit, never a mixture of two         *)
(* (load_image's redo ops and tail over units no later sync has spoiled).  *)
THEOREM NoMixture == ~DirtyRestarts => (Spec => []RecoversACommit)
<1>1. IInv => RecoversACommit
  BY Consequences
<1> QED
  BY <1>1, Invariance, PTL

(* What sync reported Ok, no power failure takes back (run_sync's fsync,   *)
(* plan_incremental's untouched units).                                    *)
THEOREM Durability == ~DirtyRestarts => (Spec => []AckedSurvives)
<1>1. IInv => AckedSurvives
  BY Consequences
<1> QED
  BY <1>1, Invariance, PTL

(* cursor_state never takes a lone writer for a foreign one.               *)
THEOREM OwnFile == ~DirtyRestarts => (Spec => []NeverWedged)
<1>1. IInv => NeverWedged
  BY Consequences
<1> QED
  BY <1>1, Invariance, PTL

(* mark_dirty misses no row an incremental sync has to carry.              *)
THEOREM NoStaleRow == ~DirtyRestarts => (Spec => []DirtyTracking)
<1>1. IInv => DirtyTracking
  BY Consequences
<1> QED
  BY <1>1, Invariance, PTL

-----------------------------------------------------------------------------
(* What a buffer in which a commit is intact yields. *)

(* A commit that is intact can be adopted.                                 *)
LEMMA IntactAdoptable ==
  ASSUME NEW h \in [{0, 1} -> Header], NEW c \in [Slot -> Disk],
         NEW b \in Body, Intact(b, h, c)
  PROVE  /\ b.gen % 2 \in Adoptable(h, c) /\ b.gen % 2 \in {0, 1}
         /\ h[b.gen % 2] = Sealed(b)
<1>1. /\ b.n \in 0 .. Capacity /\ b.n \in Nat /\ b.gen \in Nat
      /\ Whole(b.n) \in Nat /\ Whole(b.n) <= b.n
  BY WholeNat, CapacityAssumption DEF Body
<1>2. b.gen % 2 \in {0, 1}
  BY <1>1, Parity
<1>3. h[b.gen % 2] = Sealed(b)
  BY <1>2 DEF Intact, IntactHdr
<1>4. \A s \in Slot : s < Whole(b.n) =>
        c[s] # Hole /\ (b.row[s] = NoRow => c[s] = b.snap[s])
  BY DEF Intact
<1>5. Fits(b.n, c)
  <2>1. CASE Whole(b.n) = 0
    BY <2>1 DEF Fits
  <2>2. CASE Whole(b.n) # 0
    <3> DEFINE t == Whole(b.n) - 1
    <3>1. t \in Slot /\ t < Whole(b.n) /\ t >= Whole(b.n) - 1
      BY <2>2, <1>1, CapacityAssumption DEF Slot
    <3> QED
      BY <3>1, <1>4 DEF Fits
  <2> QED
    BY <2>1, <2>2
<1>6. Verified(b, c)
  <2> SUFFICES ASSUME NEW s \in Slot, b.delta[s] # NoRow
               PROVE  c[s] = b.delta[s]
    BY DEF Verified
  <2>1. s < Whole(b.n) /\ b.delta[s] = b.snap[s]
    BY DEF Intact, WellFormed
  <2>2. s \notin Redo(b)
    BY DEF Intact, WellFormed
  <2> QED
    BY <1>4, <2>1, <2>2 DEF Redo
<1>7. b # NoBody
  BY NoBodyAssumption
<1>8. Parses(b.gen % 2, h, c)
  BY <1>3, <1>5, <1>7 DEF Parses, Sealed, Intact
<1> QED
  BY <1>2, <1>3, <1>6, <1>8 DEF Adoptable, Sealed

(* A load of the buffer yields that commit, or one made from it.           *)
LEMMA IntactReads ==
  ASSUME NEW h \in [{0, 1} -> Header], NEW c \in [Slot -> Disk],
         NEW b \in Body, Intact(b, h, c)
  PROVE  /\ Adoptable(h, c) # {}
         /\ Gather(Chosen(h, c), c) = Chosen(h, c).snap
         /\ Chosen(h, c).gen \in Nat /\ b.gen <= Chosen(h, c).gen
<1> DEFINE i == Newest(Adoptable(h, c), h)
           k == Chosen(h, c)
<1>1. /\ b.gen % 2 \in Adoptable(h, c) /\ b.gen % 2 \in {0, 1}
      /\ h[b.gen % 2] = Sealed(b) /\ b.gen \in Nat
  BY IntactAdoptable DEF Body
<1>2. \A j \in {0, 1} : h[j] \in Header /\ h[j].gen \in Int
                        /\ h[j].body \in Body \cup {NoBody}
  BY DEF Header, NoGen
<1>3. /\ i \in Adoptable(h, c) /\ i \in {0, 1}
      /\ \A j \in Adoptable(h, c) : h[j].gen <= h[i].gen
  <2>1. /\ Adoptable(h, c) \in SUBSET {0, 1} /\ Adoptable(h, c) # {}
        /\ \A j \in Adoptable(h, c) : h[j].gen \in Int
    BY <1>1, <1>2 DEF Adoptable
  <2>2. /\ i \in Adoptable(h, c)
        /\ \A j \in Adoptable(h, c) : h[j].gen <= h[i].gen
    BY <2>1, NewestExists
  <2> HIDE DEF i
  <2> QED
    BY <2>1, <2>2
<1>4. k = h[i].body
  BY DEF Chosen
<1> HIDE DEF k, i
<1>5. k # NoBody /\ h[i].gen = k.gen /\ k.gen % 2 = i /\ Verified(k, c)
  BY <1>3, <1>4 DEF Adoptable, Parses
<1>6. k \in Body /\ k.gen \in Nat /\ k.n \in Nat /\ k.snap \in [Slot -> Row]
  BY <1>2, <1>3, <1>4, <1>5, CapacityAssumption DEF Body
<1>7. b.gen <= k.gen
  BY <1>1, <1>3, <1>5 DEF Sealed
<1>8. k = b \/ Follows(k, b)
  <2>1. CASE i = b.gen % 2
    BY <2>1, <1>1, <1>4 DEF Sealed
  <2>2. CASE i # b.gen % 2
    <3>1. k = NoBody \/ k.gen < b.gen \/ Follows(k, b)
      BY <2>2, <1>3, <1>4 DEF Intact, IntactHdr
    <3> QED
      BY <3>1, <1>1, <1>5, <1>6, <1>7
  <2> QED
    BY <2>1, <2>2
<1>9. WellFormed(k)
  BY <1>8 DEF Intact, Follows
<1>10. \A s \in Slot : s < Whole(b.n) /\ b.row[s] = NoRow => c[s] = b.snap[s]
  BY DEF Intact
<1>11. Slot \subseteq Nat /\ Whole(k.n) \in Nat
  BY <1>6, SlotNat, WholeNat
<1>12. \A s \in Slot : s < k.n /\ k.row[s] = NoRow => c[s] = k.snap[s]
  <2> SUFFICES ASSUME NEW s \in Slot, s < k.n, k.row[s] = NoRow
               PROVE  c[s] = k.snap[s]
    OBVIOUS
  <2>1. s < Whole(k.n)
    BY <1>6, <1>9, <1>11 DEF WellFormed
  <2>2. k.delta[s] # NoRow => c[s] = k.snap[s]
    BY <1>5, <1>9 DEF Verified, WellFormed
  <2>3. Follows(k, b) =>
          \/ k.delta[s] # NoRow
          \/ s < Whole(b.n) /\ b.row[s] = NoRow /\ k.snap[s] = b.snap[s]
    BY <2>1 DEF Follows
  <2> QED
    BY <2>1, <2>2, <2>3, <1>8, <1>10
<1>13. \A s \in Slot : Gather(k, c)[s] = k.snap[s]
  <2> SUFFICES ASSUME NEW s \in Slot
               PROVE  Gather(k, c)[s] = k.snap[s]
    OBVIOUS
  <2>1. Gather(k, c)[s] = IF s >= k.n THEN NoRow
                          ELSE IF k.row[s] # NoRow THEN k.row[s] ELSE c[s]
    BY DEF Gather
  <2>2. /\ s < k.n \/ s >= k.n
        /\ ~(s < k.n /\ s >= k.n)
        /\ s >= k.n => k.snap[s] = NoRow
        /\ k.row[s] # NoRow => k.row[s] = k.snap[s]
    BY <1>6, <1>9, <1>11 DEF WellFormed
  <2> QED
    BY <2>1, <2>2, <1>12
<1>14. Gather(k, c) = k.snap
  <2>1. Gather(k, c) = [s \in Slot |-> Gather(k, c)[s]]
    BY DEF Gather
  <2> QED
    BY <2>1, <1>6, <1>13
<1> QED
  BY <1>1, <1>6, <1>7, <1>14 DEF k

(* The last acknowledged commit is intact in the file itself.              *)
BaseStands == Base \in Body /\ Base.gen = acked.gen /\ Intact(Base, hdr, cell)

LEMMA BaseIntact == IInv /\ HasFile => BaseStands
<1> SUFFICES ASSUME IInv, HasFile PROVE BaseStands
  OBVIOUS
<1> USE DEF IInv
<1>1. /\ Base \in Body /\ Base # NoBody /\ Base.gen = acked.gen
      /\ hdr[BaseSlot].gen = acked.gen /\ WellFormed(Base) /\ Room(Base)
      /\ acked.gen \in Nat
  BY BaseType DEF BaseInv, TypeOK
<1>2. \A s \in Slot : s < Whole(Base.n) =>
        cell[s] # Hole /\ (Base.row[s] = NoRow => cell[s] = Base.snap[s])
  BY DEF BaseInv, Settled, ImageInv
<1>3. \A i \in {0, 1} : IntactHdr(Base, hdr[i], i)
  <2> SUFFICES ASSUME NEW i \in {0, 1} PROVE IntactHdr(Base, hdr[i], i)
    OBVIOUS
  <2>1. BaseSlot \in {0, 1} /\ OtherSlot \in {0, 1} /\ BaseSlot # OtherSlot
    BY <1>1, Parity DEF BaseSlot, OtherSlot
  <2>2. CASE i = BaseSlot
    <3>1. hdr[i] \in Header
      BY DEF TypeOK
    <3>2. hdr[i] = Sealed(Base)
      BY <2>2, <3>1, <1>1 DEF Header, Sealed, Base
    <3> QED
      BY <3>2, <2>2, <1>1 DEF IntactHdr, BaseSlot
  <2>3. CASE i = OtherSlot
    <3>1. hdr[i] \in mhdr[i]
      BY DEF ImageInv
    <3>2. i # Base.gen % 2
      BY <2>1, <2>3, <1>1 DEF BaseSlot
    <3> QED
      BY <3>1, <3>2, <2>3, <1>1 DEF OtherInv, IntactHdr
  <2> QED
    BY <2>1, <2>2, <2>3
<1> QED
  BY <1>1, <1>2, <1>3 DEF Intact, BaseStands

(* A buffer with Base intact in it keeps it when any of its headers and    *)
(* units are replaced by those of a file that has it intact too.           *)
LEMMA IntactMixes ==
  ASSUME NEW b, NEW h1, NEW h2, NEW h3, NEW c1, NEW c2, NEW c3,
         Intact(b, h1, c1), Intact(b, h2, c2),
         \A i \in {0, 1} : h3[i] = h1[i] \/ h3[i] = h2[i],
         \A s \in Slot : c3[s] = c1[s] \/ c3[s] = c2[s]
  PROVE  Intact(b, h3, c3)
<1>1. \A i \in {0, 1} : IntactHdr(b, h3[i], i)
  <2> SUFFICES ASSUME NEW i \in {0, 1} PROVE IntactHdr(b, h3[i], i)
    OBVIOUS
  <2>1. IntactHdr(b, h1[i], i) /\ IntactHdr(b, h2[i], i)
    BY DEF Intact
  <2> QED
    BY <2>1
<1> QED
  BY <1>1 DEF Intact

-----------------------------------------------------------------------------
(* The buffer a reader would end with. *)

(* It has the shape of a file.                                             *)
LEMMA SeenTyped ==
  ASSUME TypeOK, RTypeOK
  PROVE  SeenHdr \in [{0, 1} -> Header] /\ SeenCell \in [Slot -> Disk]
BY DEF TypeOK, RTypeOK, SeenHdr, SeenCell

(* An intact commit is the body of one of the buffer's headers.            *)
LEMMA IntactWitness ==
  ASSUME NEW h, NEW c, NEW b \in Body, Intact(b, h, c)
  PROVE  b \in {h[i].body : i \in {0, 1}} \ {NoBody}
<1>1. b.gen % 2 \in {0, 1}
  BY Parity DEF Body
<1>2. h[b.gen % 2].body = b
  BY <1>1 DEF Intact, IntactHdr, Sealed
<1> QED
  BY <1>1, <1>2, NoBodyAssumption

(* What SeenInv says of a reader that one sync at most has overlapped.     *)
LEMMA SeenFact ==
  ASSUME ReaderInv, rat # "none", begun <= 1
  PROVE  \E b \in Body : /\ rbase.gen <= b.gen /\ Intact(b, SeenHdr, SeenCell)
                         /\ Reading /\ job # Idle => b = Base
<1>1. SeenHdr \in [{0, 1} -> Header]
  BY SeenTyped DEF ReaderInv, IInv
<1>2. PICK b \in {SeenHdr[i].body : i \in {0, 1}} \ {NoBody} :
        /\ rbase.gen <= b.gen /\ Intact(b, SeenHdr, SeenCell)
        /\ Reading /\ job # Idle => b = Base
  BY DEF ReaderInv, SeenInv
<1>3. b \in Body
  BY <1>1, <1>2 DEF Header
<1> QED
  BY <1>2, <1>3

(* The other way round, after a step.                                      *)
LEMMA SeenNext ==
  ASSUME NEW b \in Body, rbase'.gen <= b.gen, Intact(b, SeenHdr', SeenCell'),
         Reading' /\ job' # Idle => b = Base'
  PROVE  SeenInv'
<1>1. b \in {SeenHdr'[i].body : i \in {0, 1}} \ {NoBody}
  BY IntactWitness
<1> QED
  BY <1>1 DEF SeenInv

(* A step that shows the reader nothing new and starts no sync.            *)
LEMMA SameView ==
  ASSUME ReaderInv, UNCHANGED <<rbase, begun>>, rat # "none",
         SeenHdr' = SeenHdr, SeenCell' = SeenCell,
         Reading' => Reading /\ (job' = Idle \/ (job' = job /\ Base' = Base))
  PROVE  SeenInv'
<1> SUFFICES ASSUME begun <= 1
             PROVE  SeenInv'
  BY DEF SeenInv
<1>1. PICK b \in Body : /\ rbase.gen <= b.gen /\ Intact(b, SeenHdr, SeenCell)
                        /\ Reading /\ job # Idle => b = Base
  BY SeenFact
<1> QED
  BY <1>1, SeenNext

-----------------------------------------------------------------------------
(* The reader's steps. *)

(* Whatever it opens has the last acknowledged commit intact.              *)
LEMMA OpenStep == ASSUME ReaderInv, IInv', Open PROVE ReaderInv'
<1>1. /\ HasFile /\ rat' = "slot0" /\ rleft' = Units /\ rbase' = acked
      /\ begun' = IF job = Idle THEN 0 ELSE 1
      /\ rhdr' = NoHdr /\ rcell' = NoCell
  BY DEF Open
<1>2. UNCHANGED <<sb, cell, hdr, acked, job>>
  BY DEF Open, vars, file
<1>3. TypeOK /\ RTypeOK /\ IInv
  BY DEF ReaderInv, IInv
<1>4. RTypeOK'
  <2>1. rhdr' \in [{0, 1} -> Header]
    BY <1>1 DEF NoHdr, Blank, Header
  <2>2. rcell' \in [Slot -> Disk]
    BY <1>1 DEF NoCell, Disk
  <2>3. begun' \in 0 .. 2
    BY <1>1
  <2>4. rbase' \in [gen : Nat, cal : Nat, rows : [Slot -> Row]]
    BY <1>1, <1>3 DEF TypeOK
  <2> QED
    BY <2>1, <2>2, <2>3, <2>4, <1>1 DEF RTypeOK
<1>5. SeenHdr' = hdr /\ SeenCell' = cell
  <2>1. SeenHdr' = hdr
    BY <1>1, <1>2 DEF SeenHdr
  <2>2. \A s \in Slot : Unit(s) \in Units
    BY DEF Units
  <2>3. SeenCell' = [s \in Slot |-> cell[s]]
    BY <2>2, <1>1, <1>2 DEF SeenCell
  <2> QED
    BY <2>1, <2>3, <1>3 DEF TypeOK
<1>6. Base \in Body /\ Base.gen = acked.gen /\ Intact(Base, hdr, cell)
  BY <1>1, <1>3, BaseIntact DEF BaseStands
<1>7. Base' = Base /\ rbase'.gen = acked.gen /\ acked.gen \in Nat
  BY <1>1, <1>2, <1>3 DEF Base, BaseSlot, TypeOK
<1>8. SeenInv'
  <2>1. rbase'.gen <= Base.gen
    BY <1>6, <1>7
  <2>2. Intact(Base, SeenHdr', SeenCell')
    BY <1>5, <1>6
  <2> QED
    BY <2>1, <2>2, <1>6, <1>7, SeenNext
<1>9. QuietInv'
  <2>1. HasFile' /\ SeenHdr' = hdr' /\ SeenCell' = cell' /\ rbase'.gen <= acked'.gen
    BY <1>1, <1>2, <1>5, <1>7 DEF HasFile
  <2>2. begun' = 0 => job' = Idle
    BY <1>1, <1>2
  <2> QED
    BY <2>1, <2>2 DEF QuietInv
<1> QED
  BY <1>1, <1>4, <1>8, <1>9 DEF ReaderInv

(* A read puts in the buffer what the file holds.                          *)
LEMMA ReadStep == ASSUME ReaderInv, IInv', ReadSlot \/ ReadUnit PROVE ReaderInv'
<1> USE DEF ReaderInv, IInv
<1>1. UNCHANGED vars /\ UNCHANGED <<rbase, begun>> /\ Reading
  BY DEF ReadSlot, ReadUnit, Reading
<1>2. UNCHANGED <<sb, cell, hdr, acked, job>>
  BY <1>1 DEF vars, file
<1>3. /\ RTypeOK' /\ SeenHdr' = SeenHdr /\ SeenCell' = SeenCell
      /\ rat' = "done" => rleft' = {}
      /\ rat' # "none"
  <2>1. hdr \in [{0, 1} -> Header] /\ rhdr \in [{0, 1} -> Header]
        /\ cell \in [Slot -> Disk] /\ rcell \in [Slot -> Disk]
    BY DEF TypeOK, RTypeOK
  <2>2. CASE rat = "slot0" /\ ReadSlot
    <3>1. /\ rat' = "slot1" /\ rhdr' = [rhdr EXCEPT ![0] = hdr[0]]
          /\ UNCHANGED <<rleft, rcell>>
      BY <2>2 DEF ReadSlot
    <3>2. rhdr' \in [{0, 1} -> Header]
      BY <2>1, <3>1
    <3>3. SeenHdr' = hdr
      BY <2>1, <3>1, <1>2 DEF SeenHdr
    <3>4. SeenHdr = hdr
      BY <2>2 DEF SeenHdr
    <3> QED
      BY <3>1, <3>2, <3>3, <3>4, <1>1, <1>2 DEF RTypeOK, SeenCell
  <2>3. CASE rat = "slot1" /\ ReadSlot
    <3>1. /\ rat' = "units" /\ rhdr' = [rhdr EXCEPT ![1] = hdr[1]]
          /\ UNCHANGED <<rleft, rcell>>
      BY <2>3 DEF ReadSlot
    <3>2. rhdr' \in [{0, 1} -> Header]
      BY <2>1, <3>1
    <3>3. SeenHdr' = SeenHdr
      BY <2>3, <3>1 DEF SeenHdr
    <3> QED
      BY <3>1, <3>2, <3>3, <1>1, <1>2 DEF RTypeOK, SeenCell
  <2>4. CASE ReadUnit
    <3>1. PICK b \in rleft :
            /\ rcell' = [s \in Slot |-> IF Unit(s) = b THEN cell[s] ELSE rcell[s]]
            /\ rleft' = rleft \ {b}
            /\ rat' = IF rleft = {b} THEN "done" ELSE "units"
      BY <2>4 DEF ReadUnit
    <3>2. rat = "units" /\ UNCHANGED rhdr
      BY <2>4 DEF ReadUnit
    <3>3. SeenHdr' = SeenHdr
      BY <3>1, <3>2 DEF SeenHdr
    <3>4. SeenCell' = SeenCell
      BY <3>1, <1>2 DEF SeenCell
    <3>5. rcell' \in [Slot -> Disk]
      BY <2>1, <3>1
    <3>6. /\ rat' \in {"units", "done"} /\ rleft' \subseteq rleft
          /\ rat' = "done" => rleft' = {}
      BY <3>1
    <3>7. RTypeOK'
      BY <3>2, <3>5, <3>6, <1>1 DEF RTypeOK
    <3> QED
      BY <3>3, <3>4, <3>6, <3>7
  <2> QED
    BY <2>2, <2>3, <2>4 DEF ReadSlot
<1>4. Base' = Base
  BY <1>2 DEF Base, BaseSlot
<1>5. QuietInv
  OBVIOUS
<1>6. QuietInv'
  BY <1>1, <1>2, <1>3, <1>5 DEF QuietInv, HasFile
<1> HIDE DEF ReaderInv, IInv
<1>7. rat # "none"
  BY <1>1 DEF Reading
<1>8. SeenInv'
  BY <1>1, <1>2, <1>3, <1>4, <1>7, SameView
<1> USE DEF ReaderInv
<1> QED
  BY <1>3, <1>6, <1>8

-----------------------------------------------------------------------------
(* The writer's steps. *)

(* A load may take the reader's file a commit further, never back.         *)
LEMMA LoadNewer ==
  ASSUME IInv, IInv', Load
  PROVE  acked.gen <= acked'.gen
<1>1. HasFile /\ acked'.gen = Chosen(hdr, cell).gen
  BY DEF Load, IInv, ImageInv
<1>2. BaseSlot \in Adoptable(hdr, cell) /\ hdr[BaseSlot].gen = acked.gen
  BY <1>1, BaseAdoptable DEF IInv, BaseInv
<1>3. \A j \in Adoptable(hdr, cell) : hdr[j].gen <= Chosen(hdr, cell).gen
  BY <1>1, ChosenCommit
<1> QED
  BY <1>1, <1>2, <1>3

(* No sync is under way after the step, and the file is as it was: after   *)
(* an edit, the end of a sync, an exit, a load.                            *)
LEMMA FrozenStep ==
  ASSUME ReaderInv, Reading, UNCHANGED <<rvars, sb, hdr, cell>>, job' = Idle,
         job = Idle => acked.gen <= acked'.gen, IInv'
  PROVE  SeenInv' /\ QuietInv'
<1>1. UNCHANGED <<rat, rleft, rhdr, rcell, rbase, begun>>
  BY DEF rvars
<1>2. SeenHdr' = SeenHdr /\ SeenCell' = SeenCell /\ rat # "none"
  BY <1>1 DEF SeenHdr, SeenCell, Reading
<1>3. SeenInv'
  BY <1>1, <1>2, SameView
<1>4. QuietInv'
  <2>1. /\ rbase.gen \in Nat /\ acked.gen \in Nat /\ acked'.gen \in Nat
    BY DEF ReaderInv, IInv, TypeOK, RTypeOK
  <2>2. HasFile /\ (begun = 0 => /\ job = Idle /\ rbase.gen <= acked.gen
                                 /\ SeenHdr = hdr /\ SeenCell = cell)
    BY DEF ReaderInv, QuietInv
  <2> QED
    BY <2>1, <2>2, <1>1, <1>2 DEF QuietInv, HasFile
<1> QED
  BY <1>3, <1>4

(* A sync that is under way before and after the step has left the commit  *)
(* it started from intact, so what the reader will see of it is.           *)
LEMMA UnderWayStep ==
  ASSUME ReaderInv, Reading, UNCHANGED <<rvars, sb>>, job # Idle,
         Base' = Base, IInv'
  PROVE  SeenInv' /\ QuietInv'
<1>1. UNCHANGED <<rat, rleft, rhdr, rcell, rbase, begun>> /\ rat # "none"
  BY DEF rvars, Reading
<1>2. HasFile /\ HasFile' /\ begun # 0
  BY DEF ReaderInv, QuietInv, HasFile
<1>3. QuietInv'
  BY <1>1, <1>2 DEF QuietInv
<1>4. SeenInv'
  <2> SUFFICES ASSUME begun <= 1
               PROVE  SeenInv'
    BY <1>1 DEF SeenInv
  <2>1. Base \in Body /\ rbase.gen <= Base.gen /\ Intact(Base, SeenHdr, SeenCell)
    BY <1>1, SeenFact
  <2>2. BaseStands'
    BY <1>2, BaseIntact, PTL
  <2>3. Intact(Base, hdr', cell')
    BY <2>2 DEF BaseStands
  <2>4. \A i \in {0, 1} : SeenHdr'[i] = SeenHdr[i] \/ SeenHdr'[i] = hdr'[i]
    <3>1. CASE rat = "slot0"
      BY <3>1, <1>1 DEF SeenHdr
    <3>2. CASE rat = "slot1"
      <4>1. rhdr \in [{0, 1} -> Header]
        BY DEF ReaderInv, RTypeOK
      <4>2. /\ SeenHdr = [rhdr EXCEPT ![1] = hdr[1]]
            /\ SeenHdr' = [rhdr EXCEPT ![1] = hdr'[1]]
        BY <3>2, <1>1 DEF SeenHdr
      <4> QED
        BY <4>1, <4>2
    <3>3. CASE rat \notin {"slot0", "slot1"}
      BY <3>3, <1>1 DEF SeenHdr
    <3> QED
      BY <3>1, <3>2, <3>3
  <2>5. \A s \in Slot : SeenCell'[s] = SeenCell[s] \/ SeenCell'[s] = cell'[s]
    BY <1>1 DEF SeenCell
  <2>6. Intact(Base, SeenHdr', SeenCell')
    BY <2>1, <2>3, <2>4, <2>5, IntactMixes
  <2> QED
    BY <2>1, <2>6, <1>1, SeenNext
<1> QED
  BY <1>3, <1>4

(* A sync writes its header to the slot the bound commit is not in.        *)
LEMMA BatchKeepsBase ==
  ASSUME IInv, WriteWipe \/ WipeFsync \/ WriteUnit \/ WriteHeader
  PROVE  job # Idle /\ Base' = Base /\ sb' = sb
<1>1. job # Idle /\ UNCHANGED <<sb, acked>>
  BY IdleStage DEF WriteWipe, WipeFsync, WriteUnit, WriteHeader, Fsync
<1>2. hdr'[BaseSlot] = hdr[BaseSlot]
  <2>1. /\ job.body.gen % 2 = OtherSlot /\ BaseSlot # OtherSlot
        /\ BaseSlot \in {0, 1} /\ hdr \in [{0, 1} -> Header]
    BY <1>1, JobFacts DEF IInv, TypeOK
  <2>2. \A v : PutHeader(v) => hdr'[BaseSlot] = hdr[BaseSlot]
    BY <2>1 DEF PutHeader
  <2> QED
    BY <2>2 DEF WriteWipe, WipeFsync, WriteUnit, WriteHeader, Fsync
<1> QED
  BY <1>1, <1>2 DEF Base, BaseSlot

(* The first sync to begin since the reader opened the file finds it all   *)
(* in one commit.                                                          *)
LEMMA BeginSyncSeen ==
  ASSUME ReaderInv, IInv', Reading, BeginSync,
         begun' = IF begun < 2 THEN begun + 1 ELSE begun,
         UNCHANGED <<rat, rleft, rhdr, rcell, rbase>>
  PROVE  SeenInv' /\ QuietInv' /\ begun' \in 0 .. 2
<1>1. UNCHANGED <<sb, hdr, cell, acked>>
  BY DEF BeginSync, file
<1>2. begun \in 0 .. 2
  BY DEF ReaderInv, RTypeOK
<1>3. begun' \in 1 .. 2
  BY <1>2
<1>4. HasFile /\ (begun = 0 => rbase.gen <= acked.gen /\ SeenHdr = hdr /\ SeenCell = cell)
  BY DEF ReaderInv, QuietInv
<1>5. QuietInv'
  BY <1>1, <1>3, <1>4 DEF QuietInv, HasFile
<1>6. SeenInv'
  <2> SUFFICES ASSUME begun' <= 1
               PROVE  SeenInv'
    BY DEF SeenInv
  <2>1. begun = 0
    BY <1>2
  <2>2. Base \in Body /\ Base.gen = acked.gen /\ Intact(Base, hdr, cell)
    BY <1>4, BaseIntact DEF BaseStands, ReaderInv
  <2>3. SeenHdr' = SeenHdr /\ SeenCell' = SeenCell
    BY <1>1 DEF SeenHdr, SeenCell
  <2>4. Base' = Base
    BY <1>1 DEF Base, BaseSlot
  <2> QED
    BY <2>1, <2>2, <2>3, <2>4, <1>4, SeenNext
<1> QED
  BY <1>3, <1>5, <1>6

(* A full write leaves the reader the file it has open.                    *)
LEMMA ReplacedSeen ==
  ASSUME ReaderInv, IInv', Reading, ReadReplaced
  PROVE  ReaderInv'
<1>1. /\ rhdr' = SeenHdr /\ rcell' = SeenCell /\ rleft' = {} /\ rat' = "done"
      /\ UNCHANGED <<rbase, begun>>
  BY DEF ReadReplaced
<1>2. SeenHdr \in [{0, 1} -> Header] /\ SeenCell \in [Slot -> Disk]
  BY SeenTyped DEF ReaderInv, IInv
<1>3. RTypeOK'
  BY <1>1, <1>2 DEF ReaderInv, RTypeOK
<1>4. ~Reading' /\ rat # "none"
  BY <1>1 DEF Reading
<1>5. SeenHdr' = SeenHdr
  BY <1>1 DEF SeenHdr
<1>6. SeenCell' = SeenCell
  BY <1>1 DEF SeenCell
<1>7. SeenInv'
  BY <1>1, <1>4, <1>5, <1>6, SameView
<1> QED
  BY <1>1, <1>3, <1>4, <1>7 DEF ReaderInv, QuietInv

(* While nobody reads, the buffer is nobody's or complete.                 *)
LEMMA NotReading ==
  ASSUME ReaderInv, IInv', ~Reading, UNCHANGED rvars
  PROVE  ReaderInv'
<1>1. UNCHANGED <<rat, rleft, rhdr, rcell, rbase, begun>>
  BY DEF rvars
<1>2. ~Reading' /\ rat \in {"none", "done"}
  BY <1>1 DEF Reading, ReaderInv, RTypeOK
<1>3. SeenInv'
  <2>1. CASE rat = "none"
    BY <2>1, <1>1 DEF SeenInv
  <2>2. CASE rat = "done"
    <3>1. rleft = {}
      BY <2>2 DEF ReaderInv
    <3>2. SeenHdr' = SeenHdr /\ SeenCell' = SeenCell
      BY <3>1, <2>2, <1>1 DEF SeenHdr, SeenCell
    <3> QED
      BY <3>2, <2>2, <1>1, <1>2, SameView
  <2> QED
    BY <2>1, <2>2, <1>2
<1> QED
  BY <1>1, <1>2, <1>3 DEF ReaderInv, QuietInv, RTypeOK

-----------------------------------------------------------------------------
(* The theorem. *)

(* Every step of the writer, of the reader or of the environment keeps it. *)
LEMMA ReaderNextInv ==
  ASSUME ~DirtyRestarts, ReaderInv, [RNext]_allvars
  PROVE  ReaderInv'
<1>1. [Next]_vars
  BY DEF RNext, Writer, Next, Open, ReadSlot, ReadUnit, allvars
<1>2. IInv'
  BY <1>1, NextInv DEF ReaderInv
<1>3. CASE WriteFull /\ (IF Reading THEN ReadReplaced ELSE UNCHANGED rvars)
  BY <1>2, <1>3, ReplacedSeen, NotReading
<1>4. CASE /\ BeginSync
           /\ begun' = IF Reading /\ begun < 2 THEN begun + 1 ELSE begun
           /\ UNCHANGED <<rat, rleft, rhdr, rcell, rbase>>
  <2>1. CASE Reading
    <3>1. SeenInv' /\ QuietInv' /\ begun' \in 0 .. 2
      BY <2>1, <1>2, <1>4, BeginSyncSeen
    <3>2. rat' # "done"
      BY <2>1, <1>4 DEF Reading
    <3> QED
      BY <3>1, <3>2, <1>2, <1>4 DEF ReaderInv, RTypeOK
  <2>2. CASE ~Reading
    BY <2>2, <1>2, <1>4, NotReading DEF rvars
  <2> QED
    BY <2>1, <2>2
<1>5. CASE UNCHANGED rvars /\ Reading /\
           (Add \/ SwapRemove \/ Calibrate \/ WriteFullError \/ Commit
              \/ SyncError \/ Exit \/ Load)
  <2>1. UNCHANGED <<sb, hdr, cell>>
    BY <1>5 DEF Add, SwapRemove, Calibrate, WriteFullError, Commit, Fsync,
                SyncError, Exit, Load, file
  <2>2. job' = Idle
    <3>1. Load => job = Idle
      BY DEF Load, ReaderInv, IInv, JobInv, CursorInv
    <3> QED
      BY <3>1, <1>5 DEF Add, SwapRemove, Calibrate, WriteFullError, Commit, Ready,
                        SyncError, Exit, Down, Load
  <2>3. job = Idle => acked.gen <= acked'.gen
    <3>1. CASE Load
      BY <3>1, <1>2, LoadNewer DEF ReaderInv
    <3>2. CASE Commit
      BY <3>2, IdleStage DEF Commit
    <3>3. CASE Add \/ SwapRemove \/ Calibrate \/ WriteFullError \/ SyncError \/ Exit
      <4>1. acked' = acked /\ acked.gen \in Nat
        BY <3>3 DEF Add, SwapRemove, Calibrate, WriteFullError, SyncError, Exit,
                    ReaderInv, IInv, TypeOK
      <4> QED
        BY <4>1
    <3> QED
      BY <3>1, <3>2, <3>3, <1>5
  <2>4. SeenInv' /\ QuietInv'
    BY <2>1, <2>2, <2>3, <1>2, <1>5, FrozenStep
  <2> QED
    BY <2>4, <1>2, <1>5 DEF ReaderInv, RTypeOK, rvars
<1>6. CASE UNCHANGED rvars /\ Reading /\
           (WriteWipe \/ WipeFsync \/ WriteUnit \/ WriteHeader)
  <2>1. job # Idle /\ Base' = Base /\ sb' = sb
    BY <1>6, BatchKeepsBase DEF ReaderInv
  <2>2. SeenInv' /\ QuietInv'
    BY <2>1, <1>2, <1>6, UnderWayStep
  <2> QED
    BY <2>2, <1>2, <1>6 DEF ReaderInv, RTypeOK, rvars
<1>7. CASE /\ PowerCut
           /\ rat' = "none" /\ rleft' = {} /\ begun' = 0
           /\ rhdr' = NoHdr /\ rcell' = NoCell /\ rbase' = acked
  <2>1. rhdr' \in [{0, 1} -> Header] /\ rcell' \in [Slot -> Disk]
    BY <1>7 DEF NoHdr, NoCell, Blank, Header, Disk
  <2>2. rbase' \in [gen : Nat, cal : Nat, rows : [Slot -> Row]]
    BY <1>7 DEF ReaderInv, IInv, TypeOK
  <2>3. RTypeOK'
    BY <2>1, <2>2, <1>7 DEF RTypeOK
  <2> QED
    BY <2>3, <1>2, <1>7 DEF ReaderInv, SeenInv, QuietInv, Reading
<1>8. CASE Open
  BY <1>2, <1>8, OpenStep
<1>9. CASE ReadSlot \/ ReadUnit
  BY <1>2, <1>9, ReadStep
<1>10. CASE UNCHANGED allvars
  <2>1. UNCHANGED <<vars, rvars, sb, hdr, cell, acked, job>>
    BY <1>10 DEF allvars, vars, file
  <2>2. CASE Reading
    <3>1. SeenHdr' = SeenHdr /\ SeenCell' = SeenCell /\ Base' = Base /\ Reading'
      BY <2>1, <2>2 DEF SeenHdr, SeenCell, Base, BaseSlot, Reading, rvars
    <3>2. SeenInv'
      BY <3>1, <2>1, <2>2, SameView DEF rvars, Reading
    <3>3. QuietInv'
      BY <3>1, <2>1, <2>2 DEF ReaderInv, QuietInv, HasFile, rvars
    <3> QED
      BY <3>2, <3>3, <2>1, <1>2 DEF ReaderInv, RTypeOK, rvars
  <2>3. CASE ~Reading
    BY <2>1, <2>3, <1>2, NotReading
  <2> QED
    BY <2>2, <2>3
<1>11. CASE UNCHANGED rvars /\ ~Reading
  BY <1>2, <1>11, NotReading
<1> QED
  BY <1>3, <1>4, <1>5, <1>6, <1>7, <1>8, <1>9, <1>10, <1>11 DEF RNext, Writer

(* A process that loads the file finds, of the state it started from or of *)
(* a later one, every header and unit it will need, in every reachable     *)
(* state: for any index, any tears of a header write and any power         *)
(* failures.                                                               *)
THEOREM ReaderInvariance == ~DirtyRestarts => (RSpec => []ReaderInv)
<1> SUFFICES ASSUME ~DirtyRestarts
             PROVE  RSpec => []ReaderInv
  OBVIOUS
<1>1. RInit => ReaderInv
  <2> SUFFICES ASSUME RInit PROVE ReaderInv
    OBVIOUS
  <2>1. IInv
    BY InitInv DEF RInit
  <2>2. rhdr \in [{0, 1} -> Header] /\ rcell \in [Slot -> Disk]
    BY DEF RInit, RInitReader, NoHdr, NoCell, Blank, Header, Disk
  <2>3. RTypeOK
    BY <2>1, <2>2 DEF RInit, RInitReader, RTypeOK, IInv, TypeOK
  <2> QED
    BY <2>1, <2>3 DEF RInit, RInitReader, ReaderInv, SeenInv, QuietInv, Reading
<1>2. ReaderInv /\ [RNext]_allvars => ReaderInv'
  BY ReaderNextInv
<1> QED
  BY <1>1, <1>2, PTL DEF RSpec

(* A load that one sync overlaps at most sees a commit, and one no older   *)
(* than the last acknowledged when it opened the file (load, run_sync).    *)
THEOREM ReadersSeeACommit == ~DirtyRestarts => (RSpec => []OneSyncApart)
<1> SUFFICES ASSUME ~DirtyRestarts
             PROVE  RSpec => []OneSyncApart
  OBVIOUS
<1>1. ReaderInv => OneSyncApart
  <2> SUFFICES ASSUME ReaderInv, rat = "done", begun <= 1
               PROVE  /\ Readable /\ SeesACommit
                      /\ Chosen(rhdr, rcell).gen >= rbase.gen
    BY DEF OneSyncApart
  <2>1. SeenHdr = rhdr /\ SeenCell = rcell
    BY DEF SeenHdr, SeenCell, ReaderInv, RTypeOK
  <2>2. PICK b \in Body : rbase.gen <= b.gen /\ Intact(b, rhdr, rcell)
    BY <2>1, SeenFact
  <2>3. /\ Adoptable(rhdr, rcell) # {}
        /\ Gather(Chosen(rhdr, rcell), rcell) = Chosen(rhdr, rcell).snap
        /\ Chosen(rhdr, rcell).gen \in Nat /\ b.gen <= Chosen(rhdr, rcell).gen
    BY <2>2, IntactReads DEF ReaderInv, RTypeOK
  <2>4. rbase.gen \in Nat /\ b.gen \in Nat
    BY DEF ReaderInv, RTypeOK, Body
  <2> QED
    BY <2>2, <2>3, <2>4 DEF Readable, SeesACommit, ReadRows
<1> QED
  BY <1>1, ReaderInvariance, PTL

-----------------------------------------------------------------------------
(***************************************************************************)
(* The store.  A header ahead of the acknowledged commit may be left over  *)
(* from a sync that an earlier load rejected.  SInv says why it can never  *)
(* come back: one of the units it needs is not on disk, and no later sync  *)
(* can write the row that is missing, since the index no longer holds its  *)
(* vector.                                                                 *)
(***************************************************************************)

(* The headers that may be on disk, newer than the acknowledged commit.    *)
Ahead == {w \in mhdr[OtherSlot] : w.body # NoBody /\ w.body.gen > acked.gen}

(* The vectors added so far. *)
Past == 0 .. (edits + 1) * Capacity - 1

Known(r) == \A s \in Slot : r[s] # NoRow => r[s][1] \in Past

(* No row that q has past Base's rows, up to the m-th, has a vector of r.  *)
Apart(q, m, r) == \A s, t \in Slot :
  Base.n <= s /\ s < m /\ r[t] # NoRow => q[s][1] # r[t][1]

(* Some unit that h's sync wrote is not on disk, and no power failure can  *)
(* bring it back; nor can the sync under way, in a unit past Base's rows.  *)
Missing(h, s) == h.delta[s] # NoRow /\ h.delta[s] \notin mcell[s]
Gone(h)  == \E s \in Slot : Missing(h, s)
Never(h) == \E s \in Slot : Base.n <= s /\ Missing(h, s)

KnownInv == /\ Known(rows)
            /\ \A i \in {0, 1} : \A w \in mhdr[i] : w.body # NoBody => Known(w.body.snap)

SealedInv == \A i \in {0, 1} : \A w \in mhdr[i] : w = Blank \/ w = Sealed(w.body)

NewInv == HasFile =>
  /\ Bound => Apart(rows, n, Base.snap)
  /\ \A w \in Ahead : Room(w.body) /\ Apart(w.body.snap, w.body.n, Base.snap)

StageInv == /\ Bound /\ job = Idle => ~Dirty
            /\ job.stage = "wipe fsync" => hdr[OtherSlot] = Blank
            /\ job # Idle => tried = rows

Rejected(w) ==
  /\ Gone(w.body)
  /\ Bound => /\ Apart(w.body.snap, w.body.n, rows)
              /\ job.stage \in {"units", "fsync"} => Never(w.body)

Landed(w) ==
  /\ w = hdr[OtherSlot] /\ w.body.snap = tried
  /\ OtherSlot \in Adoptable(hdr, cell)
  /\ Bound => job.stage = "fsync"

AheadInv == HasFile => \A w \in Ahead : Rejected(w) \/ Landed(w)

SInv == IInv /\ KnownInv /\ SealedInv /\ NewInv /\ StageInv /\ AheadInv

-----------------------------------------------------------------------------
(* What the headers ahead are. *)

(* A header ahead of the acknowledged commit is one made from it.          *)
LEMMA AheadFacts ==
  ASSUME IInv, SealedInv, HasFile, NEW w \in Ahead
  PROVE  /\ OtherSlot \in {0, 1} /\ BaseSlot \in {0, 1} /\ BaseSlot # OtherSlot
         /\ w \in mhdr[OtherSlot] /\ w.body \in Body /\ w.body # NoBody
         /\ w = Sealed(w.body) /\ w.gen = w.body.gen
         /\ Follows(w.body, Base) /\ WellFormed(w.body)
         /\ w.body.gen = acked.gen + 1 /\ w.body.gen % 2 = OtherSlot
         /\ acked.gen \in Nat
<1> USE DEF IInv
<1>1. /\ acked.gen \in Nat /\ Base.gen = acked.gen
      /\ OtherSlot \in {0, 1} /\ BaseSlot \in {0, 1} /\ BaseSlot # OtherSlot
  BY Parity DEF TypeOK, BaseInv, OtherSlot, BaseSlot
<1>2. w \in mhdr[OtherSlot] /\ w.body # NoBody /\ w.body.gen > acked.gen
  BY DEF Ahead
<1>3. w \in Header
  BY <1>1, <1>2 DEF TypeOK
<1>4. w.body \in Body /\ w.body.gen \in Nat
  BY <1>2, <1>3 DEF Header, Body
<1>5. Follows(w.body, Base)
  BY <1>1, <1>2, <1>4 DEF OtherInv
<1>6. w = Sealed(w.body)
  BY <1>1, <1>2 DEF SealedInv, Blank
<1>7. w.gen = w.body.gen
  BY <1>6 DEF Sealed
<1> QED
  BY <1>1, <1>2, <1>4, <1>5, <1>6, <1>7 DEF Follows, OtherSlot

(* Two block boundaries are at least a block apart.                        *)
LEMMA WholeApart ==
  \A m0, m \in Nat : Whole(m0) < Whole(m) => m0 <= Whole(m) - 1
<1> SUFFICES ASSUME NEW m0 \in Nat, NEW m \in Nat, Whole(m0) < Whole(m)
             PROVE  m0 <= Whole(m) - 1
  OBVIOUS
<1>1. m0 \in Nat /\ Whole(m) \in Nat
  BY WholeNat
<1>2. m0 < Whole(m) <=> Unit(m0) < m \div Block
  BY UnitWhole
<1>3. m0 \div Block < m \div Block
  <2>1. Block \in Nat /\ Block > 0 /\ m0 \div Block \in Nat /\ m \div Block \in Nat
    BY BlockAssumption
  <2>2. CASE m \div Block <= m0 \div Block
    <3>1. (m \div Block) * Block <= (m0 \div Block) * Block
      BY <2>1, <2>2
    <3> QED
      BY <3>1, <2>1 DEF Whole
  <2> QED
    BY <2>1, <2>2
<1> QED
  BY <1>1, <1>2, <1>3 DEF Unit

(* The last slot of the whole units of m rows. *)
LEMMA LastSlot ==
  ASSUME NEW m \in 0 .. Capacity, Whole(m) # 0
  PROVE  /\ Whole(m) - 1 \in Slot /\ Whole(m) - 1 < Whole(m)
         /\ \A s \in Slot : s >= Whole(m) - 1 <=> ~(s < Whole(m) - 1)
BY WholeNat, SlotNat, CapacityAssumption DEF Slot

(* A commit whose units are all there, made from one whose units are not   *)
(* holes, fits its file.                                                   *)
LEMMA FollowerFits ==
  ASSUME NEW h \in Body, NEW b, NEW c,
         Follows(h, b), Verified(h, c),
         \A s \in Slot : s < Whole(b.n) => c[s] # Hole
  PROVE  Fits(h.n, c)
<1>1. h.n \in 0 .. Capacity /\ WellFormed(h)
  BY DEF Body, Follows
<1>2. CASE Whole(h.n) = 0
  BY <1>2 DEF Fits
<1>3. CASE Whole(h.n) # 0
  <2> DEFINE t == Whole(h.n) - 1
  <2>1. t \in Slot /\ t < Whole(h.n) /\ t >= Whole(h.n) - 1
    BY <1>1, <1>3, LastSlot, SlotNat, WholeNat
  <2>2. h.delta[t] # NoRow \/ t < Whole(b.n)
    BY <2>1 DEF Follows
  <2>3. h.delta[t] # NoRow => c[t] = h.delta[t] /\ h.delta[t] \in Cell
    BY <2>1 DEF Verified, Body, Row
  <2>4. c[t] # Hole
    BY <2>1, <2>2, <2>3, MarkerAssumption
  <2> QED
    BY <2>1, <2>4 DEF Fits
<1> QED
  BY <1>2, <1>3

(* The bound commit's units are never holes. *)
LEMMA BaseUnits ==
  ASSUME IInv, HasFile
  PROVE  \A s \in Slot : s < Whole(Base.n) => Hole \notin mcell[s] /\ cell[s] # Hole
BY DEF IInv, BaseInv, Settled, ImageInv

(* A header ahead that the file is too short for misses a row past Base's. *)
LEMMA ShortNever ==
  ASSUME IInv, SealedInv, HasFile, NEW w \in Ahead,
         ~Fits(w.body.n, cell), \A s \in Slot : mcell[s] = {cell[s]}
  PROVE  Never(w.body)
<1> DEFINE h == w.body
           t == Whole(h.n) - 1
<1>1. h \in Body /\ Follows(h, Base) /\ h.n \in 0 .. Capacity /\ h.n \in Nat
  BY AheadFacts, SlotNat DEF Body
<1>2. Whole(h.n) # 0 /\ \A s \in Slot : s >= t => cell[s] = Hole
  BY DEF Fits
<1>3. t \in Slot /\ t \in Nat /\ t >= t /\ t < Whole(h.n) /\ Whole(h.n) \in Nat
  BY <1>1, <1>2, LastSlot, SlotNat, WholeNat
<1>4. cell[t] = Hole
  BY <1>2, <1>3
<1>5. Base.n \in Nat /\ Whole(Base.n) \in Nat
  BY BaseType DEF IInv
<1>6. ~(t < Whole(Base.n))
  BY <1>3, <1>4, BaseUnits
<1>7. h.delta[t] # NoRow
  BY <1>1, <1>3, <1>6 DEF Follows
<1>8. h.delta[t] \in Cell
  BY <1>1, <1>3, <1>7 DEF Body, Row
<1>9. h.delta[t] \notin mcell[t]
  BY <1>3, <1>4, <1>8, MarkerAssumption
<1>10. Base.n <= t
  BY <1>1, <1>3, <1>5, <1>6, WholeApart
<1> QED
  BY <1>3, <1>7, <1>9, <1>10 DEF Never, Missing

(* What a header write may leave, when it lands whole or not at all.       *)
LEMMA WholeHeader ==
  ASSUME HeaderTears = {}, NEW old, NEW v
  PROVE  \A w \in MaybeHdr(old, v) : w \in old \/ w = v \/ w = Blank
BY DEF MaybeHdr, Tears

-----------------------------------------------------------------------------
(* Edits. *)

(* The bound on the vectors of a number of edits grows with it.            *)
LEMMA Bounds ==
  ASSUME NEW e \in Nat, NEW f \in Nat, e <= f
  PROVE  /\ (e + 1) * Capacity \in Nat
         /\ (e + 1) * Capacity <= (f + 1) * Capacity
         /\ (e + 1 + 1) * Capacity = (e + 1) * Capacity + Capacity
<1>1. PICK c \in Nat : c = Capacity
  BY CapacityAssumption
<1>2. \A a, b \in Nat : a * b \in Nat
  OBVIOUS
<1>3. (e + 1) * c \in Nat /\ (f - e) * c \in Nat
  BY <1>1, <1>2
<1>4. (f + 1) * c = (e + 1) * c + (f - e) * c
  BY <1>1
<1>5. (e + 1 + 1) * c = (e + 1) * c + c
  BY <1>1
<1> QED
  BY <1>1, <1>3, <1>4, <1>5

(* What has been added so far only grows. *)
LEMMA PastGrows ==
  ASSUME edits \in Nat, edits' \in Nat, edits <= edits'
  PROVE  /\ Past \subseteq Past'
         /\ \A r : Known(r) => Known(r)'
<1>1. /\ (edits + 1) * Capacity <= (edits' + 1) * Capacity
      /\ (edits + 1) * Capacity \in Nat /\ (edits' + 1) * Capacity \in Nat
  BY Bounds
<1>2. Past \subseteq Past'
  BY <1>1 DEF Past
<1> QED
  BY <1>2 DEF Known

(* A step that leaves the file, the binding and the job alone, and gives   *)
(* the index no vector that a header may hold, keeps the invariant.        *)
LEMMA EditFrame ==
  ASSUME SInv, TypeOK', UNCHANGED <<file, up, cursor, job, acked, tried>>, job = Idle,
         edits <= edits', Known(rows)',
         HasFile /\ Bound =>
           /\ \A s, t \in Slot : Base.n <= s /\ s < n' /\ Base.snap[t] # NoRow =>
                rows'[s][1] # Base.snap[t][1]
           /\ \A w \in Ahead : \A s, t \in Slot :
                Base.n <= s /\ s < w.body.n /\ rows'[t] # NoRow =>
                  w.body.snap[s][1] # rows'[t][1]
  PROVE  /\ KnownInv' /\ SealedInv' /\ NewInv' /\ StageInv' /\ AheadInv'
<1>1. /\ Base' = Base /\ HasFile' = HasFile /\ OtherSlot' = OtherSlot
      /\ Adoptable(hdr, cell)' = Adoptable(hdr, cell)
  BY BaseFrame DEF OtherSlot
<1>2. UNCHANGED <<sb, cell, hdr, mcell, mhdr>> /\ Bound' = Bound
  BY DEF file, Bound
<1>3. Ahead' = Ahead
  BY <1>1, <1>2 DEF Ahead
<1>4. \A r : Known(r) => Known(r)'
  BY PastGrows DEF SInv, IInv, TypeOK
<1>5. KnownInv'
  BY <1>2, <1>4 DEF SInv, KnownInv
<1>6. SealedInv'
  BY <1>2 DEF SInv, SealedInv
<1>7. NewInv'
  BY <1>1, <1>2, <1>3 DEF SInv, NewInv, Apart
<1>8. StageInv'
  BY <1>1, <1>2 DEF SInv, StageInv, Dirty, Idle
<1>9. job.stage = "idle"
  BY DEF Idle
<1>10. AheadInv'
  <2> SUFFICES ASSUME HasFile, NEW w \in Ahead
               PROVE  (Rejected(w) \/ Landed(w))'
    BY <1>1, <1>3 DEF AheadInv
  <2>1. Rejected(w) \/ Landed(w)
    BY DEF SInv, AheadInv
  <2>2. CASE Rejected(w)
    BY <2>2, <1>1, <1>2, <1>9 DEF Rejected, Gone, Missing, Apart
  <2>3. CASE Landed(w)
    BY <2>3, <1>1, <1>2, <1>9 DEF Landed
  <2> QED
    BY <2>1, <2>2, <2>3
<1> QED
  BY <1>5, <1>6, <1>7, <1>8, <1>10

(* The headers that a batch is kept apart from hold vectors of the past.   *)
LEMMA PastRows ==
  ASSUME SInv, HasFile
  PROVE  /\ \A t \in Slot : Base.snap[t] # NoRow => Base.snap[t][1] \in Past
         /\ \A w \in Ahead : \A s \in Slot :
              s < w.body.n => w.body.snap[s] # NoRow /\ w.body.snap[s][1] \in Past
<1> USE DEF SInv
<1>1. Known(Base.snap)
  <2>1. hdr[BaseSlot] \in mhdr[BaseSlot] /\ BaseSlot \in {0, 1} /\ Base # NoBody
    BY Parity DEF IInv, TypeOK, BaseInv, BaseSlot
  <2> QED
    BY <2>1 DEF KnownInv, Base
<1>2. ASSUME NEW w \in Ahead, NEW s \in Slot, s < w.body.n
      PROVE  w.body.snap[s] # NoRow /\ w.body.snap[s][1] \in Past
  <2>1. Known(w.body.snap) /\ WellFormed(w.body)
    BY AheadFacts DEF KnownInv
  <2>2. w.body.snap[s] \in Cell
    BY <1>2, <2>1 DEF WellFormed
  <2> QED
    BY <2>1, <2>2, MarkerAssumption DEF Known
<1> QED
  BY <1>1, <1>2 DEF Known

(* A batch of fresh rows holds no vector of the past. *)
LEMMA AddApart == ASSUME SInv, Add, FreshRows PROVE SInv'
<1> USE DEF SInv
<1>1. PICK k \in BatchSizes :
        /\ n + k <= Capacity
        /\ n' = n + k
        /\ \E v \in Batch(edits + 1, k) :
             rows' = [s \in Slot |-> IF n <= s /\ s < n + k
                                     THEN <<v[s - n], cal>> ELSE rows[s]]
  BY DEF Add
<1>2. PICK v \in Batch(edits + 1, k) :
        rows' = [s \in Slot |-> IF n <= s /\ s < n + k
                                THEN <<v[s - n], cal>> ELSE rows[s]]
  BY <1>1
<1>3. /\ n \in Nat /\ edits \in Nat /\ edits' = edits + 1 /\ k \in Nat
      /\ k \in 0 .. Capacity /\ Slot \subseteq Nat
  BY <1>1, BoundAssumption, CapacityAssumption, SlotNat DEF IInv, TypeOK, Add
<1>4. v = [j \in 0 .. k - 1 |-> (edits + 1) * Capacity + j]
  BY <1>2 DEF Batch
<1>5. \A s \in Slot :
        /\ n <= s /\ s < n + k => /\ s - n \in 0 .. Capacity - 1
                                  /\ rows'[s][1] = (edits + 1) * Capacity + (s - n)
        /\ ~(n <= s /\ s < n + k) => rows'[s] = rows[s]
  <2> TAKE s \in Slot
  <2>1. CASE n <= s /\ s < n + k
    <3>1. s - n \in 0 .. k - 1 /\ s - n \in 0 .. Capacity - 1
      BY <2>1, <1>3, CapacityAssumption DEF Slot
    <3>2. v[s - n] = (edits + 1) * Capacity + (s - n)
      BY <3>1, <1>4, Zenon
    <3>3. rows'[s] = <<v[s - n], cal>>
      BY <2>1, <1>2
    <3> QED
      BY <2>1, <3>1, <3>2, <3>3
  <2> QED
    BY <2>1, <1>2
<1>6. \A s \in Slot : n <= s /\ s < n + k =>
        rows'[s][1] \in Past' /\ rows'[s][1] \notin Past
  <2> SUFFICES ASSUME NEW s \in Slot, n <= s, s < n + k
               PROVE  rows'[s][1] \in Past' /\ rows'[s][1] \notin Past
    OBVIOUS
  <2>1. /\ s - n \in 0 .. Capacity - 1
        /\ rows'[s][1] = (edits + 1) * Capacity + (s - n)
    BY <1>5
  <2>2. /\ (edits + 1 + 1) * Capacity = (edits + 1) * Capacity + Capacity
        /\ (edits + 1) * Capacity \in Nat
    BY <1>3, Bounds
  <2> QED
    BY <2>1, <2>2, <1>3, CapacityAssumption DEF Past
<1>7. IInv'
  BY AddStep
<1>8. /\ UNCHANGED <<file, up, cursor, job, acked, tried>> /\ job = Idle
      /\ TypeOK' /\ edits <= edits'
  BY <1>3, <1>7 DEF Add, Ready, IInv
<1>9. Past \subseteq Past'
  BY <1>3, <1>8, PastGrows
<1>10. Known(rows)'
  BY <1>5, <1>6, <1>9 DEF KnownInv, Known
<1>11. ASSUME HasFile, Bound
       PROVE  /\ \A s, t \in Slot : Base.n <= s /\ s < n' /\ Base.snap[t] # NoRow =>
                   rows'[s][1] # Base.snap[t][1]
              /\ \A w \in Ahead : \A s, t \in Slot :
                   Base.n <= s /\ s < w.body.n /\ rows'[t] # NoRow =>
                     w.body.snap[s][1] # rows'[t][1]
  <2>1. ASSUME NEW s \in Slot, NEW t \in Slot,
               Base.n <= s, s < n', Base.snap[t] # NoRow
        PROVE  rows'[s][1] # Base.snap[t][1]
    <3>1. CASE n <= s
      BY <3>1, <2>1, <1>1, <1>6, <1>11, PastRows
    <3>2. CASE ~(n <= s)
      <4>1. s < n /\ rows'[s] = rows[s]
        BY <3>2, <1>3, <1>5
      <4> QED
        BY <4>1, <2>1, <1>11 DEF NewInv, Apart
    <3> QED
      BY <3>1, <3>2
  <2>2. ASSUME NEW w \in Ahead, NEW s \in Slot, NEW t \in Slot,
               Base.n <= s, s < w.body.n, rows'[t] # NoRow
        PROVE  w.body.snap[s][1] # rows'[t][1]
    <3>1. CASE n <= t /\ t < n + k
      BY <3>1, <2>2, <1>6, <1>11, PastRows
    <3>2. CASE ~(n <= t /\ t < n + k)
      <4>1. rows'[t] = rows[t]
        BY <3>2, <1>5
      <4>2. ~Landed(w)
        BY <1>8, <1>11 DEF Landed, Idle
      <4>3. Apart(w.body.snap, w.body.n, rows)
        BY <4>2, <1>11 DEF AheadInv, Rejected
      <4> QED
        BY <4>1, <4>3, <2>2 DEF Apart
    <3> QED
      BY <3>1, <3>2
  <2> QED
    BY <2>1, <2>2
<1> QED
  BY <1>7, <1>8, <1>10, <1>11, EditFrame

(* An edit that only moves, drops or re-encodes rows adds no vector.       *)
LEMMA KeepsVectors ==
  ASSUME SInv, IInv', UNCHANGED <<file, up, cursor, job, acked, tried>>, job = Idle,
         edits <= edits',
         \A s \in Slot : rows'[s] # NoRow =>
           \E t \in Slot : /\ rows[t] # NoRow /\ rows'[s][1] = rows[t][1]
                           /\ s < n' => s <= t /\ t < n
  PROVE  SInv'
<1> USE DEF SInv
<1>1. Past \subseteq Past'
  BY PastGrows DEF IInv, TypeOK
<1>2. Known(rows)'
  BY <1>1 DEF KnownInv, Known
<1>3. /\ n' \in Nat /\ n \in Nat /\ Slot \subseteq Nat
      /\ \A s \in Slot : s < n' => rows'[s] # NoRow
  BY SlotNat, MarkerAssumption DEF IInv, TypeOK, RowsInv
<1>4. ASSUME HasFile, Bound
      PROVE  /\ \A s, t \in Slot : Base.n <= s /\ s < n' /\ Base.snap[t] # NoRow =>
                  rows'[s][1] # Base.snap[t][1]
             /\ \A w \in Ahead : \A s, t \in Slot :
                  Base.n <= s /\ s < w.body.n /\ rows'[t] # NoRow =>
                    w.body.snap[s][1] # rows'[t][1]
  <2>1. ASSUME NEW s \in Slot, NEW t \in Slot,
               Base.n <= s, s < n', Base.snap[t] # NoRow
        PROVE  rows'[s][1] # Base.snap[t][1]
    <3>1. PICK u \in Slot : rows'[s][1] = rows[u][1] /\ s <= u /\ u < n
      BY <2>1, <1>3
    <3>2. Base.n <= u
      BY <2>1, <3>1, <1>3, <1>4, BaseType DEF IInv
    <3> QED
      BY <3>1, <3>2, <2>1, <1>4 DEF NewInv, Apart
  <2>2. ASSUME NEW w \in Ahead, NEW s \in Slot, NEW t \in Slot,
               Base.n <= s, s < w.body.n, rows'[t] # NoRow
        PROVE  w.body.snap[s][1] # rows'[t][1]
    <3>1. ~Landed(w)
      BY <1>4 DEF Landed, Idle
    <3>2. Apart(w.body.snap, w.body.n, rows)
      BY <3>1, <1>4 DEF AheadInv, Rejected
    <3> QED
      BY <3>2, <2>2 DEF Apart
  <2> QED
    BY <2>1, <2>2
<1>5. TypeOK'
  BY DEF IInv
<1> QED
  BY <1>2, <1>4, <1>5, EditFrame

(* swap_remove moves the last row down, over a row that is gone.           *)
LEMMA SwapRemoveApart == ASSUME SInv, SwapRemove PROVE SInv'
<1> USE DEF SInv
<1>1. PICK i \in 0 .. n - 1 :
        rows' = [rows EXCEPT ![i] = rows[n - 1], ![n - 1] = NoRow]
  BY DEF SwapRemove
<1>2. /\ n \in Nat /\ n > 0 /\ n' = n - 1 /\ n - 1 \in Slot /\ i \in Slot
      /\ rows \in [Slot -> Row] /\ Slot \subseteq Nat
  BY CapacityAssumption, SlotNat DEF IInv, SwapRemove, TypeOK, Slot
<1>3. \A s \in Slot : rows'[s] = IF s = n - 1 THEN NoRow
                                 ELSE IF s = i THEN rows[n - 1] ELSE rows[s]
  BY <1>1, <1>2
<1>4. UNCHANGED <<file, up, cursor, job, acked, tried>> /\ job = Idle /\ edits <= edits'
  BY DEF SwapRemove, Ready, IInv, TypeOK
<1>5. ASSUME NEW s \in Slot, rows'[s] # NoRow
      PROVE  \E t \in Slot : /\ rows[t] # NoRow /\ rows'[s][1] = rows[t][1]
                             /\ s < n' => s <= t /\ t < n
  <2>1. CASE s = i
    BY <2>1, <1>2, <1>3, <1>5
  <2>2. CASE s # i
    BY <2>2, <1>2, <1>3, <1>5
  <2> QED
    BY <2>1, <2>2
<1>6. IInv'
  BY SwapRemoveStep
<1> QED
  BY <1>4, <1>5, <1>6, KeepsVectors

(* A calibration re-encodes the vectors it finds. *)
LEMMA CalibrateApart == ASSUME SInv, Calibrate PROVE SInv'
<1> USE DEF SInv
<1>1. /\ UNCHANGED <<file, up, cursor, job, acked, tried, n, edits>> /\ job = Idle
      /\ edits <= edits' /\ n \in Nat /\ Slot \subseteq Nat
  BY SlotNat DEF Calibrate, Ready, IInv, TypeOK
<1>2. rows' = [s \in Slot |-> IF s < n THEN <<rows[s][1], cal + 1>> ELSE NoRow]
  BY DEF Calibrate
<1>3. ASSUME NEW s \in Slot, rows'[s] # NoRow
      PROVE  \E t \in Slot : /\ rows[t] # NoRow /\ rows'[s][1] = rows[t][1]
                             /\ s < n' => s <= t /\ t < n
  <2>1. s < n /\ rows'[s][1] = rows[s][1]
    BY <1>2, <1>3
  <2>2. rows[s] # NoRow
    BY <2>1, MarkerAssumption DEF IInv, RowsInv
  <2> QED
    BY <2>1, <2>2, <1>1
<1>4. IInv'
  BY CalibrateStep
<1> QED
  BY <1>1, <1>3, <1>4, KeepsVectors

-----------------------------------------------------------------------------
(* A sync begins, or fails. *)

(* A failed sync leaves a file that no cursor is bound to. *)
LEMMA UnbindApart ==
  ASSUME SInv, WriteFullError \/ SyncError
  PROVE  SInv'
<1> USE DEF SInv
<1>1. /\ UNCHANGED <<file, rows, acked, tried, edits>>
      /\ cursor' = NoCursor /\ job' = Idle
  BY DEF WriteFullError, SyncError, Ready
<1>2. UNCHANGED <<sb, cell, hdr, mcell, mhdr>> /\ ~Bound'
  BY <1>1 DEF file, Bound
<1>3. /\ Base' = Base /\ HasFile' = HasFile /\ OtherSlot' = OtherSlot
      /\ Adoptable(hdr, cell)' = Adoptable(hdr, cell)
  BY <1>1, BaseFrame DEF OtherSlot
<1>4. Ahead' = Ahead
  BY <1>1, <1>2, <1>3 DEF Ahead
<1>5. IInv'
  BY UnbindStep
<1>6. KnownInv' /\ SealedInv' /\ StageInv'
  BY <1>1, <1>2 DEF KnownInv, Known, Past, SealedInv, StageInv, Idle
<1>7. NewInv'
  BY <1>2, <1>3, <1>4 DEF NewInv, Apart
<1>8. AheadInv'
  BY <1>1, <1>2, <1>3, <1>4 DEF AheadInv, Rejected, Landed, Gone, Missing
<1> QED
  BY <1>5, <1>6, <1>7, <1>8

(* A plan that needs no repair batch leaves a rejected header alone only   *)
(* because the file is too short for it.                                   *)
LEMMA BeginSyncApart == ASSUME SInv, BeginSync PROVE SInv'
<1> USE DEF SInv
<1>1. /\ Ready /\ Bound /\ job = Idle /\ tried' = rows
      /\ job'.stage = IF StaleAhead(cursor.gen, hdr, cell) THEN "wipe" ELSE "units"
      /\ UNCHANGED <<file, up, index, acked, edits, cuts>>
  BY DEF BeginSync, Incremental, State, Bound, Ready
<1>2. UNCHANGED <<sb, cell, hdr, mcell, mhdr, n, rows, cursor>> /\ Bound' = Bound
  BY <1>1 DEF file, index, Bound
<1>3. /\ Base' = Base /\ HasFile' = HasFile /\ OtherSlot' = OtherSlot
      /\ Adoptable(hdr, cell)' = Adoptable(hdr, cell)
  BY <1>1, BaseFrame DEF OtherSlot
<1>4. Ahead' = Ahead
  BY <1>1, <1>2, <1>3 DEF Ahead
<1>5. IInv'
  BY BeginSyncStep
<1>6. job'.stage # "idle" /\ job'.stage # "wipe fsync" /\ job' # Idle
  BY <1>1, IdleStage
<1>7. KnownInv' /\ SealedInv' /\ StageInv'
  BY <1>1, <1>2, <1>6 DEF KnownInv, Known, Past, SealedInv, StageInv
<1>8. NewInv'
  BY <1>2, <1>3, <1>4 DEF NewInv, Apart
<1>9. AheadInv'
  <2> SUFFICES ASSUME HasFile, NEW w \in Ahead
               PROVE  Rejected(w)'
    BY <1>3, <1>4 DEF AheadInv
  <2>1. ~Landed(w)
    BY <1>1, IdleStage DEF Landed
  <2>2. Gone(w.body) /\ Apart(w.body.snap, w.body.n, rows)
    BY <2>1, <1>1 DEF AheadInv, Rejected
  <2>3. job'.stage = "units" => Never(w.body)
    <3> SUFFICES ASSUME ~StaleAhead(cursor.gen, hdr, cell)
                 PROVE  Never(w.body)
      BY <1>1
    <3>1. /\ w \in mhdr[OtherSlot] /\ w.gen = w.body.gen /\ w.gen = acked.gen + 1
          /\ w.gen % 2 = OtherSlot /\ OtherSlot \in {0, 1} /\ w.body # NoBody
          /\ acked.gen \in Nat
      BY AheadFacts
    <3>2. ~Dirty
      BY <1>1 DEF StageInv
    <3>3. w = hdr[OtherSlot] /\ \A s \in Slot : mcell[s] = {cell[s]}
      BY <3>1, <3>2 DEF Dirty
    <3>4. cursor.gen = acked.gen
      BY <1>1 DEF IInv, CursorInv
    <3>5. ~Parses(OtherSlot, hdr, cell)
      BY <3>1, <3>3, <3>4 DEF StaleAhead, Candidates
    <3>6. Room(w.body)
      BY DEF NewInv
    <3>7. ~Fits(w.body.n, cell)
      BY <3>1, <3>3, <3>5, <3>6 DEF Parses
    <3> QED
      BY <3>3, <3>7, ShortNever
  <2>4. job'.stage # "fsync"
    BY <1>1
  <2> QED
    BY <2>2, <2>3, <2>4, <1>2, <1>3
       DEF Rejected, Gone, Never, Missing, Apart
<1> QED
  BY <1>5, <1>7, <1>8, <1>9

-----------------------------------------------------------------------------
(* Writing. *)

(* Erased bytes are no header. *)
LEMMA BlankBody == Blank.body = NoBody /\ Blank \in Header
BY DEF Blank, Header

(* What a header write leaves in the slot that is not Base's.              *)
LEMMA HeaderWrite ==
  ASSUME IInv, HeaderTears = {}, job # Idle, NEW v, PutHeader(v)
  PROVE  /\ OtherSlot \in {0, 1} /\ BaseSlot \in {0, 1} /\ BaseSlot # OtherSlot
         /\ hdr'[OtherSlot] = v
         /\ \A w \in mhdr'[OtherSlot] : w \in mhdr[OtherSlot] \/ w = v \/ w = Blank
         /\ mhdr'[BaseSlot] = mhdr[BaseSlot]
         /\ \A i \in {0, 1} : i = BaseSlot \/ i = OtherSlot
<1>1. /\ job.body.gen % 2 = OtherSlot
      /\ BaseSlot \in {0, 1} /\ OtherSlot \in {0, 1} /\ BaseSlot # OtherSlot
  BY JobFacts
<1>2. hdr \in [{0, 1} -> Header] /\ mhdr \in [{0, 1} -> SUBSET Header]
  BY DEF IInv, TypeOK
<1> DEFINE M == MaybeHdr(mhdr[OtherSlot], v)
<1>3. /\ hdr' = [hdr EXCEPT ![OtherSlot] = v]
      /\ mhdr' = [mhdr EXCEPT ![OtherSlot] = M]
  BY <1>1 DEF PutHeader
<1>4. \A w \in M : w \in mhdr[OtherSlot] \/ w = v \/ w = Blank
  BY WholeHeader
<1> HIDE DEF M
<1>5. hdr'[OtherSlot] = v /\ mhdr'[OtherSlot] = M /\ mhdr'[BaseSlot] = mhdr[BaseSlot]
  BY <1>1, <1>2, <1>3
<1> QED
  BY <1>1, <1>4, <1>5

(* The repair batch erases the slot of a rejected header; a power failure  *)
(* may still leave the header, without the unit that it misses.            *)
LEMMA WriteWipeApart == ASSUME SInv, WriteWipe, HeaderTears = {} PROVE SInv'
<1> USE DEF SInv
<1>1. /\ job.stage = "wipe" /\ PutHeader(Blank)
      /\ job' = [job EXCEPT !.stage = "wipe fsync"]
      /\ UNCHANGED <<sb, cell, mcell, up, n, rows, cal, cursor, acked, tried, edits>>
  BY DEF WriteWipe, index
<1>2. job # Idle
  BY <1>1, IdleStage
<1>3. /\ OtherSlot \in {0, 1} /\ BaseSlot \in {0, 1} /\ BaseSlot # OtherSlot
      /\ hdr'[OtherSlot] = Blank
      /\ \A w \in mhdr'[OtherSlot] : w \in mhdr[OtherSlot] \/ w = Blank
      /\ mhdr'[BaseSlot] = mhdr[BaseSlot]
      /\ \A i \in {0, 1} : i = BaseSlot \/ i = OtherSlot
  BY <1>1, <1>2, HeaderWrite
<1>4. job'.stage = "wipe fsync" /\ job' # Idle
  BY <1>1, IdleStage DEF IInv, TypeOK
<1>5. HasFile' = HasFile /\ OtherSlot' = OtherSlot /\ Bound' = Bound /\ Base' = Base
  <2>1. Blank \in Header /\ Blank.body \in {NoBody, job.body}
    BY DEF Blank, Header
  <2>2. Base' = Base
    BY <1>1, <1>2, <2>1, PutHeaderInv
  <2> QED
    BY <2>2, <1>1 DEF HasFile, OtherSlot, Bound
<1>6. Ahead' \subseteq Ahead
  BY <1>1, <1>3, <1>5, BlankBody DEF Ahead
<1>7. IInv'
  BY WriteWipeStep
<1>8. KnownInv'
  <2>1. \A i \in {0, 1} : \A w \in mhdr'[i] : w.body # NoBody => w \in mhdr[i]
    BY <1>3, BlankBody
  <2> QED
    BY <2>1, <1>1 DEF KnownInv, Known, Past
<1>9. SealedInv'
  BY <1>3 DEF SealedInv
<1>10. StageInv'
  BY <1>1, <1>2, <1>3, <1>4, <1>5 DEF StageInv
<1>11. NewInv'
  BY <1>1, <1>5, <1>6 DEF NewInv, Apart
<1>12. AheadInv'
  <2> SUFFICES ASSUME HasFile, NEW w \in Ahead
               PROVE  Rejected(w)'
    BY <1>5, <1>6 DEF AheadInv
  <2>1. Bound
    BY <1>2, JobFacts
  <2>2. ~Landed(w)
    BY <1>1, <2>1 DEF Landed
  <2>3. Gone(w.body) /\ Apart(w.body.snap, w.body.n, rows)
    BY <2>1, <2>2 DEF AheadInv, Rejected
  <2> QED
    BY <2>3, <1>1, <1>4, <1>5 DEF Rejected, Gone, Missing, Apart
<1> QED
  BY <1>7, <1>8, <1>9, <1>10, <1>11, <1>12

(* After its barrier no header ahead is left. *)
LEMMA WipeFsyncApart == ASSUME SInv, WipeFsync PROVE SInv'
<1> USE DEF SInv
<1>1. /\ job.stage = "wipe fsync" /\ job' = [job EXCEPT !.stage = "units"]
      /\ \A s \in Slot : mcell'[s] = {cell[s]}
      /\ \A i \in {0, 1} : mhdr'[i] = {hdr[i]}
      /\ UNCHANGED <<sb, cell, hdr, up, n, rows, cal, cursor, acked, tried, edits>>
  BY DEF WipeFsync, Fsync, index
<1>2. job # Idle
  BY <1>1, IdleStage
<1>3. job'.stage = "units" /\ job' # Idle
  BY <1>1, IdleStage DEF IInv, TypeOK
<1>4. HasFile' = HasFile /\ OtherSlot' = OtherSlot /\ Bound' = Bound /\ Base' = Base
  BY <1>1 DEF HasFile, OtherSlot, Bound, Base, BaseSlot
<1>5. \A i \in {0, 1} : hdr[i] \in mhdr[i]
  BY DEF IInv, ImageInv
<1>6. Ahead' = {}
  <2>1. OtherSlot \in {0, 1} /\ hdr[OtherSlot] = Blank
    BY <1>1, <1>2, JobFacts DEF StageInv
  <2> QED
    BY <2>1, <1>1, <1>4, BlankBody DEF Ahead
<1>7. IInv'
  BY WipeFsyncStep
<1>8. \A i \in {0, 1} : mhdr'[i] \subseteq mhdr[i]
  BY <1>1, <1>5
<1>9. KnownInv' /\ SealedInv'
  <2>1. Known(rows)' /\ \A i \in {0, 1} : \A w \in mhdr'[i] : w.body # NoBody => Known(w.body.snap)'
    BY <1>1, <1>8 DEF KnownInv, Known, Past
  <2> QED
    BY <1>8, <2>1 DEF KnownInv, SealedInv
<1>10. StageInv'
  BY <1>1, <1>2, <1>3 DEF StageInv
<1>11. NewInv' /\ AheadInv'
  BY <1>1, <1>4, <1>6 DEF NewInv, Apart, AheadInv
<1> QED
  BY <1>7, <1>8, <1>9, <1>10, <1>11

(* A unit write brings no row back that a rejected header misses.          *)
LEMMA WriteUnitApart == ASSUME SInv, WriteUnit PROVE SInv'
<1> USE DEF SInv
<1>1. /\ job.stage = "units"
      /\ UNCHANGED <<sb, hdr, mhdr, up, n, rows, cal, cursor, acked, tried, edits>>
  BY DEF WriteUnit, index
<1>2. PICK b \in job.todo :
        /\ mcell' = [s \in Slot |-> IF Unit(s) = b THEN MaybeCell(mcell[s], rows[s])
                                                   ELSE mcell[s]]
        /\ job' = [job EXCEPT !.todo = job.todo \ {b}]
  BY DEF WriteUnit
<1>3. job # Idle /\ Bound /\ HasFile
  BY <1>1, IdleStage, JobFacts
<1>4. job'.stage = "units" /\ job' # Idle
  BY <1>1, <1>2, IdleStage DEF IInv, TypeOK
<1>5. /\ HasFile' = HasFile /\ OtherSlot' = OtherSlot /\ Bound' = Bound /\ Base' = Base
      /\ Ahead' = Ahead
  BY <1>1 DEF HasFile, OtherSlot, Bound, Base, BaseSlot, Ahead
<1>6. IInv'
  BY WriteUnitStep
<1>7. KnownInv' /\ SealedInv'
  BY <1>1 DEF KnownInv, Known, Past, SealedInv
<1>8. StageInv'
  BY <1>1, <1>3, <1>4 DEF StageInv
<1>9. NewInv'
  BY <1>1, <1>5 DEF NewInv, Apart
<1>10. \A s \in Slot : \A c \in mcell'[s] : c \in mcell[s] \/ c = rows[s] \/ c = Junk
  BY <1>2 DEF MaybeCell
<1>11. AheadInv'
  <2> SUFFICES ASSUME NEW w \in Ahead
               PROVE  Rejected(w)'
    BY <1>5 DEF AheadInv
  <2> DEFINE h == w.body
  <2>1. ~Landed(w)
    BY <1>1, <1>3 DEF Landed
  <2>2. Never(h) /\ Apart(h.snap, h.n, rows)
    BY <2>1, <1>1, <1>3 DEF AheadInv, Rejected
  <2>3. PICK s \in Slot : Base.n <= s /\ h.delta[s] # NoRow /\ h.delta[s] \notin mcell[s]
    BY <2>2 DEF Never, Missing
  <2>4. h \in Body /\ WellFormed(h)
    BY <1>3, AheadFacts
  <2>5. /\ h.delta[s] = h.snap[s] /\ h.delta[s] \in Cell /\ s < h.n
    <3>1. s < Whole(h.n) /\ h.delta[s] = h.snap[s]
      BY <2>3, <2>4 DEF WellFormed
    <3>2. h.n \in Nat /\ s \in Nat /\ Whole(h.n) \in Nat /\ Whole(h.n) <= h.n
      BY <2>4, SlotNat, WholeNat DEF Body
    <3>3. h.delta[s] \in Cell
      BY <2>3, <2>4 DEF Body, Row
    <3> QED
      BY <3>1, <3>2, <3>3
  <2>6. h.delta[s] # rows[s]
    BY <2>2, <2>3, <2>5 DEF Apart
  <2>7. h.delta[s] \notin mcell'[s]
    BY <2>3, <2>5, <2>6, <1>10, MarkerAssumption
  <2>8. Never(h)' /\ Gone(h)'
    BY <2>3, <2>7, <1>5 DEF Never, Gone, Missing
  <2> QED
    BY <2>2, <2>8, <1>1, <1>5 DEF Rejected, Apart
<1> QED
  BY <1>6, <1>7, <1>8, <1>9, <1>11

(* A sealed header made from Base, whose units are on disk, is adoptable.  *)
LEMMA FollowerAdoptable ==
  ASSUME NEW h \in Body, NEW b, NEW c, NEW hd, NEW i \in {0, 1},
         hd[i] = Sealed(h), h # NoBody, h.gen % 2 = i, Room(h),
         Follows(h, b), Verified(h, c),
         \A s \in Slot : s < Whole(b.n) => c[s] # Hole
  PROVE  i \in Adoptable(hd, c)
<1>1. hd[i].gen = h.gen /\ hd[i].body = h
  BY DEF Sealed
<1>2. Fits(h.n, c)
  BY FollowerFits
<1> QED
  BY <1>1, <1>2 DEF Adoptable, Parses

(* The units of a job that has none left to write are there.               *)
LEMMA JobVerified ==
  ASSUME IInv, job # Idle, job.todo = {}
  PROVE  /\ Verified(job.body, cell) /\ Room(job.body) /\ Follows(job.body, Base)
         /\ job.body.snap = rows /\ job.body.n = n
BY DEF IInv, JobInv, Verified

(* The new commit's header lands once all of its units have.               *)
LEMMA WriteHeaderApart == ASSUME SInv, WriteHeader, HeaderTears = {} PROVE SInv'
<1> USE DEF SInv
<1> DEFINE h == job.body
<1>1. /\ job.stage = "units" /\ job.todo = {} /\ PutHeader(Sealed(h))
      /\ job' = [job EXCEPT !.stage = "fsync"]
      /\ UNCHANGED <<sb, cell, mcell, up, n, rows, cal, cursor, acked, tried, edits>>
  BY DEF WriteHeader, index
<1>2. job # Idle
  BY <1>1, IdleStage
<1>3. /\ OtherSlot \in {0, 1} /\ BaseSlot \in {0, 1} /\ BaseSlot # OtherSlot
      /\ hdr'[OtherSlot] = Sealed(h)
      /\ \A w \in mhdr'[OtherSlot] : w \in mhdr[OtherSlot] \/ w = Sealed(h) \/ w = Blank
      /\ mhdr'[BaseSlot] = mhdr[BaseSlot]
      /\ \A i \in {0, 1} : i = BaseSlot \/ i = OtherSlot
  BY <1>1, <1>2, HeaderWrite
<1>4. job'.stage = "fsync" /\ job' # Idle
  BY <1>1, IdleStage DEF IInv, TypeOK
<1>5. /\ Bound /\ HasFile /\ h \in Body /\ h # NoBody /\ h.gen % 2 = OtherSlot
      /\ h.gen = acked.gen + 1 /\ acked.gen \in Nat
  BY <1>2, JobFacts
<1>6. /\ Verified(h, cell) /\ Room(h) /\ Follows(h, Base) /\ h.snap = rows /\ h.n = n
  BY <1>1, <1>2, JobVerified
<1>7. tried = rows
  BY <1>2 DEF StageInv
<1>8. Sealed(h).body = h /\ Sealed(h) \in Header
  BY <1>5 DEF Sealed, Header
<1>9. HasFile' = HasFile /\ OtherSlot' = OtherSlot /\ Bound' = Bound /\ Base' = Base
  <2>1. Base' = Base
    BY <1>1, <1>2, <1>8, PutHeaderInv
  <2> QED
    BY <2>1, <1>1 DEF HasFile, OtherSlot, Bound
<1>10. \A w \in Ahead' : w \in Ahead \/ w = Sealed(h)
  BY <1>1, <1>3, <1>9, BlankBody DEF Ahead
<1>11. IInv'
  BY WriteHeaderStep
<1>12. KnownInv'
  <2>1. ASSUME NEW i \in {0, 1}, NEW w \in mhdr'[i], w.body # NoBody
        PROVE  Known(w.body.snap)
    <3>1. w \in mhdr[i] \/ w = Sealed(h)
      BY <2>1, <1>3, BlankBody
    <3> QED
      BY <2>1, <3>1, <1>6, <1>8 DEF KnownInv
  <2>2. \A r : Known(r)' <=> Known(r)
    BY <1>1 DEF Known, Past
  <2> QED
    BY <2>1, <2>2, <1>1 DEF KnownInv
<1>13. SealedInv'
  <2>1. ASSUME NEW i \in {0, 1}, NEW w \in mhdr'[i]
        PROVE  w = Blank \/ w = Sealed(w.body)
    <3>1. w \in mhdr[i] \/ w = Sealed(h) \/ w = Blank
      BY <2>1, <1>3
    <3> QED
      BY <3>1, <1>8 DEF SealedInv
  <2> QED
    BY <2>1 DEF SealedInv
<1>14. StageInv'
  BY <1>1, <1>4, <1>7 DEF StageInv
<1>15. NewInv'
  <2>1. Apart(rows, n, Base.snap)
    BY <1>5 DEF NewInv
  <2>2. \A w \in Ahead' : Room(w.body) /\ Apart(w.body.snap, w.body.n, Base.snap)
    BY <2>1, <1>5, <1>6, <1>8, <1>10 DEF NewInv
  <2> QED
    BY <2>1, <2>2, <1>1, <1>9 DEF NewInv, Apart
<1>16. OtherSlot \in Adoptable(hdr', cell)
  <2>1. \A s \in Slot : s < Whole(Base.n) => cell[s] # Hole
    BY <1>5, BaseUnits
  <2> HIDE DEF h
  <2> QED
    BY <2>1, <1>3, <1>5, <1>6, FollowerAdoptable
<1>17. AheadInv'
  <2> SUFFICES ASSUME NEW w \in Ahead'
               PROVE  Rejected(w)' \/ Landed(w)'
    BY DEF AheadInv
  <2>1. CASE w = Sealed(h)
    <3>1. w = hdr'[OtherSlot] /\ w.body.snap = tried'
      BY <2>1, <1>1, <1>3, <1>6, <1>7, <1>8
    <3> QED
      BY <3>1, <1>1, <1>4, <1>9, <1>16 DEF Landed
  <2>2. CASE w \in Ahead
    <3>1. ~Landed(w)
      BY <1>1, <1>5 DEF Landed
    <3>2. Gone(w.body) /\ Apart(w.body.snap, w.body.n, rows) /\ Never(w.body)
      BY <3>1, <2>2, <1>1, <1>5 DEF AheadInv, Rejected
    <3> QED
      BY <3>2, <1>1, <1>4, <1>9 DEF Rejected, Gone, Never, Missing, Apart
  <2> QED
    BY <2>1, <2>2, <1>10
<1> QED
  BY <1>11, <1>12, <1>13, <1>14, <1>15, <1>17

(* When what may be on disk is what is visible, and no header is ahead of  *)
(* the new acknowledged commit, nothing is left to show.                   *)
LEMMA SettledFrame ==
  ASSUME IInv', Ahead' = {}, job' = Idle, Known(rows)',
         \A s \in Slot : mcell'[s] = {cell'[s]},
         \A i \in {0, 1} : /\ mhdr'[i] = {hdr'[i]}
                           /\ hdr'[i] = Blank \/ hdr'[i] = Sealed(hdr'[i].body)
                           /\ hdr'[i].body # NoBody => Known(hdr[i].body.snap)',
         HasFile' /\ Bound' => n' = Base'.n
  PROVE  SInv'
<1>1. KnownInv' /\ SealedInv'
  BY DEF KnownInv, SealedInv
<1>2. StageInv'
  BY IdleStage DEF StageInv, Dirty
<1>3. NewInv'
  <2>1. HasFile' => Base'.n \in Nat
    <3>1. (HasFile /\ TypeOK /\ BaseInv => Base.n \in Nat)'
      BY BaseType, PTL
    <3> QED
      BY <3>1 DEF IInv
  <2>2. ASSUME HasFile', Bound'
        PROVE  Apart(rows, n, Base.snap)'
    BY <2>1, <2>2, SlotNat DEF Apart
  <2> QED
    BY <2>2 DEF NewInv
<1>4. AheadInv'
  BY DEF AheadInv
<1> QED
  BY <1>1, <1>2, <1>3, <1>4 DEF SInv

(* The commit's fsync leaves only Base behind the new commit.              *)
LEMMA CommitApart == ASSUME SInv, Commit PROVE SInv'
<1> USE DEF SInv
<1>1. /\ job.stage = "fsync" /\ job' = Idle
      /\ \A s \in Slot : mcell'[s] = {cell'[s]}
      /\ \A i \in {0, 1} : mhdr'[i] = {hdr'[i]}
      /\ acked' = [gen |-> job.body.gen, cal |-> cal, rows |-> rows]
      /\ UNCHANGED <<sb, cell, hdr, n, rows, edits>>
  BY DEF Commit, Fsync
<1>2. job # Idle
  BY <1>1, IdleStage
<1>3. /\ HasFile /\ job.body.gen = acked.gen + 1 /\ acked.gen \in Nat
      /\ Base.gen = acked.gen
      /\ OtherSlot \in {0, 1} /\ BaseSlot \in {0, 1} /\ BaseSlot # OtherSlot
  BY <1>2, JobFacts
<1>4. hdr[OtherSlot] = Sealed(job.body) /\ job.body.n = n
  BY <1>1, <1>2 DEF IInv, JobInv
<1>5. BaseSlot' = OtherSlot /\ OtherSlot' = BaseSlot
  BY <1>1, <1>3 DEF BaseSlot, OtherSlot
<1>6. Base' = job.body
  BY <1>1, <1>4, <1>5 DEF Base, Sealed
<1>7. Ahead' = {}
  <2>1. \A w \in mhdr'[OtherSlot'] : w.body = Base
    BY <1>1, <1>3, <1>5 DEF Base
  <2> QED
    BY <2>1, <1>1, <1>3 DEF Ahead
<1>8. IInv'
  BY CommitStep
<1>9. \A i \in {0, 1} : hdr[i] \in mhdr[i]
  BY DEF IInv, ImageInv
<1>10. \A i \in {0, 1} : /\ hdr'[i] = Blank \/ hdr'[i] = Sealed(hdr'[i].body)
                         /\ hdr'[i].body # NoBody => Known(hdr[i].body.snap)'
  BY <1>1, <1>9 DEF SealedInv, KnownInv, Known, Past
<1>11. Known(rows)'
  BY <1>1 DEF KnownInv, Known, Past
<1>12. HasFile' /\ Bound' => n' = Base'.n
  BY <1>1, <1>4, <1>6
<1> QED
  BY <1>1, <1>7, <1>8, <1>10, <1>11, <1>12, SettledFrame

(* write_full leaves one header. *)
LEMMA WriteFullApart == ASSUME SInv, WriteFull PROVE SInv'
<1> USE DEF SInv
<1> DEFINE h == HeaderSlot(0, n, rows, {}, {}, {})
<1>1. /\ job' = Idle
      /\ mcell' = [s \in Slot |-> {cell'[s]}]
      /\ hdr' = [i \in {0, 1} |-> IF i = 0 THEN Sealed(h) ELSE Blank]
      /\ mhdr' = [i \in {0, 1} |-> {hdr'[i]}]
      /\ acked' = [gen |-> 0, cal |-> cal, rows |-> rows]
      /\ UNCHANGED <<n, rows, edits>>
  BY DEF WriteFull, Ready
<1>2. h.n = n /\ h.snap = rows
  BY DEF HeaderSlot
<1> HIDE DEF h
<1>3. hdr'[0] = Sealed(h) /\ hdr'[1] = Blank /\ Sealed(h).body = h
  BY <1>1 DEF Sealed
<1>4. \A i \in {0, 1} : mhdr'[i] = {hdr'[i]}
  BY <1>1
<1>5. BaseSlot' = 0 /\ OtherSlot' = 1
  BY <1>1 DEF BaseSlot, OtherSlot
<1>6. Base' = h
  BY <1>3, <1>5 DEF Base
<1>7. Ahead' = {}
  BY <1>3, <1>4, <1>5, BlankBody DEF Ahead
<1>8. IInv'
  BY WriteFullStep
<1>9. Known(rows)'
  BY <1>1 DEF KnownInv, Known, Past
<1>10. \A i \in {0, 1} : /\ hdr'[i] = Blank \/ hdr'[i] = Sealed(hdr'[i].body)
                         /\ hdr'[i].body # NoBody => Known(hdr[i].body.snap)'
  <2>1. hdr'[0].body.snap = rows'
    BY <1>1, <1>2, <1>3
  <2>2. \A i \in {0, 1} : i = 0 \/ i = 1
    OBVIOUS
  <2>3. Known(hdr[0].body.snap)'
    BY <2>1, <1>3, <1>9 DEF Known
  <2> QED
    BY <2>2, <2>3, <1>3, BlankBody
<1>11. HasFile' /\ Bound' => n' = Base'.n
  BY <1>1, <1>2, <1>6
<1>12. \A s \in Slot : mcell'[s] = {cell'[s]}
  BY <1>1
<1> QED
  BY <1>1, <1>4, <1>7, <1>8, <1>9, <1>10, <1>11, <1>12, SettledFrame

-----------------------------------------------------------------------------
(* The environment. *)

(* What a load would yield: the other slot's commit when it can be adopted *)
(* and is ahead, and the acknowledged one otherwise.                       *)
Promoted == OtherSlot \in Adoptable(hdr, cell) /\ hdr[OtherSlot].gen > acked.gen

LEMMA RecoveredIs ==
  ASSUME IInv, HasFile
  PROVE  /\ Promoted => Recovered = hdr[OtherSlot].body.snap
         /\ ~Promoted => /\ Chosen(hdr, cell) = Base /\ Recovered = acked.rows
                         /\ Newest(Adoptable(hdr, cell), hdr) = BaseSlot
<1> DEFINE i == Newest(Adoptable(hdr, cell), hdr)
           h == Chosen(hdr, cell)
<1>1. /\ i \in Adoptable(hdr, cell) /\ h = hdr[i].body /\ hdr[i].gen = h.gen
      /\ \A j \in Adoptable(hdr, cell) : hdr[j].gen <= h.gen
      /\ \/ i = BaseSlot /\ h = Base
         \/ i = OtherSlot /\ Follows(h, Base)
      /\ Gather(h, cell) = h.snap /\ h.gen \in Nat
  BY ChosenCommit DEF Body
<1>2. /\ Base.gen = acked.gen /\ acked.gen \in Nat /\ Base.snap = acked.rows
      /\ OtherSlot \in {0, 1}
  BY Parity DEF IInv, BaseInv, TypeOK, OtherSlot
<1>3. hdr[OtherSlot].gen \in Int
  BY <1>2 DEF IInv, TypeOK, Header, NoGen
<1> HIDE DEF i, h
<1>4. CASE i = OtherSlot /\ Follows(h, Base)
  <2>1. h.gen = acked.gen + 1
    BY <1>2, <1>4 DEF Follows
  <2>2. Promoted
    BY <2>1, <1>1, <1>2, <1>4 DEF Promoted
  <2> QED
    BY <2>2, <1>1, <1>4 DEF Recovered, h
<1>5. CASE i = BaseSlot /\ h = Base
  <2>1. ~Promoted
    BY <1>1, <1>2, <1>3, <1>5 DEF Promoted
  <2> QED
    BY <2>1, <1>1, <1>2, <1>5 DEF Recovered, h, i
<1> QED
  BY <1>1, <1>4, <1>5

(* Only a header that landed can be promoted: the rows it yields are those *)
(* of the last sync.                                                       *)
LEMMA PromotedLanded ==
  ASSUME SInv, HasFile, Promoted
  PROVE  /\ hdr[OtherSlot].body.snap = tried
         /\ Bound => job.stage = "fsync"
<1> USE DEF SInv
<1> DEFINE w == hdr[OtherSlot]
<1>1. OtherSlot \in {0, 1} /\ OtherSlot \in Adoptable(hdr, cell) /\ w.gen > acked.gen
  BY DEF Promoted, Adoptable
<1>2. w.body # NoBody /\ w.gen = w.body.gen /\ Verified(w.body, cell)
  BY <1>1 DEF Adoptable, Parses
<1>3. w \in Ahead
  BY <1>1, <1>2 DEF Ahead, IInv, ImageInv
<1>4. ~Gone(w.body)
  BY <1>2 DEF Gone, Missing, Verified, IInv, ImageInv
<1>5. Landed(w)
  BY <1>3, <1>4 DEF AheadInv, Rejected
<1> QED
  BY <1>5 DEF Landed

(* A header ahead that can be adopted lands; one that cannot has lost a    *)
(* unit.                                                                   *)
LEMMA PowerCutApart == ASSUME SInv, PowerCut PROVE SInv'
<1> USE DEF SInv
<1>1. /\ HasFile /\ job' = Idle /\ rows' = Empty /\ ~Bound'
      /\ mcell' = [s \in Slot |-> {cell'[s]}]
      /\ UNCHANGED <<sb, acked, tried, edits>>
  BY DownInv DEF PowerCut, HasFile, Bound
<1>2. \A s \in Slot : cell'[s] \in mcell[s]
  <2> DEFINE unsure == {s \in Slot : mcell[s] # {cell[s]}}
  <2>1. PICK c \in [unsure -> UNION {mcell[s] : s \in unsure}] :
          /\ \A s \in unsure : c[s] \in mcell[s]
          /\ cell' = [s \in Slot |-> IF s \in unsure THEN c[s] ELSE cell[s]]
    BY DEF PowerCut
  <2>2. \A s \in Slot : cell[s] \in mcell[s]
    BY DEF IInv, ImageInv
  <2> HIDE DEF unsure
  <2> QED
    BY <2>1, <2>2
<1>3. \A i \in {0, 1} : hdr'[i] \in mhdr[i] /\ mhdr'[i] = {hdr'[i]}
  <2>1. PICK a \in mhdr[0], b \in mhdr[1] :
          /\ hdr' = [i \in {0, 1} |-> IF i = 0 THEN a ELSE b]
          /\ mhdr' = [i \in {0, 1} |-> IF i = 0 THEN {a} ELSE {b}]
    BY DEF PowerCut
  <2> QED
    BY <2>1
<1>4. IInv'
  BY PowerCutStep
<1>5. /\ HasFile' = HasFile /\ OtherSlot' = OtherSlot /\ BaseSlot' = BaseSlot
      /\ OtherSlot \in {0, 1} /\ BaseSlot \in {0, 1}
  BY <1>1, Parity DEF HasFile, OtherSlot, BaseSlot, IInv, TypeOK
<1>6. Base' = Base
  BY <1>1, <1>3, <1>5 DEF Base, IInv, BaseInv
<1>7. Ahead' \subseteq Ahead /\ \A w \in Ahead' : w = hdr'[OtherSlot]
  BY <1>1, <1>3, <1>5 DEF Ahead
<1>8. KnownInv'
  <2>1. Known(rows)'
    BY <1>1 DEF Known, Empty
  <2>2. \A i \in {0, 1} : mhdr'[i] \subseteq mhdr[i]
    BY <1>3
  <2> QED
    BY <2>1, <2>2, <1>1 DEF KnownInv, Known, Past
<1>9. SealedInv'
  <2>1. \A i \in {0, 1} : mhdr'[i] \subseteq mhdr[i]
    BY <1>3
  <2> QED
    BY <2>1 DEF SealedInv
<1>10. StageInv'
  BY <1>1, IdleStage DEF StageInv
<1>11. NewInv'
  BY <1>1, <1>5, <1>6, <1>7 DEF NewInv, Apart
<1>12. AheadInv'
  <2> SUFFICES ASSUME NEW w \in Ahead'
               PROVE  Rejected(w)' \/ Landed(w)'
    BY DEF AheadInv
  <2> DEFINE h == w.body
  <2>1. w \in Ahead /\ w = hdr'[OtherSlot]
    BY <1>7
  <2>2. /\ w = Sealed(h) /\ h \in Body /\ h # NoBody /\ Follows(h, Base)
        /\ h.gen % 2 = OtherSlot
    BY <2>1, <1>1, AheadFacts
  <2>3. Room(h)
    BY <2>1, <1>1 DEF NewInv
  <2>4. CASE Gone(h)
    BY <2>4, <1>1, <1>2 DEF Rejected, Gone, Missing
  <2>5. CASE ~Gone(h)
    <3>1. Landed(w)
      BY <2>1, <2>5, <1>1 DEF AheadInv, Rejected
    <3>2. h.snap = tried'
      BY <3>1, <1>1 DEF Landed
    <3>3. CASE Verified(h, cell')
      <4>1. \A s \in Slot : s < Whole(Base.n) => cell'[s] # Hole
        BY <1>1, <1>2, BaseUnits
      <4> HIDE DEF h
      <4>2. OtherSlot \in Adoptable(hdr', cell')
        BY <4>1, <3>3, <2>1, <2>2, <2>3, <1>5, FollowerAdoptable
      <4> QED
        BY <4>2, <3>2, <2>1, <1>1, <1>5 DEF Landed, h
    <3>4. CASE ~Verified(h, cell')
      BY <3>4, <1>1 DEF Rejected, Gone, Missing, Verified
    <3> QED
      BY <3>3, <3>4
  <2> QED
    BY <2>4, <2>5
<1> QED
  BY <1>4, <1>8, <1>9, <1>10, <1>11, <1>12

(* A process that exits leaves everything as it was. *)
LEMMA ExitApart == ASSUME SInv, Exit, ~DirtyRestarts PROVE SInv'
<1> USE DEF SInv
<1>1. /\ job' = Idle /\ rows' = Empty /\ ~Bound'
      /\ UNCHANGED <<file, acked, tried, edits>>
  BY DownInv DEF Exit, Bound
<1>2. UNCHANGED <<sb, cell, hdr, mcell, mhdr>>
  BY <1>1 DEF file
<1>3. /\ Base' = Base /\ HasFile' = HasFile /\ OtherSlot' = OtherSlot
      /\ Adoptable(hdr, cell)' = Adoptable(hdr, cell)
  BY <1>1, BaseFrame DEF OtherSlot
<1>4. Ahead' = Ahead
  BY <1>1, <1>2, <1>3 DEF Ahead
<1>5. IInv'
  BY ExitStep
<1>6. KnownInv' /\ SealedInv'
  BY <1>1, <1>2 DEF KnownInv, Known, Past, SealedInv, Empty
<1>7. StageInv'
  BY <1>1, IdleStage DEF StageInv
<1>8. NewInv'
  BY <1>1, <1>2, <1>3, <1>4 DEF NewInv, Apart
<1>9. AheadInv'
  BY <1>1, <1>2, <1>3, <1>4 DEF AheadInv, Rejected, Landed, Gone, Missing
<1> QED
  BY <1>5, <1>6, <1>7, <1>8, <1>9

(* A load that adopts the acknowledged commit has rejected the header that *)
(* is ahead, for good.                                                     *)
LEMMA LoadApart == ASSUME SInv, Load PROVE SInv'
<1> USE DEF SInv
<1> DEFINE h == Chosen(hdr, cell)
           i == Newest(Adoptable(hdr, cell), hdr)
<1>1. /\ ~up /\ n' = h.n /\ rows' = Gather(h, cell) /\ tried' = rows'
      /\ cursor' = [gen |-> h.gen, n |-> h.n, cal |-> sb.cal]
      /\ acked' = [gen |-> h.gen, cal |-> sb.cal, rows |-> rows']
      /\ UNCHANGED <<sb, cell, hdr, mcell, mhdr, job, edits>>
  BY DEF Load, file
<1>2. /\ HasFile /\ job = Idle
      /\ \A s \in Slot : mcell[s] = {cell[s]}
      /\ \A j \in {0, 1} : mhdr[j] = {hdr[j]}
  BY <1>1 DEF IInv, ImageInv, JobInv, CursorInv
<1>3. /\ i \in Adoptable(hdr, cell) /\ hdr[i].gen = h.gen /\ h = hdr[i].body
      /\ \A j \in Adoptable(hdr, cell) : hdr[j].gen <= h.gen
      /\ \/ i = BaseSlot /\ h = Base
         \/ i = OtherSlot /\ Follows(h, Base)
      /\ Gather(h, cell) = h.snap /\ h # NoBody /\ h \in Body
  BY <1>2, ChosenCommit, NoBodyAssumption
<1>4. /\ OtherSlot \in {0, 1} /\ BaseSlot \in {0, 1} /\ BaseSlot # OtherSlot
      /\ acked.gen \in Nat /\ Base.gen = acked.gen /\ sb.cal = acked.cal
      /\ Base.snap = acked.rows
      /\ acked = [gen |-> acked.gen, cal |-> acked.cal, rows |-> acked.rows]
  BY <1>2, Parity DEF IInv, TypeOK, BaseInv, OtherSlot, BaseSlot
<1>5. rows' = h.snap
  BY <1>1, <1>3
<1>6. IInv'
  BY LoadStep
<1>7. Known(rows)' /\ HasFile' = HasFile
  <2>1. Known(h.snap)
    BY <1>2, <1>3 DEF KnownInv, Adoptable
  <2> QED
    BY <2>1, <1>1, <1>5 DEF Known, Past, HasFile
<1> HIDE DEF h, i
<1>8. CASE i = OtherSlot /\ Follows(h, Base)
  <2>1. acked'.gen = acked.gen + 1
    BY <1>1, <1>4, <1>8 DEF Follows
  <2>2. BaseSlot' = OtherSlot /\ OtherSlot' = BaseSlot
    BY <2>1, <1>4 DEF BaseSlot, OtherSlot
  <2>3. Base' = h
    BY <2>2, <1>1, <1>3, <1>8 DEF Base
  <2>4. Ahead' = {}
    <3>1. \A w \in mhdr'[OtherSlot'] : w.body = Base
      BY <2>2, <1>1, <1>2, <1>4 DEF Base
    <3> QED
      BY <3>1, <2>1, <1>4 DEF Ahead
  <2>5. \A j \in {0, 1} : /\ mhdr'[j] = {hdr'[j]}
                          /\ hdr'[j] = Blank \/ hdr'[j] = Sealed(hdr'[j].body)
                          /\ hdr'[j].body # NoBody => Known(hdr[j].body.snap)'
    BY <1>1, <1>2 DEF SealedInv, KnownInv, Known, Past
  <2> QED
    BY <2>3, <2>4, <2>5, <1>1, <1>2, <1>6, <1>7, SettledFrame
<1>9. CASE i = BaseSlot /\ h = Base
  <2>1. acked' = acked /\ Base' = Base /\ OtherSlot' = OtherSlot
    <3>1. acked' = acked
      BY <1>1, <1>4, <1>5, <1>9
    <3> QED
      BY <3>1, <1>1 DEF Base, BaseSlot, OtherSlot
  <2>2. Ahead' = Ahead
    BY <2>1, <1>1 DEF Ahead
  <2>3. KnownInv' /\ SealedInv'
    BY <1>1, <1>7 DEF KnownInv, Known, Past, SealedInv
  <2>4. StageInv'
    BY <1>1, <1>2, IdleStage DEF StageInv, Dirty
  <2>5. NewInv'
    <3>1. Base.n \in Nat /\ n' = Base.n
      BY <1>1, <1>2, <1>9, BaseType DEF IInv
    <3>2. Apart(rows, n, Base.snap)'
      BY <3>1, <2>1, SlotNat DEF Apart
    <3> QED
      BY <3>2, <2>1, <2>2, <1>2 DEF NewInv, Apart
  <2>6. AheadInv'
    <3> SUFFICES ASSUME NEW w \in Ahead
                 PROVE  Rejected(w)'
      BY <2>2 DEF AheadInv
    <3>1. w \in mhdr[OtherSlot] /\ w.gen = acked.gen + 1
      BY <1>2, AheadFacts
    <3>2. ~Landed(w)
      <4> SUFFICES ASSUME OtherSlot \in Adoptable(hdr, cell)
                   PROVE  FALSE
        BY DEF Landed
      <4>1. hdr[OtherSlot].gen <= h.gen
        BY <1>3
      <4> QED
        BY <4>1, <3>1, <1>2, <1>4, <1>9
    <3>3. Gone(w.body)
      BY <3>2, <1>2 DEF AheadInv, Rejected
    <3>4. Apart(w.body.snap, w.body.n, Base.snap)
      BY <1>2 DEF NewInv
    <3>5. job'.stage = "idle"
      BY <1>1, <1>2, IdleStage
    <3> QED
      BY <3>3, <3>4, <3>5, <2>1, <1>1, <1>5, <1>9
         DEF Rejected, Gone, Missing, Apart
  <2> QED
    BY <2>3, <2>4, <2>5, <2>6, <1>6
<1> QED
  BY <1>3, <1>8, <1>9

-----------------------------------------------------------------------------
(* The invariant. *)

(* The first rows are the first batch. *)
LEMMA InitApart == ASSUME Init, FreshRows PROVE SInv
<1>1. IInv
  BY InitInv
<1>2. /\ sb = NoFile /\ cursor = NoCursor /\ job = Idle /\ edits = 0
      /\ mhdr = [i \in {0, 1} |-> {Blank}]
  BY DEF Init
<1>3. ~HasFile /\ ~Bound
  BY <1>2 DEF HasFile, Bound
<1>4. Known(rows)
  <2>1. PICK v \in Batch(0, Start) :
          rows = [s \in Slot |-> IF s < Start THEN <<v[s], 0>> ELSE NoRow]
    BY DEF Init
  <2>2. v = [j \in 0 .. Start - 1 |-> 0 * Capacity + j]
    BY <2>1 DEF Batch
  <2>3. ASSUME NEW s \in Slot, rows[s] # NoRow
        PROVE  rows[s][1] \in Past
    <3>1. s < Start /\ rows[s][1] = v[s]
      BY <2>1, <2>3
    <3>2. s \in 0 .. Start - 1 /\ Start \in Nat /\ s \in Nat
      BY <3>1, BoundAssumption, CapacityAssumption DEF Slot
    <3>3. v[s] = 0 * Capacity + s
      BY <3>2, <2>2, Zenon
    <3>4. rows[s][1] = s
      BY <3>1, <3>2, <3>3, CapacityAssumption
    <3> QED
      BY <3>4, <1>2, CapacityAssumption DEF Past, Slot
  <2> QED
    BY <2>3 DEF Known
<1>5. KnownInv /\ SealedInv
  BY <1>2, <1>4, BlankBody DEF KnownInv, SealedInv
<1> QED
  BY <1>1, <1>2, <1>3, <1>5, IdleStage DEF SInv, NewInv, StageInv, AheadInv

(* Every step keeps the invariant. *)
LEMMA NextApart ==
  ASSUME ~DirtyRestarts, FreshRows, HeaderTears = {}, SInv, [Next]_vars
  PROVE  SInv'
<1>1. CASE Add
  BY <1>1, AddApart
<1>2. CASE SwapRemove
  BY <1>2, SwapRemoveApart
<1>3. CASE Calibrate
  BY <1>3, CalibrateApart
<1>4. CASE WriteFull
  BY <1>4, WriteFullApart
<1>5. CASE WriteFullError \/ SyncError
  BY <1>5, UnbindApart
<1>6. CASE BeginSync
  BY <1>6, BeginSyncApart
<1>7. CASE WriteWipe
  BY <1>7, WriteWipeApart
<1>8. CASE WipeFsync
  BY <1>8, WipeFsyncApart
<1>9. CASE WriteUnit
  BY <1>9, WriteUnitApart
<1>10. CASE WriteHeader
  BY <1>10, WriteHeaderApart
<1>11. CASE Commit
  BY <1>11, CommitApart
<1>12. CASE PowerCut
  BY <1>12, PowerCutApart
<1>13. CASE Exit
  BY <1>13, ExitApart
<1>14. CASE Load
  BY <1>14, LoadApart
<1>15. CASE UNCHANGED vars
  <2>1. UNCHANGED <<sb, cell, hdr, mcell, mhdr, n, rows, cursor, job, acked, tried, edits>>
    BY <1>15 DEF vars, index, file
  <2>2. IInv'
    BY <1>15, NextInv DEF SInv
  <2>3. /\ Base' = Base /\ HasFile' = HasFile /\ OtherSlot' = OtherSlot
        /\ Bound' = Bound /\ Ahead' = Ahead
    BY <2>1 DEF Base, BaseSlot, HasFile, OtherSlot, Bound, Ahead
  <2>4. KnownInv' /\ SealedInv'
    BY <2>1 DEF SInv, KnownInv, Known, Past, SealedInv
  <2>5. StageInv'
    BY <2>1, <2>3 DEF SInv, StageInv, Dirty
  <2>6. NewInv' /\ AheadInv'
    BY <2>1, <2>3 DEF SInv, NewInv, AheadInv, Rejected, Landed, Gone, Never, Missing, Apart
  <2> QED
    BY <2>2, <2>4, <2>5, <2>6 DEF SInv
<1> QED
  BY <1>1, <1>2, <1>3, <1>4, <1>5, <1>6, <1>7, <1>8, <1>9, <1>10, <1>11, <1>12,
     <1>13, <1>14, <1>15 DEF Next

(* Every reachable state satisfies the invariant, for every capacity,      *)
(* block, header room and number of power failures.                        *)
THEOREM StoreInvariance ==
  ASSUME ~DirtyRestarts, FreshRows, HeaderTears = {}
  PROVE  Spec => []SInv
<1>1. Init => SInv
  BY InitApart
<1>2. SInv /\ [Next]_vars => SInv'
  BY NextApart
<1> QED
  BY <1>1, <1>2, PTL DEF Spec

(* What loads is the last commit or the one the last sync was making: a    *)
(* commit that a load has rejected (parse_image finds its units missing)   *)
(* is never adopted by a later one.                                        *)
THEOREM NeverRevived ==
  ASSUME ~DirtyRestarts, FreshRows, HeaderTears = {}
  PROVE  Spec => []AdjacentRecovery
<1>1. SInv => AdjacentRecovery
  <2> SUFFICES ASSUME SInv, HasFile
               PROVE  Recovered \in {acked.rows, tried}
    BY DEF AdjacentRecovery
  <2>1. CASE Promoted
    BY <2>1, PromotedLanded, RecoveredIs DEF SInv
  <2>2. CASE ~Promoted
    BY <2>2, RecoveredIs DEF SInv
  <2> QED
    BY <2>1, <2>2
<1> QED
  BY <1>1, StoreInvariance, PTL

-----------------------------------------------------------------------------
(* The abstract store. *)

(* What Store sees. *)
View == IF up THEN [cal |-> cal, rows |-> rows] ELSE NoFile
Held == IF HasFile THEN [cal |-> sb.cal, rows |-> Recovered] ELSE NoFile
Safe == IF HasFile THEN [cal |-> acked.cal, rows |-> acked.rows] ELSE NoFile

(* An open index has contents, and so does a file. *)
LEMMA Present ==
  ASSUME IInv
  PROVE  /\ up => View \in [cal : Nat, rows : [Slot -> Row]] /\ View # NoFile
         /\ HasFile => Held # NoFile /\ Safe # NoFile
<1>1. up => View \in [cal : Nat, rows : [Slot -> Row]]
  BY DEF IInv, TypeOK, View
<1>2. HasFile => Safe \in [cal : Nat, rows : [Slot -> Row]]
  <2>1. acked.cal \in Nat /\ acked.rows \in [Slot -> Row]
    BY DEF IInv, TypeOK
  <2> QED
    BY <2>1 DEF Safe
<1>3. HasFile => Held \in [cal : Nat, rows : [Slot -> Row]]
  <2> SUFFICES ASSUME HasFile
               PROVE  Held \in [cal : Nat, rows : [Slot -> Row]]
    OBVIOUS
  <2>1. Recovered \in [Slot -> Row]
    BY ChosenCommit DEF Recovered, Body
  <2>2. sb.cal \in Nat
    BY DEF IInv, TypeOK, HasFile, Superblock
  <2> QED
    BY <2>1, <2>2 DEF Held
<1> QED
  BY <1>1, <1>2, <1>3, NoneAssumption

(* A load yields the last sync's rows or the acknowledged commit's ...     *)
LEMMA SeenRecovered ==
  ASSUME SInv, HasFile
  PROVE  /\ Promoted => /\ Recovered = hdr[OtherSlot].body.snap
                        /\ Bound => job.stage = "fsync"
         /\ ~Promoted => Recovered = acked.rows
BY RecoveredIs, PromotedLanded DEF SInv

(* ... and so it does after the step. *)
LEMMA NextRecovered ==
  ASSUME SInv', HasFile'
  PROVE  /\ Promoted' => /\ Recovered' = hdr'[OtherSlot'].body.snap
                         /\ Bound' => job'.stage = "fsync"
         /\ ~Promoted' => Recovered' = acked'.rows
<1>1. (SInv /\ HasFile =>
         /\ Promoted => /\ Recovered = hdr[OtherSlot].body.snap
                        /\ Bound => job.stage = "fsync"
         /\ ~Promoted => Recovered = acked.rows)'
  BY SeenRecovered, PTL
<1> QED
  BY <1>1

(* The edits change the view only. *)
LEMMA EditMaps ==
  ASSUME SInv, SInv', Add \/ SwapRemove \/ Calibrate
  PROVE  Store!Edit
<1>1. up /\ up' /\ UNCHANGED <<file, acked>>
  BY DEF Add, SwapRemove, Calibrate, Ready
<1>2. View # NoFile
  BY <1>1, Present DEF SInv
<1>3. View' \in [cal : Nat, rows : [Slot -> Row]]
  BY <1>1 DEF View, SInv, IInv, TypeOK
<1>4. Held' = Held /\ Safe' = Safe
  BY <1>1 DEF Held, Safe, HasFile, Recovered, file
<1> QED
  BY <1>2, <1>3, <1>4 DEF Store!Edit, Store!Open, View, Held, Safe

(* What happens before the new header is written, or to a sync that fails, *)
(* shows nothing.                                                          *)
LEMMA HiddenMaps ==
  ASSUME SInv, SInv',
         \/ WriteFullError \/ SyncError \/ BeginSync \/ WipeFsync
         \/ WriteWipe \/ WriteUnit
  PROVE  UNCHANGED <<View, Held, Safe>>
<1>1. UNCHANGED <<sb, up, n, rows, cal, acked>>
  BY DEF WriteFullError, SyncError, BeginSync, WipeFsync, Fsync, WriteWipe, WriteUnit,
         PutHeader, file, index
<1>2. View' = View /\ Safe' = Safe /\ HasFile' = HasFile
  BY <1>1 DEF View, Safe, HasFile
<1>3. HasFile => Recovered' = Recovered
  <2>1. CASE UNCHANGED <<hdr, cell>>
    BY <2>1 DEF Recovered
  <2>2. CASE (WriteWipe \/ WriteUnit) /\ HasFile
    <3>1. job.stage # "fsync" /\ job'.stage # "fsync" /\ job # Idle /\ cursor' = cursor
      BY <2>2, IdleStage DEF WriteWipe, WriteUnit, index, SInv, IInv, TypeOK
    <3>2. Bound /\ Bound'
      BY <3>1, JobFacts DEF SInv, Bound
    <3>3. ~Promoted /\ ~Promoted'
      BY <3>1, <3>2, <2>2, <1>2, SeenRecovered, NextRecovered
    <3> QED
      BY <3>3, <2>2, <1>1, <1>2, SeenRecovered, NextRecovered
  <2>3. CASE WriteFullError \/ SyncError \/ BeginSync \/ WipeFsync
    <3>1. UNCHANGED <<hdr, cell>>
      BY <2>3 DEF WriteFullError, SyncError, BeginSync, WipeFsync, Fsync, file
    <3> QED
      BY <3>1, <2>1
  <2> QED
    BY <2>2, <2>3
<1> QED
  BY <1>1, <1>2, <1>3 DEF Held

(* The last write of the batch publishes the new commit. *)
LEMMA WriteHeaderMaps ==
  ASSUME SInv, SInv', WriteHeader, HeaderTears = {}
  PROVE  Store!Publish
<1> DEFINE h == job.body
<1>1. /\ job.stage = "units" /\ job.todo = {} /\ PutHeader(Sealed(h)) /\ up
      /\ UNCHANGED <<sb, cell, mcell, up, n, rows, cal, cursor, acked>>
  BY DEF WriteHeader, index
<1>2. job # Idle
  BY <1>1, IdleStage
<1>3. hdr'[OtherSlot] = Sealed(h) /\ OtherSlot \in {0, 1}
  BY <1>1, <1>2, HeaderWrite DEF SInv
<1>4. /\ HasFile /\ h \in Body /\ h # NoBody /\ h.gen % 2 = OtherSlot
      /\ h.gen = acked.gen + 1 /\ acked.gen \in Nat
  BY <1>2, JobFacts DEF SInv
<1>5. Verified(h, cell) /\ Room(h) /\ Follows(h, Base) /\ h.snap = rows
  BY <1>1, <1>2, JobVerified DEF SInv
<1>6. sb.cal = cal
  BY <1>2, <1>4 DEF SInv, IInv, JobInv, CursorInv, BaseInv
<1>7. hdr'[OtherSlot].body.snap = rows /\ hdr'[OtherSlot].gen = h.gen
  BY <1>3, <1>5 DEF Sealed
<1> HIDE DEF h
<1>8. OtherSlot \in Adoptable(hdr', cell)
  <2>1. \A s \in Slot : s < Whole(Base.n) => cell[s] # Hole
    BY <1>4, BaseUnits DEF SInv
  <2> QED
    BY <2>1, <1>3, <1>4, <1>5, FollowerAdoptable
<1>9. HasFile' = HasFile /\ OtherSlot' = OtherSlot
  BY <1>1 DEF HasFile, OtherSlot
<1>10. Promoted'
  BY <1>1, <1>4, <1>7, <1>8, <1>9 DEF Promoted
<1>11. Recovered' = rows
  BY <1>4, <1>7, <1>9, <1>10, NextRecovered
<1>12. Held' = View /\ View' = View /\ Safe' = Safe
  BY <1>1, <1>4, <1>6, <1>9, <1>11 DEF Held, View, Safe
<1>13. View # NoFile /\ Safe # NoFile
  BY <1>1, <1>4, Present DEF SInv
<1> QED
  BY <1>12, <1>13 DEF Store!Publish, Store!Open, View, Held, Safe

(* The fsync makes it the acknowledged one. *)
LEMMA CommitMaps ==
  ASSUME SInv, SInv', Commit
  PROVE  Store!Acknowledge
<1> DEFINE h == job.body
<1>1. /\ job.stage = "fsync" /\ up
      /\ acked' = [gen |-> h.gen, cal |-> cal, rows |-> rows]
      /\ UNCHANGED <<sb, cell, hdr, up, n, rows, cal>>
  BY DEF Commit, Fsync
<1>2. job # Idle
  BY <1>1, IdleStage
<1>3. hdr[OtherSlot] = Sealed(h) /\ job.todo = {}
  BY <1>1, <1>2 DEF SInv, IInv, JobInv
<1>4. /\ HasFile /\ h \in Body /\ h # NoBody /\ h.gen % 2 = OtherSlot
      /\ h.gen = acked.gen + 1 /\ acked.gen \in Nat /\ OtherSlot \in {0, 1}
  BY <1>2, JobFacts DEF SInv
<1>5. Verified(h, cell) /\ Room(h) /\ Follows(h, Base) /\ h.snap = rows
  BY <1>2, <1>3, JobVerified DEF SInv
<1>6. sb.cal = cal
  BY <1>2, <1>4 DEF SInv, IInv, JobInv, CursorInv, BaseInv
<1>7. hdr[OtherSlot].body.snap = rows /\ hdr[OtherSlot].gen = h.gen
  BY <1>3, <1>5 DEF Sealed
<1> HIDE DEF h
<1>8. OtherSlot \in Adoptable(hdr, cell)
  <2>1. \A s \in Slot : s < Whole(Base.n) => cell[s] # Hole
    BY <1>4, BaseUnits DEF SInv
  <2> QED
    BY <2>1, <1>3, <1>4, <1>5, FollowerAdoptable
<1>9. Recovered = rows
  BY <1>4, <1>7, <1>8, RecoveredIs DEF Promoted, SInv
<1>10. Held = View /\ Safe' = View /\ View' = View /\ Held' = Held
  BY <1>1, <1>4, <1>6, <1>9 DEF Held, View, Safe, HasFile, Recovered
<1>11. View # NoFile
  BY <1>1, Present DEF SInv
<1> QED
  BY <1>10, <1>11 DEF Store!Acknowledge, Store!Open, View, Held, Safe

(* write_full publishes and acknowledges at once. *)
LEMMA WriteFullMaps ==
  ASSUME SInv, SInv', WriteFull
  PROVE  Store!Replace
<1>1. /\ up /\ sb' = [cal |-> cal, layout |-> Layout(n)] /\ hdr'[1] = Blank
      /\ acked' = [gen |-> 0, cal |-> cal, rows |-> rows]
      /\ UNCHANGED <<up, n, rows, cal>>
  BY DEF WriteFull, Ready
<1>2. HasFile'
  <2>1. n \in Nat /\ cal \in Nat
    BY CapacityAssumption DEF SInv, IInv, TypeOK
  <2>2. sb' \in Superblock
    BY <2>1, <1>1 DEF Superblock, Layout
  <2> QED
    BY <2>2, NoneAssumption DEF HasFile
<1>3. ~Promoted'
  <2>1. OtherSlot' = 1
    BY <1>1 DEF OtherSlot
  <2> QED
    BY <2>1, <1>1, BlankBody DEF Promoted, Adoptable, Parses
<1>4. Recovered' = rows
  BY <1>1, <1>2, <1>3, NextRecovered
<1>5. Held' = View /\ Safe' = View /\ View' = View
  BY <1>1, <1>2, <1>4 DEF Held, View, Safe
<1>6. View # NoFile
  BY <1>1, Present DEF SInv
<1> QED
  BY <1>5, <1>6 DEF Store!Replace, Store!Open, View, Held, Safe

(* A power failure leaves what could be loaded before it, or what sync     *)
(* had acknowledged.                                                       *)
LEMMA PowerCutMaps ==
  ASSUME SInv, SInv', PowerCut
  PROVE  Store!PowerFailure
<1>1. /\ HasFile /\ up' = FALSE /\ mcell' = [s \in Slot |-> {cell'[s]}]
      /\ UNCHANGED <<sb, acked, tried>>
  BY DEF PowerCut, HasFile, Down
<1>2. HasFile' = HasFile /\ OtherSlot' = OtherSlot /\ OtherSlot \in {0, 1}
  BY <1>1, Parity DEF HasFile, OtherSlot, SInv, IInv, TypeOK
<1>3. hdr'[OtherSlot] \in mhdr[OtherSlot]
  <2>1. PICK a \in mhdr[0], b \in mhdr[1] :
          hdr' = [i \in {0, 1} |-> IF i = 0 THEN a ELSE b]
    BY DEF PowerCut
  <2> QED
    BY <2>1, <1>2
<1>4. \A s \in Slot : cell'[s] \in mcell[s]
  <2> DEFINE unsure == {s \in Slot : mcell[s] # {cell[s]}}
  <2>1. PICK c \in [unsure -> UNION {mcell[s] : s \in unsure}] :
          /\ \A s \in unsure : c[s] \in mcell[s]
          /\ cell' = [s \in Slot |-> IF s \in unsure THEN c[s] ELSE cell[s]]
    BY DEF PowerCut
  <2>2. \A s \in Slot : cell[s] \in mcell[s]
    BY DEF SInv, IInv, ImageInv
  <2> HIDE DEF unsure
  <2> QED
    BY <2>1, <2>2
<1>5. Promoted' => Promoted /\ hdr'[OtherSlot] = hdr[OtherSlot]
  <2> SUFFICES ASSUME Promoted'
               PROVE  Promoted /\ hdr'[OtherSlot] = hdr[OtherSlot]
    OBVIOUS
  <2> DEFINE w == hdr'[OtherSlot]
  <2>1. OtherSlot \in Adoptable(hdr', cell') /\ w.gen > acked.gen
    BY <1>1, <1>2 DEF Promoted
  <2>2. w.body # NoBody /\ w.gen = w.body.gen /\ Verified(w.body, cell')
    BY <2>1 DEF Adoptable, Parses
  <2>3. w \in Ahead
    BY <1>3, <2>1, <2>2 DEF Ahead
  <2> HIDE DEF w
  <2>4. ~Gone(w.body)
    BY <2>2, <1>4 DEF Gone, Missing, Verified
  <2>5. Landed(w)
    BY <2>3, <2>4, <1>1 DEF SInv, AheadInv, Rejected
  <2>6. w = hdr[OtherSlot] /\ OtherSlot \in Adoptable(hdr, cell)
    BY <2>5 DEF Landed
  <2> QED
    BY <2>1, <2>6 DEF Promoted, w
<1>6. Recovered' \in {Recovered, acked.rows}
  <2>1. CASE Promoted'
    BY <2>1, <1>1, <1>2, <1>5, SeenRecovered, NextRecovered
  <2>2. CASE ~Promoted'
    BY <2>2, <1>1, <1>2, NextRecovered
  <2> QED
    BY <2>1, <2>2
<1>7. sb.cal = acked.cal
  BY <1>1 DEF SInv, IInv, BaseInv
<1>8. Held' \in {Held, Safe} /\ View' = NoFile /\ Safe' = Safe
  BY <1>1, <1>2, <1>6, <1>7 DEF Held, Safe, View
<1>9. Held # NoFile
  BY <1>1, Present DEF SInv
<1> QED
  BY <1>8, <1>9 DEF Store!PowerFailure, View, Held, Safe

(* A process exits, and another loads what the file holds. *)
LEMMA ExitMaps ==
  ASSUME SInv, Exit
  PROVE  Store!Exit
<1>1. up /\ HasFile /\ up' = FALSE /\ UNCHANGED <<file, acked>>
  BY DEF Exit, HasFile, Down
<1>2. View # NoFile /\ Held # NoFile
  BY <1>1, Present DEF SInv
<1>3. View' = NoFile /\ Held' = Held /\ Safe' = Safe
  BY <1>1 DEF View, Held, Safe, HasFile, Recovered, file
<1> QED
  BY <1>2, <1>3 DEF Store!Exit, Store!Open, View, Held, Safe

LEMMA LoadMaps ==
  ASSUME SInv, Load
  PROVE  Store!Load
<1>1. /\ ~up /\ up' = TRUE /\ cal' = sb.cal /\ rows' = Recovered
      /\ acked'.cal = sb.cal /\ acked'.rows = Recovered
      /\ UNCHANGED <<sb, cell, hdr>>
  BY DEF Load, file, Recovered
<1>2. HasFile
  BY <1>1 DEF SInv, IInv, ImageInv
<1>3. View = NoFile /\ View' = Held /\ Safe' = Held /\ Held' = Held
  BY <1>1, <1>2 DEF View, Held, Safe, HasFile, Recovered
<1> QED
  BY <1>3 DEF Store!Load, Store!Open, View, Held, Safe

(* SyncV7 implements DurableStore: every edit, sync, power failure, exit   *)
(* and load of the code is a step of the store it promises, or invisible   *)
(* in it; the file changes for a reader only when a sync publishes.        *)
THEOREM SyncImplementsStore ==
  ASSUME ~DirtyRestarts, FreshRows, HeaderTears = {}
  PROVE  Spec => ImplementsStore
<1>1. Init => Store!Init
  <2> SUFFICES ASSUME Init PROVE Store!Init
    OBVIOUS
  <2>1. up /\ ~HasFile
    BY DEF Init, HasFile
  <2>2. View \in [cal : Nat, rows : [Slot -> Row]] /\ Held = NoFile /\ Safe = NoFile
    BY <2>1, InitInv, Present DEF Held, Safe
  <2> QED
    BY <2>2 DEF Store!Init, View, Held, Safe
<1>2. SInv /\ SInv' /\ [Next]_vars => [Store!Next]_(Store!vars)
  <2> SUFFICES ASSUME SInv, SInv', [Next]_vars
               PROVE  [Store!Next]_(Store!vars)
    OBVIOUS
  <2>1. CASE Add \/ SwapRemove \/ Calibrate
    BY <2>1, EditMaps DEF Store!Next
  <2>2. CASE \/ WriteFullError \/ SyncError \/ BeginSync \/ WipeFsync
             \/ WriteWipe \/ WriteUnit
    BY <2>2, HiddenMaps DEF Store!vars, View, Held, Safe
  <2>3. CASE WriteFull
    BY <2>3, WriteFullMaps DEF Store!Next
  <2>4. CASE WriteHeader
    BY <2>4, WriteHeaderMaps DEF Store!Next
  <2>5. CASE Commit
    BY <2>5, CommitMaps DEF Store!Next
  <2>6. CASE PowerCut
    BY <2>6, PowerCutMaps DEF Store!Next
  <2>7. CASE Exit
    BY <2>7, ExitMaps DEF Store!Next
  <2>8. CASE Load
    BY <2>8, LoadMaps DEF Store!Next
  <2>9. CASE UNCHANGED vars
    <3>1. UNCHANGED <<sb, cell, hdr, up, rows, cal, acked>>
      BY <2>9 DEF vars, file, index
    <3>2. UNCHANGED <<View, Held, Safe>>
      BY <3>1 DEF View, Held, Safe, HasFile, Recovered
    <3> QED
      BY <3>2 DEF Store!vars, View, Held, Safe
  <2> QED
    BY <2>1, <2>2, <2>3, <2>4, <2>5, <2>6, <2>7, <2>8, <2>9 DEF Next
<1> QED
  BY <1>1, <1>2, StoreInvariance, PTL DEF Spec, ImplementsStore, Store!Spec

=============================================================================
