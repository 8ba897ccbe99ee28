------------------------- MODULE SyncWriters_proofs -------------------------
(***************************************************************************)
(* Proofs about SyncWriters, for any number of indexes and every bound:    *)
(* nonce and generation identify a file's rows, and no Ok sync leaves a    *)
(* mixture, as long as nobody puts an old copy back; and, for indexes that *)
(* keep their unit layout, no bound index undoes another's commit.         *)
(***************************************************************************)
EXTENDS SyncWriters, TLAPS

USE DEF Edit, Unclaimed, File, Cursor, Bound

LEMMA LayoutType == \A rows : Layout(rows) \in {"seq", "planes"} /\ (~Grows => Layout(rows) = "seq")
  BY DEF Layout

LEMMA InitInv == Init => Inv
<1> SUFFICES ASSUME Init PROVE Inv
  OBVIOUS
<1>1. file = NoFile /\ \A h \in Handles : cursor[h] = NoCursor
  BY DEF Init
<1>2. TypeOK
  <2>1. edits \in 0 .. MaxEdits /\ nonces \in Nat
    BY BoundsAssumption DEF Init
  <2>2. mem \in [Handles -> SUBSET Edit] /\ recal \in [Handles -> BOOLEAN]
        /\ cursor \in [Handles -> Cursor \cup {NoCursor}]
    BY DEF Init
  <2> QED BY <2>1, <2>2 DEF Init, TypeOK
<1>3. NoncesDrawn /\ NeverAhead /\ OneLayout
  BY <1>1 DEF NoncesDrawn, NeverAhead, OneLayout
<1> QED BY <1>1, <1>2, <1>3 DEF Init, Inv

(* What an incremental sync writes is what the index holds.                *)
LEMMA DeltaRows ==
  ASSUME Inv, NEW h \in Handles, Incremental(h)
  PROVE  /\ file # NoFile /\ Bound(h) /\ file \in File /\ cursor[h] \in Cursor
         /\ file.nonce = cursor[h].nonce /\ file.gen = cursor[h].gen
         /\ file.rows = cursor[h].rows
         /\ Delta(h) = [nonce |-> file.nonce, gen |-> file.gen + 1,
                        layout |-> file.layout, rows |-> mem[h]]
         /\ Delta(h) \in File
<1>1. /\ file # NoFile /\ Bound(h) /\ file \in File /\ cursor[h] \in Cursor
      /\ file.nonce = cursor[h].nonce /\ file.gen = cursor[h].gen
  BY DEF Incremental, State, Inv, TypeOK
<1>2. file.rows = cursor[h].rows /\ cursor[h].rows \subseteq mem[h] /\ mem[h] \subseteq Edit
  BY <1>1 DEF Inv, NeverAhead, TypeOK
<1>3. file.rows \cup (mem[h] \ cursor[h].rows) = mem[h]
  BY <1>2
<1>4. Delta(h) = [nonce |-> file.nonce, gen |-> file.gen + 1,
                  layout |-> file.layout, rows |-> mem[h]]
  BY <1>1, <1>3 DEF Delta
<1> QED BY <1>1, <1>2, <1>4

(* A sync that returns Ok, of a file f that holds what the index holds.    *)
LEMMA SyncToInv ==
  ASSUME Inv, NEW h \in Handles, NEW f \in File, SyncTo(h, f),
         f.rows = mem[h], nonces' \in Nat, nonces <= nonces',
         0 < f.nonce, f.nonce <= nonces',
         ~Grows => f.layout = "seq",
         \A g \in Handles \ {h} : Bound(g) /\ cursor[g].nonce = f.nonce => cursor[g].gen < f.gen,
         ~Grows => Undone(h) = {}
  PROVE  Inv'
<1>1. Bind(h, f) \in Cursor /\ Bind(h, f) # NoCursor
  BY NoneAssumption DEF Bind, Inv, TypeOK
<1>2. /\ file' = f /\ f # NoFile
      /\ cursor' = [cursor EXCEPT ![h] = Bind(h, f)]
      /\ cursor'[h] = Bind(h, f)
      /\ \A g \in Handles \ {h} : cursor'[g] = cursor[g]
  BY NoneAssumption DEF SyncTo, Inv, TypeOK
<1>3. TypeOK'
  <2>1. Undone(h) \in SUBSET Edit
    BY DEF Undone, Inv, TypeOK
  <2>2. lost' \in SUBSET Edit /\ mixed' \in BOOLEAN
    BY <2>1 DEF SyncTo, Inv, TypeOK
  <2>3. cursor' \in [Handles -> Cursor \cup {NoCursor}] /\ recal' \in [Handles -> BOOLEAN]
    BY <1>1, <1>2 DEF SyncTo, Inv, TypeOK
  <2> QED BY <1>2, <2>2, <2>3 DEF SyncTo, Inv, TypeOK
<1>4. NoncesDrawn'
  BY <1>1, <1>2 DEF NoncesDrawn, Inv, TypeOK, Bind
<1>5. NeverAhead'
  <2> SUFFICES ASSUME NEW g \in Handles, cursor'[g] # NoCursor, f.nonce = cursor'[g].nonce
               PROVE  cursor'[g].gen <= f.gen /\ (cursor'[g].gen = f.gen => f.rows = cursor'[g].rows)
    BY <1>2 DEF NeverAhead
  <2>1. CASE g = h
    BY <2>1, <1>2 DEF Bind
  <2>2. CASE g # h
    BY <2>2, <1>2 DEF Inv, TypeOK
  <2> QED BY <2>1, <2>2
<1>6. OneLayout'
  BY <1>2 DEF OneLayout
<1>7. backup' = NoFile /\ ~mixed' /\ (~Grows => lost' = {})
  BY DEF SyncTo, Inv
<1>8. \A g \in Handles : Bound(g)' => cursor'[g].rows \subseteq mem'[g]
  BY <1>2 DEF SyncTo, Inv, Bind
<1> QED BY <1>3, <1>4, <1>5, <1>6, <1>7, <1>8 DEF Inv

LEMMA WholeFile ==
  ASSUME Inv, NEW h \in Handles
  PROVE  /\ Whole(h) \in File /\ Whole(h).rows = mem[h]
         /\ Whole(h).nonce = nonces + 1 /\ nonces \in Nat
         /\ ~Grows => Whole(h).layout = "seq"
  BY LayoutType DEF Whole, Inv, TypeOK

(* With one layout, an index that is not refused knows the whole file.     *)
LEMMA FullUndoesNothing ==
  ASSUME Inv, NEW h \in Handles, State(h) # "Foreign", ~Grows
  PROVE  Undone(h) = {}
<1> SUFFICES ASSUME Bound(h), file # NoFile, file.nonce # Unclaimed
             PROVE  file.rows \ cursor[h].rows = {}
  BY DEF Undone
<1>1. Layout(mem[h]) = "seq" /\ file.layout = "seq"
  BY LayoutType DEF Inv, OneLayout
<1>2. file.nonce = cursor[h].nonce /\ file.gen = cursor[h].gen
  BY <1>1 DEF State
<1> QED BY <1>2 DEF Inv, NeverAhead

LEMMA StepInv ==
  ASSUME ~Backups, Inv, [Next]_vars
  PROVE  Inv'
<1> USE BoundsAssumption, GrowsAssumption
<1>1. ASSUME NEW h \in Handles, Add(h) PROVE Inv'
  <2>1. edits + 1 \in Edit
    BY <1>1 DEF Add, Inv, TypeOK
  <2>2. TypeOK'
    BY <1>1, <2>1 DEF Add, Inv, TypeOK
  <2>3. \A g \in Handles : mem[g] \subseteq mem'[g]
    BY <1>1 DEF Add, Inv, TypeOK
  <2> QED BY <1>1, <2>2, <2>3 DEF Add, Inv, NoncesDrawn, NeverAhead, OneLayout
<1>2. ASSUME NEW h \in Handles, Calibrate(h) PROVE Inv'
  BY <1>2 DEF Calibrate, Inv, TypeOK, NoncesDrawn, NeverAhead, OneLayout
<1>3. ASSUME NEW h \in Handles, SyncIncremental(h) PROVE Inv'
  <2>1. Incremental(h)
    BY <1>3 DEF SyncIncremental
  <2> DEFINE f == Delta(h)
  <2>2. /\ f \in File /\ f.rows = mem[h] /\ f.nonce = cursor[h].nonce
        /\ f.gen = file.gen + 1 /\ f.layout = file.layout
        /\ file # NoFile /\ Bound(h) /\ file.rows = cursor[h].rows
        /\ file.nonce = f.nonce /\ file \in File
    BY <2>1, DeltaRows
  <2>3. Undone(h) = {}
    BY <2>2 DEF Undone
  <2>4. 0 < f.nonce /\ f.nonce <= nonces
    BY <2>2 DEF Inv, NoncesDrawn
  <2>5. \A g \in Handles : Bound(g) /\ cursor[g].nonce = f.nonce => cursor[g].gen < f.gen
    BY <2>2 DEF Inv, NeverAhead, TypeOK
  <2>6. ~Grows => f.layout = "seq"
    BY <2>2 DEF Inv, OneLayout
  <2>7. SyncTo(h, f) /\ nonces' = nonces /\ nonces \in Nat
    BY <1>3 DEF SyncIncremental, Inv, TypeOK
  <2> HIDE DEF f
  <2> QED BY <2>2, <2>3, <2>4, <2>5, <2>6, <2>7, SyncToInv
<1>4. ASSUME NEW h \in Handles, SyncFull(h) PROVE Inv'
  <2> DEFINE f == Whole(h)
  <2>1. /\ f \in File /\ f.rows = mem[h] /\ f.nonce = nonces + 1 /\ nonces \in Nat
        /\ (~Grows => f.layout = "seq")
    BY WholeFile
  <2>2. \A g \in Handles : Bound(g) => cursor[g].nonce # f.nonce
    BY <2>1 DEF Inv, NoncesDrawn, TypeOK
  <2>3. ~Grows => Undone(h) = {}
    BY <1>4, FullUndoesNothing DEF SyncFull
  <2>4. SyncTo(h, f) /\ nonces' = nonces + 1
    BY <1>4 DEF SyncFull
  <2> HIDE DEF f
  <2> QED BY <2>1, <2>2, <2>3, <2>4, SyncToInv
<1>5. ASSUME NEW h \in Handles, SyncError(h) PROVE Inv'
  <2>1. cursor' = [cursor EXCEPT ![h] = NoCursor] /\ UNCHANGED <<backup, mem, recal, edits, nonces, lost, mixed>>
    BY <1>5 DEF SyncError
  <2>2. cursor' \in [Handles -> Cursor \cup {NoCursor}]
        /\ \A g \in Handles : cursor'[g] # NoCursor => g # h /\ cursor'[g] = cursor[g]
    BY <2>1 DEF Inv, TypeOK
  <2>3. CASE UNCHANGED file
    BY <2>1, <2>2, <2>3 DEF Inv, TypeOK, NoncesDrawn, NeverAhead, OneLayout
  <2>4. CASE Incremental(h) /\ file' = Delta(h)
    <3>1. /\ file' \in File /\ file'.nonce = file.nonce /\ file'.gen = file.gen + 1
          /\ file'.layout = file.layout /\ file # NoFile /\ file \in File
      BY <2>4, DeltaRows
    <3>2. TypeOK' /\ NoncesDrawn' /\ OneLayout'
      BY <2>1, <2>2, <2>4, <3>1 DEF Inv, TypeOK, NoncesDrawn, OneLayout
    <3>3. NeverAhead'
      BY <2>1, <2>2, <3>1 DEF Inv, TypeOK, NeverAhead
    <3> QED BY <2>1, <2>2, <2>4, <3>2, <3>3 DEF Inv
  <2> QED BY <1>5, <2>3, <2>4 DEF SyncError
<1>6. ASSUME NEW h \in Handles, Load(h) PROVE Inv'
  <2> DEFINE c == IF file.nonce = Unclaimed THEN NoCursor
                  ELSE [nonce |-> file.nonce, gen |-> file.gen, rows |-> file.rows]
  <2>1. file \in File /\ file # NoFile
    BY <1>6 DEF Load, Inv, TypeOK
  <2>2. c \in Cursor \cup {NoCursor}
    BY <2>1
  <2>3. /\ cursor' = [cursor EXCEPT ![h] = c] /\ mem' = [mem EXCEPT ![h] = file.rows]
        /\ recal' = [recal EXCEPT ![h] = FALSE]
        /\ UNCHANGED <<file, backup, edits, nonces, lost, mixed>>
    BY <1>6 DEF Load
  <2>4. TypeOK'
    BY <2>1, <2>2, <2>3 DEF Inv, TypeOK
  <2>5. \A g \in Handles : IF g = h THEN cursor'[g] = c /\ mem'[g] = file.rows
                           ELSE cursor'[g] = cursor[g] /\ mem'[g] = mem[g]
    BY <2>3 DEF Inv, TypeOK
  <2>6. c # NoCursor => /\ c.nonce = file.nonce /\ c.gen = file.gen /\ c.rows = file.rows
                        /\ file.nonce # 0
    OBVIOUS
  <2> HIDE DEF c
  <2>7. NoncesDrawn'
    BY <2>1, <2>3, <2>5, <2>6 DEF Inv, TypeOK, NoncesDrawn
  <2>8. NeverAhead'
    BY <2>1, <2>3, <2>5, <2>6 DEF Inv, TypeOK, NeverAhead
  <2>9. \A g \in Handles : Bound(g)' => cursor'[g].rows \subseteq mem'[g]
    BY <2>5, <2>6 DEF Inv
  <2> QED BY <2>3, <2>4, <2>7, <2>8, <2>9 DEF Inv, OneLayout
<1>7. ASSUME NEW h \in Handles, Write(h) PROVE Inv'
  <2>1. /\ file' \in File /\ file'.nonce = 0 /\ file'.layout = Layout(mem[h])
        /\ UNCHANGED <<backup, mem, recal, cursor, edits, nonces, lost, mixed>>
    BY <1>7, LayoutType DEF Write, Inv, TypeOK
  <2> QED BY <2>1, LayoutType DEF Inv, TypeOK, NoncesDrawn, NeverAhead, OneLayout
<1>8. CASE Remove
  BY <1>8 DEF Remove, Inv, TypeOK, NoncesDrawn, NeverAhead, OneLayout
<1>9. CASE Copy \/ Restore
  BY <1>9 DEF Copy, Restore, Inv
<1>10. CASE UNCHANGED vars
  BY <1>10 DEF vars, Inv, TypeOK, NoncesDrawn, NeverAhead, OneLayout
<1> QED BY <1>1, <1>2, <1>3, <1>4, <1>5, <1>6, <1>7, <1>8, <1>9, <1>10 DEF Next

(* The inductive invariant, when no old copy is put back: every index's    *)
(* file is at its generation or past it, with the rows it knows            *)
(* (cursor_state over write_full, run_sync and load).                      *)
THEOREM WritersInvariance == ~Backups => (Spec => []Inv)
<1> SUFFICES ASSUME ~Backups
             PROVE  Spec => []Inv
  OBVIOUS
<1>1. Inv /\ [Next]_vars => Inv'
  BY StepInv
<1> QED BY <1>1, InitInv, PTL DEF Spec

(* Nonce and generation identify the rows of the file an index is bound to *)
(* (cursor_state).                                                         *)
THEOREM IdentityCorrect == ~Backups => (Spec => []IdentityMeansContents)
<1>1. Inv => IdentityMeansContents
  BY DEF Inv, NeverAhead, IdentityMeansContents
<1> QED BY <1>1, WritersInvariance, PTL

(* A sync that returned Ok left its index's rows, never a mixture with     *)
(* another's (run_sync).                                                   *)
THEOREM NeverMixed == ~Backups => (Spec => []NothingMixed)
<1>1. Inv => NothingMixed
  BY DEF Inv, NothingMixed
<1> QED BY <1>1, WritersInvariance, PTL

(* An index that keeps its unit layout is refused rather than let to undo  *)
(* another's commit, a queued calibration included (sync_v7_impl).         *)
THEOREM NeverClobbered == ~Backups /\ ~Grows => (Spec => []NothingClobbered)
<1> SUFFICES ASSUME ~Backups, ~Grows
             PROVE  Spec => []NothingClobbered
  OBVIOUS
<1>1. Inv => NothingClobbered
  BY DEF Inv, NothingClobbered
<1> QED BY <1>1, WritersInvariance, PTL
=============================================================================
