------------------------------ MODULE TempFiles ------------------------------
(***************************************************************************)
(* The temp files of atomic saves (turbovec/src/io.rs): a save writes a    *)
(* fresh sibling of its destination and renames it, a killed one leaves    *)
(* it behind, and the first save of a process to a destination sweeps what *)
(* was left there over an hour ago.  Processes of one machine or of        *)
(* several, whose pids may then be equal, share the directory.             *)
(*                                                                         *)
(* A name is a sequence of characters of one or more bytes.  A destination *)
(* too long for its suffix lends its temps a shortened stem, which may be  *)
(* the whole name of another destination.                                  *)
(***************************************************************************)
EXTENDS Integers, Sequences, FiniteSetsExt, Functions

CONSTANTS
  Process,
  Dest,       \* destinations in the directory, by name
  Staged,     \* those that are temps of _persist.atomic_save
  Width,      \* bytes of each character
  Pid,
  SuffixLen,  \* bytes of ".tmp.{pid}.{seq}.{rand}", by pid
  Rand,
  NameMax,    \* TMP_NAME_MAX
  Tries,      \* of create_tmp
  Cap,        \* of SWEPT
  MaxSaves,   \* bound: saves of a process
  MaxKills,   \* bound
  NoName

(* A destination has a name, and the suffix leaves room for its first      *)
(* character: 255 bytes less at most 45, and a character has up to four.   *)
ASSUME TempAssumption ==
  /\ NameMax \in Nat /\ \A i \in Pid : SuffixLen[i] \in Nat
  /\ \A d \in Dest : /\ d \in Seq(DOMAIN Width) /\ d # <<>>
                     /\ Width[d[1]] \in Nat
                     /\ \A i \in Pid : Width[d[1]] + SuffixLen[i] <= NameMax

VARIABLES
  temps,   \* the temp files: who made each, for what, and whether it is stale
  exists,  \* destinations that hold a file
  torn,    \* history: destinations a rename gave another save's file
  at, dest, tmp, tries, todo,  \* of each process: its save
  pid, seq, swept,             \*   its pid, TMP_SEQ and SWEPT
  due,     \* history: what the sweep under way should remove
  removed, \* history: the temps swept, and names no tmp_rand draws again
  kills

files == <<temps, exists, torn>>
save  == <<at, dest, tmp, tries, todo>>
proc  == <<pid, seq, swept>>
tempVars == <<files, save, proc, due, removed, kills>>

Bytes(s) == FoldFunction(LAMBDA c, n : Width[c] + n, 0, s)

(* The longest prefix of whole characters within n bytes.                  *)
Prefix(s, n) == SubSeq(s, 1, Max({i \in 0 .. Len(s) : Bytes(SubSeq(s, 1, i)) <= n}))

(* tmp_sibling.                                                            *)
Stem(d, p) == IF Bytes(d) + SuffixLen[p] <= NameMax THEN d
              ELSE Prefix(d, NameMax - SuffixLen[p])

(* The cut of d that a sweep expects.                                      *)
Cut(d, n) == Prefix(d, n)

Names == DOMAIN temps

TempInit ==
  /\ temps = [n \in {} |-> NoName] /\ exists = {} /\ torn = {}
  /\ at = [p \in Process |-> "idle"] /\ dest = [p \in Process |-> NoName]
  /\ tmp = [p \in Process |-> NoName] /\ tries = [p \in Process |-> 0]
  /\ todo = [p \in Process |-> {}]
  /\ pid \in [Process -> Pid] /\ seq = [p \in Process |-> 0]
  /\ swept = [p \in Process |-> {}]
  /\ due = [p \in Process |-> {}] /\ removed = {} /\ kills = 0

Go(p, l) == at' = [at EXCEPT ![p] = l]

-----------------------------------------------------------------------------
(* sweep_stale_tmps: the temps it would take for d's, by their names.      *)
Ours(d, n) == \/ n.stem = d
              \/ /\ n.stem # <<>> /\ n.stem = Cut(d, NameMax - SuffixLen[n.pid])
                 /\ n.stem \notin exists

(* claim_first_sweep: once for each destination, past its cap every time.  *)
Claims(p, d) == Cardinality(swept[p]) >= Cap \/ d \notin swept[p]

(* Faulty: the age of a temp does not matter.                              *)
StaleAlways(n) == TRUE

Stale(n) == temps[n].stale

(* A save begins.  SWEPT may be held by another thread, whereupon nothing  *)
(* is swept; convert_file never sweeps.                                    *)
Begin(p, d) ==
  /\ at[p] = "idle" /\ seq[p] < MaxSaves
  /\ dest' = [dest EXCEPT ![p] = d]
  /\ tries' = [tries EXCEPT ![p] = 0]
  /\ \/ /\ d \notin Staged /\ Claims(p, d)
        /\ swept' = [swept EXCEPT ![p] = IF Cardinality(@) >= Cap THEN @ ELSE @ \cup {d}]
        /\ todo' = [todo EXCEPT ![p] = Names]
        /\ due' = [due EXCEPT ![p] = {n \in Names : temps[n].for = d /\ temps[n].stale}]
        /\ Go(p, "sweep")
     \/ /\ Go(p, "create")
        /\ UNCHANGED <<swept, todo, due>>
  /\ UNCHANGED <<files, tmp, pid, seq, removed, kills>>

(* An entry of the directory is looked at ...                              *)
Examine(p, n) ==
  /\ at[p] = "sweep" /\ n \in todo[p]
  /\ todo' = [todo EXCEPT ![p] = @ \ {n}]
  /\ IF n \in Names /\ Ours(dest[p], n) /\ Stale(n)
     THEN Go(p, "remove") /\ tmp' = [tmp EXCEPT ![p] = n]
     ELSE UNCHANGED <<at, tmp>>
  /\ UNCHANGED <<files, dest, tries, proc, due, removed, kills>>

(* ... and removed, unless another sweep was faster.                       *)
Unlink(p) ==
  /\ at[p] = "remove"
  /\ temps' = [n \in Names \ {tmp[p]} |-> temps[n]]
  /\ removed' = removed \cup {n \in Names : n = tmp[p]}
  /\ tmp' = [tmp EXCEPT ![p] = NoName]
  /\ Go(p, "sweep")
  /\ UNCHANGED <<exists, torn, dest, tries, todo, proc, due, kills>>

EndSweep(p) == /\ at[p] = "sweep" /\ todo[p] = {}
               /\ Go(p, "create")
               /\ UNCHANGED <<files, dest, tmp, tries, todo, proc, due, removed, kills>>

-----------------------------------------------------------------------------
(* create_tmp: O_EXCL refuses a name that exists, and the next is tried.   *)
Taken(n) == n \in Names

CreateTmp(p, r) ==
  LET n == [stem |-> Stem(dest[p], pid[p]), pid |-> pid[p], seq |-> seq[p], rand |-> r]
  IN /\ at[p] = "create" /\ n \notin removed
     /\ seq' = [seq EXCEPT ![p] = @ + 1]
     /\ due' = [due EXCEPT ![p] = {}]
     /\ IF Taken(n)
        THEN /\ tries' = [tries EXCEPT ![p] = @ + 1]
             /\ Go(p, IF tries[p] + 1 = Tries THEN "idle" ELSE "create")
             /\ UNCHANGED <<temps, tmp>>
        ELSE /\ temps' = [m \in Names \cup {n} |->
                            IF m = n THEN [by |-> p, for |-> dest[p], stale |-> FALSE]
                            ELSE temps[m]]
             /\ tmp' = [tmp EXCEPT ![p] = n]
             /\ Go(p, "write")
             /\ UNCHANGED tries
     /\ UNCHANGED <<exists, torn, dest, todo, pid, swept, removed, kills>>

Done(p) == /\ Go(p, "idle")
           /\ tmp' = [tmp EXCEPT ![p] = NoName]
           /\ UNCHANGED <<dest, tries, todo, proc, due, removed, kills>>

(* The file is written and renamed: a rename of a name that is gone fails. *)
Rename(p) == /\ at[p] = "write" /\ tmp[p] \in Names
             /\ exists' = exists \cup {dest[p]}
             /\ torn' = IF temps[tmp[p]].by = p THEN torn \ {dest[p]} ELSE torn \cup {dest[p]}
             /\ temps' = [n \in Names \ {tmp[p]} |-> temps[n]]
             /\ Done(p)

(* A write or the rename fails: the temp is removed.                       *)
WriteFails(p) == /\ at[p] = "write"
                 /\ temps' = [n \in Names \ {tmp[p]} |-> temps[n]]
                 /\ UNCHANGED <<exists, torn>>
                 /\ Done(p)

(* A kill leaves the temp; what starts instead has any pid.                *)
KillProcess(p) ==
  /\ kills < MaxKills /\ kills' = kills + 1
  /\ Go(p, "idle")
  /\ tmp' = [tmp EXCEPT ![p] = NoName] /\ todo' = [todo EXCEPT ![p] = {}]
  /\ temps' = [n \in Names |-> IF temps[n].by = p THEN [temps[n] EXCEPT !.by = NoName]
                               ELSE temps[n]]
  /\ \E i \in Pid : pid' = [pid EXCEPT ![p] = i]
  /\ seq' = [seq EXCEPT ![p] = 0] /\ swept' = [swept EXCEPT ![p] = {}]
  /\ due' = [due EXCEPT ![p] = {}]
  /\ UNCHANGED <<exists, torn, dest, tries, removed>>

(* An hour passes, during no save from its temp to its rename: a save      *)
(* takes seconds (io.rs:349).                                              *)
Hour == /\ \A p \in Process : at[p] # "write"
        /\ temps' = [n \in Names |-> [temps[n] EXCEPT !.stale = TRUE]]
        /\ UNCHANGED <<exists, torn, save, proc, due, removed, kills>>

TempNext ==
  \/ \E p \in Process :
       \/ \E d \in Dest : Begin(p, d)
       \/ \E n \in todo[p] : Examine(p, n)
       \/ Unlink(p) \/ EndSweep(p)
       \/ \E r \in Rand : CreateTmp(p, r)
       \/ Rename(p) \/ WriteFails(p) \/ KillProcess(p)
  \/ Hour

TempSpec == TempInit /\ [][TempNext]_tempVars

-----------------------------------------------------------------------------
\* A save's temp is its own until it is renamed: no sweep removes it, and no
\* other save, of an equal pid even, writes to it.
LiveTempsKept == /\ \A p \in Process : at[p] = "write" => /\ tmp[p] \in Names
                                                          /\ temps[tmp[p]].by = p
                 /\ torn = {}

\* A sweep removes what was left for its destination, however long that is,
\* except what could as well belong to another that exists (#488).
LeaksReclaimed ==
  \A p \in Process : at[p] = "create" =>
    \A n \in due[p] \cap Names : n.stem # dest[p] /\ n.stem \in exists

(* No sweep removes the temp file of a save under way, nor does another    *)
(* save write to it; and a sweep does remove what kills left, unless it    *)
(* may belong to another destination (io.rs, sweep_stale_tmps).            *)
SweepsTakeTheDead == LiveTempsKept /\ LeaksReclaimed

-----------------------------------------------------------------------------
(* Why it holds.  What is stale has no writer, and what a sweep is about   *)
(* to remove was stale and is gone for good once it is removed; so a name  *)
(* is never another temp's while a sweep holds it.                         *)
TmpName == [stem : {Stem(d, i) : d \in Dest, i \in Pid}, pid : Pid, seq : Nat, rand : Rand]

TempsTyped ==
  /\ temps \in [Names -> [by : Process \cup {NoName}, for : Dest, stale : BOOLEAN]]
  /\ Names \subseteq TmpName /\ exists \subseteq Dest
  /\ at \in [Process -> {"idle", "sweep", "remove", "create", "write"}]
  /\ dest \in [Process -> Dest \cup {NoName}]
  /\ \A p \in Process : at[p] # "idle" => dest[p] \in Dest
  /\ tmp \in [Process -> TmpName \cup {NoName}] /\ tries \in [Process -> Nat]
  /\ todo \in [Process -> SUBSET TmpName]
  /\ pid \in [Process -> Pid] /\ seq \in [Process -> Nat]
  /\ swept \in [Process -> SUBSET Dest]
  /\ due \in [Process -> SUBSET TmpName] /\ removed \subseteq TmpName

(* The temp a process writes is its own and fresh; one it is to remove is  *)
(* stale, or another sweep was faster.                                     *)
HeldTemps ==
  \A p \in Process :
    /\ at[p] = "write" => tmp[p] \in Names /\ temps[tmp[p]].by = p /\ ~temps[tmp[p]].stale
    /\ at[p] = "remove" => \/ tmp[p] \in removed
                           \/ tmp[p] \in Names /\ temps[tmp[p]].stale

GoneTemps == removed \cap Names = {} /\ torn = {}

NamedFor == \A n \in Names : n.stem = Stem(temps[n].for, n.pid)

(* What is due is gone, or waits, or may be another destination's.         *)
DueTemps ==
  \A p \in Process :
    /\ at[p] \in {"idle", "write"} => due[p] = {}
    /\ \A n \in due[p] : \/ n \in removed
                         \/ n \in Names /\ temps[n].stale /\ temps[n].for = dest[p]
    /\ \A n \in due[p] \cap Names :
         \/ n.stem # dest[p] /\ n.stem \in exists
         \/ at[p] \in {"sweep", "remove"} /\ n \in todo[p]
         \/ at[p] = "remove" /\ n = tmp[p]

SweepInv == TempsTyped /\ HeldTemps /\ GoneTemps /\ NamedFor /\ DueTemps
=============================================================================
