---------------------------- MODULE Binding_proofs ----------------------------
(***************************************************************************)
(* For any threads, workers, calls and warnings: no thread runs user code  *)
(* under its own guard, and no warning of a save is left in the queue.     *)
(***************************************************************************)
EXTENDS Binding, TLAPS

-----------------------------------------------------------------------------
(* The inductive invariant. *)

(* Where a thread that is not within a save of its own may be.             *)
UserCode == {"deliver", "touch", "touchWait", "touchBack"}
AtEase   == {"in", "flush", "workerAttach"} \cup UserCode

(* Where a thread may hold a guard of the index.                           *)
Held == {"locked", "queued", "run", "emit", "push", "unlock"}

Asleep == {"queued", "copyQueued"}

Places == AtEase \cup Held \cup Asleep
            \cup {"out", "lock", "wait", "undefer", "try", "check", "snapshot", "copy"}

Typed == /\ pc \in [Thread -> Places]
         /\ call \in [Thread -> {"none"} \cup Reads \cup Writes \cup Warns]
         /\ deferring \subseteq Thread /\ pending \in Nat

(* What each thread's place says of its call, its guard and its deferral:  *)
(* a save's deferral spans it from its start to the end of its guard, so   *)
(* what a worker delivers at once is a load's.                             *)
Placed(t) ==
  /\ t \in deferring <=> call[t] \in Saves /\ pc[t] # "out"
  /\ pc[t] \in AtEase => call[t] \in {"none", "load"}
  /\ pc[t] = "undefer" => call[t] \in Saves
  /\ pc[t] = "wait" => call[t] \in Writes
  /\ pc[t] = "try" => call[t] = "remove"
  /\ pc[t] \in {"emit", "push"} => call[t] \in Warns
  /\ t \in readers \/ writer = t => pc[t] \in Held /\ call[t] \in Reads \cup Writes
  /\ call[t] \in {"none"} \cup MayCall[t]

(* A job is queued once, and its thread sleeps.                            *)
Queued == /\ jobs \in Seq(Thread)
          /\ \A i, j \in 1 .. Len(jobs) : jobs[i] = jobs[j] => i = j
          /\ \A i \in 1 .. Len(jobs) : pc[jobs[i]] \in Asleep

BInv == Typed /\ Queued /\ \A t \in Thread : Placed(t)

LEMMA BInvSuffices == BInv => NoGuardInUserCode
  BY DEF BInv, Placed, AtEase, UserCode, Held, NoGuardInUserCode

LEMMA InitBInv == Init => BInv
<1> SUFFICES ASSUME Init PROVE BInv
  OBVIOUS
<1>1. Typed
  BY DEF Init, Typed, Places, AtEase, UserCode
<1>2. Queued
  BY DEF Init, Queued
<1>3. ASSUME NEW t \in Thread PROVE Placed(t)
  BY NobodyAssumption DEF Init, Placed, Saves, AtEase, UserCode
<1> QED
  BY <1>1, <1>2, <1>3 DEF BInv

-----------------------------------------------------------------------------
(* The queue of jobs. *)

(* A step of a thread that is awake, and queues nothing.                   *)
LEMMA QueueKept ==
  ASSUME BInv, NEW t \in Thread, NEW l, pc[t] \notin Asleep,
         pc' = [pc EXCEPT ![t] = l], jobs' = jobs
  PROVE  Queued'
<1>1. \A i \in 1 .. Len(jobs) : jobs[i] \in Thread /\ jobs[i] # t
  BY DEF BInv, Queued
<1> QED
  BY <1>1 DEF BInv, Queued, Typed

LEMMA QueueGrows ==
  ASSUME BInv, NEW t \in Thread, NEW l \in Asleep, pc[t] \notin Asleep,
         pc' = [pc EXCEPT ![t] = l], jobs' = Append(jobs, t)
  PROVE  Queued'
<1>1. /\ jobs' \in Seq(Thread) /\ Len(jobs') = Len(jobs) + 1 /\ Len(jobs) \in Nat
      /\ \A i \in 1 .. Len(jobs) : jobs'[i] = jobs[i]
      /\ jobs'[Len(jobs) + 1] = t
  BY DEF BInv, Queued
<1>2. \A i \in 1 .. Len(jobs) : jobs[i] \in Thread /\ jobs[i] # t
  BY DEF BInv, Queued
<1>3. \A i \in 1 .. Len(jobs') : i \in 1 .. Len(jobs) \/ i = Len(jobs) + 1
  BY <1>1
<1>4. \A i, j \in 1 .. Len(jobs') : jobs'[i] = jobs'[j] => i = j
  BY <1>1, <1>2, <1>3 DEF BInv, Queued
<1>5. \A i \in 1 .. Len(jobs') : pc'[jobs'[i]] \in Asleep
  BY <1>1, <1>2, <1>3 DEF BInv, Queued, Typed
<1> QED
  BY <1>1, <1>4, <1>5 DEF Queued

(* The head of the queue is taken, and its thread's job runs.              *)
LEMMA TakeIs ==
  ASSUME BInv, NEW w \in Worker, Take(w)
  PROVE  /\ Head(jobs) \in Thread /\ pc[Head(jobs)] \in Asleep
         /\ pc' = [pc EXCEPT ![Head(jobs)] =
                     IF At(Head(jobs), "copyQueued") THEN "copy" ELSE "run"]
         /\ Queued'
<1>1. jobs \in Seq(Thread) /\ jobs # <<>> /\ jobs' = Tail(jobs)
  BY DEF Take, BInv, Queued
<1>2. /\ Len(jobs) \in Nat /\ Len(jobs) >= 1 /\ Head(jobs) = jobs[1] /\ 1 \in 1 .. Len(jobs)
      /\ jobs' \in Seq(Thread) /\ Len(jobs') = Len(jobs) - 1
      /\ \A i \in 1 .. Len(jobs) - 1 : jobs'[i] = jobs[i + 1]
  BY <1>1
<1>3. Head(jobs) \in Thread /\ pc[Head(jobs)] \in Asleep
  BY <1>1, <1>2 DEF BInv, Queued
<1>4. pc' = [pc EXCEPT ![Head(jobs)] = IF At(Head(jobs), "copyQueued") THEN "copy" ELSE "run"]
  BY DEF Take, Go
<1>5. \A i \in 1 .. Len(jobs') : i + 1 \in 1 .. Len(jobs) /\ i + 1 # 1 /\ jobs'[i] = jobs[i + 1]
  BY <1>2
<1>6. \A i, j \in 1 .. Len(jobs') : jobs'[i] = jobs'[j] => i = j
  BY <1>2, <1>5 DEF BInv, Queued
<1>7. ASSUME NEW i \in 1 .. Len(jobs') PROVE pc'[jobs'[i]] \in Asleep
  <2>1. jobs'[i] # Head(jobs) /\ jobs'[i] \in Thread /\ pc[jobs'[i]] \in Asleep
    BY <1>1, <1>2, <1>5 DEF BInv, Queued
  <2> QED
    BY <1>4, <2>1 DEF BInv, Typed
<1> QED
  BY <1>2, <1>3, <1>4, <1>6, <1>7 DEF Queued
-----------------------------------------------------------------------------
(* The steps of a thread. *)

(* A step of one thread says nothing of where the others are.              *)
LEMMA OthersPlaced ==
  ASSUME BInv, NEW t \in Thread, NEW l, pc' = [pc EXCEPT ![t] = l],
         Typed', Queued', Placed(t)',
         \A u \in Thread \ {t} : /\ call'[u] = call[u]
                                 /\ u \in deferring' <=> u \in deferring
                                 /\ u \in readers' <=> u \in readers
                                 /\ writer' = u <=> writer = u
  PROVE  BInv'
<1>1. ASSUME NEW u \in Thread \ {t} PROVE Placed(u)'
  <2>1. pc'[u] = pc[u] /\ Placed(u)
    BY DEF BInv, Typed
  <2> QED
    BY <2>1 DEF Placed
<1> QED
  BY <1>1 DEF BInv

(* A step that changes neither calls, guards nor deferrals, and queues     *)
(* nothing.                                                                *)
LEMMA MovesOnly ==
  ASSUME BInv, NEW t \in Thread, NEW l \in Places \ Asleep, pc[t] \notin Asleep,
         pc' = [pc EXCEPT ![t] = l], pending' \in Nat,
         UNCHANGED <<call, deferring, readers, writer, jobs>>,
         call[t] \in Saves => (pc[t] = "out" <=> l = "out"),
         l \in AtEase => call[t] \in {"none", "load"},
         l = "undefer" => call[t] \in Saves,
         l = "wait" => call[t] \in Writes,
         l = "try" => call[t] = "remove",
         l \in {"emit", "push"} => call[t] \in Warns,
         t \in readers \/ writer = t => l \in Held
  PROVE  BInv'
<1>1. Typed'
  BY DEF BInv, Typed
<1>2. Queued'
  BY QueueKept
<1>3. pc'[t] = l
  BY DEF BInv, Typed
<1>4. Placed(t)'
  BY <1>3 DEF BInv, Placed
<1> QED
  BY <1>1, <1>2, <1>4, OthersPlaced

LEMMA GetsBInv ==
  ASSUME BInv, NEW t \in Thread, Gets(t)
  PROVE  BInv'
<1> USE DEF At, Go, lock, pool, warn, Asleep, AtEase, UserCode, Held, Places
<1>1. CASE Attach(t)
  <2> DEFINE l == IF call[t] \in Saves THEN "flush" ELSE "in"
  <2>1. /\ pc[t] = "out" /\ pc' = [pc EXCEPT ![t] = l] /\ call' = [call EXCEPT ![t] = "none"]
        /\ UNCHANGED <<readers, writer, jobs, deferring, pending>>
    BY <1>1 DEF Attach
  <2>2. l \in {"flush", "in"}
    OBVIOUS
  <2> HIDE DEF l
  <2>3. Typed'
    BY <2>1, <2>2 DEF BInv, Typed
  <2>4. Queued'
    BY <2>1, QueueKept
  <2>5. Placed(t)'
    <3>1. pc'[t] = l /\ call'[t] = "none"
      BY <2>1 DEF BInv, Typed
    <3> QED
      BY <2>1, <2>2, <3>1 DEF BInv, Placed, Saves
  <2>6. \A u \in Thread \ {t} : call'[u] = call[u]
    BY <2>1 DEF BInv, Typed
  <2> QED
    BY <2>1, <2>3, <2>4, <2>5, <2>6, OthersPlaced
<1>2. CASE WorkerAttach(t) \/ TouchBack(t)
  <2>1. /\ pc[t] \in {"workerAttach", "touchBack"} /\ pc' = [pc EXCEPT ![t] = "deliver"]
        /\ UNCHANGED <<call, deferring, readers, writer, jobs, pending>>
    BY <1>2 DEF WorkerAttach, TouchBack
  <2>2. Placed(t) /\ pending \in Nat
    BY DEF BInv, Typed
  <2> QED
    BY <2>1, <2>2, MovesOnly DEF Placed, Saves
<1> QED
  BY <1>1, <1>2 DEF Gets

LEMMA LocksBInv ==
  ASSUME BInv, NEW t \in Thread, Locks(t)
  PROVE  BInv'
<1> USE DEF At, Go, pool, warn, Asleep, AtEase, UserCode, Held, Places
<1>0. Placed(t) /\ pending \in Nat
  BY DEF BInv, Typed
<1>1. CASE LockRead(t) \/ LockWrite(t)
  <2>1. /\ pc[t] \in {"lock", "wait"} /\ pc' = [pc EXCEPT ![t] = "locked"]
        /\ UNCHANGED <<call, deferring, jobs, pending>>
        /\ readers' \in {readers, readers \cup {t}}
        /\ writer' = writer \/ (writer = Nobody /\ writer' = t)
    BY <1>1 DEF LockRead, LockWrite, Free
  <2>2. Typed'
    BY <2>1 DEF BInv, Typed
  <2>3. Queued'
    BY <2>1, QueueKept
  <2>4. call[t] \in Reads \cup Writes
    BY <1>0, <1>1 DEF LockRead, LockWrite, Placed
  <2>5. Placed(t)'
    <3>1. pc'[t] = "locked"
      BY <2>1 DEF BInv, Typed
    <3> QED
      BY <1>0, <2>1, <2>4, <3>1 DEF Placed
  <2>6. \A u \in Thread \ {t} : /\ u \in readers' <=> u \in readers
                                /\ writer' = u <=> writer = u
    BY <2>1, NobodyAssumption
  <2> QED
    BY <2>1, <2>2, <2>3, <2>5, <2>6, OthersPlaced
<1>2. CASE Touched(t)
  <2>1. /\ pc[t] = "touchWait" /\ pc' = [pc EXCEPT ![t] = "touchBack"]
        /\ UNCHANGED <<call, deferring, readers, writer, jobs, pending>>
    BY <1>2 DEF Touched
  <2> QED
    BY <1>0, <2>1, MovesOnly DEF Placed, Saves
<1> QED
  BY <1>1, <1>2 DEF Locks
(* A step that changes neither calls, guards nor deferrals, and queues the *)
(* thread's job.                                                           *)
LEMMA Injects ==
  ASSUME BInv, NEW t \in Thread, NEW l \in Asleep, pc[t] \notin Asleep, pc[t] # "out",
         pc' = [pc EXCEPT ![t] = l], jobs' = Append(jobs, t),
         UNCHANGED <<call, deferring, readers, writer, pending>>,
         t \in readers \/ writer = t => l \in Held
  PROVE  BInv'
<1>1. Typed'
  BY DEF BInv, Typed, Places
<1>2. Queued'
  BY QueueGrows
<1>3. pc'[t] = l
  BY DEF BInv, Typed
<1>4. Placed(t)'
  BY <1>3 DEF BInv, Placed, Asleep, AtEase, UserCode, Held
<1> QED
  BY <1>1, <1>2, <1>4, OthersPlaced

LEMMA GoesBInv ==
  ASSUME BInv, NEW t \in Thread, Goes(t)
  PROVE  BInv'
<1> USE DEF At, Go, lock, pool, warn, Asleep, AtEase, UserCode, Held, Places
<1>0. Placed(t) /\ pending \in Nat /\ pc \in [Thread -> Places]
  BY DEF BInv, Typed
<1>1. CASE Queue(t)
  BY <1>0, <1>1, MovesOnly DEF Queue, Placed
<1>2. CASE Unlock(t)
  <2> DEFINE l == IF call[t] \in Saves THEN "undefer" ELSE "out"
  <2>1. /\ pc[t] = "unlock" /\ pc' = [pc EXCEPT ![t] = l]
        /\ UNCHANGED <<call, deferring, jobs, pending>>
        /\ readers' = readers \ {t} /\ writer' = IF writer = t THEN Nobody ELSE writer
    BY <1>2 DEF Unlock
  <2>2. l \in {"undefer", "out"} /\ (l = "undefer" <=> call[t] \in Saves)
    OBVIOUS
  <2> HIDE DEF l
  <2>3. Typed'
    BY <2>1, <2>2 DEF BInv, Typed
  <2>4. Queued'
    BY <2>1, QueueKept
  <2>5. /\ t \notin readers' /\ writer' # t
        /\ \A u \in Thread \ {t} : /\ u \in readers' <=> u \in readers
                                  /\ writer' = u <=> writer = u
    BY <2>1, NobodyAssumption
  <2>6. Placed(t)'
    <3>1. pc'[t] = l
      BY <1>0, <2>1
    <3> QED
      BY <1>0, <2>1, <2>2, <2>5, <3>1 DEF Placed
  <2> QED
    BY <2>1, <2>3, <2>4, <2>5, <2>6, OthersPlaced
<1>3. CASE Undefer(t)
  <2>1. /\ pc[t] = "undefer" /\ pc' = [pc EXCEPT ![t] = "out"] /\ pc'[t] = "out"
        /\ UNCHANGED <<call, readers, writer, jobs, pending>>
        /\ deferring' = deferring \ {t}
    BY <1>0, <1>3 DEF Undefer
  <2>2. Typed'
    BY <2>1 DEF BInv, Typed
  <2>3. Queued'
    BY <2>1, QueueKept
  <2>4. Placed(t)'
    BY <1>0, <2>1 DEF Placed
  <2> QED
    BY <2>1, <2>2, <2>3, <2>4, OthersPlaced
<1>4. CASE TryWrite(t)
  <2>1. CASE Free
    <3>1. /\ pc[t] = "try" /\ pc' = [pc EXCEPT ![t] = "in"] /\ pc'[t] = "in"
          /\ call' = [call EXCEPT ![t] = "none"] /\ call'[t] = "none"
          /\ UNCHANGED <<readers, writer, jobs, deferring, pending>>
      BY <1>0, <1>4, <2>1 DEF TryWrite, BInv, Typed
    <3>2. Typed'
      BY <3>1 DEF BInv, Typed
    <3>3. Queued'
      BY <3>1, QueueKept
    <3>4. Placed(t)'
      BY <1>0, <3>1 DEF Placed, Saves
    <3>5. \A u \in Thread \ {t} : call'[u] = call[u]
      BY <3>1 DEF BInv, Typed
    <3> QED
      BY <3>1, <3>2, <3>3, <3>4, <3>5, OthersPlaced
  <2>2. CASE ~Free
    BY <1>0, <1>4, <2>2, MovesOnly DEF TryWrite, Placed
  <2> QED
    BY <2>1, <2>2
<1>5. CASE PoolIdle(t)
  <2>1. PICK l \in {"lock", "snapshot"} : pc' = [pc EXCEPT ![t] = l]
    BY <1>5 DEF PoolIdle
  <2>2. pc[t] = "check" /\ UNCHANGED <<call, deferring, readers, writer, jobs, pending>>
    BY <1>5 DEF PoolIdle
  <2> QED
    BY <1>0, <2>1, <2>2, MovesOnly DEF Placed
<1>6. CASE Snapshot(t)
  BY <1>0, <1>6, Injects DEF Snapshot, Inject, Placed
<1>7. CASE Work(t)
  <2>1. CASE call[t] = "remove"
    BY <1>0, <1>7, <2>1, MovesOnly DEF Work, Placed
  <2>2. CASE call[t] # "remove"
    BY <1>0, <1>7, <2>2, Injects DEF Work, Inject, Placed
  <2> QED
    BY <2>1, <2>2
<1>8. CASE Emit(t)
  <2>1. pc[t] = "emit" /\ UNCHANGED <<call, deferring, readers, writer, jobs, pending>>
    BY <1>8 DEF Emit
  <2>2. CASE deferring # {}
    <3>1. pc' = [pc EXCEPT ![t] = "push"]
      BY <1>8, <2>2 DEF Emit
    <3> QED
      BY <1>0, <2>1, <3>1, MovesOnly DEF Placed
  <2>3. CASE deferring = {}
    <3>1. pc' = [pc EXCEPT ![t] = "workerAttach"]
      BY <1>8, <2>3 DEF Emit
    <3>2. call[t] = "load"
      BY <1>0, <2>1, <2>3 DEF Placed, Warns
    <3>3. t \notin readers /\ writer # t
      BY <1>0, <3>2 DEF Placed, Reads, Writes
    <3> QED
      BY <2>1, <3>1, <3>2, <3>3, <1>0, MovesOnly DEF Saves
  <2> QED
    BY <2>2, <2>3
<1>9. CASE Push(t)
  <2>1. /\ pc[t] = "push" /\ pc' = [pc EXCEPT ![t] = "unlock"] /\ pending' = pending + 1
        /\ UNCHANGED <<call, deferring, readers, writer, jobs>>
    BY <1>9 DEF Push, End
  <2>2. pending' \in Nat
    BY <1>0, <2>1
  <2> QED
    BY <1>0, <2>1, <2>2, MovesOnly DEF Placed
<1>10. CASE Flush(t)
  BY <1>0, <1>10, MovesOnly DEF Flush, Placed, Saves
<1>11. CASE Deliver(t) \/ Touch(t)
  <2>1. /\ pc[t] \in {"deliver", "touch"}
        /\ UNCHANGED <<call, deferring, readers, writer, jobs, pending>>
    BY <1>11 DEF Deliver, Touch
  <2>2. PICK l \in {"deliver", "touch", "touchWait"} : pc' = [pc EXCEPT ![t] = l]
    <3>1. CASE Deliver(t)
      <4>1. pc' = pc \/ pc' = [pc EXCEPT ![t] = "touch"]
        BY <3>1 DEF Deliver
      <4>2. pc' = pc => pc' = [pc EXCEPT ![t] = "deliver"]
        BY <1>0, <3>1 DEF Deliver
      <4> QED
        BY <4>1, <4>2
    <3>2. CASE Touch(t)
      BY <3>2 DEF Touch
    <3> QED
      BY <1>11, <3>1, <3>2
  <2> QED
    BY <1>0, <2>1, <2>2, MovesOnly DEF Placed, Saves
<1>12. CASE Delivered(t)
  <2>1. /\ pc[t] = "deliver"
        /\ UNCHANGED <<call, deferring, readers, writer, jobs, pending>>
    BY <1>12 DEF Delivered, End
  <2>2. PICK l \in {"unlock", "in"} : pc' = [pc EXCEPT ![t] = l]
    BY <1>12 DEF Delivered, End
  <2> QED
    BY <1>0, <2>1, <2>2, MovesOnly DEF Placed, Saves
<1> QED
  BY <1>1, <1>2, <1>3, <1>4, <1>5, <1>6, <1>7, <1>8, <1>9, <1>10, <1>11, <1>12 DEF Goes
LEMMA BeginBInv ==
  ASSUME BInv, NEW t \in Thread, NEW c \in MayCall[t], Begin(t, c)
  PROVE  BInv'
<1> USE DEF At, Go, lock, pool, Asleep, AtEase, UserCode, Held, Places
<1>0. Placed(t) /\ pc \in [Thread -> Places] /\ MayCall[t] \subseteq Reads \cup Writes \cup Warns
  BY CallsAssumption DEF BInv, Typed
<1>1. /\ pc[t] = "in" /\ call' = [call EXCEPT ![t] = c] /\ call'[t] = c
      /\ UNCHANGED <<readers, writer, jobs, pending>>
  BY DEF Begin, BInv, Typed
<1>2. PICK l \in {"check", "try", "locked", "lock"} :
        /\ pc' = [pc EXCEPT ![t] = l] /\ pc'[t] = l
        /\ l = "try" => c = "remove"
        /\ deferring' = IF c \in Saves THEN deferring \cup {t} ELSE deferring
  <2>1. CASE c = "add"
    BY <1>0, <2>1 DEF Begin, Saves
  <2>2. CASE c = "remove"
    BY <1>0, <2>2 DEF Begin, Saves
  <2>3. CASE c = "load"
    BY <1>0, <2>3 DEF Begin, Saves
  <2>4. CASE c \in Saves
    BY <1>0, <2>4 DEF Begin, Saves
  <2>5. CASE c \notin Saves \cup {"add", "remove", "load"}
    BY <1>0, <2>5 DEF Begin
  <2> QED
    BY <2>1, <2>2, <2>3, <2>4, <2>5
<1>3. Typed'
  BY <1>0, <1>1, <1>2 DEF BInv, Typed
<1>4. Queued'
  BY <1>1, <1>2, QueueKept
<1>5. Placed(t)'
  BY <1>0, <1>1, <1>2 DEF Placed, Saves
<1>6. \A u \in Thread \ {t} : call'[u] = call[u] /\ (u \in deferring' <=> u \in deferring)
  BY <1>1, <1>2 DEF BInv, Typed
<1> QED
  BY <1>1, <1>2, <1>3, <1>4, <1>5, <1>6, OthersPlaced

LEMMA TakeBInv ==
  ASSUME BInv, NEW w \in Worker, Take(w)
  PROVE  BInv'
<1>0. PICK t \in Thread : t = Head(jobs)
  BY TakeIs
<1> DEFINE l == IF At(t, "copyQueued") THEN "copy" ELSE "run"
<1>1. /\ t \in Thread /\ pc[t] \in Asleep /\ pc' = [pc EXCEPT ![t] = l]
      /\ Queued'
      /\ UNCHANGED <<call, deferring, readers, writer, pending>>
  BY <1>0, TakeIs DEF Take, lock, warn
<1>2. l \in {"copy", "run"} /\ (pc[t] = "queued" => l = "run")
  BY DEF At
<1> HIDE DEF l
<1>3. Typed' /\ pc'[t] = l
  BY <1>1, <1>2 DEF BInv, Typed, Places, Held
<1>4. Placed(t)'
  BY <1>1, <1>2, <1>3 DEF BInv, Placed, Asleep, AtEase, UserCode, Held
<1> QED
  BY <1>1, <1>3, <1>4, OthersPlaced

LEMMA NextBInv == BInv /\ [Next]_vars => BInv'
<1> SUFFICES ASSUME BInv, [Next]_vars PROVE BInv'
  OBVIOUS
<1>1. ASSUME NEW t \in Thread, Ends(t) \/ Warn(t) \/ Yield(t) PROVE BInv'
  <2> USE DEF At, Go, lock, pool, warn, Asleep, AtEase, UserCode, Held, Places
  <2>1. Placed(t) /\ pending \in Nat
    BY DEF BInv, Typed
  <2>2. PICK l \in {"lock", "unlock", "emit", "out"} : pc' = [pc EXCEPT ![t] = l]
    BY <1>1 DEF Ends, Copied, Done, End, Warn, Yield
  <2>3. /\ UNCHANGED <<call, deferring, readers, writer, jobs, pending>>
        /\ \/ pc[t] = "copy" /\ pc' = [pc EXCEPT ![t] = "lock"]
           \/ pc[t] = "run" /\ pc' = [pc EXCEPT ![t] = "unlock"]
           \/ pc[t] = "run" /\ call[t] \in Warns /\ pc' = [pc EXCEPT ![t] = "emit"]
           \/ pc[t] = "in" /\ pc' = [pc EXCEPT ![t] = "out"]
    BY <1>1 DEF Ends, Copied, Done, End, Warn, Yield
  <2>4. CASE pc[t] = "copy" /\ pc' = [pc EXCEPT ![t] = "lock"]
    BY <2>1, <2>3, <2>4, MovesOnly DEF Placed
  <2>5. CASE pc[t] = "run" /\ pc' = [pc EXCEPT ![t] = "unlock"]
    BY <2>1, <2>3, <2>5, MovesOnly DEF Placed
  <2>6. CASE pc[t] = "run" /\ call[t] \in Warns /\ pc' = [pc EXCEPT ![t] = "emit"]
    BY <2>1, <2>3, <2>6, MovesOnly DEF Placed
  <2>7. CASE pc[t] = "in" /\ pc' = [pc EXCEPT ![t] = "out"]
    BY <2>1, <2>3, <2>7, MovesOnly DEF Placed, Saves
  <2> QED
    BY <2>3, <2>4, <2>5, <2>6, <2>7
<1>2. CASE UNCHANGED vars
  BY <1>2 DEF vars, lock, pool, warn, BInv, Typed, Queued, Placed
<1> QED
  BY <1>1, <1>2, GetsBInv, LocksBInv, GoesBInv, BeginBInv, TakeBInv DEF Next

(* BInv holds in every reachable state.                                    *)
THEOREM BindingInvariance == Spec => []BInv
  BY InitBInv, NextBInv, PTL DEF Spec

(* User code never runs under a guard of the thread it runs on             *)
(* (emit_core_warning, #360).                                              *)
THEOREM NoUserCodeUnderGuard == Spec => []NoGuardInUserCode
  BY BindingInvariance, BInvSuffices, PTL

-----------------------------------------------------------------------------
(* The warnings of saves. *)

WInv == BInv /\ loaded \in Nat /\ SavesAreHeard

(* A step of one thread is no step of another.                             *)
LEMMA OneMoves ==
  ASSUME Typed, NEW u \in Thread, NEW t \in Thread \ {u},
         \/ Gets(u) \/ Locks(u) \/ Goes(u) \/ Ends(u) \/ Warn(u) \/ Yield(u)
         \/ \E c \in MayCall[u] : Begin(u, c)
  PROVE  pc'[t] = pc[t] /\ call'[t] = call[t] /\ (t \in deferring' <=> t \in deferring)
<1> USE DEF Typed, Go, lock, pool, warn
<1>1. CASE Gets(u) \/ Locks(u)
  BY <1>1 DEF Gets, Locks, Attach, WorkerAttach, TouchBack, LockRead, LockWrite, Touched
<1>2. CASE Queue(u) \/ Unlock(u) \/ Undefer(u) \/ TryWrite(u) \/ PoolIdle(u) \/ Snapshot(u)
  BY <1>2 DEF Queue, Unlock, Undefer, TryWrite, PoolIdle, Snapshot, Inject
<1>3. CASE Work(u) \/ Emit(u) \/ Push(u) \/ Flush(u)
  BY <1>3 DEF Work, Emit, Push, Flush, Inject, End
<1>4. CASE Deliver(u) \/ Touch(u) \/ Delivered(u)
  BY <1>4 DEF Deliver, Touch, Delivered, End
<1>5. CASE Ends(u) \/ Warn(u) \/ Yield(u)
  BY <1>5 DEF Ends, Copied, Done, End, Warn, Yield
<1>6. ASSUME NEW c \in MayCall[u], Begin(u, c)
      PROVE  pc'[t] = pc[t] /\ call'[t] = call[t] /\ (t \in deferring' <=> t \in deferring)
  <2>1. call'[t] = call[t] /\ (t \in deferring' <=> t \in deferring)
    BY <1>6 DEF Begin
  <2>2. pc'[t] = pc[t]
    BY <1>6 DEF Begin
  <2> QED
    BY <2>1, <2>2
<1> QED
  BY <1>1, <1>2, <1>3, <1>4, <1>5, <1>6 DEF Goes

(* A thread that is to flush remains one until it does.                    *)
LEMMA ServesOn ==
  ASSUME BInv, NEW t \in Thread, Serves(t), [Next]_vars, ~Flush(t)
  PROVE  Serves(t)'
<1> USE DEF At, Go
<1>0. Typed /\ Placed(t)
  BY DEF BInv
<1>1. ASSUME pc'[t] = pc[t], call'[t] = call[t], t \in deferring' <=> t \in deferring
      PROVE  Serves(t)'
  BY <1>1 DEF Serves
<1>2. CASE UNCHANGED vars
  BY <1>1, <1>2 DEF vars, warn
<1>3. ASSUME NEW w \in Worker, Take(w) PROVE Serves(t)'
  <2>1. CASE t = Head(jobs)
    <3>1. t \in deferring
      BY <1>0, <1>3, <2>1, TakeIs DEF Serves, Asleep
    <3> QED
      BY <1>3, <3>1 DEF Take, warn, Serves
  <2>2. CASE t # Head(jobs)
    BY <1>0, <1>1, <1>3, <2>2, TakeIs DEF Take, warn, Typed
  <2> QED
    BY <2>1, <2>2
<1>4. ASSUME NEW u \in Thread, u # t,
             \/ Gets(u) \/ Locks(u) \/ Goes(u) \/ Ends(u) \/ Warn(u) \/ Yield(u)
             \/ \E c \in MayCall[u] : Begin(u, c)
      PROVE  Serves(t)'
  BY <1>0, <1>1, <1>4, OneMoves
<1>5. CASE pc[t] = "out" /\ call[t] \in Saves
  <2>1. CASE Attach(t)
    <3>1. pc'[t] = "flush"
      BY <1>0, <1>5, <2>1 DEF Attach, Typed
    <3> QED
      BY <3>1 DEF Serves
  <2>2. CASE Gets(t) \/ Locks(t) \/ Goes(t) \/ Ends(t) \/ Warn(t) \/ Yield(t)
               \/ \E c \in MayCall[t] : Begin(t, c)
    BY <1>5, <2>1, <2>2 DEF Gets, Locks, Goes, Ends, WorkerAttach, TouchBack, LockRead, LockWrite,
       Touched, Queue, Unlock, Undefer, TryWrite, PoolIdle, Snapshot, Work, Emit, Push, Flush,
       Deliver, Touch, Delivered, Copied, Done, Warn, Yield, Begin
  <2> QED
    BY <1>2, <1>3, <1>4, <2>2 DEF Next
<1>6. CASE pc[t] = "flush"
  <2>2. ~(Gets(t) \/ Locks(t) \/ Goes(t) \/ Ends(t) \/ Warn(t) \/ Yield(t)
               \/ \E c \in MayCall[t] : Begin(t, c))
    BY <1>6 DEF Gets, Locks, Goes, Ends, Attach, WorkerAttach, TouchBack, LockRead, LockWrite,
       Touched, Queue, Unlock, Undefer, TryWrite, PoolIdle, Snapshot, Work, Emit, Push,
       Deliver, Touch, Delivered, Copied, Done, Warn, Yield, Begin
  <2> QED
    BY <1>2, <1>3, <1>4, <2>2 DEF Next
<1>7. CASE t \in deferring
  <2>1. CASE Undefer(t)
    <3>1. pc'[t] = "out" /\ call'[t] \in Saves
      BY <1>0, <1>7, <2>1 DEF Undefer, Typed, Placed
    <3> QED
      BY <3>1 DEF Serves
  <2>2. CASE \/ Gets(t) \/ Locks(t) \/ Goes(t) \/ Ends(t) \/ Warn(t) \/ Yield(t)
             \/ \E c \in MayCall[t] : Begin(t, c)
    <3>1. t \in deferring' \/ Undefer(t)
      BY <1>7, <2>2 DEF Gets, Locks, Goes, Ends, Attach, WorkerAttach, TouchBack, LockRead, LockWrite,
       Touched, Queue, Unlock, TryWrite, PoolIdle, Snapshot, Work, Emit, Push, Flush,
       Deliver, Touch, Delivered, Copied, Done, Warn, Yield, Begin, warn
    <3> QED
      BY <2>1, <3>1 DEF Serves
  <2> QED
    BY <1>2, <1>3, <1>4, <2>2 DEF Next
<1> QED
  BY <1>5, <1>6, <1>7 DEF Serves

LEMMA NextWInv == WInv /\ [Next]_vars => WInv'
<1> SUFFICES ASSUME WInv, [Next]_vars PROVE WInv'
  OBVIOUS
<1> USE DEF At, Go
<1>1. BInv /\ BInv' /\ pending \in Nat /\ loaded \in Nat
  BY NextBInv DEF WInv, BInv, Typed
<1>2. CASE \E t \in Thread : Flush(t)
  <2>1. pending' = 0 /\ loaded' = 0
    BY <1>2 DEF Flush
  <2> QED
    BY <1>1, <2>1 DEF WInv, SavesAreHeard
<1>3. CASE \E t \in Thread : Push(t) /\ call[t] \in Saves
  <2>1. PICK t \in Thread : Push(t) /\ call[t] \in Saves
    BY <1>3
  <2>2. t \in deferring' /\ loaded' = loaded
    BY <1>1, <2>1 DEF Push, BInv, Placed
  <2> QED
    BY <1>1, <2>2 DEF WInv, SavesAreHeard, Serves
<1>4. CASE /\ ~(\E t \in Thread : Flush(t))
           /\ ~(\E t \in Thread : Push(t) /\ call[t] \in Saves)
  <2>1. \/ UNCHANGED <<pending, loaded>>
        \/ pending' = pending + 1 /\ loaded' = loaded + 1
    <3>1. CASE \E t \in Thread : Push(t)
      BY <1>4, <3>1 DEF Push
    <3>2. CASE ~(\E t \in Thread : Push(t))
      BY <1>4, <3>2 DEF Next, vars, lock, pool, warn, Gets, Locks, Goes, Ends, Attach, WorkerAttach,
         TouchBack, LockRead, LockWrite, Touched, Queue, Unlock, Undefer, TryWrite, PoolIdle,
         Snapshot, Work, Emit, Deliver, Touch, Delivered, Copied, Done, Warn, Yield, Begin, Take
    <3> QED
      BY <3>1, <3>2
  <2>2. loaded' \in Nat
    BY <1>1, <2>1
  <2>3. ASSUME pending' > loaded' PROVE \E t \in Thread : Serves(t)'
    <3>1. pending > loaded
      BY <1>1, <2>1, <2>3
    <3>2. PICK t \in Thread : Serves(t)
      BY <3>1 DEF WInv, SavesAreHeard
    <3> QED
      BY <1>1, <1>4, <3>2, ServesOn
  <2> QED
    BY <1>1, <2>2, <2>3 DEF WInv, SavesAreHeard
<1> QED
  BY <1>2, <1>3, <1>4

(* The warning of a save that is still queued has a save under way that    *)
(* will deliver it, whatever loads and saves run beside it, and of however *)
(* many threads (flush_core_warnings).                                     *)
THEOREM SavesWarnInTime == Spec => []SavesAreHeard
<1>1. Init => WInv
  BY InitBInv DEF Init, WInv, SavesAreHeard
<1>2. WInv => SavesAreHeard
  BY DEF WInv
<1>3. WInv /\ [Next]_vars => WInv'
  BY NextWInv
<1> QED
  BY <1>1, <1>2, <1>3, PTL DEF Spec
=============================================================================
