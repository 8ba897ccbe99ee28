------------------------------- MODULE Binding -------------------------------
(***************************************************************************)
(* The locks of the Python binding (turbovec-python/src/lib.rs): the       *)
(* interpreter lock (GIL), the RwLock of one index, the rayon pool every   *)
(* parallel kernel runs in, and the queue of the core's warnings.          *)
(*                                                                         *)
(* A call is detached (it gives the GIL up) before it waits for the RwLock *)
(* or for the pool, with two exceptions the code makes on purpose: a       *)
(* removal tries the lock while attached, and a large add copies its input *)
(* in the pool while attached.  While a thread's job is in the pool the    *)
(* thread sleeps, so pc[t] follows the job.  A worker whose job waits at a *)
(* join may run another job on top of it.                                  *)
(***************************************************************************)
EXTENDS Integers, FiniteSets, Sequences

CONSTANTS
  Thread,    \* Python threads
  Worker,    \* workers of the pool
  MayCall,   \* the calls each thread makes
  Touches,   \* TRUE: the user's showwarning removes from the index
  MaxWarn,   \* bound: warnings
  Nobody

Reads   == {"search", "write"}
Writes  == {"add", "calibrate", "sync", "remove"}
Saves   == {"write", "sync"}
Warns   == Saves \cup {"load"}

ASSUME CallsAssumption == MayCall \in [Thread -> SUBSET (Reads \cup Writes \cup Warns)]
ASSUME NobodyAssumption == Nobody \notin Thread

VARIABLES
  gil,       \* who runs Python
  readers,   \* of the RwLock
  writer,
  waiting,   \* writers queued for it: no reader that comes later passes them
  jobs,      \* injected into the pool, in order
  stack,     \* of each worker: its jobs, each on top of the one it waits in
  deferring, \* threads with a DeferCoreWarnings open
  pending,   \* PENDING_CORE_WARNINGS (their number)
  loaded,    \* history: those of them that loads queued
  hand,      \* warnings a thread has taken and not delivered yet
  emitted,   \* history: warnings the core has emitted
  pc, call

lock == <<readers, writer, waiting>>
pool == <<jobs, stack>>
warn == <<deferring, pending, loaded, hand, emitted>>
vars == <<gil, lock, pool, warn, pc, call>>

Init == /\ gil = Nobody
        /\ readers = {} /\ writer = Nobody /\ waiting = {}
        /\ jobs = <<>> /\ stack = [w \in Worker |-> <<>>]
        /\ deferring = {} /\ pending = 0 /\ loaded = 0 /\ emitted = 0
        /\ hand = [t \in Thread |-> 0]
        /\ pc = [t \in Thread |-> "out"] /\ call = [t \in Thread |-> "none"]

At(t, l) == pc[t] = l
Go(t, l) == pc' = [pc EXCEPT ![t] = l]

(* Faulty: a removal that had to wait tries again, as before #484.          *)
AttachAndRetry(t) == /\ At(t, "out") /\ gil = Nobody
                     /\ gil' = t
                     /\ Go(t, CASE call[t] \in Saves -> "flush"
                               [] call[t] = "remove" -> "try"
                               [] OTHER -> "in")
                     /\ call' = IF call[t] = "remove" THEN call ELSE [call EXCEPT ![t] = "none"]
                     /\ UNCHANGED <<lock, pool, warn>>

(* Faulty: a sync does not flush. *)
AttachUnflushed(t) == /\ At(t, "out") /\ gil = Nobody
                      /\ gil' = t
                      /\ Go(t, IF call[t] = "write" THEN "flush" ELSE "in")
                      /\ call' = [call EXCEPT ![t] = "none"]
                      /\ UNCHANGED <<lock, pool, warn>>

(* The GIL.  out: the thread wants it; in: it runs Python.                 *)
Attach(t) == /\ At(t, "out") /\ gil = Nobody
             /\ gil' = t
             /\ Go(t, IF call[t] \in Saves THEN "flush" ELSE "in")
             /\ call' = [call EXCEPT ![t] = "none"]
             /\ UNCHANGED <<lock, pool, warn>>

-----------------------------------------------------------------------------
(* The RwLock. *)

Free == writer = Nobody /\ readers = {}

CanRead == writer = Nobody /\ waiting = {}

LockRead(t) == /\ At(t, "lock") /\ call[t] \in Reads
               /\ CanRead
               /\ readers' = readers \cup {t}
               /\ Go(t, "locked")
               /\ UNCHANGED <<gil, writer, waiting, pool, warn, call>>

Queue(t) == /\ At(t, "lock") /\ call[t] \in Writes
            /\ waiting' = waiting \cup {t}
            /\ Go(t, "wait")
            /\ UNCHANGED <<gil, readers, writer, pool, warn, call>>

LockWrite(t) == /\ At(t, "wait")
                /\ Free
                /\ writer' = t /\ waiting' = waiting \ {t}
                /\ Go(t, "locked")
                /\ UNCHANGED <<gil, readers, pool, warn, call>>

(* The guard goes first, the deferral, declared before it, after.          *)
Unlock(t) == /\ At(t, "unlock")
             /\ readers' = readers \ {t}
             /\ writer' = IF writer = t THEN Nobody ELSE writer
             /\ Go(t, IF call[t] \in Saves THEN "undefer" ELSE "out")
             /\ UNCHANGED <<gil, waiting, pool, warn, call>>

Undefer(t) == /\ At(t, "undefer")
              /\ deferring' = deferring \ {t}
              /\ Go(t, "out")
              /\ UNCHANGED <<gil, lock, pool, pending, loaded, hand, emitted, call>>

-----------------------------------------------------------------------------
(* The pool. *)

InFlight == jobs # <<>> \/ \E w \in Worker : stack[w] # <<>>

(* with_pool: t's job is injected, and t sleeps until it is done.          *)
Inject(t, l) == jobs' = Append(jobs, t) /\ Go(t, l) /\ UNCHANGED stack

Top(w) == stack[w][Len(stack[w])]

Parallel == {"run", "copy"}

(* A free worker takes a job; one whose job waits at a join steals it.     *)
Take(w) == /\ jobs # <<>>
           /\ stack[w] # <<>> => pc[Top(w)] \in Parallel
           /\ stack' = [stack EXCEPT ![w] = Append(@, Head(jobs))]
           /\ jobs' = Tail(jobs)
           /\ Go(Head(jobs), IF At(Head(jobs), "copyQueued") THEN "copy" ELSE "run")
           /\ UNCHANGED <<gil, lock, warn, call>>

(* The job on top ends and its thread wakes up.                            *)
End(t, l) == \E w \in Worker :
               /\ stack[w] # <<>> /\ Top(w) = t
               /\ stack' = [stack EXCEPT ![w] = SubSeq(@, 1, Len(@) - 1)]
               /\ Go(t, l)
               /\ UNCHANGED jobs

OnTop(t) == \E w \in Worker : stack[w] # <<>> /\ Top(w) = t

-----------------------------------------------------------------------------
(* The calls. *)

Detach(t) == gil' = Nobody

Begin(t, c) ==
  /\ At(t, "in") /\ gil = t
  /\ c \in MayCall[t]
  /\ call' = [call EXCEPT ![t] = c]
  /\ CASE c = "add"    -> Go(t, "check") /\ UNCHANGED <<gil, deferring>>
       [] c = "remove" -> Go(t, "try") /\ UNCHANGED <<gil, deferring>>
       [] c = "load"   -> Go(t, "locked") /\ Detach(t) /\ UNCHANGED deferring
       [] c \in Saves  -> Go(t, "lock") /\ Detach(t) /\ deferring' = deferring \cup {t}
       [] OTHER        -> Go(t, "lock") /\ Detach(t) /\ UNCHANGED deferring
  /\ UNCHANGED <<lock, pool, pending, loaded, hand, emitted>>

(* with_write_gil_aware: the removal happens in place, or is queued.       *)
TryWrite(t) == /\ At(t, "try")
               /\ IF Free
                    THEN /\ Go(t, "in") /\ UNCHANGED gil
                         /\ call' = [call EXCEPT ![t] = "none"]
                    ELSE Go(t, "lock") /\ Detach(t) /\ UNCHANGED call
               /\ UNCHANGED <<lock, pool, warn>>

(* The snapshot of an add: in the pool when that looks idle.               *)
PoolIdle(t) == /\ At(t, "check")
               /\ IF InFlight THEN Go(t, "lock") /\ Detach(t)
                              ELSE Go(t, "snapshot") /\ UNCHANGED gil
               /\ UNCHANGED <<lock, pool, warn, call>>

Snapshot(t) == /\ At(t, "snapshot")
               /\ Inject(t, "copyQueued")
               /\ UNCHANGED <<gil, lock, warn, call>>

Copied(t) == /\ At(t, "copy")
             /\ End(t, "lock")
             /\ Detach(t)
             /\ UNCHANGED <<lock, warn, call>>

Work(t) == /\ At(t, "locked")
           /\ IF call[t] = "remove" THEN Go(t, "unlock") /\ UNCHANGED pool
                                    ELSE Inject(t, "queued")
           /\ UNCHANGED <<gil, lock, warn, call>>

(* The kernel is done; a save or a load may first have something to say.   *)
Done(t) == /\ At(t, "run")
           /\ End(t, "unlock")
           /\ UNCHANGED <<gil, lock, warn, call>>

Warn(t) == /\ At(t, "run") /\ OnTop(t)
           /\ call[t] \in Warns /\ emitted < MaxWarn
           /\ emitted' = emitted + 1
           /\ Go(t, "emit")
           /\ UNCHANGED <<gil, lock, pool, deferring, pending, loaded, hand, call>>

-----------------------------------------------------------------------------
(* Warnings. *)

(* emit_core_warning: the counter is read, then the message is queued, or  *)
(* delivered from where the code is.                                       *)
(* Faulty: it delivers under the save's guard, as before #360.             *)
EmitAtOnce(t) == /\ At(t, "emit")
                 /\ Go(t, "workerAttach")
                 /\ UNCHANGED <<gil, lock, pool, warn, call>>

Emit(t) == /\ At(t, "emit")
           /\ Go(t, IF deferring # {} THEN "push" ELSE "workerAttach")
           /\ UNCHANGED <<gil, lock, pool, warn, call>>

Push(t) == /\ At(t, "push")
           /\ pending' = pending + 1
           /\ loaded' = IF call[t] \in Saves THEN loaded ELSE loaded + 1
           /\ End(t, "unlock")
           /\ UNCHANGED <<gil, lock, deferring, hand, emitted, call>>

WorkerAttach(t) == /\ At(t, "workerAttach") /\ gil = Nobody
                   /\ gil' = t
                   /\ hand' = [hand EXCEPT ![t] = 1]
                   /\ Go(t, "deliver")
                   /\ UNCHANGED <<lock, pool, deferring, pending, loaded, emitted, call>>

(* flush_core_warnings *)
Flush(t) == /\ At(t, "flush")
            /\ hand' = [hand EXCEPT ![t] = pending]
            /\ pending' = 0 /\ loaded' = 0
            /\ Go(t, "deliver")
            /\ UNCHANGED <<gil, lock, pool, deferring, emitted, call>>

(* The user's showwarning: it may call into the index.                     *)
Deliver(t) == /\ At(t, "deliver") /\ hand[t] > 0
              /\ hand' = [hand EXCEPT ![t] = @ - 1]
              /\ IF Touches THEN Go(t, "touch") ELSE UNCHANGED pc
              /\ UNCHANGED <<gil, lock, pool, deferring, pending, loaded, emitted, call>>

Touch(t) == /\ At(t, "touch")
            /\ IF Free THEN Go(t, "deliver") /\ UNCHANGED <<gil, waiting>>
                       ELSE /\ Detach(t) /\ Go(t, "touchWait")
                            /\ waiting' = waiting \cup {t}
            /\ UNCHANGED <<readers, writer, pool, warn, call>>

Touched(t) == /\ At(t, "touchWait")
              /\ Free
              /\ waiting' = waiting \ {t}
              /\ Go(t, "touchBack")
              /\ UNCHANGED <<gil, readers, writer, pool, warn, call>>

TouchBack(t) == /\ At(t, "touchBack") /\ gil = Nobody
                /\ gil' = t
                /\ Go(t, "deliver")
                /\ UNCHANGED <<lock, pool, warn, call>>

Delivered(t) ==
  /\ At(t, "deliver") /\ hand[t] = 0
  /\ \/ OnTop(t) /\ End(t, "unlock") /\ Detach(t)
     \/ ~OnTop(t) /\ Go(t, "in") /\ UNCHANGED <<gil, pool>>
  /\ UNCHANGED <<lock, warn, call>>

-----------------------------------------------------------------------------
Gets(t) == Attach(t) \/ WorkerAttach(t) \/ TouchBack(t)

Locks(t) == LockRead(t) \/ LockWrite(t) \/ Touched(t)

Ends(t) == Copied(t) \/ Done(t)

Goes(t) == \/ Queue(t) \/ Unlock(t) \/ Undefer(t)
           \/ TryWrite(t) \/ PoolIdle(t) \/ Snapshot(t)
           \/ Work(t) \/ Emit(t) \/ Push(t)
           \/ Flush(t) \/ Deliver(t) \/ Touch(t) \/ Delivered(t)

(* A thread between calls may give the GIL up at any bytecode, and must    *)
(* when another has waited for a switch interval.                          *)
Yield(t) == /\ At(t, "in") /\ gil = t
            /\ Detach(t) /\ Go(t, "out")
            /\ UNCHANGED <<lock, pool, warn, call>>

Next == \/ \E t \in Thread : \/ Gets(t) \/ Locks(t) \/ Goes(t) \/ Ends(t)
                             \/ Warn(t) \/ Yield(t) \/ \E c \in MayCall[t] : Begin(t, c)
        \/ \E w \in Worker : Take(w)

(* Whoever can go on does; the interpreter switches threads; the RwLock    *)
(* passes no waiter over for ever that could have had it time and again;   *)
(* a job waits at finitely many joins, so it ends if it keeps coming back  *)
(* to the top of its worker.                                               *)
Fairness == /\ \A t \in Thread : /\ WF_vars(Goes(t)) /\ SF_vars(Yield(t))
                                 /\ SF_vars(Gets(t)) /\ SF_vars(Locks(t))
                                 /\ SF_vars(Ends(t))
            /\ WF_vars(\E w \in Worker : Take(w))

Spec == Init /\ [][Next]_vars /\ Fairness

-----------------------------------------------------------------------------
(* Every call returns: no cycle of threads that wait for the GIL, the      *)
(* RwLock and the pool, and no writer starved by readers (#484).           *)
CallsReturn == \A t \in Thread : ~At(t, "in") ~> At(t, "in")

(* A save that has still to flush. *)
Serves(t) == \/ t \in deferring
             \/ At(t, "flush")
             \/ At(t, "out") /\ call[t] \in Saves

(* A queued warning of a save is delivered by a save that is still under   *)
(* way, its own or another, whatever loads run beside them.                *)
SavesAreHeard == pending > loaded => \E t \in Thread : Serves(t)

(* "Nothing can be stranded in the queue" (flush_core_warnings).  Does not *)
(* hold: a load reads that a save defers, and queues its own warning when  *)
(* that save has flushed.                                                  *)
NothingStranded == pending > 0 => \E t \in Thread : Serves(t)

(* User code is never run by a thread whose own call holds the index's     *)
(* lock (the comment of emit_core_warning, #360).                          *)
NoGuardInUserCode ==
  \A t \in Thread : pc[t] \in {"deliver", "touch", "touchWait", "touchBack"}
                      => t \notin readers /\ writer # t
=============================================================================
