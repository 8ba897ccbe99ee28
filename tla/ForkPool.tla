------------------------------ MODULE ForkPool ------------------------------
(***************************************************************************)
(* The process-local rayon pool of the Python binding                      *)
(* (turbovec-python/src/lib.rs, "Fork safety").  A fork copies the memory  *)
(* of a process and one of its threads: the pool the child finds there has *)
(* no workers, and a job put into it never returns.                        *)
(*                                                                         *)
(* Processes share nothing once they are forked, so the state is that of   *)
(* one of them: a fork is followed into the child, and a behaviour that    *)
(* does not fork stays with the parent.  Each load, exchange and store of  *)
(* a static is a step.  A pool is known by what its PoolCell records and   *)
(* by the process whose threads it has; cells are never freed, so no       *)
(* address is used twice.                                                  *)
(***************************************************************************)
EXTENDS Integers, FiniteSets

CONSTANTS
  Thread,   \* threads of a process (the one that forks keeps its name)
  Pid,      \* what getpid returns: free again once a process has exited
  Sizes,    \* thread counts RAYON_NUM_THREADS or the machine may give
  MaxForks, \* bound
  NoCell    \* the null pointer

ASSUME ForkAssumption == /\ IsFiniteSet(Thread)
                         /\ Sizes \subseteq Nat /\ MaxForks \in Nat

Unbuilt == -1  \* POOL_GENERATION before the first pool (u64::MAX)

Cell == [gen : Nat, pid : Pid, threads : Nat, owner : Nat]
ASSUME CellAssumption == NoCell \notin Cell

VARIABLES
  self,        \* the process, by the number of forks that led to it
  pid,
  generation,  \* the statics FORK_GENERATION,
  published,   \*   POOL_GENERATION,
  ptr,         \*   POOL_PTR
  in_flight,   \*   and POOL_IN_FLIGHT
  hook,        \* the thread the Python fork hook is still to run on, if any
  born,        \* history: the generation the process started with,
  inherited,   \*   and the pool it found
  at,          \* of each thread: where it is,
  gen, cell, cur  \*   and its locals

process == <<self, pid, born, inherited>>
statics == <<generation, published, ptr, in_flight>>
vars    == <<process, statics, hook, at, gen, cell, cur>>

Places == {"gone", "python", "generation", "pointer", "build", "look", "swap",
           "publish", "installed", "inline"}

Jobs == {t \in Thread : at[t] \notin {"gone", "python", "inline"}}

(* RAYON_NUM_THREADS, capped, or the machine's own count: it may change    *)
(* between a process and its child.                                        *)
desired_threads == Sizes

(* At import, if RAYON_NUM_THREADS is set and threads can be had.          *)
init_rayon_pool ==
  \/ ptr = NoCell /\ published = Unbuilt
  \/ /\ ptr \in {[gen |-> 0, pid |-> pid, threads |-> n, owner |-> 0] : n \in desired_threads}
     /\ published = 0

Init ==
  /\ self = 0 /\ pid \in Pid /\ born = 0 /\ inherited = NoCell
  /\ generation = 0 /\ in_flight = 0 /\ hook = {}
  /\ init_rayon_pool
  /\ at = [t \in Thread |-> "python"] /\ gen = [t \in Thread |-> 0]
  /\ cell = [t \in Thread |-> NoCell] /\ cur = [t \in Thread |-> NoCell]

Go(t, l) == at' = [at EXCEPT ![t] = l]

-----------------------------------------------------------------------------
in_forked_child == generation # published

(* with_pool_if: a call that does not split runs inline, except in a child *)
(* that has no pool of its own yet.                                        *)
Inline(t) == /\ at[t] = "python"
             /\ ~in_forked_child
             /\ Go(t, "inline")
             /\ UNCHANGED <<process, statics, hook, gen, cell, cur>>

(* A call that splits may well come while in_forked_child is FALSE.        *)
with_pool(t) == /\ at[t] = "python"
                /\ in_flight' = in_flight + 1
                /\ Go(t, "generation")
                /\ UNCHANGED <<process, generation, published, ptr, hook, gen, cell, cur>>

(* current_pool.                                                           *)
LoadGeneration(t) ==
  /\ at[t] = "generation"
  /\ gen' = [gen EXCEPT ![t] = generation]
  /\ Go(t, "pointer")
  /\ UNCHANGED <<process, statics, hook, cell, cur>>

(* Faulty: the generation is not compared.                                 *)
CurrentByPid(t, c) == c # NoCell /\ c.pid = pid

Current(t, c) == c # NoCell /\ c.gen = gen[t] /\ c.pid = pid

LoadPointer(t) ==
  /\ at[t] = "pointer"
  /\ IF Current(t, ptr)
     THEN cell' = [cell EXCEPT ![t] = ptr] /\ Go(t, "installed")
     ELSE Go(t, "build") /\ UNCHANGED cell
  /\ UNCHANGED <<process, statics, hook, gen, cur>>

-----------------------------------------------------------------------------
(* Faulty: a child asks its own environment.                               *)
ThreadsAnew == desired_threads

(* rebuild_pool takes the thread count of the pool it finds, dead or not;  *)
(* the first in a process asks the environment.                            *)
Threads == IF ptr = NoCell THEN desired_threads ELSE {ptr.threads}

(* try_build_pool may fall back to one worker: the cell still records the  *)
(* count asked for.                                                        *)
Build(t) ==
  /\ at[t] = "build"
  /\ \E n \in Threads :
       cell' = [cell EXCEPT ![t] = [gen |-> gen[t], pid |-> pid,
                                    threads |-> n, owner |-> self]]
  /\ Go(t, "look")
  /\ UNCHANGED <<process, statics, hook, gen, cur>>

(* No thread can be had: the guard counts the call off, and it raises.     *)
BuildFails(t) ==
  /\ at[t] = "build"
  /\ in_flight' = in_flight - 1
  /\ Go(t, "python")
  /\ gen' = [gen EXCEPT ![t] = 0]
  /\ UNCHANGED <<process, generation, published, ptr, hook, cell, cur>>

(* Another thread may have published a pool meanwhile, which is taken.     *)
Look(t) ==
  /\ at[t] = "look"
  /\ IF Current(t, ptr)
     THEN cell' = [cell EXCEPT ![t] = ptr] /\ Go(t, "installed") /\ UNCHANGED cur
     ELSE cur' = [cur EXCEPT ![t] = ptr] /\ Go(t, "swap") /\ UNCHANGED cell
  /\ UNCHANGED <<process, statics, hook, gen>>

CompareExchange(t) ==
  /\ at[t] = "swap"
  /\ IF ptr = cur[t]
     THEN ptr' = cell[t] /\ Go(t, "publish")
     ELSE Go(t, "look") /\ UNCHANGED ptr
  /\ cur' = [cur EXCEPT ![t] = NoCell]
  /\ UNCHANGED <<process, generation, published, in_flight, hook, gen, cell>>

Publish(t) ==
  /\ at[t] = "publish"
  /\ published' = gen[t]
  /\ Go(t, "installed")
  /\ UNCHANGED <<process, generation, ptr, in_flight, hook, gen, cell, cur>>

(* The job runs on workers of the cell, of which a child has none.         *)
Finish(t) ==
  /\ \/ at[t] = "inline" /\ UNCHANGED in_flight
     \/ /\ at[t] = "installed" /\ cell[t].owner = self
        /\ in_flight' = in_flight - 1
  /\ Go(t, "python")
  /\ gen' = [gen EXCEPT ![t] = 0] /\ cell' = [cell EXCEPT ![t] = NoCell]
  /\ UNCHANGED <<process, generation, published, ptr, hook, cur>>

-----------------------------------------------------------------------------
(* Faulty: the child handler of pthread_atfork is not registered.          *)
BumpedByPython == generation

(* atfork_child_handler runs before fork returns in the child.             *)
Bumped == generation + 1

(* The statics not named are copied as they are.                           *)
Child(t, n) == /\ at[t] = "python" /\ self < MaxForks
               /\ n # pid
               /\ self' = self + 1 /\ pid' = n /\ inherited' = ptr
               /\ at' = [u \in Thread |-> IF u = t THEN "python" ELSE "gone"]
               /\ gen' = [u \in Thread |-> 0]
               /\ cell' = [u \in Thread |-> NoCell] /\ cur' = [u \in Thread |-> NoCell]
               /\ UNCHANGED <<published, ptr, in_flight>>

(* A fork by Python, whose hook is still to run, or by native code.        *)
Fork(t, n) == /\ Child(t, n)
              /\ generation' = Bumped /\ born' = Bumped
              /\ hook' \in {{}, {t}}

(* A fork no handler sees (a bare clone).  Only its pid gives it away, so  *)
(* it must not be the one the inherited cell was made under.               *)
UnseenFork(t, n) == /\ Child(t, n)
                    /\ ptr # NoCell => ptr.pid # n
                    /\ born' = generation /\ hook' = {}
                    /\ UNCHANGED generation

(* os.register_at_fork: a second increment, after hooks registered before, *)
(* which may have called the index or started threads.                     *)
_note_fork_in_child(t) == /\ t \in hook /\ at[t] = "python"
                          /\ generation' = generation + 1
                          /\ hook' = {}
                          /\ UNCHANGED <<process, published, ptr, in_flight, at, gen, cell, cur>>

StartThread(t) == /\ at[t] = "gone"
                  /\ Go(t, "python")
                  /\ UNCHANGED <<process, statics, hook, gen, cell, cur>>

Step(t) == \/ Inline(t) \/ with_pool(t) \/ LoadGeneration(t) \/ LoadPointer(t)
           \/ Build(t) \/ BuildFails(t) \/ Look(t) \/ CompareExchange(t)
           \/ Publish(t) \/ Finish(t) \/ _note_fork_in_child(t) \/ StartThread(t)

Next == \E t \in Thread : \/ Step(t)
                          \/ \E n \in Pid : Fork(t, n) \/ UnseenFork(t, n)

Spec == Init /\ [][Next]_vars

-----------------------------------------------------------------------------
TypeOK ==
  /\ self \in Nat /\ pid \in Pid /\ born \in Nat /\ inherited \in Cell \cup {NoCell}
  /\ generation \in Nat /\ published \in Nat \cup {Unbuilt}
  /\ ptr \in Cell \cup {NoCell} /\ in_flight \in Int
  /\ hook \in SUBSET Thread
  /\ at \in [Thread -> Places] /\ gen \in [Thread -> Nat]
  /\ cell \in [Thread -> Cell \cup {NoCell}] /\ cur \in [Thread -> Cell \cup {NoCell}]

(* A job is only put into a pool whose workers the process itself started, *)
(* however forks, calls of other threads and reused pids interleave        *)
(* (current_pool, rebuild_pool).                                           *)
PoolIsAlive == \A t \in Thread : at[t] = "installed" => cell[t].owner = self

(* A child's pools have as many threads as the pool it inherited, whatever *)
(* its own environment says (PoolCell::threads).                           *)
ThreadsKept == inherited # NoCell => /\ ptr # NoCell
                                     /\ ptr.threads = inherited.threads

(* POOL_IN_FLIGHT counts no fewer jobs than there are, so it never wraps,  *)
(* and in a process that was not forked no more.                           *)
JobsCounted == /\ in_flight >= Cardinality(Jobs)
               /\ self = 0 => in_flight = Cardinality(Jobs)

(* A pool's jobs, its size and the count of jobs survive every fork.       *)
PoolSurvivesForks == PoolIsAlive /\ ThreadsKept /\ JobsCounted

(* No increment of POOL_IN_FLIGHT is leaked: with no job in flight         *)
(* pool_idle is TRUE again (lib.rs:1838).                                  *)
IdleIsSeen == Jobs = {} => in_flight = 0
=============================================================================
