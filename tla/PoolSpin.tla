------------------------------ MODULE PoolSpin ------------------------------
(***************************************************************************)
(* One query scanned by the whole pool (src/turbovec/src/search.rs,        *)
(* pool_map_spin).  The call runs on a pool worker, its owner.  The owner  *)
(* spawns a binary tree of helper tasks, computes the scan's seed while    *)
(* they start, opens the gate they spin on, does its other serial work and *)
(* then claims items beside them; it leaves the rayon scope when every     *)
(* helper task has ended, and reads the slots.                             *)
(*                                                                         *)
(* A worker is a stack of frames: a worker that waits for a scope to end   *)
(* runs whatever task or call the pool has queued on top of the frame that *)
(* waits, which is what makes a task that spins dangerous.                 *)
(***************************************************************************)
EXTENDS Naturals, Sequences, FiniteSets, FiniteSetsExt

CONSTANTS Workers,    \* the pool's threads
          Calls,      \* searches that arrive at the pool
          Items       \* call |-> how many ranges its scan is cut into

ASSUME ItemsAssumption == Items \in [Calls -> Nat]

VARIABLES call,       \* call |-> "new" | "running" | "returned"
          stack,      \* worker |-> frames, the running one last
          queue,      \* call |-> (subtree size |-> spawned tasks not yet taken)
          go,         \* call |-> the gate the helpers spin on
          seed,       \* call |-> seed_cell has been stored
          next,       \* call |-> the next item to claim
          slot        \* call |-> item |-> the seeds its runs scanned under
spinVars == <<call, stack, queue, go, seed, next, slot>>

Range1(c) == 0 .. Items[c] - 1

\* The helpers one call spawns.
Helpers(c) == Min({Cardinality(Workers) - 1, Items[c] - 1})

Frame(c, role, pc, n) == [call |-> c, role |-> role, pc |-> pc, n |-> n]
Top(w) == stack[w][Len(stack[w])]
Runs(w, role, pc) == stack[w] # <<>> /\ Top(w).role = role /\ Top(w).pc = pc
Replace(w, f) == [stack EXCEPT ![w][Len(stack[w])] = f]
Goto(w, pc) == Replace(w, [Top(w) EXCEPT !.pc = pc])
WorkOn(f, i) == [f EXCEPT !.pc = "work", !.n = i]
Pop(w) == [stack EXCEPT ![w] = SubSeq(@, 1, Len(@) - 1)]
Push(w, f) == [stack EXCEPT ![w] = Append(@, f)]

\* A worker takes work when it has none, or when its frame waits for a scope.
\* The seed's sample is 48 blocks, too few for its scan to be split, so the
\* owner's work before the gate never waits in the pool.
MayTake(w) == stack[w] # <<>> => Top(w).role = "owner" /\ Top(w).pc = "wait"

\* spawn_tree of n tasks: one task that carries the other n - 1.
SpawnTree(q, n) == IF n = 0 THEN q ELSE [q EXCEPT ![n] = @ + 1]
Taken(q, n) == [q EXCEPT ![n] = @ - 1]
Left(n) == (n - 1) \div 2
Right(n) == n - 1 - Left(n)

(* Faulty: leaving when every item is done, helper tasks or not. *)
FaultyScopeEnds(w, c) == \A i \in Range1(c) : slot[c][i] # <<>>

\* rayon::scope returns when every task spawned into it has ended.
ScopeEnds(w, c) ==
    /\ \A n \in DOMAIN queue[c] : queue[c][n] = 0
    /\ \A v \in Workers : \A i \in 1 .. Len(stack[v]) :
        ~ (stack[v][i].call = c /\ stack[v][i].role = "helper")

SpinInit ==
    /\ call = [c \in Calls |-> "new"]
    /\ stack = [w \in Workers |-> <<>>]
    /\ queue = [c \in Calls |-> [n \in 1 .. Cardinality(Workers) |-> 0]]
    /\ go = [c \in Calls |-> FALSE]
    /\ seed = [c \in Calls |-> FALSE]
    /\ next = [c \in Calls |-> 0]
    /\ slot = [c \in Calls |-> [i \in Range1(c) |-> <<>>]]

\* The search reaches the pool, and a worker that may takes it.  One item or
\* none is run in place, after the owner's work.
Serial(w, c) ==
    /\ MayTake(w) /\ call[c] = "new" /\ Items[c] <= 1
    /\ call' = [call EXCEPT ![c] = "returned"]
    /\ seed' = [seed EXCEPT ![c] = TRUE]
    /\ slot' = [slot EXCEPT ![c] = [i \in Range1(c) |-> <<TRUE>>]]
    /\ UNCHANGED <<stack, queue, go, next>>

Start(w, c) ==
    /\ MayTake(w) /\ call[c] = "new" /\ Items[c] > 1
    /\ call' = [call EXCEPT ![c] = "running"]
    /\ stack' = Push(w, Frame(c, "owner", "pre", 0))
    /\ queue' = [queue EXCEPT ![c] = SpawnTree(@, Helpers(c))]
    /\ UNCHANGED <<go, seed, next, slot>>

\* A helper task is taken, spawns its two subtrees and comes to the gate.
TakeTask(w, c, n) ==
    /\ MayTake(w) /\ queue[c][n] > 0
    /\ queue' = [queue EXCEPT ![c] =
                    SpawnTree(SpawnTree(Taken(@, n), Left(n)), Right(n))]
    /\ stack' = Push(w, Frame(c, "helper", "gate", 0))
    /\ UNCHANGED <<call, go, seed, next, slot>>

\* owner_pre stores the seed; the gate opens; owner_first follows.
OwnerPre(w) ==
    /\ Runs(w, "owner", "pre")
    /\ LET c == Top(w).call
       IN IF ~ seed[c]
          THEN seed' = [seed EXCEPT ![c] = TRUE] /\ UNCHANGED <<go, stack>>
          ELSE /\ go' = [go EXCEPT ![c] = TRUE]
               /\ stack' = Goto(w, "claim")
               /\ UNCHANGED seed
    /\ UNCHANGED <<call, queue, next, slot>>

Gate(w) ==
    /\ Runs(w, "helper", "gate") /\ go[Top(w).call]
    /\ stack' = Goto(w, "claim")
    /\ UNCHANGED <<call, queue, go, seed, next, slot>>

\* next.fetch_add: an item nobody else gets.
Claim(w) ==
    /\ \E role \in {"owner", "helper"} : Runs(w, role, "claim")
    /\ LET c == Top(w).call
       IN /\ next[c] < Items[c]
          /\ stack' = Replace(w, WorkOn(Top(w), next[c]))
          /\ next' = [next EXCEPT ![c] = @ + 1]
    /\ UNCHANGED <<call, queue, go, seed, slot>>

\* work(i) reads the seed, scans the range and fills its slot.
Work(w) ==
    /\ \E role \in {"owner", "helper"} : Runs(w, role, "work")
    /\ LET c == Top(w).call
       IN slot' = [slot EXCEPT ![c][Top(w).n] = Append(@, seed[c])]
    /\ stack' = Goto(w, "claim")
    /\ UNCHANGED <<call, queue, go, seed, next>>

\* No item is left: a helper task ends; the owner, after at most 200
\* microseconds of spinning on done, waits for the scope.
RunOut(w) ==
    /\ \E role \in {"owner", "helper"} : Runs(w, role, "claim")
    /\ next[Top(w).call] >= Items[Top(w).call]
    /\ stack' = IF Top(w).role = "helper" THEN Pop(w) ELSE Goto(w, "wait")
    /\ UNCHANGED <<call, queue, go, seed, next, slot>>

\* The scope has ended: the slots are read and the call returns.
Return(w) ==
    /\ Runs(w, "owner", "wait") /\ ScopeEnds(w, Top(w).call)
    /\ call' = [call EXCEPT ![Top(w).call] = "returned"]
    /\ stack' = Pop(w)
    /\ UNCHANGED <<queue, go, seed, next, slot>>

SpinStep(w) ==
    \/ \E c \in Calls : Serial(w, c) \/ Start(w, c)
    \/ \E c \in Calls : \E n \in 1 .. Cardinality(Workers) : TakeTask(w, c, n)
    \/ OwnerPre(w) \/ Gate(w) \/ Claim(w) \/ Work(w) \/ RunOut(w) \/ Return(w)

SpinNext == \E w \in Workers : SpinStep(w)

\* The operating system runs every thread, and a worker with nothing to run
\* looks for work.
SpinSpec == SpinInit /\ [][SpinNext]_spinVars /\ \A w \in Workers : WF_spinVars(SpinStep(w))

-----------------------------------------------------------------------------
(* Properties. *)

(* A call that returned has scanned every range exactly once, each under   *)
(* the seed its owner stored: a slot left empty is the panic "every item   *)
(* ran", a range scanned before the seed is a range that ignores it, and a *)
(* range scanned twice puts its vectors in the result twice.  And since    *)
(* its queue, gate and slots live on its owner's stack, no task of it is   *)
(* queued or running anywhere (pool_map_spin).                             *)
EveryItemRanOnce ==
    \A c \in Calls : call[c] = "returned" =>
        /\ \A i \in Range1(c) : slot[c][i] = <<TRUE>>
        /\ \A n \in DOMAIN queue[c] : queue[c][n] = 0
        /\ \A w \in Workers : \A i \in 1 .. Len(stack[w]) : stack[w][i].call # c

-----------------------------------------------------------------------------
(***************************************************************************)
(* Why it works: a range below `next` is done or in the hands of one frame *)
(* of a call that runs, and a call has one owner, which is where it waits  *)
(* for its helpers when it sees the last range claimed.                    *)
(***************************************************************************)
Frames == [call : Calls, role : {"owner", "helper"}, n : Nat,
           pc : {"pre", "gate", "claim", "work", "wait"}]

PTypeOK ==
    /\ call \in [Calls -> {"new", "running", "returned"}]
    /\ stack \in [Workers -> Seq(Frames)]
    /\ queue \in [Calls -> [1 .. Cardinality(Workers) -> Nat]]
    /\ go \in [Calls -> BOOLEAN] /\ seed \in [Calls -> BOOLEAN]
    /\ next \in [Calls -> Nat]
    /\ DOMAIN slot = Calls
    /\ \A c \in Calls : slot[c] \in [Range1(c) -> {<<>>, <<TRUE>>}]

(* What a frame is in the middle of; all but the last of a stack wait. *)
Fine(f) == /\ call[f.call] = "running"
           /\ f.pc \in {"claim", "work", "wait"} => go[f.call]
           /\ f.pc = "wait" => next[f.call] >= Items[f.call]
           /\ f.pc = "work" => /\ f.n < next[f.call] /\ f.n < Items[f.call]
                               /\ slot[f.call][f.n] = <<>>

Waits(f) == f.role = "owner" /\ f.pc = "wait"

FrameInv == \A w \in Workers : \A i \in 1 .. Len(stack[w]) :
    Fine(stack[w][i]) /\ (i < Len(stack[w]) => Waits(stack[w][i]))

(* One owner to a call, one frame at work to an item. *)
Rival(f, g) == f.call = g.call /\ \/ f.role = "owner" /\ g.role = "owner"
                                  \/ f.pc = "work" /\ g.pc = "work" /\ f.n = g.n

OneEach == \A w, v \in Workers : \A i \in 1 .. Len(stack[w]), j \in 1 .. Len(stack[v]) :
    Rival(stack[w][i], stack[v][j]) => w = v /\ i = j

AtWork(c, i) == \E w \in Workers : \E j \in 1 .. Len(stack[w]) :
    stack[w][j].call = c /\ stack[w][j].pc = "work" /\ stack[w][j].n = i

CallFine(c) ==
    /\ go[c] => seed[c]
    /\ call[c] # "running" => \A n \in DOMAIN queue[c] : queue[c][n] = 0
    /\ \A i \in Range1(c) :
         IF call[c] = "returned" THEN slot[c][i] = <<TRUE>>
         ELSE IF i >= next[c] THEN slot[c][i] = <<>>
         ELSE slot[c][i] = <<TRUE>> \/ AtWork(c, i)

CallInv == \A c \in Calls : CallFine(c)

SpinInv == PTypeOK /\ FrameInv /\ OneEach /\ CallInv
=============================================================================
