-------------------------- MODULE InterruptibleAdd --------------------------
(***************************************************************************)
(* add_with_ids as Python callers see it (turbovec-python/python/turbovec/ *)
(* _interruptible.py): a batch of more than Chunk rows is added slice by   *)
(* slice, so that Ctrl-C is noticed between slices.  The index lock is     *)
(* taken for the question whether the batch can be added and for each      *)
(* slice, and is free between them: other threads read and write the       *)
(* IdMap then.                                                             *)
(***************************************************************************)
EXTENDS IdMap

CONSTANTS
  Loader,  \* the threads that add large batches
  Chunk    \* BATCH_CHUNK_SIZE

ASSUME LoaderAssumption == Loader \subseteq Thread
ASSUME ChunkAssumption == Chunk \in Nat \ {0}

VARIABLES
  stage,    \* of each loader's call
  whole,    \* its snapshot of the ids
  rest,     \* the slices to come
  before,   \* history: slot_to_id at the start of the call,
  touched,  \*   whether another thread has written since,
  outcome   \*   and how the call ended

call  == <<stage, whole, rest>>
hist  == <<before, touched, outcome>>
avars == <<vars, call, hist>>

AInit == /\ Init
         /\ stage = [t \in Loader |-> "none"]
         /\ whole = [t \in Loader |-> <<>>] /\ rest = [t \in Loader |-> <<>>]
         /\ before = [t \in Loader |-> <<>>]
         /\ touched = [t \in Loader |-> TRUE]
         /\ outcome = [t \in Loader |-> "none"]

To(t, s) == stage' = [stage EXCEPT ![t] = s]

End(t, o) == To(t, "none") /\ outcome' = [outcome EXCEPT ![t] = o]

Touch(t) == touched' = [u \in Loader |-> touched[u] \/ u # t]

Begin(t, b) == /\ stage[t] = "none" /\ Len(b) > Chunk
               /\ whole' = [whole EXCEPT ![t] = b]
               /\ rest' = [rest EXCEPT ![t] = b]
               /\ before' = [before EXCEPT ![t] = slotToId]
               /\ touched' = [touched EXCEPT ![t] = FALSE]
               /\ outcome' = [outcome EXCEPT ![t] = "none"]

(* Finite vectors: ask the index.  Else leave the batch whole.             *)
Ask(t, b) == Begin(t, b) /\ Call(t, "fresh", b) /\ To(t, "asking")

LeaveWhole(t, b) == /\ Begin(t, b) /\ To(t, "whole")
                    /\ pc[t] = "idle" /\ UNCHANGED vars

(* Faulty: slices whatever the answer.                                     *)
AskedInVain(t) == /\ stage[t] = "asking"
                  /\ Return(t)
                  /\ To(t, "slices")
                  /\ UNCHANGED <<whole, rest, hist>>

Asked(t) == /\ stage[t] = "asking"
            /\ Return(t)
            /\ To(t, IF answer[t].ok THEN "slices" ELSE "whole")
            /\ UNCHANGED <<whole, rest, hist>>

Least(m, n) == IF m < n THEN m ELSE n

Slice(t) == SubSeq(rest[t], 1, Least(Chunk, Len(rest[t])))

AddSlice(t) ==
  /\ stage[t] = "slices"
  /\ AddWithIds(t, Slice(t))
  /\ Touch(t)
  /\ rest' = [rest EXCEPT ![t] = SubSeq(@, Len(Slice(t)) + 1, Len(@))]
  /\ IF rest'[t] = <<>> THEN End(t, "ok") ELSE UNCHANGED <<stage, outcome>>
  /\ UNCHANGED <<whole, before>>

(* A slice has no bad value, so once one is in, its dim is the index's and *)
(* only an id can be refused.                                              *)
SliceFails(t) ==
  /\ stage[t] = "slices"
  /\ rest[t] = whole[t] \/ ~Addable(Slice(t))
  /\ AddFails(t)
  /\ End(t, "raised")
  /\ UNCHANGED <<whole, rest, before, touched>>

AddWhole(t) == /\ stage[t] = "whole"
               /\ AddWithIds(t, whole[t])
               /\ Touch(t)
               /\ End(t, "ok")
               /\ UNCHANGED <<whole, rest, before>>

WholeFails(t) == /\ stage[t] = "whole"
                 /\ AddFails(t)
                 /\ End(t, "raised")
                 /\ UNCHANGED <<whole, rest, before, touched>>

(* KeyboardInterrupt, between two kernel calls.                            *)
Cancel(t) == /\ stage[t] = "slices"
             /\ End(t, "cancelled")
             /\ UNCHANGED <<vars, whole, rest, before, touched>>

Load(t) == \/ \E b \in Batch : Ask(t, b) \/ LeaveWhole(t, b)
           \/ Asked(t) \/ Cancel(t)
           \/ AddSlice(t) \/ SliceFails(t) \/ AddWhole(t) \/ WholeFails(t)

Inside(t) == pc[t] # "return" /\ Step(t) /\ UNCHANGED <<call, hist>>

Other(t) == \/ (Read(t) \/ Step(t)) /\ UNCHANGED <<call, hist>>
            \/ Write(t) /\ Touch(t) /\ UNCHANGED <<call, before, outcome>>

ANext == \/ \E t \in Loader : Load(t) \/ Inside(t)
         \/ \E t \in Thread \ Loader : Other(t)

ASpec == AInit /\ [][ANext]_avars

-----------------------------------------------------------------------------
Added(t) == SubSeq(whole[t], 1, Len(whole[t]) - Len(rest[t]))

(* If no other thread wrote since the call began, a call that raised added *)
(* nothing at all, one that returned added the batch, in order, and one    *)
(* that was interrupted the whole slices before it (the Atomicity          *)
(* paragraph of the module's docstring).                                   *)
WholeOrNothing ==
  \A t \in Loader : ~touched[t] =>
    /\ outcome[t] = "raised" => slotToId = before[t]
    /\ outcome[t] = "ok" => slotToId = before[t] \o whole[t]
    /\ outcome[t] = "cancelled" => slotToId = before[t] \o Added(t)
=============================================================================
