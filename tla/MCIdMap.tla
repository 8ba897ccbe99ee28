------------------------------- MODULE MCIdMap ------------------------------
(* Three ids and two threads.  Either both threads call the map, or one    *)
(* adds large batches in slices, and the other calls the map between them. *)
EXTENDS InterruptibleAdd, TLC

VARIABLE mode

MCBatch == UNION {[1 .. n -> Id] : n \in 0 .. 2}

MCSymmetry == Permutations(Id)

MCInit == AInit /\ mode \in {"calls", "slices"}

MCNext == /\ \/ mode = "calls" /\ Next /\ Len(slotToId') <= 2 /\ UNCHANGED <<call, hist>>
             \/ mode = "slices" /\ ANext /\ \A w \in Thread \ Loader : Len(batch'[w]) <= 1
          /\ UNCHANGED mode

MCSpec == MCInit /\ [][MCNext]_<<avars, mode>>
=============================================================================
