--------------------------- MODULE MCSyncWriters ---------------------------
(* Several indexes on one path; or one alone, which outgrows its unit      *)
(* layout and whose user puts an old copy of the file back.                *)
EXTENDS SyncWriters, TLC

CONSTANT Everyone

VARIABLE alone

Alone(h) == INSTANCE SyncWriters WITH Handles <- {h}, Grows <- TRUE, Backups <- TRUE,
                                      MaxEdits <- 3

MCInit == Init /\ alone \in Handles \cup {Everyone}

MCNext == /\ \/ alone = Everyone /\ Next
             \/ \E h \in Handles : alone = h /\ Alone(h)!Next
          /\ UNCHANGED alone

MCSpec == MCInit /\ [][MCNext]_<<vars, alone>>

Interchangeable == Permutations(Handles)
=============================================================================
