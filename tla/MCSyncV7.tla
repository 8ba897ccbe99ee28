------------------------------ MODULE MCSyncV7 ------------------------------
(* Instances of one index and its file.  MCSpec takes one of three:        *)
(*   "tears"    power failures, every tear of a header write, rows that    *)
(*              are all different;                                         *)
(*   "rewrites" calibration and a header of one redo op, rows that repeat: *)
(*              every way an incremental sync becomes a full write;        *)
(*   "reader"   another process loads while syncs run, calibrations among  *)
(*              the edits, one power failure.                              *)
EXTENDS SyncReader

VARIABLE mode

Rewrites == INSTANCE SyncV7 WITH Vec <- {1, 2}, FreshRows <- FALSE, MaxOps <- 1,
                                 BatchSizes <- {1}, MaxEdits <- 2, MaxCal <- 1,
                                 MaxCuts <- 1

MCInit == /\ \/ mode \in {"tears", "reader"} /\ Init
             \/ mode = "rewrites" /\ Rewrites!Init
          /\ RInitReader

MCNext == /\ \/ mode = "tears" /\ Next /\ cal' = 0 /\ UNCHANGED rvars
             \/ mode = "rewrites" /\ Rewrites!Next /\ UNCHANGED rvars
             \/ /\ mode = "reader" /\ RNext
                /\ edits' + 2 * cal' <= 2 /\ (up => n' - n <= 1) /\ cuts' <= 1
          /\ UNCHANGED mode

MCSpec == MCInit /\ [][MCNext]_<<allvars, mode>>

-----------------------------------------------------------------------------
(* MCAdjacent is SyncV7 alone, for what holds only when no header write is *)
(* torn; a calibration leaves room for one edit.                           *)
AdjacentInit == Init /\ RInitReader /\ mode = "adjacent"

AdjacentNext == Next /\ edits' + 2 * cal' <= 3 /\ UNCHANGED <<rvars, mode>>

MCAdjacent == AdjacentInit /\ [][AdjacentNext]_<<allvars, mode>>
=============================================================================
