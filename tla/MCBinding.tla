------------------------------ MODULE MCBinding ------------------------------
(* Two Python threads; a behaviour is of one scenario:                     *)
(*   "calls": searches, saves that warn, adds and removals;                *)
(*   "loads": a load warns beside a removal, and no save runs;             *)
(*   "both": loads and saves of both threads warn beside each other.       *)
EXTENDS Binding, TLC

CONSTANTS t, u

VARIABLE mode

MCCalls  == (t :> {"write", "sync", "search"}) @@ (u :> {"sync", "search", "remove", "add"})
MCCopies == (t :> {"add"}) @@ (u :> {"load"})

Loads == INSTANCE Binding WITH MayCall <- (t :> {"remove"}) @@ (u :> {"load"})
Both  == INSTANCE Binding WITH MayCall <- (t :> {"sync", "load"}) @@ (u :> {"write", "load"})

MCInit == Init /\ mode \in {"calls", "loads", "both"}

MCNext == /\ \/ mode = "calls" /\ Next
             \/ mode = "loads" /\ Loads!Next
             \/ mode = "both" /\ Both!Next
          /\ UNCHANGED mode

MCSpec == MCInit /\ [][MCNext]_<<vars, mode>> /\ Fairness
=============================================================================
