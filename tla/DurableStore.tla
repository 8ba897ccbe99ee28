---------------------------- MODULE DurableStore ----------------------------
(***************************************************************************)
(* What a synced file promises, with no container: one index, one file,    *)
(* and a power failure at any moment.                                      *)
(*                                                                         *)
(*   - a load yields exactly what some sync was given, never a mixture;    *)
(*   - once sync has returned Ok, power failures cannot take that content  *)
(*     back: they leave it, or what a later sync had already published;    *)
(*   - the file changes only when a sync publishes, or in a power failure. *)
(*                                                                         *)
(* SyncV7 implements it (see Store there).                                 *)
(***************************************************************************)
CONSTANTS
  Contents,  \* what an index may hold
  Absent     \* no index open, no file; not one of Contents

VARIABLES
  view,  \* what the open index holds
  file,  \* what a load of the file would yield now
  safe   \* what the last sync that returned Ok left

vars == <<view, file, safe>>

TypeOK == {view, file, safe} \subseteq Contents \cup {Absent}

Init == view \in Contents /\ file = Absent /\ safe = Absent

Open == view # Absent

Edit == Open /\ view' \in Contents /\ UNCHANGED <<file, safe>>

(* An incremental sync's commit becomes visible before it is durable ...   *)
Publish == Open /\ safe # Absent /\ file' = view /\ UNCHANGED <<view, safe>>

(* ... and durable before the sync returns Ok.                             *)
Acknowledge == Open /\ file = view /\ safe' = view /\ UNCHANGED <<view, file>>

(* A full write does both at once.                                         *)
Replace == Open /\ file' = view /\ safe' = view /\ UNCHANGED view

PowerFailure == /\ file # Absent
                /\ file' \in {file, safe}
                /\ view' = Absent
                /\ UNCHANGED safe

(* A process may exit when what it published is also durable.              *)
Exit == Open /\ file # Absent /\ view' = Absent /\ UNCHANGED <<file, safe>>

Load == /\ ~Open
        /\ view' = file /\ safe' = file
        /\ UNCHANGED file

Next == \/ Edit \/ Publish \/ Acknowledge \/ Replace
        \/ PowerFailure \/ Exit \/ Load

Spec == Init /\ [][Next]_vars
=============================================================================
