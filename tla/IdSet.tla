------------------------------- MODULE IdSet -------------------------------
(***************************************************************************)
(* What an id-mapped index promises, with no slots and no lazy tables: a   *)
(* set of live ids; every write takes effect, and every question is        *)
(* answered, in one step.  IdMap implements it (see Abstract there).       *)
(***************************************************************************)
EXTENDS Sequences

CONSTANTS Id, Thread, Batch

VARIABLES
  live,    \* the ids in the index
  asks,    \* what each thread is asking ("none": nothing)
  batch,   \* about which ids
  answer   \* of each thread's last call

vars == <<live, asks, batch, answer>>

IdsOf(b) == {b[i] : i \in DOMAIN b}

Distinct(b) == \A i, j \in DOMAIN b : b[i] = b[j] => i = j

Fresh(b) == Distinct(b) /\ IdsOf(b) \cap live = {}

Reply(ok, rows) == [ok |-> ok, rows |-> rows]

Init == /\ live \in SUBSET Id
        /\ asks = [t \in Thread |-> "none"] /\ batch = [t \in Thread |-> <<>>]
        /\ answer = [t \in Thread |-> Reply(TRUE, {})]

Answer(t, ok, rows) == answer' = [answer EXCEPT ![t] = Reply(ok, rows)]

Add(t, b) == /\ asks[t] = "none" /\ Fresh(b)
             /\ live' = live \cup IdsOf(b)
             /\ Answer(t, TRUE, {})
             /\ UNCHANGED <<asks, batch>>

(* An add may fail for the vectors' sake too; it then adds none of them.   *)
AddFails(t) == /\ asks[t] = "none"
               /\ Answer(t, FALSE, {})
               /\ UNCHANGED <<live, asks, batch>>

Remove(t, id) == /\ asks[t] = "none"
                 /\ live' = live \ {id}
                 /\ Answer(t, id \in live, {})
                 /\ UNCHANGED <<asks, batch>>

Ask(t, what, b) == /\ asks[t] = "none"
                   /\ asks' = [asks EXCEPT ![t] = what]
                   /\ batch' = [batch EXCEPT ![t] = b]
                   /\ UNCHANGED <<live, answer>>

Return(t) == /\ asks' = [asks EXCEPT ![t] = "none"]
             /\ batch' = [batch EXCEPT ![t] = <<>>]
             /\ UNCHANGED live

(* batch_addable                                                           *)
AnswerFresh(t) == /\ asks[t] = "fresh"
                  /\ Answer(t, Fresh(batch[t]), {})
                  /\ Return(t)

(* contains, and the rows an allowlist admits                              *)
AnswerRows(t) ==
  /\ asks[t] = "rows"
  /\ LET ids == IdsOf(batch[t])
     IN  Answer(t, ids \subseteq live, IF ids \subseteq live THEN ids ELSE {})
  /\ Return(t)

Next == \E t \in Thread :
          \/ \E b \in Batch : Add(t, b) \/ Ask(t, "fresh", b) \/ Ask(t, "rows", b)
          \/ AddFails(t)
          \/ \E id \in Id : Remove(t, id)
          \/ AnswerFresh(t) \/ AnswerRows(t)

Spec == Init /\ [][Next]_vars
=============================================================================
