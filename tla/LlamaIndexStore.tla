--------------------------- MODULE LlamaIndexStore ---------------------------
(***************************************************************************)
(* The LlamaIndex store (llama_index.py) keeps its nodes as the LangChain  *)
(* store keeps its documents, and reads them the same way.  It refuses a   *)
(* batch that repeats an id, deletes by document or by filter, and has     *)
(* clear(), which rebinds the index and the dictionaries one after the     *)
(* other and starts the handles again.                                     *)
(***************************************************************************)
EXTENDS LangChainStore

CONSTANTS RefDoc,   \* the reference document of each version of a node
          MayClear

(* add: DuplicatePolicy.REJECT. *)
AddNodes(b) == /\ \A i, j \in DOMAIN b : b[i].id = b[j].id => i = j
               /\ Add(b)

(* delete: every node of a reference document. *)
DeleteRef(d) == Delete({i \in DOMAIN maps.docs : RefDoc[maps.docs[i]] = d})

(* delete_nodes: of the ids given (all of them, if only a filter is), the  *)
(* ones that pass the filter if there is one.                              *)
DeleteNodes(S, filtered) ==
  Delete({i \in S \cap DOMAIN maps.docs : filtered => maps.docs[i] \in Match})

ClearScript == <<[op |-> "rebind", what |-> "index"],
                 [op |-> "rebind", what |-> "docs"],
                 [op |-> "rebind", what |-> "fwd"],
                 [op |-> "rebind", what |-> "rev"],
                 [op |-> "rebind", what |-> "next"]>>

Clear == /\ MayClear
         /\ Unlocked
         /\ todo' = ClearScript
         /\ goal' = {}
         /\ Writing(Id, {})
         /\ UNCHANGED next

(* One assignment of clear(). *)
Rebind ==
  /\ todo # <<>> /\ Head(todo).op = "rebind"
  /\ LET w == Head(todo).what
     IN  /\ maps' = IF w \in DOMAIN maps THEN [maps EXCEPT ![w] = <<>>] ELSE maps
         /\ index' = IF w = "index" THEN <<>> ELSE index
         /\ orphans' = IF w = "index" THEN {} ELSE orphans
         /\ next' = IF w = "next" THEN 0 ELSE next
  /\ Moved(Tail(todo), goal)

(* query, get_nodes: as in LangChainStore. *)
Query(r) == Read(r)

LNext == \/ \E b \in Batch : AddNodes(b)
         \/ \E d \in {RefDoc[v] : v \in Ver} : DeleteRef(d)
         \/ \E S \in SUBSET Id, f \in BOOLEAN : DeleteNodes(S, f)
         \/ Clear \/ Rebind
         \/ Step
         \/ \E r \in Reader : Query(r)

LSpec == Init /\ [][LNext]_vars
=============================================================================
