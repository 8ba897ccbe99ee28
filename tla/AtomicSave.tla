----------------------------- MODULE AtomicSave -----------------------------
(***************************************************************************)
(* A framework store and its two files: the .tvim index and the JSON       *)
(* side-car (turbovec-python/python/turbovec/llama_index.py), saved by     *)
(* atomic_save and checked at load by check_persisted_handles              *)
(* (_persist.py).  Several store objects of one process may use one path;  *)
(* the process may be killed, and the power fail, between any two steps.   *)
(*                                                                         *)
(* A node is a pair <<node id, revision>>; its vector in the index and its *)
(* payload in the side-car are both that pair, so the two files agree when *)
(* they map every handle to the same node.  Edits hold the store's write   *)
(* lock from end to end and are atomic here; a save holds it too, but      *)
(* interleaves with the saves and loads of other store objects.  An add    *)
(* that Ctrl-C cuts short is in the modules of the stores: what it leaves  *)
(* in the index makes every later load refuse the pair.                    *)
(*                                                                         *)
(* As in SyncV7, a file name has a visible value and the set of values a   *)
(* power failure may leave; the temp files are synced before the renames,  *)
(* so each of those values is a whole file.                                *)
(***************************************************************************)
EXTENDS Integers, FiniteSets

CONSTANTS
  Store,     \* store objects on the one path
  Writer,    \* those that edit and save; the others only load
  NodeId,
  Reissues,  \* TRUE: clear() is called, or a new store is made over the
             \* files of an old one, so handles start again at 1
  MaxAdds,   \* bound: adds, failed ones included
  MaxStops,  \* bound: kills of the process and power failures
  NoFile, NoSave

ASSUME WriterAssumption == Writer \subseteq Store
ASSUME BoundAssumption == MaxAdds \in Nat /\ MaxStops \in Nat
ASSUME ReissuesAssumption == Reissues \in BOOLEAN

Handle == 1 .. MaxAdds
Node   == NodeId \X (1 .. MaxAdds)

(* The maps from handles to nodes, of an index or of a side-car. *)
Mapping == UNION {[H -> Node] : H \in SUBSET Handle}
Empty   == [h \in {} |-> NoFile]

SideCar == [nodes : Mapping, next : 0 .. MaxAdds]

ASSUME NoneAssumption == NoFile \notin Mapping \cup SideCar /\ NoSave \notin SideCar

Unread == [tvim |-> NoFile, side |-> NoFile]

VARIABLES
  index,   \* the IdMapIndex of each store
  nodes,   \* its maps: handle <-> node id, and the payloads
  next,    \* _next_u64
  stage,   \* what the store is doing
  buffer,  \* the file a load has read first
  tvim,    \* the files as a process reads them
  side,
  mtvim,   \* what a power failure may leave of them
  mside,
  saved,   \* history: the last save to return, until the next replaces a file
  broken,  \* history: a save was cut short after the last to begin replacing
  adds,    \* counts adds; the revision of the last node
  stops    \* counts kills and power failures

memory == <<index, nodes, next>>
disk   == <<tvim, side, mtvim, mside>>
vars   == <<memory, stage, buffer, disk, saved, broken, adds, stops>>

Stages == {"closed", "index read", "side read", "ready", "staged", "half", "both"}

Saving == {s \in Store : stage[s] \in {"staged", "half", "both"}}
Open   == {s \in Store : stage[s] = "ready"} \cup Saving

TypeOK ==
  /\ index \in [Store -> Mapping] /\ nodes \in [Store -> Mapping]
  /\ next \in [Store -> 0 .. MaxAdds]
  /\ stage \in [Store -> Stages]
  /\ buffer \in [Store -> [tvim : Mapping \cup {NoFile}, side : SideCar \cup {NoFile}]]
  /\ tvim \in mtvim /\ mtvim \subseteq Mapping \cup {NoFile}
  /\ side \in mside /\ mside \subseteq SideCar \cup {NoFile}
  /\ saved \in SideCar \cup {NoSave}
  /\ broken \in BOOLEAN
  /\ adds \in 0 .. MaxAdds /\ stops \in 0 .. MaxStops

Init ==
  /\ index = [s \in Store |-> Empty] /\ nodes = index
  /\ next = [s \in Store |-> 0]
  /\ stage = [s \in Store |-> "closed"]
  /\ buffer = [s \in Store |-> Unread]
  /\ tvim = NoFile /\ side = NoFile /\ mtvim = {NoFile} /\ mside = {NoFile}
  /\ saved = NoSave /\ broken = FALSE
  /\ adds = 0 /\ stops = 0

Writing(s) == s \in Writer /\ stage[s] = "ready"

-----------------------------------------------------------------------------
(* The store in memory. *)

(* A store made from nothing.  Over the files of another it would issue    *)
(* that one's handles again.                                               *)
Create(s) ==
  /\ s \in Writer /\ stage[s] = "closed"
  /\ Reissues \/ (tvim = NoFile /\ side = NoFile)
  /\ index' = [index EXCEPT ![s] = Empty]
  /\ nodes' = [nodes EXCEPT ![s] = Empty]
  /\ next' = [next EXCEPT ![s] = 0]
  /\ stage' = [stage EXCEPT ![s] = "ready"]
  /\ UNCHANGED <<buffer, disk, saved, broken, adds, stops>>

(* Faulty: the watermark is returned before it is raised.                  *)
IssueCurrent(s) == next[s]

(* _issue_handle *)
Issue(s) == next[s] + 1

Without(mapping, H) == [h \in DOMAIN mapping \ H |-> mapping[h]]

With(mapping, g, node) ==
  [h \in DOMAIN mapping \cup {g} |-> IF h = g THEN node ELSE mapping[h]]

Handles(s, id) == {h \in DOMAIN nodes[s] : nodes[s][h][1] = id}

(* add: a node under a new handle; the one it replaces, if any, is dropped. *)
Add(s) ==
  /\ Writing(s) /\ adds < MaxAdds
  /\ \E id \in NodeId :
       LET h    == Issue(s)
           node == <<id, adds + 1>>
           old  == Handles(s, id)
       IN /\ index' = [index EXCEPT ![s] = With(Without(index[s], old), h, node)]
          /\ nodes' = [nodes EXCEPT ![s] = With(Without(nodes[s], old), h, node)]
  /\ next' = [next EXCEPT ![s] = next[s] + 1]
  /\ adds' = adds + 1
  /\ UNCHANGED <<stage, buffer, disk, saved, broken, stops>>

(* The index refuses the batch: the maps are restored, the handle is spent. *)
AddFails(s) ==
  /\ Writing(s) /\ adds < MaxAdds
  /\ next' = [next EXCEPT ![s] = next[s] + 1]
  /\ adds' = adds + 1
  /\ UNCHANGED <<index, nodes, stage, buffer, disk, saved, broken, stops>>

(* delete, delete_nodes: _remove_node_by_id *)
Remove(s) ==
  /\ Writing(s)
  /\ \E id \in NodeId :
       /\ Handles(s, id) # {}
       /\ index' = [index EXCEPT ![s] = Without(index[s], Handles(s, id))]
       /\ nodes' = [nodes EXCEPT ![s] = Without(nodes[s], Handles(s, id))]
  /\ UNCHANGED <<next, stage, buffer, disk, saved, broken, adds, stops>>

Clear(s) ==
  /\ Writing(s) /\ Reissues
  /\ index' = [index EXCEPT ![s] = Empty]
  /\ nodes' = [nodes EXCEPT ![s] = Empty]
  /\ next' = [next EXCEPT ![s] = 0]
  /\ UNCHANGED <<stage, buffer, disk, saved, broken, adds, stops>>

-----------------------------------------------------------------------------
(* persist: atomic_save *)

(* Faulty: the renames are never made durable.                             *)
SyncDirNone == UNCHANGED disk

SyncDir == /\ mtvim' = {tvim} /\ mside' = {side}
           /\ UNCHANGED <<tvim, side>>

(* Faulty: the index is written with durable=False.                        *)
WriteTempsFast == UNCHANGED disk

(* Both temp files.  IdMapIndex.write ends in an fsync of the directory,   *)
(* which makes the renames of an earlier, failed save durable.             *)
WriteTemps == SyncDir

Stage(s) ==
  /\ Writing(s)
  /\ stage' = [stage EXCEPT ![s] = "staged"]
  /\ WriteTemps
  /\ UNCHANGED <<memory, buffer, saved, broken, adds, stops>>

ReplaceIndex(s) ==
  /\ stage[s] = "staged"
  /\ tvim' = index[s] /\ mtvim' = mtvim \cup {index[s]}
  /\ stage' = [stage EXCEPT ![s] = "half"]
  /\ saved' = NoSave /\ broken' = FALSE
  /\ UNCHANGED <<memory, buffer, side, mside, adds, stops>>

Payload(s) == [nodes |-> nodes[s], next |-> next[s]]

ReplaceSideCar(s) ==
  /\ stage[s] = "half"
  /\ side' = Payload(s) /\ mside' = mside \cup {Payload(s)}
  /\ stage' = [stage EXCEPT ![s] = "both"]
  /\ UNCHANGED <<memory, buffer, tvim, mtvim, saved, broken, adds, stops>>

(* The directory's fsync; the save returns. *)
Return(s) ==
  /\ stage[s] = "both"
  /\ SyncDir
  /\ stage' = [stage EXCEPT ![s] = "ready"]
  /\ saved' = Payload(s)
  /\ UNCHANGED <<memory, buffer, broken, adds, stops>>

(* A write or a replace raises; the temp files are removed. *)
SaveFails(s) ==
  /\ stage[s] \in {"staged", "half"}
  /\ stage' = [stage EXCEPT ![s] = "ready"]
  /\ broken' = (broken \/ stage[s] = "half")
  /\ UNCHANGED <<memory, buffer, disk, saved, adds, stops>>

-----------------------------------------------------------------------------
(* from_persist_path, and the load of the other stores *)

(* The LlamaIndex store reads the index first, the others the side-car. *)
ReadFirst(s) ==
  /\ stage[s] = "closed"
  /\ \/ /\ tvim # NoFile
        /\ buffer' = [buffer EXCEPT ![s].tvim = tvim]
        /\ stage' = [stage EXCEPT ![s] = "index read"]
     \/ /\ side # NoFile
        /\ buffer' = [buffer EXCEPT ![s].side = side]
        /\ stage' = [stage EXCEPT ![s] = "side read"]
  /\ UNCHANGED <<memory, disk, saved, broken, adds, stops>>

(* check_persisted_handles *)
Agree(i, j) ==
  /\ Cardinality(DOMAIN j.nodes) = Cardinality(DOMAIN i)
  /\ DOMAIN j.nodes \subseteq DOMAIN i
  /\ \A h \in DOMAIN j.nodes : h <= j.next

(* The two files, one as it was read first and one as it is now. *)
Pair(s) == IF stage[s] = "index read" THEN [tvim |-> buffer[s].tvim, side |-> side]
                                      ELSE [tvim |-> tvim, side |-> buffer[s].side]

Loads(s) ==
  /\ stage[s] \in {"index read", "side read"}
  /\ Pair(s).tvim # NoFile /\ Pair(s).side # NoFile
  /\ Agree(Pair(s).tvim, Pair(s).side)

ReadSecond(s) ==
  /\ Loads(s)
  /\ index' = [index EXCEPT ![s] = Pair(s).tvim]
  /\ nodes' = [nodes EXCEPT ![s] = Pair(s).side.nodes]
  /\ next' = [next EXCEPT ![s] = Pair(s).side.next]
  /\ stage' = [stage EXCEPT ![s] = "ready"]
  /\ buffer' = [buffer EXCEPT ![s] = Unread]
  /\ UNCHANGED <<disk, saved, broken, adds, stops>>

(* A missing file, or a pair that does not agree: ValueError. *)
LoadFails(s) ==
  /\ stage[s] \in {"index read", "side read"} /\ ~Loads(s)
  /\ stage' = [stage EXCEPT ![s] = "closed"]
  /\ buffer' = [buffer EXCEPT ![s] = Unread]
  /\ UNCHANGED <<memory, disk, saved, broken, adds, stops>>

-----------------------------------------------------------------------------
(* The environment. *)

Stop ==
  /\ stops < MaxStops
  /\ index' = [s \in Store |-> Empty] /\ nodes' = index'
  /\ next' = [s \in Store |-> 0]
  /\ stage' = [s \in Store |-> "closed"]
  /\ buffer' = [s \in Store |-> Unread]
  /\ broken' = (broken \/ \E s \in Store : stage[s] \in {"half", "both"})
  /\ stops' = stops + 1
  /\ UNCHANGED <<saved, adds>>

Kill == Stop /\ UNCHANGED disk

PowerCut ==
  /\ Stop
  /\ tvim' \in mtvim /\ side' \in mside
  /\ mtvim' = {tvim'} /\ mside' = {side'}

Next ==
  \/ \E s \in Store :
       \/ Create(s) \/ Add(s) \/ AddFails(s) \/ Remove(s) \/ Clear(s)
       \/ Stage(s) \/ ReplaceIndex(s) \/ ReplaceSideCar(s) \/ Return(s) \/ SaveFails(s)
       \/ ReadFirst(s) \/ ReadSecond(s) \/ LoadFails(s)
  \/ Kill \/ PowerCut

Spec == Init /\ [][Next]_vars

-----------------------------------------------------------------------------
(* Properties. *)

(* A store that loaded never has a handle whose vector is one node's and   *)
(* whose payload is another's: every pair of files from two saves that a   *)
(* crash or a racing save can leave is refused by check_persisted_handles. *)
Coherent == \A s \in Open : index[s] = nodes[s]

(* What a save left when it returned is what every load finds, after kills *)
(* and power failures too, until another save replaces a file.             *)
SaveSurvives == saved # NoSave => tvim = saved.nodes /\ side = saved

(* "Concurrent saves to one path are safe" (atomic_save): when no save is  *)
(* under way and none was cut short, the two files are of one save.  Does  *)
(* not hold for two stores that save to one path.                          *)
LastWriterWins ==
  Saving = {} /\ ~broken /\ tvim # NoFile /\ side # NoFile => tvim = side.nodes

-----------------------------------------------------------------------------
(***************************************************************************)
(* Why it works for one writer whose handles never restart.  While the     *)
(* writer is open, whatever a load has read, or a save may leave beside    *)
(* its own files, is known to it: the handles were issued before its       *)
(* watermark and name the nodes they name in its own maps.  What an older  *)
(* process may have left unsynced is not, and Stage syncs it away.         *)
(***************************************************************************)
Active  == Writer \cap Open
OneWriter == \A v, w \in Writer : v = w

Compatible(i, j) == \A h \in DOMAIN i \cap DOMAIN j : i[h] = j[h]

Known(mapping, w) == /\ Compatible(mapping, index[w])
                     /\ \A h \in DOMAIN mapping : h <= next[w]

StoreInv ==
  /\ Coherent
  /\ \A w \in Active : \A h \in DOMAIN index[w] : h <= next[w]
  /\ Saving \subseteq Writer

(* What a load has read first. *)
ReadOK(s) ==
  /\ stage[s] = "index read" =>
       /\ buffer[s].tvim # NoFile
       /\ Active = {} => buffer[s].tvim = tvim
       /\ \A w \in Active : Known(buffer[s].tvim, w)
       /\ side # NoFile /\ Agree(buffer[s].tvim, side) => buffer[s].tvim = side.nodes
  /\ stage[s] = "side read" =>
       /\ buffer[s].side # NoFile
       /\ Active = {} => buffer[s].side = side
       /\ \A w \in Active : Known(buffer[s].side.nodes, w)
       /\ tvim # NoFile /\ Agree(tvim, buffer[s].side) => tvim = buffer[s].side.nodes

ReadInv == \A s \in Store : ReadOK(s)

(* What the files may be. *)
DiskInv ==
  /\ \A i \in mtvim \ {NoFile}, j \in mside \ {NoFile} : Agree(i, j) => i = j.nodes
  /\ \A w \in Active : /\ tvim # NoFile => Known(tvim, w)
                       /\ side # NoFile => Known(side.nodes, w)
  /\ \A w \in Saving : /\ \A i \in mtvim \ {NoFile} : Known(i, w)
                       /\ \A j \in mside \ {NoFile} : Known(j.nodes, w)

Watermarks ==
  /\ \A s \in Store : next[s] <= adds
  /\ \A j \in mside \ {NoFile} : j.next <= adds
  /\ \A s \in Store : buffer[s].side # NoFile => buffer[s].side.next <= adds

(* Where the last save stands. *)
SaveInv ==
  /\ \A w \in Saving :
       /\ stage[w] = "staged" => mtvim = {tvim} /\ mside = {side}
       /\ stage[w] # "staged" => tvim = index[w] /\ saved = NoSave
       /\ stage[w] = "both" => side = Payload(w)
  /\ ~broken /\ (\A w \in Saving : stage[w] = "staged") =>
       /\ mtvim = {tvim} /\ mside = {side}
       /\ tvim # NoFile /\ side # NoFile => tvim = side.nodes
  /\ saved # NoSave => mtvim = {saved.nodes} /\ mside = {saved}

IInv == TypeOK /\ StoreInv /\ ReadInv /\ DiskInv /\ Watermarks /\ SaveInv
=============================================================================
