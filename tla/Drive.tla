-------------------------------- MODULE Drive --------------------------------
(***************************************************************************)
(* A kDrive folder tree as the calls of this program see it: other clients *)
(* create, rewrite, move and remove entries of it between any two          *)
(* requests, and FilesService.List reads a folder page by page             *)
(* (infrastructure/kdriveapi/files.go), so that a listing is not a         *)
(* snapshot: an entry that leaves the folder shifts those behind it to an  *)
(* earlier page, which has been read.                                      *)
(*                                                                         *)
(* Requests fail with or without effect.  doRaw (response.go) repeats one  *)
(* that failed on the way or was answered 5xx or 429; the repetition of a  *)
(* read changes nothing, so List is a request per page, which succeeds or  *)
(* fails for good, and only Mkdir has its attempts (Resolver).             *)
(*                                                                         *)
(* Whether the server takes a second entry of a name is not for this code  *)
(* to say: `refuses` is either.  A folder is listed in the order of ids.   *)
(* A folder that is removed with what is in it is emptied first here.      *)
(***************************************************************************)
EXTENDS Integers, SequencesExt, FiniteSetsExt

CONSTANTS Names,      \* names entries may have
          StartTree,  \* id -> [parent, name, dir, stamp]
          PageSize,   \* listPageSize
          Settings    \* the worlds a behaviour can take place in: name -> Setting

\* The world of the behaviour: one of the names of Settings, which never changes.
VARIABLE setting

MaxForeign == Settings[setting].maxForeign  \* bound: changes by other clients
MaxFaults  == Settings[setting].maxFaults   \* bound: requests that fail

Root == 1

Entries == [parent : Nat, name : Names, dir : BOOLEAN, stamp : Nat]

ASSUME DriveAssumption ==
  /\ DOMAIN StartTree = 2..Cardinality(DOMAIN StartTree) + 1
  /\ \A i \in DOMAIN StartTree : /\ StartTree[i] \in Entries
                                 /\ StartTree[i].parent \in DOMAIN StartTree \cup {Root}
  /\ PageSize \in Nat \ {0}
  /\ \A w \in DOMAIN Settings :
       {Settings[w].maxForeign, Settings[w].maxFaults} \subseteq Nat

VARIABLES
  node,       \* the entries of the tree: id -> [parent, name, dir, stamp]
  nextId,     \* the next id the server gives
  refuses,    \* the server refuses a name that is taken
  foreign,    \* changes by other clients so far
  faults,     \* requests that failed so far
  moved,      \* history: entries others have moved
  disturbed,  \* history: entries others made, moved, rewrote or removed since a
              \* walk began
  shrunk      \* history: folders an entry has left since a walk began

world == <<setting, refuses>>

drive == <<world, node, nextId, foreign, faults, moved, disturbed, shrunk>>

DriveInit ==
  /\ setting \in DOMAIN Settings
  /\ node = StartTree
  /\ nextId = Cardinality(DOMAIN StartTree) + 2
  /\ refuses \in BOOLEAN
  /\ foreign = 0 /\ faults = 0
  /\ moved = {} /\ disturbed = {} /\ shrunk = {}

Children(p) == {i \in DOMAIN node : node[i].parent = p}

Exists(p) == p = Root \/ (p \in DOMAIN node /\ node[p].dir)

Taken(p, name) == \E i \in Children(p) : node[i].name = name

\* the entries at a path, a sequence of names (two if a folder has a twin)
IdsAt(path) ==
  FoldLeft(LAMBDA ids, name : {i \in UNION {Children(p) : p \in ids} : node[i].name = name},
           {Root}, path)

\* an entry and the folders it is in
Above(i) ==
  LET above[j \in DOMAIN node \cup {Root}] ==
        IF j = Root THEN {Root} ELSE {j} \cup above[node[j].parent]
  IN above[i]

PathOf(i) ==
  LET path[j \in DOMAIN node \cup {Root}] ==
        IF j = Root THEN <<>> ELSE Append(path[node[j].parent], node[j].name)
  IN path[i]

Add(p, name, dir) ==
  /\ node' = [i \in DOMAIN node \cup {nextId} |->
                IF i = nextId THEN [parent |-> p, name |-> name, dir |-> dir, stamp |-> 0]
                ELSE node[i]]
  /\ nextId' = nextId + 1

-----------------------------------------------------------------------------
(* Other clients *)

Foreign == foreign < MaxForeign /\ foreign' = foreign + 1

ForeignAdd(p, name, dir) ==
  /\ Foreign
  /\ Exists(p) /\ ~Taken(p, name)
  /\ Add(p, name, dir)
  /\ disturbed' = disturbed \cup {nextId}
  /\ UNCHANGED <<world, faults, moved, shrunk>>

ForeignRewrite(i) ==
  /\ Foreign
  /\ ~node[i].dir
  /\ node' = [node EXCEPT ![i].stamp = @ + 1]
  /\ disturbed' = disturbed \cup {i}
  /\ UNCHANGED <<world, nextId, faults, moved, shrunk>>

ForeignRemove(i) ==
  /\ Foreign
  /\ Children(i) = {}
  /\ node' = [j \in DOMAIN node \ {i} |-> node[j]]
  /\ disturbed' = disturbed \cup {i}
  /\ shrunk' = shrunk \cup {node[i].parent}
  /\ UNCHANGED <<world, nextId, faults, moved>>

ForeignMove(i, p, name) ==
  /\ Foreign
  /\ Exists(p) /\ i \notin Above(p) /\ ~Taken(p, name)
  /\ node' = [node EXCEPT ![i].parent = p, ![i].name = name]
  /\ moved' = moved \cup {i}
  /\ disturbed' = disturbed \cup {i}
  /\ shrunk' = IF p = node[i].parent THEN shrunk ELSE shrunk \cup {node[i].parent}
  /\ UNCHANGED <<world, nextId, faults>>

OtherClients ==
  \/ \E p \in DOMAIN node \cup {Root}, name \in Names :
       \/ \E dir \in BOOLEAN : ForeignAdd(p, name, dir)
       \/ \E i \in DOMAIN node : ForeignMove(i, p, name)
  \/ \E i \in DOMAIN node : ForeignRewrite(i) \/ ForeignRemove(i)

-----------------------------------------------------------------------------
(* Requests *)

Faulty == faults < MaxFaults /\ faults' = faults + 1

\* a request that leaves the tree alone
Unmoved == UNCHANGED <<world, node, nextId, foreign, moved, disturbed, shrunk>>

\* what page n of a folder holds now
Page(p, n) ==
  {i \in Children(p) :
     LET before == Cardinality({j \in Children(p) : j < i})
     IN (n - 1) * PageSize <= before /\ before < n * PageSize}

\* Seeded defect: a page that is just full is taken for the last one.
IsLastWhenFull(page) == Cardinality(page) <= PageSize

\* `len(resp.Data) < listPageSize`
IsLast(page) == Cardinality(page) < PageSize

\* what a listing keeps of a page: each entry as it was at that moment
Read(page) ==
  {[id |-> i, name |-> node[i].name, dir |-> node[i].dir, stamp |-> node[i].stamp] : i \in page}
=============================================================================
