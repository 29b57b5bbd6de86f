----------------------------- MODULE PushProofs -----------------------------
(***************************************************************************)
(* Pushes in any world: any paths, options, pool size and checkpoint       *)
(* interval, and any number of edits, changes by other clients, runs,      *)
(* failing calls and kills.                                                *)
(***************************************************************************)
EXTENDS Push, FiniteSetTheorems, TLAPS

-----------------------------------------------------------------------------
(* Types                                                                    *)

AllRels == UNION {Settings[w].rels : w \in DOMAIN Settings}

\* every path of a world, and every path on the way from one to another
Spots == {r[1] : r \in AllRels} \X {r[2] : r \in AllRels}

LocalFile == [size : Sizes, mtime : Nat]

RemoteFile == [path : Spots, size : Nat, mtime : Nat, data : Nat]

ManifestEntry == [size : Nat, localMtime : Nat, remoteID : Nat, remoteMtime : Nat]

Item == [op : {"upload", "overwrite", "delete", "move"}, rel : Spots, remoteID : Nat,
         size : Nat, mtime : Nat, srcRel : Spots]

Progress == [at : {"create", "find", "replace", "remove", "stat", "move", "rename", "restat",
                   "done", "failed"},
             id : Nat, mtime : Nat, path : Spots]

\* a finite table: paths to what
Table(f, S) == f \in [DOMAIN f -> S] /\ IsFiniteSet(DOMAIN f) /\ DOMAIN f \subseteq Spots

TreesTyped ==
  /\ setting \in DOMAIN Settings
  /\ Table(local, LocalFile)
  /\ remote \in [DOMAIN remote -> RemoteFile]
  /\ nextId \in Nat \ {0} /\ DOMAIN remote \subseteq 1..(nextId - 1)
  /\ Table(m, ManifestEntry) /\ Table(disk, ManifestEntry)

RunTyped ==
  /\ phase \in {"idle", "drift", "run"}
  /\ phase # "idle" => opts \in Options
  /\ todo \subseteq Item /\ waiting \subseteq Item
  /\ DOMAIN work \subseteq Item /\ work \in [DOMAIN work -> Progress]
  /\ since \in Nat
  /\ removed \in Nat /\ baseline \in Nat
  /\ {clock, foreign, runs, faults, crashes} \subseteq Nat

\* How far an item can be, by its kind; but for uploads its file is the planned one.
Fits(it, p) ==
  /\ it.op = "upload" => p.at \in {"create", "find", "replace", "done", "failed"}
  /\ it.op = "overwrite" => p.at \in {"replace", "done", "failed"}
  /\ it.op = "delete" => p.at \in {"remove", "done", "failed"}
  /\ it.op = "move" => p.at \in {"stat", "move", "rename", "restat", "done", "failed"}
  /\ it.op # "upload" => p.id = it.remoteID

\* Where items are in the phases of a run.
Phases ==
  /\ phase = "idle" => todo = {} /\ waiting = {} /\ m = disk
  /\ phase # "run" => DOMAIN work = {} /\ removed = 0 /\ baseline = 0
  /\ phase = "run" => todo = {}
  /\ todo \cap waiting = {} /\ waiting \cap DOMAIN work = {}
  /\ \A it \in DOMAIN work : Fits(it, work[it])

Types == TreesTyped /\ RunTyped /\ Phases

\* The worlds of the assumption, for the world there is.
LEMMA World ==
  ASSUME setting \in DOMAIN Settings
  PROVE  /\ Rels \subseteq Spots /\ Sizes \subseteq Nat
         /\ \A r \in Rels : r = <<r[1], r[2]>>
         /\ DOMAIN StartTree \subseteq Rels /\ IsFiniteSet(DOMAIN StartTree)
         /\ StartTree \in [DOMAIN StartTree -> [size : Sizes,
                                                mtime : 1..Cardinality(DOMAIN StartTree)]]
         /\ \A r, q \in DOMAIN StartTree : StartTree[r].mtime = StartTree[q].mtime => r = q
         /\ Options \subseteq Option /\ Percent \in Nat
         /\ \A r, q \in Rels : <<DirOf(r), BaseOf(q)>> \in Spots
<1> DEFINE s == Settings[setting]
<1>1. /\ \A r \in s.rels : r = <<r[1], r[2]>>
      /\ DOMAIN s.tree \subseteq s.rels /\ IsFiniteSet(DOMAIN s.tree)
      /\ s.tree \in [DOMAIN s.tree -> [size : Sizes, mtime : 1..Cardinality(DOMAIN s.tree)]]
      /\ \A r, q \in DOMAIN s.tree : s.tree[r].mtime = s.tree[q].mtime => r = q
      /\ s.options \subseteq Option /\ s.percent \in Nat
  BY PushAssumption
<1>2. Sizes \subseteq Nat
  BY PushAssumption
<1>3. s.rels \subseteq AllRels
  BY DEF AllRels
<1>4. \A r \in s.rels : r[1] \in {q[1] : q \in AllRels} /\ r[2] \in {q[2] : q \in AllRels}
  BY <1>3
<1>5. \A r, q \in s.rels : <<r[1], q[2]>> \in Spots
  BY <1>4 DEF Spots
<1>6. s.rels \subseteq Spots
  BY <1>1, <1>5
<1> QED
  BY <1>1, <1>2, <1>5, <1>6 DEF Rels, StartTree, Options, Percent, DirOf, BaseOf

\* What m.Set makes of a table.
LEMMA SetFacts ==
  ASSUME NEW f, NEW r, NEW e
  PROVE  /\ DOMAIN Set(f, r, e) = DOMAIN f \cup {r}
         /\ Set(f, r, e)[r] = e
         /\ \A q \in DOMAIN f \ {r} : Set(f, r, e)[q] = f[q]
  BY DEF Set

\* What m.Delete leaves of a table.
LEMMA DeleteFacts ==
  ASSUME NEW f, NEW r
  PROVE  /\ DOMAIN Delete(f, r) = DOMAIN f \ {r}
         /\ \A q \in DOMAIN f \ {r} : Delete(f, r)[q] = f[q]
  BY DEF Delete

\* Both keep tables finite and typed.
LEMMA SetTable ==
  ASSUME NEW S, NEW f, Table(f, S), NEW r \in Spots, NEW e \in S
  PROVE  Table(Set(f, r, e), S)
<1>1. IsFiniteSet(DOMAIN f \cup {r})
  BY FS_AddElement DEF Table
<1>2. Set(f, r, e) \in [DOMAIN f \cup {r} -> S]
  BY DEF Set, Table
<1> QED
  BY <1>1, <1>2, SetFacts DEF Table

\* Taking a path out of a table leaves a table.
LEMMA DeleteTable ==
  ASSUME NEW S, NEW f, Table(f, S), NEW r
  PROVE  Table(Delete(f, r), S)
<1>1. IsFiniteSet(DOMAIN f \ {r})
  BY FS_RemoveElement DEF Table
<1>2. Delete(f, r) \in [DOMAIN f \ {r} -> S]
  BY DEF Delete, Table
<1> QED
  BY <1>1, <1>2, DeleteFacts DEF Table

-----------------------------------------------------------------------------
(* What a call can come to, whichever it is                                 *)

\* what the call leaves of the item's progress
With(it, p) == work' = [work EXCEPT ![it] = p]

SameRemote == UNCHANGED <<remote, nextId, unseen, removed>>

\* it failed, and nothing was done
Fails(it, p) ==
  p = [work[it] EXCEPT !.at = "failed"] /\ SameRemote /\ astray' = astray

\* an upload's name is taken
Meets(it, p) ==
  /\ work[it].at = "create" /\ p = [work[it] EXCEPT !.at = "find"]
  /\ SameRemote /\ astray' = astray

\* the upload will replace the file of its name
Finds(it, p) ==
  \E i \in DOMAIN remote :
    /\ remote[i].path = it.rel
    /\ work[it].at = "find" /\ p = [work[it] EXCEPT !.at = "replace", !.id = i]
    /\ SameRemote /\ astray' = (astray \/ Carried(i))

\* there is nothing to delete
Misses(it, p) ==
  /\ work[it].at = "remove" /\ work[it].id \notin DOMAIN remote
  /\ p = [work[it] EXCEPT !.at = "done", !.mtime = 0]
  /\ SameRemote /\ astray' = astray

\* a move has looked where its file is
Looks(it, p) ==
  LET f == remote[work[it].id] IN
  /\ work[it].at = "stat" /\ work[it].id \in DOMAIN remote
  /\ p = [at |-> AfterStat(it, f.path), id |-> work[it].id, mtime |-> f.mtime, path |-> f.path]
  /\ SameRemote /\ astray' = astray

\* a move has read what its file's mtime is at last
LooksAgain(it, p) ==
  /\ work[it].at = "restat" /\ work[it].id \in DOMAIN remote
  /\ p = [work[it] EXCEPT !.at = "done", !.mtime = remote[work[it].id].mtime]
  /\ SameRemote /\ astray' = astray

Makes(it, p) ==
  /\ work[it].at = "create" /\ Readable(it) /\ At(it.rel) = {}
  /\ remote' = Set(remote, nextId, FromLocal(it, it.rel, 1)) /\ nextId' = nextId + 1
  /\ \/ p = [work[it] EXCEPT !.at = "done", !.id = nextId, !.mtime = 1]
     \/ p = [work[it] EXCEPT !.at = "failed"]
     \/ p = [work[it] EXCEPT !.at = "find"]
  /\ UNCHANGED <<unseen, removed, astray>>

Replaces(it, p) ==
  LET id == work[it].id IN
  /\ work[it].at = "replace" /\ Readable(it) /\ id \in DOMAIN remote
  /\ remote' = [remote EXCEPT ![id] = [path |-> remote[id].path, size |-> it.size,
                                       mtime |-> remote[id].mtime + 1,
                                       data |-> local[it.rel].mtime]]
  /\ unseen' = unseen \ {id}
  /\ \/ p = [work[it] EXCEPT !.at = "done", !.mtime = remote[id].mtime + 1]
     \/ p = [work[it] EXCEPT !.at = "failed"]
  /\ UNCHANGED <<nextId, removed, astray>>

Removes(it, p) ==
  LET id == work[it].id IN
  /\ work[it].at = "remove" /\ id \in DOMAIN remote
  /\ remote' = Delete(remote, id) /\ removed' = removed + 1
  /\ \/ p = [work[it] EXCEPT !.at = "done", !.mtime = 0]
     \/ p = [work[it] EXCEPT !.at = "failed"]
  /\ UNCHANGED <<nextId, unseen, astray>>

\* the file goes to the folder of the item, then to its name, in the folder it is in
Relocates(it, p) ==
  LET id   == work[it].id
      was  == remote[id].path
      path == IF work[it].at = "move" THEN <<DirOf(it.rel), BaseOf(was)>>
              ELSE <<DirOf(was), BaseOf(it.rel)>>
  IN /\ work[it].at \in {"move", "rename"} /\ id \in DOMAIN remote /\ At(path) \subseteq {id}
     /\ remote' = [remote EXCEPT ![id].path = path]
     /\ \/ p = [work[it] EXCEPT !.at = "failed"]
        \/ /\ work[it].at = "move"
           /\ p = [work[it] EXCEPT !.at = IF BaseOf(work[it].path) # BaseOf(it.rel)
                                          THEN "rename" ELSE "restat"]
        \/ /\ work[it].at = "rename"
           /\ p = [work[it] EXCEPT !.at = "done", !.mtime = remote[id].mtime]
     /\ UNCHANGED <<nextId, unseen, removed, astray>>

Comes(it, p) ==
  \/ Fails(it, p) \/ Meets(it, p) \/ Finds(it, p) \/ Misses(it, p) \/ Looks(it, p)
  \/ LooksAgain(it, p) \/ Makes(it, p) \/ Replaces(it, p) \/ Removes(it, p) \/ Relocates(it, p)

\* What a call can come to: one of the outcomes above for its item, and nothing else of
\* the run is touched.
LEMMA Outcomes ==
  ASSUME Types, NEW it \in DOMAIN work, Call(it)
  PROVE  /\ Beside /\ (faults' = faults \/ faults' = faults + 1)
         /\ \E p : With(it, p) /\ Comes(it, p)
<1> DEFINE w == work[it]
<1>1. w \in Progress /\ work \in [DOMAIN work -> Progress]
  BY DEF Types, RunTyped
<1>2. \A a : Proceed(it, a) => With(it, [w EXCEPT !.at = a])
  BY <1>1 DEF Proceed, With, Progress
<1>3. \A i, t : Done(it, i, t) => With(it, [w EXCEPT !.at = "done", !.id = i, !.mtime = t])
  BY <1>1 DEF Done, With, Progress
<1>4. ASSUME CallFails(it)
      PROVE  Beside /\ \E p : With(it, p) /\ Comes(it, p)
  BY <1>4, <1>2 DEF CallFails, Comes, Fails, Elsewhere, SameRemote
<1>5. CASE Create(it)
  <2>1. CASE CallFails(it) /\ (NoFault \/ Faulty)
    BY <2>1, <1>4 DEF NoFault, Faulty
  <2>2. CASE InCall(it, "create") /\ Proceed(it, "find") /\ NoFault /\ SameRemote /\ Elsewhere
    BY <2>2, <1>2 DEF Comes, Meets, InCall, NoFault, Elsewhere
  <2>3. CASE /\ InCall(it, "create") /\ Readable(it) /\ At(it.rel) = {}
             /\ remote' = Set(remote, nextId, FromLocal(it, it.rel, 1))
             /\ nextId' = nextId + 1
             /\ \/ Done(it, nextId, 1) /\ NoFault
                \/ Proceed(it, "failed") /\ Faulty
                \/ Proceed(it, "find") /\ Faulty
             /\ UNCHANGED <<unseen, removed>> /\ Elsewhere
    BY <2>3, <1>2, <1>3 DEF Comes, Makes, InCall, NoFault, Faulty, Elsewhere
  <2> QED
    BY <1>5, <2>1, <2>2, <2>3 DEF Create, SameRemote
<1>6. CASE Find(it)
  <2>1. CASE CallFails(it) /\ (NoFault \/ Faulty)
    BY <2>1, <1>4 DEF NoFault, Faulty
  <2>2. ASSUME NEW i \in At(it.rel), work' = [work EXCEPT ![it].at = "replace", ![it].id = i],
               astray' = (astray \/ Carried(i)), NoFault, SameRemote, Beside, InCall(it, "find")
        PROVE  Beside /\ faults' = faults /\ \E p : With(it, p) /\ Comes(it, p)
    <3>1. With(it, [w EXCEPT !.at = "replace", !.id = i])
      BY <2>2, <1>1 DEF With, Progress
    <3>2. Finds(it, [w EXCEPT !.at = "replace", !.id = i])
      BY <2>2 DEF Finds, At, InCall
    <3> QED
      BY <2>2, <3>1, <3>2 DEF Comes, NoFault
  <2> QED
    BY <1>6, <2>1, <2>2 DEF Find, SameRemote
<1>7. CASE Replace(it)
  <2>1. CASE CallFails(it) /\ (NoFault \/ Faulty)
    BY <2>1, <1>4 DEF NoFault, Faulty
  <2>2. CASE /\ InCall(it, "replace") /\ Readable(it) /\ w.id \in DOMAIN remote
             /\ remote' = [remote EXCEPT ![w.id] = FromLocal(it, @.path, @.mtime + 1)]
             /\ unseen' = unseen \ {w.id}
             /\ \/ Done(it, w.id, remote[w.id].mtime + 1) /\ NoFault
                \/ Proceed(it, "failed") /\ Faulty
             /\ UNCHANGED <<nextId, removed>> /\ Elsewhere
    <3>1. remote' = [remote EXCEPT ![w.id] = [path |-> remote[w.id].path, size |-> it.size,
                                       mtime |-> remote[w.id].mtime + 1,
                                       data |-> local[it.rel].mtime]]
      BY <2>2 DEF FromLocal
    <3>2. [w EXCEPT !.at = "done", !.id = w.id, !.mtime = remote[w.id].mtime + 1]
            = [w EXCEPT !.at = "done", !.mtime = remote[w.id].mtime + 1]
      BY <1>1 DEF Progress
    <3> QED
      BY <2>2, <3>1, <3>2, <1>2, <1>3 DEF Comes, Replaces, InCall, NoFault, Faulty, Elsewhere
  <2> QED
    BY <1>7, <2>1, <2>2 DEF Replace
<1>8. CASE Remove(it)
  <2>0. [w EXCEPT !.at = "done", !.id = w.id, !.mtime = 0] = [w EXCEPT !.at = "done", !.mtime = 0]
    BY <1>1 DEF Progress
  <2>1. CASE CallFails(it) /\ (NoFault \/ Faulty)
    BY <2>1, <1>4 DEF NoFault, Faulty
  <2>2. CASE /\ InCall(it, "remove") /\ w.id \notin DOMAIN remote /\ Done(it, w.id, 0)
             /\ NoFault /\ SameRemote /\ Elsewhere
    BY <2>0, <2>2, <1>3 DEF Comes, Misses, InCall, NoFault, Elsewhere
  <2>3. CASE /\ InCall(it, "remove") /\ w.id \in DOMAIN remote
             /\ remote' = Delete(remote, w.id) /\ removed' = removed + 1
             /\ \/ Done(it, w.id, 0) /\ NoFault
                \/ Proceed(it, "failed") /\ Faulty
             /\ UNCHANGED <<nextId, unseen>> /\ Elsewhere
    BY <2>0, <2>3, <1>2, <1>3 DEF Comes, Removes, InCall, NoFault, Faulty, Elsewhere
  <2> QED
    BY <1>8, <2>1, <2>2, <2>3 DEF Remove, SameRemote
<1>9. CASE MoveStat(it)
  <2>1. CASE CallFails(it) /\ (NoFault \/ Faulty)
    BY <2>1, <1>4 DEF NoFault, Faulty
  <2>2. CASE /\ InCall(it, "stat") /\ w.id \in DOMAIN remote
             /\ work' = [work EXCEPT ![it] =
                           [at |-> AfterStat(it, remote[w.id].path), id |-> w.id,
                            mtime |-> remote[w.id].mtime, path |-> remote[w.id].path]]
             /\ NoFault /\ SameRemote /\ Elsewhere
    BY <2>2 DEF Comes, Looks, With, InCall, NoFault, Elsewhere
  <2> QED
    BY <1>9, <2>1, <2>2 DEF MoveStat, SameRemote
<1>10. CASE MoveRestat(it)
  <2>1. CASE CallFails(it) /\ (NoFault \/ Faulty)
    BY <2>1, <1>4 DEF NoFault, Faulty
  <2>2. CASE /\ InCall(it, "restat") /\ w.id \in DOMAIN remote
             /\ Done(it, w.id, remote[w.id].mtime)
             /\ NoFault /\ SameRemote /\ Elsewhere
    <3>1. [w EXCEPT !.at = "done", !.id = w.id, !.mtime = remote[w.id].mtime]
            = [w EXCEPT !.at = "done", !.mtime = remote[w.id].mtime]
      BY <1>1 DEF Progress
    <3> QED
      BY <2>2, <3>1, <1>3 DEF Comes, LooksAgain, InCall, NoFault, Elsewhere
  <2> QED
    BY <1>10, <2>1, <2>2 DEF MoveRestat, SameRemote
<1>11. CASE MoveCall(it)
  <2> DEFINE path == <<DirOf(it.rel), BaseOf(remote[w.id].path)>>
             next == IF BaseOf(w.path) # BaseOf(it.rel) THEN "rename" ELSE "restat"
  <2>1. CASE CallFails(it) /\ (NoFault \/ Faulty)
    BY <2>1, <1>4 DEF NoFault, Faulty
  <2>2. CASE /\ InCall(it, "move") /\ w.id \in DOMAIN remote /\ At(path) \subseteq {w.id}
             /\ remote' = [remote EXCEPT ![w.id].path = path]
             /\ \/ Proceed(it, next) /\ NoFault
                \/ Proceed(it, "failed") /\ Faulty
             /\ UNCHANGED <<nextId, unseen, removed>> /\ Elsewhere
    BY <2>2, <1>2 DEF Comes, Relocates, InCall, NoFault, Faulty, Elsewhere
  <2> QED
    BY <1>11, <2>1, <2>2 DEF MoveCall, Relocate
<1>12. CASE RenameCall(it)
  <2> DEFINE path == <<DirOf(remote[w.id].path), BaseOf(it.rel)>>
  <2>0. [w EXCEPT !.at = "done", !.id = w.id, !.mtime = remote[w.id].mtime]
            = [w EXCEPT !.at = "done", !.mtime = remote[w.id].mtime]
    BY <1>1 DEF Progress
  <2>1. CASE CallFails(it) /\ (NoFault \/ Faulty)
    BY <2>1, <1>4 DEF NoFault, Faulty
  <2>2. CASE /\ InCall(it, "rename") /\ w.id \in DOMAIN remote /\ At(path) \subseteq {w.id}
             /\ remote' = [remote EXCEPT ![w.id].path = path]
             /\ \/ Done(it, w.id, remote[w.id].mtime) /\ NoFault
                \/ Proceed(it, "failed") /\ Faulty
             /\ UNCHANGED <<nextId, unseen, removed>> /\ Elsewhere
    BY <2>0, <2>2, <1>2, <1>3 DEF Comes, Relocates, InCall, NoFault, Faulty, Elsewhere
  <2> QED
    BY <1>12, <2>1, <2>2 DEF RenameCall, Relocate
<1> QED
  BY <1>5, <1>6, <1>7, <1>8, <1>9, <1>10, <1>11, <1>12 DEF Call

-----------------------------------------------------------------------------
(* The plan                                                                 *)

\* An item is what the local tree and the manifest f say of its path, or paths.
Sound(it, f) ==
  /\ it.op # "move" => it.srcRel = it.rel
  /\ it.op \in {"upload", "move"} => it.rel \in DOMAIN local \ DOMAIN f
  /\ it.op = "upload" => it.remoteID = 0
  /\ it.op = "overwrite" => it.rel \in DOMAIN local /\ Touched(local[it.rel], f[it.rel])
  /\ it.op \in {"upload", "overwrite", "move"} =>
       it.size = local[it.rel].size /\ it.mtime = local[it.rel].mtime
  /\ it.op \in {"overwrite", "delete", "move"} =>
       it.srcRel \in DOMAIN f /\ it.remoteID = f[it.srcRel].remoteID
  /\ it.op \in {"delete", "move"} => it.srcRel \notin DOMAIN local
  /\ it.op = "move" => it.size = f[it.srcRel].size /\ it.mtime = f[it.srcRel].localMtime

\* the paths whose entries an item changes
Around(it) == {it.rel, it.srcRel}

OneEach(items) == \A a, b \in items : Around(a) \cap Around(b) # {} => a = b

\* PlanPush gives a path at most one item, and each item says what the tree and the
\* manifest say.
LEMMA PlanSound ==
  ASSUME Table(local, LocalFile), Sizes \subseteq Nat, NEW f, Table(f, ManifestEntry)
  PROVE  /\ PlanPush(local, f) \subseteq Item
         /\ \A it \in PlanPush(local, f) : Sound(it, f) /\ it.op # "move"
         /\ OneEach(PlanPush(local, f))
<1>1. ASSUME NEW r \in DOMAIN local \ DOMAIN f
      PROVE  UploadItem(r, local[r]) \in Item /\ Sound(UploadItem(r, local[r]), f)
  BY <1>1 DEF UploadItem, Item, Sound, Table, LocalFile
<1>2. ASSUME NEW r \in DOMAIN local \cap DOMAIN f, Touched(local[r], f[r])
      PROVE  OverwriteItem(r, local[r], f[r]) \in Item /\ Sound(OverwriteItem(r, local[r], f[r]), f)
  BY <1>2 DEF OverwriteItem, Item, Sound, Table, LocalFile, ManifestEntry
<1>3. ASSUME NEW r \in DOMAIN f \ DOMAIN local
      PROVE  DeleteItem(r, f[r]) \in Item /\ Sound(DeleteItem(r, f[r]), f)
  BY <1>3 DEF DeleteItem, Item, Sound, Table, LocalFile, ManifestEntry
<1>4. ASSUME NEW it \in PlanPush(local, f)
      PROVE  /\ it \in Item /\ Sound(it, f)
             /\ \/ it.rel \in DOMAIN local \ DOMAIN f /\ it = UploadItem(it.rel, local[it.rel])
                \/ /\ it.rel \in DOMAIN local \cap DOMAIN f
                   /\ it = OverwriteItem(it.rel, local[it.rel], f[it.rel])
                \/ it.rel \in DOMAIN f \ DOMAIN local /\ it = DeleteItem(it.rel, f[it.rel])
  BY <1>4, <1>1, <1>2, <1>3 DEF PlanPush, UploadItem, OverwriteItem, DeleteItem
<1>5. \A it \in PlanPush(local, f) : it.srcRel = it.rel /\ it.op # "move"
  BY <1>4 DEF UploadItem, OverwriteItem, DeleteItem
<1>6. \A a, b \in PlanPush(local, f) : a.rel = b.rel => a = b
  BY <1>4
<1> QED
  BY <1>4, <1>5, <1>6 DEF OneEach, Around

\* A pair of a move, and its uniqueness.
LEMMA PairFacts ==
  ASSUME NEW items, NEW f, NEW p \in MovePairs(items, f)
  PROVE  /\ p[1] \in items /\ p[2] \in items /\ p = <<p[1], p[2]>>
         /\ p[1].op = "upload" /\ p[2].op = "delete" /\ SameKey(p[1], p[2], f)
         /\ \A q \in MovePairs(items, f) : p[1] = q[1] \/ p[2] = q[2] => p = q
  BY DEF MovePairs, OfKind

\* So does a move, made of an upload and a delete that agree in size and mtime.
LEMMA MoveSound ==
  ASSUME Table(local, LocalFile), Sizes \subseteq Nat, NEW f, Table(f, ManifestEntry),
         NEW p \in MovePairs(PlanPush(local, f), f)
  PROVE  MoveItem(p[1], p[2], f[p[2].rel]) \in Item /\ Sound(MoveItem(p[1], p[2], f[p[2].rel]), f)
<1>1. /\ p[1] \in Item /\ p[2] \in Item /\ Sound(p[1], f) /\ Sound(p[2], f)
      /\ p[1].op = "upload" /\ p[2].op = "delete" /\ SameKey(p[1], p[2], f)
  BY PlanSound, PairFacts
<1>2. /\ p[1].rel \in DOMAIN local \ DOMAIN f /\ p[2].rel \in DOMAIN f \ DOMAIN local
      /\ p[1].size = local[p[1].rel].size /\ p[1].mtime = local[p[1].rel].mtime
  BY <1>1 DEF Sound
<1>3. f[p[2].rel] \in ManifestEntry
  BY <1>2 DEF Table
<1> QED
  BY <1>1, <1>2, <1>3 DEF MoveItem, Item, Sound, SameKey, ManifestEntry

\* So does the plan of a run, with whatever options; moves come of --detect-moves only.
LEMMA PlannedSound ==
  ASSUME Table(local, LocalFile), Sizes \subseteq Nat, NEW f, Table(f, ManifestEntry), NEW o
  PROVE  /\ Planned(o, f) \subseteq Item
         /\ \A it \in Planned(o, f) : Sound(it, f)
         /\ OneEach(Planned(o, f))
         /\ o.noDelete => \A it \in Planned(o, f) : it.op # "delete"
         /\ ~o.detectMoves => \A it \in Planned(o, f) : it.op # "move"
         /\ \A it \in Planned(o, f) : it.op = "delete" => it \in PlanPush(local, f)
<1> DEFINE plan  == PlanPush(local, f)
           pairs == MovePairs(plan, f)
           moved == DetectMoves(plan, f)
           Move(p) == MoveItem(p[1], p[2], f[p[2].rel])
<1>1. \A it \in plan : it \in Item /\ Sound(it, f) /\ it.op # "move"
  BY PlanSound
<1>2. \A p \in pairs : Move(p) \in Item /\ Sound(Move(p), f) /\ Move(p).op = "move"
  BY MoveSound DEF MoveItem
<1>3. \A it \in moved : \/ it \in plan /\ \A p \in pairs : it # p[1] /\ it # p[2]
                        \/ \E p \in pairs : it = Move(p)
  BY DEF DetectMoves
<1>4. \A p \in pairs : Move(p).rel = p[1].rel /\ Move(p).srcRel = p[2].rel
  BY DEF MoveItem
<1>5. \A p \in pairs : p[1] \in plan /\ p[2] \in plan /\ p[1].srcRel = p[1].rel /\ p[2].srcRel = p[2].rel
                       /\ p[1].rel \in DOMAIN local /\ p[2].rel \notin DOMAIN local
  BY PairFacts, PlanSound DEF Sound
<1>6. ASSUME NEW a \in moved, NEW b \in moved, Around(a) \cap Around(b) # {}
      PROVE  a = b
  <2>1. CASE a \in plan /\ b \in plan
    BY <2>1, <1>6, PlanSound DEF OneEach
  <2>2. ASSUME NEW p \in pairs, NEW q \in pairs, a = Move(p), b = Move(q)
        PROVE  a = b
    <3>1. p[1].rel = q[1].rel \/ p[2].rel = q[2].rel
      BY <2>2, <1>4, <1>5, <1>6 DEF Around
    <3>2. p[1] = q[1] \/ p[2] = q[2]
      BY <3>1, <1>5, PlanSound DEF OneEach, Around
    <3> QED
      BY <3>2, <2>2, PairFacts
  <2>3. ASSUME NEW x \in plan, NEW p \in pairs, x # p[1], x # p[2]
        PROVE  Around(x) \cap Around(Move(p)) = {}
    <3>1. x.srcRel = x.rel
      BY <1>1 DEF Sound
    <3>2. x.rel # p[1].rel /\ x.rel # p[2].rel
      BY <3>1, <2>3, <1>5, PlanSound DEF OneEach, Around
    <3> QED
      BY <3>1, <3>2, <1>4 DEF Around
  <2>4. Around(a) \cap Around(b) = Around(b) \cap Around(a)
    OBVIOUS
  <2> HIDE DEF pairs, plan, Move, moved
  <2> QED
    BY <1>6, <2>1, <2>2, <2>3, <2>4, <1>3
<1>7. /\ moved \subseteq Item /\ \A it \in moved : Sound(it, f)
      /\ \A it \in moved : it.op = "delete" => it \in plan
  BY <1>1, <1>2, <1>3
<1>8. /\ plan \subseteq Item /\ OneEach(plan) /\ OneEach(moved)
  BY <1>6, PlanSound DEF OneEach
<1>9. \/ Planned(o, f) = plan /\ ~o.noDelete
      \/ Planned(o, f) = moved /\ o.detectMoves /\ ~o.noDelete
      \/ Planned(o, f) = DropDeletes(plan) /\ o.noDelete
  BY DEF Planned
<1>10. plan = PlanPush(local, f)
  OBVIOUS
<1> HIDE DEF plan, moved
<1> QED
  BY <1>1, <1>7, <1>8, <1>9, <1>10 DEF DropDeletes, OneEach

-----------------------------------------------------------------------------
(* The beginning of a run                                                   *)

\* the manifest in memory when the plan is made, and the entries an index gave
Base(o) == IF MustIndex(o) THEN Bootstrap(disk, Index, local) ELSE disk

Seeded(o) == IF MustIndex(o) THEN DOMAIN local \cap DOMAIN Index ELSE {}

\* The index has each path in the folder, with a file that is there.
LEMMA IndexFacts ==
  /\ DOMAIN Index = {remote[i].path : i \in DOMAIN remote}
  /\ \A r \in DOMAIN Index :
       /\ Index[r].id \in DOMAIN remote /\ remote[Index[r].id].path = r
       /\ Index[r].size = remote[Index[r].id].size /\ Index[r].mtime = remote[Index[r].id].mtime
<1>1. DOMAIN Index = {remote[i].path : i \in DOMAIN remote}
  BY DEF Index
<1>2. ASSUME NEW r \in DOMAIN Index
      PROVE  /\ Index[r].id \in DOMAIN remote /\ remote[Index[r].id].path = r
             /\ Index[r].size = remote[Index[r].id].size
             /\ Index[r].mtime = remote[Index[r].id].mtime
  <2> DEFINE i == CHOOSE j \in At(r) : TRUE
  <2>1. Index[r] = [id |-> i, size |-> remote[i].size, mtime |-> remote[i].mtime]
    BY <1>1 DEF Index
  <2>2. \E j : j \in At(r)
    BY <1>1 DEF At
  <2>3. i \in At(r)
    BY <2>2
  <2> HIDE DEF i
  <2> QED
    BY <2>1, <2>3 DEF At
<1> QED
  BY <1>1, <1>2

\* Entries are the saved ones, but for those of local files found in the index.
LEMMA BaseFacts ==
  ASSUME Types, NEW o
  PROVE  /\ Table(Base(o), ManifestEntry)
         /\ DOMAIN Base(o) = DOMAIN disk \cup Seeded(o)
         /\ Seeded(o) \subseteq DOMAIN local \cap DOMAIN Index
         /\ \A r \in DOMAIN Base(o) \ Seeded(o) : Base(o)[r] = disk[r]
         /\ \A r \in Seeded(o) : Base(o)[r] = [size |-> Index[r].size, localMtime |-> local[r].mtime,
                                               remoteID |-> Index[r].id, remoteMtime |-> Index[r].mtime]
<1>1. Table(disk, ManifestEntry) /\ Table(local, LocalFile) /\ Sizes \subseteq Nat
  BY World DEF Types, TreesTyped
<1>2. CASE ~MustIndex(o)
  BY <1>1, <1>2 DEF Base, Seeded
<1>3. CASE MustIndex(o)
  <2> DEFINE S == DOMAIN local \cap DOMAIN Index
             e(r) == [size |-> Index[r].size, localMtime |-> local[r].mtime,
                      remoteID |-> Index[r].id, remoteMtime |-> Index[r].mtime]
  <2>1. \A r \in S : e(r) \in ManifestEntry
    <3> SUFFICES ASSUME NEW r \in S PROVE e(r) \in ManifestEntry
      OBVIOUS
    <3>1. local[r].mtime \in Nat
      BY <1>1 DEF Table, LocalFile
    <3>2. Index[r].id \in DOMAIN remote /\ remote[Index[r].id] \in RemoteFile
      BY IndexFacts DEF Types, TreesTyped
    <3>3. Index[r].id \in Nat /\ Index[r].size \in Nat /\ Index[r].mtime \in Nat
      BY <3>2, IndexFacts DEF Types, TreesTyped, RemoteFile
    <3> QED
      BY <3>1, <3>3 DEF ManifestEntry
  <2>2. Base(o) = [r \in DOMAIN disk \cup S |-> IF r \in S THEN e(r) ELSE disk[r]] /\ Seeded(o) = S
    BY <1>3 DEF Base, Seeded, Bootstrap, Entry
  <2>3. IsFiniteSet(S) /\ S \subseteq Spots
    BY <1>1, FS_Subset DEF Table
  <2>4. IsFiniteSet(DOMAIN disk \cup S)
    BY <1>1, <2>3, FS_Union DEF Table
  <2> HIDE DEF S, e
  <2>5. DOMAIN Base(o) = DOMAIN disk \cup S
    BY <2>2
  <2>6. Base(o) \in [DOMAIN disk \cup S -> ManifestEntry]
    BY <2>1, <2>2, <1>1 DEF Table
  <2>7. Table(Base(o), ManifestEntry)
    BY <2>3, <2>4, <2>5, <2>6, <1>1 DEF Table
  <2> QED
    BY <2>2, <2>5, <2>7 DEF S, e
<1> QED
  BY <1>2, <1>3

\* What is planned, and what of it is stat'ed first.
LEMMA BeginFacts ==
  ASSUME Types, NEW o \in Options, Begin(o)
  PROVE  /\ phase = "idle" /\ phase' = "drift" /\ opts' = o /\ m' = Base(o)
         /\ todo' \cup waiting' = Planned(o, Base(o)) /\ todo' \cap waiting' = {}
         /\ \A it \in waiting' : o.force \/ it.op \in {"upload", "move"}
         /\ \A it \in todo' : it.op \in {"overwrite", "delete"}
         /\ adopted' = adopted \cup Seeded(o)
         /\ unseen' = unseen \ {Index[r].id : r \in Seeded(o)}
         /\ removed' = 0 /\ dirty' = FALSE /\ clean' = FALSE
         /\ UNCHANGED <<setting, local, remote, nextId, disk, work, since, failures, skipped,
                        clock, foreign, faults, crashes, baseline, astray>>
         /\ todo' \cup waiting' \subseteq Item
         /\ \A it \in todo' \cup waiting' : Sound(it, Base(o))
         /\ OneEach(todo' \cup waiting')
<1>1. Begin(o) <=>
        /\ phase = "idle"
        /\ runs < MaxRuns
        /\ runs' = runs + 1
        /\ opts' = o
        /\ m' = Base(o)
        /\ phase' = "drift"
        /\ todo' = {it \in Planned(o, Base(o)) : NeedsCheck(o, it)}
        /\ waiting' = {it \in Planned(o, Base(o)) : ~NeedsCheck(o, it)}
        /\ adopted' = adopted \cup Seeded(o)
        /\ unseen' = unseen \ {Index[r].id : r \in Seeded(o)}
        /\ dirty' = FALSE /\ clean' = FALSE /\ removed' = 0
        /\ UNCHANGED <<setting, local, remote, nextId, disk, work, since, failures, skipped,
                       clock, foreign, faults, crashes, baseline, astray>>
  BY DEF Begin, Base, Seeded
<1>2. Table(local, LocalFile) /\ Sizes \subseteq Nat /\ Table(Base(o), ManifestEntry)
  BY World, BaseFacts DEF Types, TreesTyped
<1>3. /\ Planned(o, Base(o)) \subseteq Item /\ OneEach(Planned(o, Base(o)))
      /\ \A it \in Planned(o, Base(o)) : Sound(it, Base(o))
  BY <1>2, PlannedSound
<1>4. todo' \cup waiting' = Planned(o, Base(o)) /\ todo' \cap waiting' = {}
  BY <1>1
<1>5. /\ \A it \in waiting' : o.force \/ it.op \in {"upload", "move"}
      /\ \A it \in todo' : it.op \in {"overwrite", "delete"}
  BY <1>1, <1>3 DEF NeedsCheck, Item
<1> QED
  BY <1>1, <1>3, <1>4, <1>5

-----------------------------------------------------------------------------
(* Types, and where items are                                               *)

\* a call takes an item to where it fits
LEMMA Steps ==
  ASSUME Types, NEW it \in DOMAIN work, NEW p, Comes(it, p)
  PROVE  p \in Progress /\ Fits(it, p)
<1> DEFINE w == work[it]
<1>1. w \in Progress /\ Fits(it, w) /\ it \in Item
  BY DEF Types, RunTyped, Phases
<1>2. remote \in [DOMAIN remote -> RemoteFile] /\ DOMAIN remote \subseteq Nat /\ nextId \in Nat
  BY DEF Types, TreesTyped
<1>3. CASE Fails(it, p)
  BY <1>1, <1>3 DEF Fails, Progress, Fits, Item
<1>4. CASE Meets(it, p)
  BY <1>1, <1>4 DEF Meets, Progress, Fits, Item
<1>5. CASE Finds(it, p)
  <2> PICK i \in DOMAIN remote : p = [w EXCEPT !.at = "replace", !.id = i] /\ w.at = "find"
    BY <1>5 DEF Finds
  <2> QED
    BY <1>1, <1>2 DEF Progress, Fits, Item
<1>6. CASE Misses(it, p)
  BY <1>1, <1>6 DEF Misses, Progress, Fits, Item
<1>7. CASE Looks(it, p)
  <2> DEFINE f == remote[w.id]
  <2>1. w.at = "stat" /\ f \in RemoteFile
        /\ p = [at |-> AfterStat(it, f.path), id |-> w.id, mtime |-> f.mtime, path |-> f.path]
    BY <1>2, <1>7 DEF Looks
  <2>2. AfterStat(it, f.path) \in {"move", "rename", "done"}
    BY DEF AfterStat
  <2> HIDE DEF f
  <2> QED
    BY <2>1, <2>2, <1>1 DEF RemoteFile, Progress, Fits, Item
<1>8. CASE LooksAgain(it, p)
  <2>1. w.at = "restat" /\ remote[w.id].mtime \in Nat
        /\ p = [w EXCEPT !.at = "done", !.mtime = remote[w.id].mtime]
    BY <1>2, <1>8 DEF LooksAgain, RemoteFile
  <2> QED
    BY <2>1, <1>1 DEF Progress, Fits, Item
<1>9. CASE Makes(it, p)
  <2>1. w.at = "create" /\ \/ p = [w EXCEPT !.at = "done", !.id = nextId, !.mtime = 1]
                           \/ p = [w EXCEPT !.at = "failed"]
                           \/ p = [w EXCEPT !.at = "find"]
    BY <1>9 DEF Makes
  <2>2. it.op = "upload"
    BY <2>1, <1>1 DEF Fits, Item
  <2>3. p \in Progress /\ p.at \in {"done", "failed", "find"}
    <3>1. CASE p = [w EXCEPT !.at = "done", !.id = nextId, !.mtime = 1]
      BY <3>1, <1>1, <1>2 DEF Progress
    <3>2. CASE \E a \in {"failed", "find"} : p = [w EXCEPT !.at = a]
      BY <3>2, <1>1 DEF Progress
    <3> QED
      BY <2>1, <3>1, <3>2
  <2> QED
    BY <2>2, <2>3 DEF Fits
<1>10. CASE Replaces(it, p)
  <2>1. /\ w.at = "replace" /\ remote[w.id].mtime + 1 \in Nat
        /\ \/ p = [w EXCEPT !.at = "done", !.mtime = remote[w.id].mtime + 1]
           \/ p = [w EXCEPT !.at = "failed"]
    BY <1>2, <1>10 DEF Replaces, RemoteFile
  <2> QED
    BY <2>1, <1>1 DEF Progress, Fits, Item
<1>11. CASE Removes(it, p)
  <2>1. /\ w.at = "remove"
        /\ \/ p = [w EXCEPT !.at = "done", !.mtime = 0]
           \/ p = [w EXCEPT !.at = "failed"]
    BY <1>11 DEF Removes
  <2>2. it.op = "delete"
    BY <2>1, <1>1 DEF Fits, Item
  <2>3. p \in Progress /\ p.at \in {"done", "failed"} /\ p.id = w.id
    <3>1. CASE p = [w EXCEPT !.at = "done", !.mtime = 0]
      BY <3>1, <1>1 DEF Progress
    <3>2. CASE p = [w EXCEPT !.at = "failed"]
      BY <3>2, <1>1 DEF Progress
    <3> QED
      BY <2>1, <3>1, <3>2
  <2> QED
    BY <2>2, <2>3, <1>1 DEF Fits
<1>12. CASE Relocates(it, p)
  <2>1. w.at \in {"move", "rename"} /\ remote[w.id].mtime \in Nat
    BY <1>2, <1>12 DEF Relocates, RemoteFile
  <2>2. \/ p = [w EXCEPT !.at = "failed"]
        \/ w.at = "move" /\ \E a \in {"rename", "restat"} : p = [w EXCEPT !.at = a]
        \/ w.at = "rename" /\ p = [w EXCEPT !.at = "done", !.mtime = remote[w.id].mtime]
    BY <1>12 DEF Relocates
  <2> QED
    BY <2>1, <2>2, <1>1 DEF Progress, Fits, Item
<1> QED
  BY <1>3, <1>4, <1>5, <1>6, <1>7, <1>8, <1>9, <1>10, <1>11, <1>12 DEF Comes

\* A remote folder after a call.
LEMMA RemoteTyped ==
  ASSUME Types, NEW it \in DOMAIN work, NEW p, Comes(it, p)
  PROVE  /\ remote' \in [DOMAIN remote' -> RemoteFile]
         /\ nextId' \in Nat \ {0} /\ DOMAIN remote' \subseteq 1..(nextId' - 1)
         /\ nextId' >= nextId
         /\ removed' \in Nat
<1> DEFINE w == work[it]
<1>1. w \in Progress /\ it \in Item
  BY DEF Types, RunTyped
<1>2. /\ remote \in [DOMAIN remote -> RemoteFile] /\ DOMAIN remote \subseteq 1..(nextId - 1)
      /\ nextId \in Nat \ {0} /\ removed \in Nat
  BY DEF Types, TreesTyped, RunTyped
<1>3. CASE SameRemote
  BY <1>2, <1>3 DEF SameRemote
<1>4. ASSUME Readable(it)
      PROVE  it.size \in Nat /\ local[it.rel].mtime \in Nat
  BY <1>1, <1>4 DEF Readable, Types, TreesTyped, Table, LocalFile, Item
<1>5. CASE Makes(it, p)
  <2> DEFINE new == FromLocal(it, it.rel, 1)
  <2>1. new \in RemoteFile
    BY <1>1, <1>4, <1>5 DEF Makes, FromLocal, RemoteFile, Item
  <2>2. remote' = Set(remote, nextId, new) /\ nextId' = nextId + 1 /\ removed' = removed
    BY <1>5 DEF Makes
  <2> HIDE DEF new
  <2>3. nextId \in 1..(nextId' - 1) /\ 1..(nextId - 1) \subseteq 1..(nextId' - 1)
    BY <2>2, <1>2
  <2> QED
    BY <2>1, <2>2, <2>3, <1>2 DEF Set
<1>6. CASE Replaces(it, p)
  <2> DEFINE new == [path |-> remote[w.id].path, size |-> it.size,
                     mtime |-> remote[w.id].mtime + 1, data |-> local[it.rel].mtime]
  <2>1. w.id \in DOMAIN remote /\ remote[w.id] \in RemoteFile
    BY <1>2, <1>6 DEF Replaces
  <2>2. new \in RemoteFile
    BY <2>1, <1>4, <1>6 DEF Replaces, RemoteFile
  <2>3. remote' = [remote EXCEPT ![w.id] = new] /\ UNCHANGED <<nextId, removed>>
    BY <1>6 DEF Replaces
  <2> HIDE DEF new
  <2>4. remote' \in [DOMAIN remote -> RemoteFile]
    BY <2>2, <2>3, <1>2
  <2> QED
    BY <2>3, <2>4, <1>2
<1>7. CASE Removes(it, p)
  BY <1>2, <1>7 DEF Removes, Delete
<1>8. CASE Relocates(it, p)
  <2> DEFINE path == IF w.at = "move" THEN <<DirOf(it.rel), BaseOf(remote[w.id].path)>>
                     ELSE <<DirOf(remote[w.id].path), BaseOf(it.rel)>>
  <2>1. path \in Spots
    <3>1. remote[w.id].path \in Spots
      BY <1>2, <1>8 DEF Relocates, RemoteFile
    <3> QED
      BY <1>1, <3>1 DEF Item, Spots, DirOf, BaseOf
  <2>2. remote' = [remote EXCEPT ![w.id].path = path] /\ UNCHANGED <<nextId, removed>>
    BY <1>8 DEF Relocates
  <2> HIDE DEF path
  <2>3. remote' \in [DOMAIN remote -> RemoteFile]
    BY <2>1, <2>2, <1>2 DEF RemoteFile
  <2> QED
    BY <2>2, <2>3, <1>2
<1> QED
  BY <1>3, <1>5, <1>6, <1>7, <1>8 DEF Comes, Fails, Meets, Finds, Misses, Looks, LooksAgain

\* The start of the world has its types.
LEMMA Starts ==
  ASSUME Init
  PROVE  Types
<1> DEFINE tree == DOMAIN StartTree
           N == Cardinality(tree)
<1>0. /\ setting \in DOMAIN Settings
      /\ local = StartTree
      /\ IF Synced
         THEN /\ remote = [i \in {StartTree[r].mtime : r \in tree} |->
                             LET r == CHOOSE q \in tree : StartTree[q].mtime = i
                             IN [path |-> r, size |-> StartTree[r].size, mtime |-> 1, data |-> i]]
              /\ disk = [r \in tree |-> StartEntry(r)]
         ELSE remote = Empty /\ disk = Empty
      /\ nextId = N + 1 /\ m = disk /\ phase = "idle" /\ todo = {} /\ waiting = {}
      /\ work = Empty /\ since = 0 /\ clock = N /\ foreign = 0 /\ runs = 0 /\ faults = 0
      /\ crashes = 0 /\ removed = 0 /\ baseline = 0
  BY DEF Init
<1>1. /\ tree \subseteq Spots /\ IsFiniteSet(tree) /\ Sizes \subseteq Nat
      /\ StartTree \in [tree -> [size : Sizes, mtime : 1..N]]
  BY <1>0, World
<1>2. N \in Nat
  BY <1>1, FS_CardinalityType
<1>3. Table(Empty, ManifestEntry) /\ Empty \in [DOMAIN Empty -> RemoteFile]
      /\ Empty \in [DOMAIN Empty -> Progress] /\ DOMAIN Empty = {}
  <2>1. DOMAIN Empty = {} /\ \A S : Empty \in [{} -> S]
    BY DEF Empty
  <2> QED
    BY <2>1, FS_EmptySet DEF Table
<1>4. \A r \in tree : StartTree[r] \in LocalFile
  BY <1>1, <1>2 DEF LocalFile
<1>5. Table(local, LocalFile)
  BY <1>0, <1>1, <1>4 DEF Table
<1>6. \A r \in tree : StartEntry(r) \in ManifestEntry
  <2> SUFFICES ASSUME NEW r \in tree PROVE StartEntry(r) \in ManifestEntry
    OBVIOUS
  <2>1. StartTree[r] \in LocalFile
    BY <1>4
  <2>2. StartTree[r].size \in Sizes /\ StartTree[r].mtime \in Nat
    BY <2>1 DEF LocalFile
  <2>3. StartTree[r].size \in Nat
    BY <2>2, <1>1
  <2> QED
    BY <2>2, <2>3 DEF StartEntry, Entry, ManifestEntry
<1>7. Table(disk, ManifestEntry)
  <2>1. CASE ~Synced
    BY <1>0, <1>3, <2>1
  <2>2. CASE Synced
    <3>1. disk = [r \in tree |-> StartEntry(r)]
      BY <1>0, <2>2
    <3>2. DOMAIN disk = tree /\ disk \in [tree -> ManifestEntry]
      BY <3>1, <1>6
    <3> QED
      BY <3>2, <1>1 DEF Table
  <2> QED
    BY <2>1, <2>2
<1>8. remote \in [DOMAIN remote -> RemoteFile] /\ DOMAIN remote \subseteq 1..(nextId - 1)
  <2>1. CASE ~Synced
    BY <1>0, <1>3, <2>1
  <2>2. CASE Synced
    <3> DEFINE I == {StartTree[r].mtime : r \in tree}
               R(i) == CHOOSE q \in tree : StartTree[q].mtime = i
    <3>1. remote = [i \in I |-> [path |-> R(i), size |-> StartTree[R(i)].size, mtime |-> 1,
                                 data |-> i]]
      BY <1>0, <2>2
    <3>2. I \subseteq 1..N
      BY <1>1
    <3>3. \A i \in I : R(i) \in tree
      <4> SUFFICES ASSUME NEW i \in I PROVE R(i) \in tree
        OBVIOUS
      <4>1. \E q \in tree : StartTree[q].mtime = i
        OBVIOUS
      <4> QED
        BY <4>1
    <3> HIDE DEF I, R
    <3>4. \A i \in I : [path |-> R(i), size |-> StartTree[R(i)].size, mtime |-> 1, data |-> i]
                         \in RemoteFile
      BY <3>2, <3>3, <1>1, <1>2 DEF RemoteFile
    <3> QED
      BY <3>1, <3>2, <3>4, <1>0, <1>2
  <2> QED
    BY <2>1, <2>2
<1>9. TreesTyped
  BY <1>0, <1>2, <1>5, <1>7, <1>8 DEF TreesTyped
<1>10. RunTyped /\ Phases
  BY <1>0, <1>2, <1>3 DEF RunTyped, Phases
<1> QED
  BY <1>9, <1>10 DEF Types

\* Everyone else's steps.
Edit == \E r \in Rels : LocalWrite(r) \/ LocalRemove(r) \/ \E q \in Rels : LocalRename(r, q)

Other == \/ \E r \in Rels : ForeignCreate(r)
         \/ \E i \in DOMAIN remote : ForeignWrite(i) \/ ForeignRemove(i)

\* An edit of the user changes the local tree, and nothing else but the clock.
LEMMA EditFacts ==
  ASSUME Types, Edit
  PROVE  /\ Table(local', LocalFile)
         /\ LocalInRun \/ phase = "idle"
         /\ clock' = clock + 1 /\ clean' = FALSE /\ dirty' = TRUE
         /\ UNCHANGED <<setting, remote, nextId, disk, m, run, foreign, runs, faults, crashes,
                        unseen, adopted, baseline, removed, astray>>
<1>1. Table(local, LocalFile) /\ Rels \subseteq Spots /\ Sizes \subseteq Nat /\ clock \in Nat
  BY World DEF Types, TreesTyped, RunTyped
<1>2. LocalEdit
  BY DEF Edit, LocalWrite, LocalRemove, LocalRename
<1>3. Table(local', LocalFile)
  <2>1. ASSUME NEW r \in Rels, LocalWrite(r)
        PROVE  Table(local', LocalFile)
    <3>1. PICK s \in Sizes : local' = Set(local, r, [size |-> s, mtime |-> clock + 1])
      BY <2>1 DEF LocalWrite
    <3>2. [size |-> s, mtime |-> clock + 1] \in LocalFile
      BY <1>1 DEF LocalFile
    <3> QED
      BY <3>1, <3>2, <1>1, SetTable
  <2>2. ASSUME NEW r \in Rels, LocalRemove(r)
        PROVE  Table(local', LocalFile)
    BY <2>2, <1>1, DeleteTable DEF LocalRemove
  <2>3. ASSUME NEW r \in Rels, NEW q \in Rels, LocalRename(r, q)
        PROVE  Table(local', LocalFile)
    <3>1. local' = Set(Delete(local, r), q, local[r]) /\ local[r] \in LocalFile /\ q \in Spots
      BY <2>3, <1>1 DEF LocalRename, Table
    <3>2. Table(Delete(local, r), LocalFile)
      BY <1>1, DeleteTable
    <3> QED
      BY <3>1, <3>2, SetTable
  <2> QED
    BY <2>1, <2>2, <2>3 DEF Edit
<1> QED
  BY <1>2, <1>3 DEF LocalEdit, Edited

\* The file another client makes, writes or removes is one the index has yet to see.
LEMMA OtherFacts ==
  ASSUME Types, Other
  PROVE  /\ ForeignInRun \/ phase = "idle"
         /\ foreign < MaxForeign /\ foreign' = foreign + 1
         /\ clean' = FALSE /\ dirty' = TRUE
         /\ UNCHANGED <<setting, local, disk, m, run, clock, runs, faults, crashes, adopted,
                        baseline, removed, astray>>
         /\ \E i :
              /\ unseen' = unseen \cup {i}
              /\ \/ /\ i = nextId /\ nextId' = nextId + 1
                    /\ \E r \in Rels, new \in RemoteFile :
                         At(r) = {} /\ new.path = r /\ remote' = Set(remote, nextId, new)
                 \/ /\ i \in DOMAIN remote /\ nextId' = nextId
                    /\ \E s \in Nat : remote' = [remote EXCEPT ![i].size = s, ![i].mtime = @ + 1,
                                                               ![i].data = 0]
                 \/ i \in DOMAIN remote /\ nextId' = nextId /\ remote' = Delete(remote, i)
<1>1. Rels \subseteq Spots /\ Sizes \subseteq Nat
  BY World DEF Types, TreesTyped
<1>2. ASSUME NEW r \in Rels, ForeignCreate(r)
      PROVE  /\ ForeignEdit(nextId) /\ nextId' = nextId + 1
             /\ \E new \in RemoteFile :
                  At(r) = {} /\ new.path = r /\ remote' = Set(remote, nextId, new)
  <2>1. PICK s \in Sizes :
          remote' = Set(remote, nextId, [path |-> r, size |-> s, mtime |-> 1, data |-> 0])
    BY <1>2 DEF ForeignCreate
  <2>2. [path |-> r, size |-> s, mtime |-> 1, data |-> 0] \in RemoteFile
    BY <1>1 DEF RemoteFile
  <2> QED
    BY <1>2, <2>1, <2>2 DEF ForeignCreate
<1>3. ASSUME NEW i \in DOMAIN remote, ForeignWrite(i)
      PROVE  /\ ForeignEdit(i) /\ nextId' = nextId
             /\ \E s \in Nat : remote' = [remote EXCEPT ![i].size = s, ![i].mtime = @ + 1,
                                                        ![i].data = 0]
  BY <1>1, <1>3 DEF ForeignWrite
<1>4. ASSUME NEW i \in DOMAIN remote, ForeignRemove(i)
      PROVE  ForeignEdit(i) /\ nextId' = nextId /\ remote' = Delete(remote, i)
  BY <1>4 DEF ForeignRemove
<1>5. PICK i : ForeignEdit(i)
  BY <1>2, <1>3, <1>4 DEF Other
<1>6. /\ ForeignInRun \/ phase = "idle"
      /\ foreign < MaxForeign /\ foreign' = foreign + 1
      /\ clean' = FALSE /\ dirty' = TRUE
      /\ UNCHANGED <<setting, local, disk, m, run, clock, runs, faults, crashes, adopted,
                     baseline, removed, astray>>
  BY <1>5 DEF ForeignEdit, Edited
<1>7. \A k : ForeignEdit(k) => unseen' = unseen \cup {k}
  BY DEF ForeignEdit
<1>8. \E k :
        /\ unseen' = unseen \cup {k}
        /\ \/ /\ k = nextId /\ nextId' = nextId + 1
              /\ \E r \in Rels, new \in RemoteFile :
                   At(r) = {} /\ new.path = r /\ remote' = Set(remote, nextId, new)
           \/ /\ k \in DOMAIN remote /\ nextId' = nextId
              /\ \E s \in Nat : remote' = [remote EXCEPT ![k].size = s, ![k].mtime = @ + 1,
                                                         ![k].data = 0]
           \/ k \in DOMAIN remote /\ nextId' = nextId /\ remote' = Delete(remote, k)
  BY <1>2, <1>3, <1>4, <1>7 DEF Other
<1> QED
  BY <1>6, <1>8

\* The folder keeps its types when another client changes it.
LEMMA OtherTyped ==
  ASSUME Types, Other
  PROVE  TreesTyped'
<1>1. /\ setting \in DOMAIN Settings /\ Table(local, LocalFile)
      /\ Table(m, ManifestEntry) /\ Table(disk, ManifestEntry)
      /\ UNCHANGED <<setting, local, disk, m>>
  BY OtherFacts DEF Types, TreesTyped
<1>2. /\ remote \in [DOMAIN remote -> RemoteFile] /\ DOMAIN remote \subseteq 1..(nextId - 1)
      /\ nextId \in Nat \ {0}
  BY DEF Types, TreesTyped
<1>3. ASSUME NEW new \in RemoteFile, remote' = Set(remote, nextId, new), nextId' = nextId + 1
      PROVE  /\ remote' \in [DOMAIN remote' -> RemoteFile]
             /\ nextId' \in Nat \ {0} /\ DOMAIN remote' \subseteq 1..(nextId' - 1)
  <2>1. nextId \in 1..(nextId' - 1) /\ 1..(nextId - 1) \subseteq 1..(nextId' - 1)
    BY <1>2, <1>3
  <2> QED
    BY <1>2, <1>3, <2>1 DEF Set
<1>4. ASSUME NEW i \in DOMAIN remote, NEW s \in Nat, nextId' = nextId,
             remote' = [remote EXCEPT ![i].size = s, ![i].mtime = @ + 1, ![i].data = 0]
      PROVE  /\ remote' \in [DOMAIN remote' -> RemoteFile]
             /\ nextId' \in Nat \ {0} /\ DOMAIN remote' \subseteq 1..(nextId' - 1)
  <2>1. remote' \in [DOMAIN remote -> RemoteFile]
    BY <1>2, <1>4 DEF RemoteFile
  <2> QED
    BY <1>2, <1>4, <2>1
<1>5. ASSUME NEW i \in DOMAIN remote, remote' = Delete(remote, i), nextId' = nextId
      PROVE  /\ remote' \in [DOMAIN remote' -> RemoteFile]
             /\ nextId' \in Nat \ {0} /\ DOMAIN remote' \subseteq 1..(nextId' - 1)
  BY <1>2, <1>5 DEF Delete
<1>6. /\ remote' \in [DOMAIN remote' -> RemoteFile]
      /\ nextId' \in Nat \ {0} /\ DOMAIN remote' \subseteq 1..(nextId' - 1)
  BY <1>3, <1>4, <1>5, OtherFacts
<1> QED
  BY <1>1, <1>6 DEF TreesTyped

\* A run that goes on past the guard.
Goes == /\ phase = "drift" /\ todo = {} /\ ~opts.dryRun
        /\ DeletesAllowed(Cardinality(OfKind(waiting, "delete")), Cardinality(DOMAIN m),
                          Percent, opts.force)
        /\ phase' = "run" /\ baseline' = Cardinality(DOMAIN m)
        /\ UNCHANGED <<setting, local, remote, nextId, disk, m, opts, todo, waiting, work, since,
                       failures, skipped, bounds, unseen, adopted, dirty, removed, clean, astray>>

\* A run that ends, its manifest saved or lost.
Ends == /\ phase # "idle"
        /\ Abandon
        /\ \/ disk' = m /\ m' = m /\ phase = "run" /\ waiting = {} /\ DOMAIN work = {}
              /\ clean' = (~failures /\ skipped = {} /\ ~opts.noDelete /\ ~dirty)
           \/ /\ disk' = disk /\ m' = disk /\ clean' = clean
              /\ phase = "drift" \/ faults' = faults + 1 \/ crashes' = crashes + 1
        /\ faults' \in {faults, faults + 1} /\ crashes' \in {crashes, crashes + 1}
        /\ UNCHANGED <<setting, local, remote, nextId, clock, foreign, runs, unseen, adopted,
                       dirty, astray>>

\* The steps of the system, the ends of a run taken as one.
LEMMA NextCases ==
  ASSUME Types, Next
  PROVE  \/ Edit \/ Other \/ Goes \/ Ends
         \/ \E o \in Options : Begin(o)
         \/ \E it \in todo : CheckDrift(it)
         \/ \E it \in waiting : Take(it)
         \/ \E it \in DOMAIN work : Call(it) \/ Collect(it) \/ CollectFailure(it)
<1>1. Environment => Edit \/ Other
  BY DEF Environment, Edit, Other
<1>2. CheckDriftFails => Ends
  BY DEF CheckDriftFails, Ends
<1>3. Guard => Goes \/ Ends
  BY DEF Guard, Goes, Ends, bounds
<1>4. Finish => Ends
  BY DEF Finish, Ends, NoFault, Faulty
<1>5. Crash => Ends
  BY DEF Crash, Ends
<1> QED
  BY <1>1, <1>2, <1>3, <1>4, <1>5 DEF Next

\* Progress of an item is of no other.
LEMMA WithFacts ==
  ASSUME Types, NEW it \in DOMAIN work, NEW p, With(it, p)
  PROVE  /\ DOMAIN work' = DOMAIN work /\ work'[it] = p
         /\ \A other \in DOMAIN work \ {it} : work'[other] = work[other]
  BY DEF With, Types, RunTyped

\* Calls keep the types.
LEMMA CallTyped ==
  ASSUME Types, NEW it \in DOMAIN work, Call(it)
  PROVE  Types'
<1>1. PICK p : With(it, p) /\ Comes(it, p)
  BY Outcomes
<1>2. Beside /\ (faults' = faults \/ faults' = faults + 1)
  BY Outcomes
<1>3. /\ remote' \in [DOMAIN remote' -> RemoteFile]
      /\ nextId' \in Nat \ {0} /\ DOMAIN remote' \subseteq 1..(nextId' - 1)
      /\ removed' \in Nat
  BY <1>1, RemoteTyped
<1>4. TreesTyped'
  BY <1>2, <1>3 DEF Types, TreesTyped, Beside
<1>5. p \in Progress /\ Fits(it, p)
  BY <1>1, Steps
<1>6. /\ DOMAIN work' = DOMAIN work /\ work'[it] = p
      /\ \A other \in DOMAIN work \ {it} : work'[other] = work[other]
  BY <1>1, WithFacts
<1>7. work' \in [DOMAIN work' -> Progress]
  <2>1. work' = [i \in DOMAIN work |-> work'[i]]
    BY <1>1 DEF With, Types, RunTyped
  <2>2. \A i \in DOMAIN work : work'[i] \in Progress
    BY <1>5, <1>6 DEF Types, RunTyped
  <2> QED
    BY <2>1, <2>2, <1>6
<1>8. RunTyped'
  BY <1>2, <1>3, <1>6, <1>7 DEF Types, RunTyped, Beside, Options
<1>9. \A i \in DOMAIN work : Fits(i, work'[i])
  BY <1>5, <1>6 DEF Types, Phases
<1>10. phase = "run"
  BY DEF Types, Phases, RunTyped
<1>11. Phases'
  BY <1>2, <1>6, <1>9, <1>10 DEF Types, Phases, Beside
<1> QED
  BY <1>4, <1>8, <1>11 DEF Types

\* What an item's success leaves in the manifest.
LEMMA RecordedFacts ==
  ASSUME Types, NEW it \in DOMAIN work
  PROVE  /\ Table(Recorded(it), ManifestEntry)
         /\ it.op = "delete" => Recorded(it) = Delete(m, it.rel)
         /\ it.op # "delete" =>
              /\ DOMAIN Recorded(it) = (IF it.op = "move" THEN DOMAIN m \ {it.srcRel} ELSE DOMAIN m)
                                       \cup {it.rel}
              /\ Recorded(it)[it.rel] = [size |-> it.size, localMtime |-> it.mtime,
                                         remoteID |-> work[it].id, remoteMtime |-> work[it].mtime]
              /\ \A r \in DOMAIN Recorded(it) \ {it.rel} : Recorded(it)[r] = m[r]
<1> DEFINE e == [size |-> it.size, localMtime |-> it.mtime,
                 remoteID |-> work[it].id, remoteMtime |-> work[it].mtime]
<1>1. it \in Item /\ work[it] \in Progress /\ Table(m, ManifestEntry)
  BY DEF Types, TreesTyped, RunTyped
<1>2. e \in ManifestEntry /\ it.rel \in Spots
  BY <1>1 DEF Item, Progress, ManifestEntry
<1>3. /\ it.op \in {"upload", "overwrite"} => Recorded(it) = Set(m, it.rel, e)
      /\ it.op = "delete" => Recorded(it) = Delete(m, it.rel)
      /\ it.op = "move" => Recorded(it) = Set(Delete(m, it.srcRel), it.rel, e)
      /\ it.op \in {"upload", "overwrite", "delete", "move"}
  BY <1>1 DEF Recorded, Entry, Item
<1> HIDE DEF e
<1>4. CASE it.op \in {"upload", "overwrite"}
  <2>1. Recorded(it) = Set(m, it.rel, e) /\ it.op # "move" /\ it.op # "delete"
    BY <1>3, <1>4
  <2>2. Table(Recorded(it), ManifestEntry)
    BY <2>1, <1>1, <1>2, SetTable
  <2>3. /\ DOMAIN Recorded(it) = DOMAIN m \cup {it.rel} /\ Recorded(it)[it.rel] = e
        /\ \A r \in DOMAIN m \ {it.rel} : Recorded(it)[r] = m[r]
    BY <2>1 DEF Set
  <2> QED
    BY <2>1, <2>2, <2>3 DEF e
<1>5. CASE it.op = "delete"
  BY <1>1, <1>3, <1>5, DeleteTable
<1>6. CASE it.op = "move"
  <2> DEFINE f == Delete(m, it.srcRel)
  <2>1. /\ Table(f, ManifestEntry) /\ DOMAIN f = DOMAIN m \ {it.srcRel}
        /\ \A r \in DOMAIN f : f[r] = m[r]
    BY <1>1, DeleteTable, DeleteFacts
  <2>2. Recorded(it) = Set(f, it.rel, e)
    BY <1>3, <1>6
  <2> HIDE DEF f
  <2>3. Table(Recorded(it), ManifestEntry)
    BY <2>1, <2>2, <1>2, SetTable
  <2>4. /\ DOMAIN Recorded(it) = DOMAIN f \cup {it.rel} /\ Recorded(it)[it.rel] = e
        /\ \A r \in DOMAIN f \ {it.rel} : Recorded(it)[r] = f[r]
    BY <2>2 DEF Set
  <2> QED
    BY <2>1, <2>3, <2>4, <1>6 DEF e
<1> QED
  BY <1>3, <1>4, <1>5, <1>6

\* An item that is done leaves the workers.
LEMMA DropFacts ==
  ASSUME Types, NEW it \in DOMAIN work, Drop(it)
  PROVE  /\ DOMAIN work' = DOMAIN work \ {it}
         /\ \A other \in DOMAIN work \ {it} : work'[other] = work[other]
         /\ work' \in [DOMAIN work' -> Progress] /\ DOMAIN work' \subseteq Item
  BY DEF Drop, Types, RunTyped

\* What the collector does with a success, but for the checkpoint.
LEMMA CollectFacts ==
  ASSUME Types, NEW it \in DOMAIN work, Collect(it)
  PROVE  /\ work[it].at = "done" /\ phase = "run"
         /\ m' = Recorded(it) /\ Drop(it) /\ adopted' = StillAdopted(it)
         /\ (since' = since + 1 \/ since' = 0)
         /\ (disk' = m' \/ disk' = disk)
         /\ (faults' = faults \/ faults' = faults + 1)
         /\ UNCHANGED <<setting, local, remote, nextId, phase, opts, todo, waiting, failures,
                        skipped, clock, foreign, runs, crashes, unseen, dirty, baseline, removed,
                        clean, astray>>
<1>1. phase = "run"
  BY DEF Types, RunTyped, Phases
<1> QED
  BY <1>1 DEF Collect, InCall, NoFault, Faulty

\* The record of a success keeps them.
LEMMA CollectTyped ==
  ASSUME Types, NEW it \in DOMAIN work, Collect(it)
  PROVE  Types'
<1>1. TreesTyped'
  BY CollectFacts, RecordedFacts DEF Types, TreesTyped
<1>2. RunTyped'
  <2>1. /\ since' = since + 1 \/ since' = 0
        /\ faults' = faults \/ faults' = faults + 1
        /\ UNCHANGED <<setting, phase, opts, todo, waiting, clock, foreign, runs, crashes,
                       baseline, removed>>
    BY CollectFacts
  <2>2. work' \in [DOMAIN work' -> Progress] /\ DOMAIN work' \subseteq Item
    BY CollectFacts, DropFacts
  <2> QED
    BY <2>1, <2>2 DEF Types, RunTyped, Options
<1>3. Phases'
  BY CollectFacts, DropFacts DEF Types, Phases
<1> QED
  BY <1>1, <1>2, <1>3 DEF Types

\* The record of a failure keeps them.
LEMMA FailureTyped ==
  ASSUME Types, NEW it \in DOMAIN work, CollectFailure(it)
  PROVE  Types'
<1>1. /\ Drop(it) /\ phase = "run"
      /\ UNCHANGED <<setting, local, remote, nextId, disk, m, phase, opts, todo, waiting, since,
                     skipped, clock, foreign, runs, faults, crashes, baseline, removed>>
  BY DEF CollectFailure, bounds, Types, Phases, RunTyped
<1>2. TreesTyped'
  BY <1>1 DEF Types, TreesTyped
<1>3. RunTyped'
  BY <1>1, DropFacts DEF Types, RunTyped, Options
<1>4. Phases'
  BY <1>1, DropFacts DEF Types, Phases
<1> QED
  BY <1>2, <1>3, <1>4 DEF Types

\* What taking an item leaves to be done.
LEMMA TakeFacts ==
  ASSUME Types, NEW it \in waiting, Take(it)
  PROVE  /\ phase = "run" /\ waiting' = waiting \ {it} /\ it \notin DOMAIN work
         /\ DOMAIN work' = DOMAIN work \cup {it}
         /\ work'[it] = [at |-> FirstCall[it.op], id |-> it.remoteID, mtime |-> 0, path |-> it.rel]
         /\ \A other \in DOMAIN work : work'[other] = work[other]
         /\ work' \in [DOMAIN work' -> Progress] /\ Fits(it, work'[it])
         /\ UNCHANGED <<setting, local, remote, nextId, disk, m, phase, opts, todo, since,
                        failures, skipped, bounds, history>>
<1> DEFINE p == [at |-> FirstCall[it.op], id |-> it.remoteID, mtime |-> 0, path |-> it.rel]
<1>1. it \in Item /\ it \notin DOMAIN work /\ work \in [DOMAIN work -> Progress]
  BY DEF Types, RunTyped, Phases
<1>2. p \in Progress /\ Fits(it, p)
  <2>1. /\ it.op = "upload" => FirstCall[it.op] = "create"
        /\ it.op = "overwrite" => FirstCall[it.op] = "replace"
        /\ it.op = "delete" => FirstCall[it.op] = "remove"
        /\ it.op = "move" => FirstCall[it.op] = "stat"
    BY DEF FirstCall
  <2> HIDE DEF FirstCall
  <2> QED
    BY <1>1, <2>1 DEF Progress, Fits, Item
<1>3. work' = [i \in DOMAIN work \cup {it} |-> IF i = it THEN p ELSE work[i]]
  BY DEF Take
<1> HIDE DEF p
<1>4. /\ DOMAIN work' = DOMAIN work \cup {it} /\ work'[it] = p
      /\ \A other \in DOMAIN work : work'[other] = work[other]
      /\ work' \in [DOMAIN work' -> Progress]
  BY <1>1, <1>2, <1>3
<1> QED
  BY <1>1, <1>2, <1>4 DEF Take, p

\* Every step keeps the types.
LEMMA TypesStep ==
  ASSUME Types, [Next]_vars
  PROVE  Types'
<1>1. CASE Edit
  <2>1. /\ Table(local', LocalFile)
        /\ UNCHANGED <<setting, remote, nextId, disk, m, phase, opts, todo, waiting, work, since,
                       foreign, runs, faults, crashes, baseline, removed>>
        /\ clock' = clock + 1
    BY <1>1, EditFacts DEF run
  <2> QED
    BY <2>1 DEF Types, TreesTyped, RunTyped, Phases, Options
<1>2. CASE Other
  <2>1. /\ UNCHANGED <<setting, disk, m, phase, opts, todo, waiting, work, since,
                       clock, runs, faults, crashes, baseline, removed>>
        /\ foreign' = foreign + 1
    BY <1>2, OtherFacts DEF run
  <2>2. TreesTyped'
    BY <1>2, OtherTyped
  <2>3. RunTyped' /\ Phases'
    BY <2>1 DEF Types, RunTyped, Phases, Options
  <2> QED
    BY <2>2, <2>3 DEF Types
<1>3. CASE \E o \in Options : Begin(o)
  <2>1. PICK o \in Options : Begin(o)
    BY <1>3
  <2>2. Table(Base(o), ManifestEntry)
    BY BaseFacts
  <2>3. runs' = runs + 1
    BY <2>1 DEF Begin
  <2>4. TreesTyped'
    BY <2>1, <2>2, BeginFacts DEF Types, TreesTyped
  <2>5. RunTyped'
    <3>1. /\ phase' = "drift" /\ opts' \in Options /\ todo' \cup waiting' \subseteq Item
          /\ removed' = 0
          /\ UNCHANGED <<setting, work, since, clock, foreign, faults, crashes, baseline>>
      BY <2>1, BeginFacts
    <3> QED
      BY <2>3, <3>1 DEF Types, RunTyped, Options
  <2>6. Phases'
    BY <2>1, BeginFacts DEF Types, Phases
  <2> QED
    BY <2>4, <2>5, <2>6 DEF Types
<1>4. CASE \E it \in todo : CheckDrift(it)
  <2>1. PICK it \in todo : CheckDrift(it)
    BY <1>4
  <2>2. /\ phase = "drift" /\ todo' = todo \ {it}
        /\ waiting' = waiting \/ waiting' = waiting \cup {it}
        /\ UNCHANGED <<setting, local, remote, nextId, disk, m, phase, opts, work, since,
                       clock, foreign, runs, faults, crashes, baseline, removed>>
    BY <2>1 DEF CheckDrift, bounds, history
  <2> QED
    BY <2>2 DEF Types, TreesTyped, RunTyped, Phases, Options
<1>5. CASE Goes
  <2>1. Cardinality(DOMAIN m) \in Nat
    BY FS_CardinalityType DEF Types, TreesTyped, Table
  <2> QED
    BY <1>5, <2>1 DEF Goes, bounds, Types, TreesTyped, RunTyped, Phases, Options
<1>6. CASE Ends
  <2>1. DOMAIN Empty = {} /\ Empty \in [DOMAIN Empty -> Progress]
    BY DEF Empty
  <2>2. /\ phase' = "idle" /\ todo' = {} /\ waiting' = {} /\ work' = Empty /\ since' = 0
        /\ baseline' = 0 /\ removed' = 0 /\ m' = disk' /\ disk' \in {m, disk}
        /\ faults' \in {faults, faults + 1} /\ crashes' \in {crashes, crashes + 1}
        /\ UNCHANGED <<setting, local, remote, nextId, clock, foreign, runs>>
    BY <1>6 DEF Ends, Abandon
  <2>3. TreesTyped'
    BY <2>2 DEF Types, TreesTyped
  <2>4. RunTyped' /\ Phases'
    BY <2>1, <2>2 DEF Types, RunTyped, Phases
  <2> QED
    BY <2>3, <2>4 DEF Types
<1>7. CASE \E it \in waiting : Take(it)
  <2>1. PICK it \in waiting : Take(it)
    BY <1>7
  <2>2. TreesTyped'
    BY <2>1, TakeFacts DEF Types, TreesTyped
  <2>3. RunTyped'
    BY <2>1, TakeFacts DEF Types, RunTyped, Options, bounds, history
  <2>4. Phases'
    BY <2>1, TakeFacts DEF Types, Phases, history
  <2> QED
    BY <2>2, <2>3, <2>4 DEF Types
<1>8. CASE \E it \in DOMAIN work : Call(it) \/ Collect(it) \/ CollectFailure(it)
  BY <1>8, CallTyped, CollectTyped, FailureTyped
<1>9. CASE UNCHANGED vars
  BY <1>9 DEF vars, run, bounds, history, Types, TreesTyped, RunTyped, Phases, Options
<1> QED
  BY <1>1, <1>2, <1>3, <1>4, <1>5, <1>6, <1>7, <1>8, <1>9, NextCases

\* The trees, the manifests and the items in hand are what they are meant to be, and
\* items are in one place at a time (syncer/run.go hands them from the plan to a worker).
THEOREM TypesAlways == Spec => []Types
<1>1. Init => Types
  BY Starts
<1>2. Types /\ [Next]_vars => Types'
  BY TypesStep
<1> QED
  BY <1>1, <1>2, PTL DEF Spec

-----------------------------------------------------------------------------
(* The delete guard                                                         *)

InHand == todo \cup waiting \cup DOMAIN work

\* deletes that may still remove a file
Doomed == {it \in OfKind(waiting \cup DOMAIN work, "delete") :
             it \in DOMAIN work => work[it].at = "remove"}

\* What the guard let through is what was removed and what is still to be: the ratio
\* alone is not kept by a step, since it says nothing of the items that are left.
Rationed ==
  /\ IsFiniteSet(OfKind(InHand, "delete"))
  /\ phase # "idle" /\ opts.noDelete => OfKind(InHand, "delete") = {} /\ removed = 0
  /\ phase = "run" /\ ~opts.force =>
       DeletesAllowed(removed + Cardinality(Doomed), baseline, Percent, FALSE)

\* Fewer deletes than are allowed are allowed.
LEMMA FewerAllowed ==
  ASSUME NEW a \in Nat, NEW b \in Nat, a <= b, NEW n \in Nat, NEW percent \in Nat,
         DeletesAllowed(b, n, percent, FALSE)
  PROVE  DeletesAllowed(a, n, percent, FALSE)
<1> DEFINE q == IF percent = 0 THEN 20 ELSE percent
<1>1. q \in Nat
  OBVIOUS
<1>2. n = 0 \/ 100 * b <= q * n
  BY DEF DeletesAllowed
<1>3. 100 * a <= 100 * b
  OBVIOUS
<1> HIDE DEF q
<1>4. q * n \in Nat
  BY <1>1
<1>5. n = 0 \/ 100 * a <= q * n
  BY <1>2, <1>3, <1>4
<1> QED
  BY <1>5 DEF DeletesAllowed, q

\* A plan has at most one delete for each entry, so finitely many.
LEMMA DeletesFinite ==
  ASSUME Types, NEW o
  PROVE  IsFiniteSet(OfKind(Planned(o, Base(o)), "delete"))
<1> DEFINE f == Base(o)
           dels == OfKind(Planned(o, f), "delete")
           rel == [it \in dels |-> it.rel]
<1>1. Table(local, LocalFile) /\ Sizes \subseteq Nat /\ Table(f, ManifestEntry)
  BY World, BaseFacts DEF Types, TreesTyped
<1>2. OneEach(Planned(o, f)) /\ \A it \in Planned(o, f) : Sound(it, f)
  BY <1>1, PlannedSound
<1>3. \A it \in dels : it \in Planned(o, f) /\ it.rel \in DOMAIN f
  BY <1>2 DEF OfKind, Sound
<1>4. \A a, b \in dels : a.rel = b.rel => a = b
  BY <1>2, <1>3 DEF OneEach, Around
<1> HIDE DEF dels, f
<1>5. rel \in Injection(dels, DOMAIN f)
  <2>1. rel \in [dels -> DOMAIN f]
    BY <1>3
  <2>2. \A a, b \in dels : rel[a] = rel[b] => a = b
    BY <1>4
  <2> QED
    BY <2>1, <2>2 DEF Injection, IsInjective
<1>6. IsFiniteSet(DOMAIN f)
  BY <1>1 DEF Table
<1>7. IsFiniteSet(dels)
  BY <1>5, <1>6, FS_Injection
<1> QED
  BY <1>7 DEF dels, f

\* Deletes go from hand to hand, and none is added.
LEMMA RationedKept ==
  ASSUME Types, Rationed, Types',
         UNCHANGED <<setting, phase, opts, baseline>>, removed' \in {removed, removed + 1},
         OfKind(InHand', "delete") \subseteq OfKind(InHand, "delete"),
         phase = "run" =>
           \/ removed' = removed /\ Doomed' \subseteq Doomed
           \/ \E it \in Doomed : removed' = removed + 1 /\ Doomed' \subseteq Doomed \ {it},
         phase # "run" => removed' = removed
  PROVE  Rationed'
<1>1. IsFiniteSet(OfKind(InHand', "delete"))
  BY FS_Subset DEF Rationed
<1>2. Doomed \subseteq OfKind(InHand, "delete")
  BY DEF Doomed, InHand, OfKind
<1>3. IsFiniteSet(Doomed)
  BY <1>2, FS_Subset DEF Rationed
<1>4. ASSUME phase # "idle", opts.noDelete
      PROVE  OfKind(InHand', "delete") = {} /\ removed' = 0
  <2>1. OfKind(InHand, "delete") = {} /\ removed = 0
    BY <1>4 DEF Rationed
  <2>2. Doomed = {}
    BY <2>1, <1>2
  <2> QED
    BY <2>1, <2>2
<1>5. ASSUME phase = "run", ~opts.force
      PROVE  DeletesAllowed(removed' + Cardinality(Doomed'), baseline, Percent, FALSE)
  <2>1. DeletesAllowed(removed + Cardinality(Doomed), baseline, Percent, FALSE)
    BY <1>5 DEF Rationed
  <2>2. removed' + Cardinality(Doomed') \in Nat /\ removed + Cardinality(Doomed) \in Nat
        /\ removed' + Cardinality(Doomed') <= removed + Cardinality(Doomed)
    <3>1. removed \in Nat /\ removed' \in Nat /\ Cardinality(Doomed) \in Nat
      BY <1>3, FS_CardinalityType DEF Types, RunTyped
    <3>2. CASE removed' = removed /\ Doomed' \subseteq Doomed
      <4>1. IsFiniteSet(Doomed') /\ Cardinality(Doomed') <= Cardinality(Doomed)
        BY <3>2, <1>3, FS_Subset
      <4> QED
        BY <3>1, <3>2, <4>1, FS_CardinalityType
    <3>3. ASSUME NEW it \in Doomed, removed' = removed + 1, Doomed' \subseteq Doomed \ {it}
          PROVE  /\ removed' + Cardinality(Doomed') \in Nat
                 /\ removed' + Cardinality(Doomed') <= removed + Cardinality(Doomed)
      <4>1. IsFiniteSet(Doomed \ {it}) /\ Cardinality(Doomed \ {it}) = Cardinality(Doomed) - 1
        BY <1>3, FS_RemoveElement
      <4>2. IsFiniteSet(Doomed') /\ Cardinality(Doomed') <= Cardinality(Doomed \ {it})
        BY <3>3, <4>1, FS_Subset
      <4> QED
        BY <3>1, <3>3, <4>1, <4>2, FS_CardinalityType
    <3> QED
      BY <1>5, <3>1, <3>2, <3>3
  <2>3. baseline \in Nat /\ Percent \in Nat
    BY World DEF Types, TreesTyped, RunTyped
  <2> HIDE DEF Doomed
  <2> QED
    BY <2>1, <2>2, <2>3, FewerAllowed
<1>6. UNCHANGED Percent
  BY DEF Percent
<1> QED
  BY <1>1, <1>4, <1>5, <1>6 DEF Rationed

\* Every step keeps the deletes within the ration: items only leave the queue, and each
\* removal is of an item that was counted.
LEMMA RationedStep ==
  ASSUME Types, Rationed, [Next]_vars
  PROVE  Rationed'
<1>0. Types'
  BY TypesStep
<1>1. ASSUME UNCHANGED <<setting, phase, opts, todo, waiting, work, baseline, removed>>
      PROVE  Rationed'
  BY <1>1 DEF Rationed, InHand, Doomed, Percent
<1>2. CASE Edit
  BY <1>1, <1>2, EditFacts DEF run
<1>3. CASE Other
  BY <1>1, <1>3, OtherFacts DEF run
<1>4. CASE \E o \in Options : Begin(o)
  <2>1. PICK o \in Options : Begin(o)
    BY <1>4
  <2>2. /\ phase' = "drift" /\ opts' = o /\ removed' = 0
        /\ todo' \cup waiting' = Planned(o, Base(o)) /\ DOMAIN work' = {}
    BY <2>1, BeginFacts DEF Types, Phases
  <2>3. InHand' = Planned(o, Base(o))
    BY <2>2 DEF InHand
  <2>4. IsFiniteSet(OfKind(Planned(o, Base(o)), "delete"))
    BY DeletesFinite
  <2>5. o.noDelete => OfKind(Planned(o, Base(o)), "delete") = {}
    <3>1. Table(local, LocalFile) /\ Sizes \subseteq Nat /\ Table(Base(o), ManifestEntry)
      BY World, BaseFacts DEF Types, TreesTyped
    <3> QED
      BY <3>1, PlannedSound DEF OfKind
  <2> QED
    BY <2>2, <2>3, <2>4, <2>5 DEF Rationed
<1>5. CASE \E it \in todo : CheckDrift(it)
  <2>1. PICK it \in todo : CheckDrift(it)
    BY <1>5
  <2>2. /\ phase = "drift" /\ todo' = todo \ {it}
        /\ waiting' = waiting \/ waiting' = waiting \cup {it}
        /\ UNCHANGED <<setting, phase, opts, work, baseline, removed>>
    BY <2>1 DEF CheckDrift, history
  <2>3. OfKind(InHand', "delete") \subseteq OfKind(InHand, "delete")
    BY <2>2 DEF InHand, OfKind
  <2> QED
    BY <2>2, <2>3, <1>0, RationedKept
<1>6. CASE Goes
  <2>1. /\ phase = "drift" /\ phase' = "run" /\ DOMAIN work = {} /\ removed = 0
        /\ DeletesAllowed(Cardinality(OfKind(waiting, "delete")), Cardinality(DOMAIN m),
                          Percent, opts.force)
        /\ baseline' = Cardinality(DOMAIN m)
        /\ UNCHANGED <<setting, opts, todo, waiting, work, removed>>
    BY <1>6 DEF Goes, Types, Phases
  <2>2. Doomed' = OfKind(waiting, "delete")
    BY <2>1 DEF Doomed, OfKind
  <2>3. IsFiniteSet(OfKind(waiting, "delete"))
    <3>1. OfKind(waiting, "delete") \subseteq OfKind(InHand, "delete")
      BY DEF InHand, OfKind
    <3> QED
      BY <3>1, FS_Subset DEF Rationed
  <2>4. removed' + Cardinality(Doomed') = Cardinality(OfKind(waiting, "delete"))
    BY <2>1, <2>2, <2>3, FS_CardinalityType
  <2>5. ~opts.force =>
          DeletesAllowed(removed' + Cardinality(Doomed'), baseline', Percent', FALSE)
    BY <2>1, <2>4 DEF Percent, DeletesAllowed
  <2>6. InHand' = InHand
    BY <2>1 DEF InHand
  <2> QED
    BY <2>1, <2>5, <2>6 DEF Rationed
<1>7. CASE Ends
  <2>1. phase' = "idle" /\ InHand' = {}
    BY <1>7 DEF Ends, Abandon, InHand, Empty
  <2>2. OfKind(InHand', "delete") = {}
    BY <2>1 DEF OfKind
  <2> QED
    BY <2>1, <2>2, FS_EmptySet DEF Rationed
<1>8. CASE \E it \in waiting : Take(it)
  <2>1. PICK it \in waiting : Take(it)
    BY <1>8
  <2>2. /\ phase = "run" /\ waiting' = waiting \ {it} /\ it \notin DOMAIN work
        /\ DOMAIN work' = DOMAIN work \cup {it} /\ work'[it].at = FirstCall[it.op]
        /\ \A other \in DOMAIN work : work'[other] = work[other]
        /\ UNCHANGED <<setting, phase, opts, todo, baseline, removed>>
    <3>1. /\ phase = "run" /\ waiting' = waiting \ {it} /\ it \notin DOMAIN work
          /\ DOMAIN work' = DOMAIN work \cup {it}
          /\ \A other \in DOMAIN work : work'[other] = work[other]
          /\ UNCHANGED <<setting, phase, opts, todo, history>>
      BY <2>1, TakeFacts
    <3>2. work'[it] = [at |-> FirstCall[it.op], id |-> it.remoteID, mtime |-> 0,
                       path |-> it.rel]
      BY <2>1, TakeFacts
    <3>3. work'[it].at = FirstCall[it.op]
      BY <3>2
    <3> QED
      BY <3>1, <3>3 DEF history
  <2>3. OfKind(InHand', "delete") \subseteq OfKind(InHand, "delete")
    BY <2>2 DEF InHand, OfKind
  <2>4. Doomed' \subseteq Doomed
    <3>1. ASSUME NEW other \in Doomed'
          PROVE  other \in Doomed
      BY <2>2 DEF Doomed, OfKind
    <3> QED
      BY <3>1
  <2> QED
    BY <2>2, <2>3, <2>4, <1>0, RationedKept
<1>9. ASSUME NEW it \in DOMAIN work, Call(it)
      PROVE  Rationed'
  <2>1. PICK p : With(it, p) /\ Comes(it, p)
    BY <1>9, Outcomes
  <2>2. /\ DOMAIN work' = DOMAIN work /\ work'[it] = p
        /\ \A other \in DOMAIN work \ {it} : work'[other] = work[other]
    BY <2>1, WithFacts
  <2>3. UNCHANGED <<setting, phase, opts, todo, waiting, baseline>> /\ phase = "run"
    BY <1>9, Outcomes DEF Beside, Types, Phases, RunTyped
  <2>4. InHand' = InHand
    BY <2>2, <2>3 DEF InHand
  <2>5. /\ removed' = removed \/ (removed' = removed + 1 /\ work[it].at = "remove")
        /\ p.at = "remove" => work[it].at = "remove" /\ removed' = removed
        /\ removed' = removed \/ p.at # "remove"
    <3>1. work[it] \in Progress
      BY DEF Types, RunTyped
    <3>2. CASE Removes(it, p)
      BY <3>1, <3>2 DEF Removes, Progress
    <3>3. CASE ~Removes(it, p)
      <4>1. removed' = removed
        BY <2>1, <3>3 DEF Comes, Fails, Meets, Finds, Misses, Looks, LooksAgain, Makes,
                          Replaces, Relocates, SameRemote
      <4>2. p.at = "remove" => work[it].at = "remove"
        <5>1. Fits(it, p) /\ Fits(it, work[it]) /\ it \in Item
          BY <2>1, Steps DEF Types, RunTyped, Phases
        <5>2. CASE it.op # "delete"
          BY <5>1, <5>2 DEF Fits, Item
        <5>3. CASE it.op = "delete"
          <6>1. work[it].at \in {"remove", "done", "failed"}
            BY <5>1, <5>3 DEF Fits
          <6>2. CASE Fails(it, p)
            BY <3>1, <6>2 DEF Fails, Progress
          <6>3. CASE Misses(it, p)
            BY <3>1, <6>3 DEF Misses, Progress
          <6> QED
            BY <2>1, <3>3, <6>1, <6>2, <6>3 DEF Comes, Meets, Finds, Looks, LooksAgain, Makes,
                                              Replaces, Relocates
        <5> QED
          BY <5>2, <5>3
      <4> QED
        BY <4>1, <4>2
    <3> QED
      BY <3>2, <3>3
  <2>6. ASSUME NEW other \in Doomed'
        PROVE  other \in Doomed /\ (other = it => removed' = removed)
    <3>1. other \in OfKind(waiting \cup DOMAIN work, "delete")
          /\ (other \in DOMAIN work => work'[other].at = "remove")
      BY <2>2, <2>3 DEF Doomed, OfKind
    <3>2. other \in DOMAIN work => work[other].at = "remove"
      BY <3>1, <2>2, <2>5
    <3> QED
      BY <3>1, <3>2, <2>2, <2>5 DEF Doomed
  <2>7. removed' = removed + 1 /\ removed' # removed => it \in Doomed
    <3>1. work[it].at = "remove" => it.op = "delete"
      BY DEF Types, RunTyped, Phases, Fits, Item
    <3> QED
      BY <3>1, <2>5 DEF Doomed, OfKind
  <2>8. removed \in Nat
    BY DEF Types, RunTyped
  <2>9. \/ removed' = removed /\ Doomed' \subseteq Doomed
        \/ \E x \in Doomed : removed' = removed + 1 /\ Doomed' \subseteq Doomed \ {x}
    <3>1. CASE removed' = removed
      BY <3>1, <2>6
    <3>2. CASE removed' # removed
      <4>1. removed' = removed + 1 /\ it \in Doomed
        BY <3>2, <2>5, <2>7
      <4>2. Doomed' \subseteq Doomed \ {it}
        BY <3>2, <2>6
      <4> QED
        BY <4>1, <4>2
    <3> QED
      BY <3>1, <3>2
  <2> QED
    BY <2>3, <2>4, <2>5, <2>9, <1>0, RationedKept
<1>10. ASSUME NEW it \in DOMAIN work, Collect(it) \/ CollectFailure(it)
       PROVE  Rationed'
  <2>1. /\ Drop(it) /\ phase = "run"
        /\ UNCHANGED <<setting, phase, opts, todo, waiting, baseline, removed>>
    BY <1>10, CollectFacts DEF CollectFailure, Types, Phases, RunTyped
  <2>2. /\ DOMAIN work' = DOMAIN work \ {it}
        /\ \A other \in DOMAIN work \ {it} : work'[other] = work[other]
    BY <2>1, DropFacts
  <2>3. OfKind(InHand', "delete") \subseteq OfKind(InHand, "delete")
    BY <2>1, <2>2 DEF InHand, OfKind
  <2>4. waiting \cap DOMAIN work = {}
    BY DEF Types, Phases
  <2>5. Doomed' \subseteq Doomed
    <3>1. ASSUME NEW other \in Doomed'
          PROVE  other \in Doomed
      BY <2>1, <2>2, <2>4 DEF Doomed, OfKind
    <3> QED
      BY <3>1
  <2> QED
    BY <2>1, <2>3, <2>5, <1>0, RationedKept
<1>11. CASE UNCHANGED vars
  BY <1>1, <1>11 DEF vars, run, history
<1> QED
  BY <1>2, <1>3, <1>4, <1>5, <1>6, <1>7, <1>8, <1>9, <1>10, <1>11, NextCases

\* A push without --force removes no more files than the guard allows for the manifest
\* it saw, whatever fails and however the workers interleave (checkDeleteRatio,
\* syncer/guard.go); with --no-delete it removes none.
THEOREM Threshold == Spec => []RemovesWithinThreshold
<1>1. Init => Rationed
  <2> SUFFICES ASSUME Init PROVE Rationed
    OBVIOUS
  <2>1. phase = "idle" /\ InHand = {}
    BY DEF Init, InHand, Empty
  <2>2. OfKind(InHand, "delete") = {}
    BY <2>1 DEF OfKind
  <2> QED
    BY <2>1, <2>2, FS_EmptySet DEF Rationed
<1>2. Types /\ Rationed /\ [Next]_vars => Rationed'
  BY RationedStep
<1>3. Types /\ Rationed => RemovesWithinThreshold
  <2> SUFFICES ASSUME Types, Rationed PROVE RemovesWithinThreshold
    OBVIOUS
  <2>1. CASE phase # "run"
    BY <2>1 DEF Types, Phases, RemovesWithinThreshold, DeletesAllowed
  <2>2. CASE phase = "run"
    <3>1. Doomed \subseteq OfKind(InHand, "delete")
      BY DEF Doomed, InHand, OfKind
    <3>2. IsFiniteSet(Doomed)
      BY <3>1, FS_Subset DEF Rationed
    <3>3. /\ removed \in Nat /\ Cardinality(Doomed) \in Nat
          /\ baseline \in Nat /\ Percent \in Nat
      <4>1. Cardinality(Doomed) \in Nat
        BY <3>2, FS_CardinalityType
      <4>2. Percent \in Nat
        BY World DEF Types, TreesTyped
      <4> QED
        BY <4>1, <4>2 DEF Types, RunTyped
    <3>4. removed + Cardinality(Doomed) \in Nat /\ removed <= removed + Cardinality(Doomed)
      BY <3>3
    <3>5. ~opts.force => DeletesAllowed(removed + Cardinality(Doomed), baseline, Percent, FALSE)
      BY <2>2 DEF Rationed
    <3> HIDE DEF Doomed
    <3>6. ~opts.force => DeletesAllowed(removed, baseline, Percent, FALSE)
      BY <3>3, <3>4, <3>5, FewerAllowed
    <3> QED
      BY <2>2, <3>6 DEF RemovesWithinThreshold, Rationed
  <2> QED
    BY <2>1, <2>2
<1> QED
  BY <1>1, <1>2, <1>3, TypesAlways, PTL DEF Spec

-----------------------------------------------------------------------------
(* Ids and versions                                                         *)

\* The ids anyone holds are ids the server has given; moves come of --detect-moves only.
Known ==
  /\ unseen \subseteq 1..(nextId - 1)
  /\ MaxForeign = 0 => unseen = {}
  /\ \A r \in DOMAIN m : m[r].remoteID < nextId
  /\ \A r \in DOMAIN disk : disk[r].remoteID < nextId
  /\ \A it \in InHand : /\ it.remoteID < nextId
                        /\ it.op = "move" => opts.detectMoves
  /\ \A it \in DOMAIN work : work[it].id < nextId

\* Files only age: their mtimes grow, and grow when another client is the one to write.
RemoteAges ==
  /\ nextId' >= nextId
  /\ \A i \in DOMAIN remote' :
       i < nextId =>
         /\ i \in DOMAIN remote /\ remote'[i].mtime >= remote[i].mtime
         /\ i \in unseen' => i \in unseen \/ remote'[i].mtime > remote[i].mtime

\* A call of the run makes no file younger, and whatever it holds is an id the server gave.
LEMMA CallAges ==
  ASSUME Types, NEW it \in DOMAIN work, NEW p, Comes(it, p)
  PROVE  RemoteAges /\ unseen' \subseteq unseen /\ (p.id = work[it].id \/ p.id < nextId')
<1> DEFINE w == work[it]
<1>1. /\ remote \in [DOMAIN remote -> RemoteFile] /\ DOMAIN remote \subseteq 1..(nextId - 1)
      /\ nextId \in Nat /\ w \in Progress
  BY DEF Types, TreesTyped, RunTyped
<1>2. \A i \in DOMAIN remote : remote[i].mtime \in Nat
  BY <1>1 DEF RemoteFile
<1>3. CASE SameRemote
  <2>1. RemoteAges /\ unseen' \subseteq unseen
    BY <1>1, <1>2, <1>3 DEF SameRemote, RemoteAges
  <2>2. CASE Finds(it, p)
    <3>1. PICK i \in DOMAIN remote : p = [w EXCEPT !.at = "replace", !.id = i]
      BY <2>2 DEF Finds
    <3>2. p.id = i
      BY <3>1, <1>1 DEF Progress
    <3> QED
      BY <2>1, <3>2, <1>1, <1>3 DEF SameRemote
  <2>3. CASE Looks(it, p)
    BY <2>1, <2>3 DEF Looks
  <2>4. CASE Fails(it, p) \/ Meets(it, p) \/ Misses(it, p) \/ LooksAgain(it, p)
    BY <2>1, <2>4, <1>1 DEF Fails, Meets, Misses, LooksAgain, Progress
  <2>5. ASSUME Makes(it, p)
        PROVE  FALSE
    BY <2>5, <1>1, <1>3 DEF Makes, SameRemote
  <2>6. CASE Replaces(it, p) \/ Removes(it, p) \/ Relocates(it, p)
    BY <2>1, <2>6, <1>1 DEF Replaces, Removes, Relocates, Progress
  <2> QED
    BY <2>2, <2>3, <2>4, <2>5, <2>6 DEF Comes
<1>4. CASE Makes(it, p)
  <2> DEFINE new == FromLocal(it, it.rel, 1)
  <2>1. remote' = Set(remote, nextId, new) /\ nextId' = nextId + 1 /\ unseen' = unseen
    BY <1>4 DEF Makes
  <2>2. p.id = w.id \/ p.id = nextId
    BY <1>4, <1>1 DEF Makes, Progress
  <2> HIDE DEF new
  <2>3. \A i \in DOMAIN remote' : i < nextId => i \in DOMAIN remote /\ remote'[i] = remote[i]
    BY <2>1, <1>1 DEF Set
  <2> QED
    BY <2>1, <2>2, <2>3, <1>1, <1>2 DEF RemoteAges
<1>5. CASE Replaces(it, p)
  <2> DEFINE new == [path |-> remote[w.id].path, size |-> it.size,
                     mtime |-> remote[w.id].mtime + 1, data |-> local[it.rel].mtime]
  <2>1. /\ w.id \in DOMAIN remote /\ remote' = [remote EXCEPT ![w.id] = new]
        /\ nextId' = nextId /\ unseen' = unseen \ {w.id}
    BY <1>5 DEF Replaces
  <2>2. new.mtime = remote[w.id].mtime + 1
    OBVIOUS
  <2>3. p.id = w.id
    BY <1>5, <1>1 DEF Replaces, Progress
  <2> HIDE DEF new
  <2>4. /\ DOMAIN remote' = DOMAIN remote /\ remote'[w.id].mtime = remote[w.id].mtime + 1
        /\ \A i \in DOMAIN remote \ {w.id} : remote'[i] = remote[i]
    BY <2>1, <2>2, <1>1
  <2> QED
    BY <2>1, <2>3, <2>4, <1>1, <1>2 DEF RemoteAges
<1>6. CASE Removes(it, p)
  <2>1. /\ remote' = Delete(remote, w.id) /\ nextId' = nextId /\ unseen' = unseen
        /\ p.id = w.id
    BY <1>6, <1>1 DEF Removes, Progress
  <2>2. DOMAIN remote' \subseteq DOMAIN remote /\ \A i \in DOMAIN remote' : remote'[i] = remote[i]
    BY <2>1 DEF Delete
  <2> QED
    BY <2>1, <2>2, <1>1, <1>2 DEF RemoteAges
<1>7. CASE Relocates(it, p)
  <2>1. /\ \E path : remote' = [remote EXCEPT ![w.id].path = path]
        /\ nextId' = nextId /\ unseen' = unseen
    BY <1>7 DEF Relocates
  <2>2. p.id = w.id
    BY <1>7, <1>1 DEF Relocates, Progress
  <2>3. DOMAIN remote' = DOMAIN remote
        /\ \A i \in DOMAIN remote' : remote'[i].mtime = remote[i].mtime
    BY <2>1, <1>1 DEF RemoteFile
  <2> QED
    BY <2>1, <2>2, <2>3, <1>1, <1>2 DEF RemoteAges
<1> QED
  BY <1>3, <1>4, <1>5, <1>6, <1>7 DEF Comes, Fails, Meets, Finds, Misses, Looks, LooksAgain

\* So they do in every step.
LEMMA Aging ==
  ASSUME Types, Known, [Next]_vars
  PROVE  RemoteAges
<1>1. /\ remote \in [DOMAIN remote -> RemoteFile] /\ DOMAIN remote \subseteq 1..(nextId - 1)
      /\ nextId \in Nat /\ unseen \subseteq 1..(nextId - 1)
  BY DEF Types, TreesTyped, Known
<1>2. \A i \in DOMAIN remote : remote[i].mtime \in Nat
  BY <1>1 DEF RemoteFile
<1>3. ASSUME UNCHANGED <<remote, nextId>>, unseen' \subseteq unseen
      PROVE  RemoteAges
  BY <1>1, <1>2, <1>3 DEF RemoteAges
<1>4. CASE Edit
  BY <1>3, <1>4, EditFacts
<1>5. CASE Other
  <2>1. PICK i :
              /\ unseen' = unseen \cup {i}
              /\ \/ /\ i = nextId /\ nextId' = nextId + 1
                    /\ \E new \in RemoteFile : remote' = Set(remote, nextId, new)
                 \/ /\ i \in DOMAIN remote /\ nextId' = nextId
                    /\ \E s \in Nat : remote' = [remote EXCEPT ![i].size = s, ![i].mtime = @ + 1,
                                                               ![i].data = 0]
                 \/ i \in DOMAIN remote /\ nextId' = nextId /\ remote' = Delete(remote, i)
    BY <1>5, OtherFacts
  <2>0. unseen' = unseen \cup {i}
    BY <2>1
  <2>2. CASE i = nextId /\ nextId' = nextId + 1
             /\ \E new \in RemoteFile : remote' = Set(remote, nextId, new)
    <3>1. \A j \in DOMAIN remote' : j < nextId => j \in DOMAIN remote /\ remote'[j] = remote[j]
      BY <2>2, <1>1 DEF Set
    <3> QED
      BY <2>0, <2>2, <3>1, <1>1, <1>2 DEF RemoteAges
  <2>3. CASE i \in DOMAIN remote /\ nextId' = nextId
             /\ \E s \in Nat : remote' = [remote EXCEPT ![i].size = s, ![i].mtime = @ + 1,
                                                        ![i].data = 0]
    <3>0. PICK s \in Nat : remote' = [remote EXCEPT ![i].size = s, ![i].mtime = @ + 1,
                                                   ![i].data = 0]
      BY <2>3
    <3>1. /\ DOMAIN remote' = DOMAIN remote /\ remote'[i].mtime = remote[i].mtime + 1
          /\ \A j \in DOMAIN remote \ {i} : remote'[j] = remote[j]
      <4>1. DOMAIN remote' = DOMAIN remote
            /\ \A j \in DOMAIN remote \ {i} : remote'[j] = remote[j]
        BY <3>0, <1>1
      <4>2. i \in DOMAIN remote /\ remote[i] \in RemoteFile
        BY <2>3, <1>1
      <4>3. remote'[i].mtime = remote[i].mtime + 1
        BY <3>0, <4>2, <1>1 DEF RemoteFile
      <4> QED
        BY <4>1, <4>3
    <3>2. i \in Nat /\ nextId' = nextId
      BY <2>3, <1>1
    <3> QED
      BY <2>0, <3>1, <3>2, <1>1, <1>2 DEF RemoteAges
  <2>4. CASE i \in DOMAIN remote /\ nextId' = nextId /\ remote' = Delete(remote, i)
    <3>1. /\ DOMAIN remote' = DOMAIN remote \ {i} /\ nextId' = nextId
          /\ \A j \in DOMAIN remote' : remote'[j] = remote[j]
      BY <2>4 DEF Delete
    <3> QED
      BY <2>0, <3>1, <1>1, <1>2 DEF RemoteAges
  <2> QED
    BY <2>1, <2>2, <2>3, <2>4
<1>6. CASE \E o \in Options : Begin(o)
  BY <1>3, <1>6, BeginFacts
<1>7. CASE \E it \in todo : CheckDrift(it)
  BY <1>3, <1>7 DEF CheckDrift, history
<1>8. CASE Goes
  BY <1>3, <1>8 DEF Goes
<1>9. CASE Ends
  BY <1>3, <1>9 DEF Ends
<1>10. CASE \E it \in waiting : Take(it)
  BY <1>3, <1>10 DEF Take, history
<1>11. ASSUME NEW it \in DOMAIN work, Call(it)
       PROVE  RemoteAges
  BY <1>11, Outcomes, CallAges
<1>12. ASSUME NEW it \in DOMAIN work, Collect(it)
       PROVE  RemoteAges
  BY <1>3, <1>12, CollectFacts
<1>13. ASSUME NEW it \in DOMAIN work, CollectFailure(it)
       PROVE  RemoteAges
  BY <1>3, <1>13 DEF CollectFailure
<1>14. CASE UNCHANGED vars
  BY <1>3, <1>14 DEF vars, history
<1> QED
  BY <1>4, <1>5, <1>6, <1>7, <1>8, <1>9, <1>10, <1>11, <1>12, <1>13, <1>14, NextCases

-----------------------------------------------------------------------------
(* What a step can do to the items, the entries and the progress            *)

\* Items are planned at the beginning of a run, and go through it one by one.
LEMMA Hands ==
  ASSUME Types, [Next]_vars
  PROVE  \/ \E o \in Options : Begin(o)
         \/ InHand' = {}
         \/ InHand' \subseteq InHand /\ opts' = opts /\ phase' # "idle" /\ phase # "idle"
         \/ InHand' = InHand /\ opts' = opts /\ phase' = phase /\ todo' = todo
            /\ waiting' = waiting /\ work' = work
<1>1. CASE Edit
  BY <1>1, EditFacts DEF run, InHand
<1>2. CASE Other
  BY <1>2, OtherFacts DEF run, InHand
<1>3. CASE \E it \in todo : CheckDrift(it)
  <2>1. PICK it \in todo : CheckDrift(it)
    BY <1>3
  <2>2. /\ phase = "drift" /\ todo' = todo \ {it}
        /\ waiting' = waiting \/ waiting' = waiting \cup {it}
        /\ UNCHANGED <<phase, opts, work>>
    BY <2>1 DEF CheckDrift
  <2> QED
    BY <2>2 DEF InHand
<1>4. CASE Goes
  BY <1>4 DEF Goes, InHand
<1>5. CASE Ends
  BY <1>5 DEF Ends, Abandon, InHand, Empty
<1>6. CASE \E it \in waiting : Take(it)
  <2>1. PICK it \in waiting : Take(it)
    BY <1>6
  <2>2. /\ phase = "run" /\ waiting' = waiting \ {it} /\ DOMAIN work' = DOMAIN work \cup {it}
        /\ UNCHANGED <<phase, opts, todo>>
    BY <2>1, TakeFacts
  <2> QED
    BY <2>2 DEF InHand
<1>7. ASSUME NEW it \in DOMAIN work, Call(it)
      PROVE  InHand' \subseteq InHand /\ opts' = opts /\ phase' # "idle" /\ phase # "idle"
  <2>1. UNCHANGED <<phase, opts, todo, waiting>> /\ phase = "run"
    BY <1>7, Outcomes DEF Beside, Types, Phases, RunTyped
  <2>2. DOMAIN work' = DOMAIN work
    BY <1>7, Outcomes, WithFacts
  <2> QED
    BY <2>1, <2>2 DEF InHand
<1>8. ASSUME NEW it \in DOMAIN work, Collect(it) \/ CollectFailure(it)
      PROVE  InHand' \subseteq InHand /\ opts' = opts /\ phase' # "idle" /\ phase # "idle"
  <2>1. Drop(it) /\ UNCHANGED <<phase, opts, todo, waiting>> /\ phase = "run"
    BY <1>8, CollectFacts DEF CollectFailure, Types, Phases, RunTyped
  <2>2. DOMAIN work' = DOMAIN work \ {it}
    BY <2>1, DropFacts
  <2> QED
    BY <2>1, <2>2 DEF InHand
<1>9. CASE UNCHANGED vars
  BY <1>9 DEF vars, run, InHand
<1> QED
  BY <1>1, <1>2, <1>3, <1>4, <1>5, <1>6, <1>7, <1>8, <1>9, NextCases

\* A manifest is one there was, the baseline of a new run, or one with a result in it.
LEMMA Manifests ==
  ASSUME Types, [Next]_vars
  PROVE  \/ UNCHANGED <<m, disk>> \/ Ends
         \/ \E o \in Options : Begin(o) /\ m' = Base(o) /\ disk' = disk
         \/ \E it \in DOMAIN work : Collect(it) /\ m' = Recorded(it) /\ disk' \in {m', disk}
<1>1. CASE Edit
  BY <1>1, EditFacts
<1>2. CASE Other
  BY <1>2, OtherFacts
<1>3. CASE \E it \in todo : CheckDrift(it)
  BY <1>3 DEF CheckDrift
<1>4. CASE Goes
  BY <1>4 DEF Goes
<1>6. CASE \E it \in waiting : Take(it)
  BY <1>6 DEF Take
<1>7. ASSUME NEW it \in DOMAIN work, Call(it)
      PROVE  m' = m /\ disk' = disk
  BY <1>7, Outcomes DEF Beside
<1>8. ASSUME NEW it \in DOMAIN work, Collect(it)
      PROVE  m' = Recorded(it) /\ disk' \in {m', disk}
  BY <1>8, CollectFacts
<1>9. ASSUME NEW it \in DOMAIN work, CollectFailure(it)
      PROVE  m' = m /\ disk' = disk
  BY <1>9 DEF CollectFailure
<1>10. CASE UNCHANGED vars
  BY <1>10 DEF vars
<1>11. ASSUME NEW o \in Options, Begin(o)
       PROVE  m' = Base(o) /\ disk' = disk
  BY <1>11, BeginFacts
<1> QED
  BY <1>1, <1>2, <1>3, <1>4, <1>6, <1>7, <1>8, <1>9, <1>10, <1>11, NextCases

\* What taking an item, or a call, does is to its own progress.
LEMMA Progresses ==
  ASSUME Types, [Next]_vars, NEW it \in DOMAIN work'
  PROVE  \/ it \in DOMAIN work /\ work'[it] = work[it]
         \/ /\ it \in waiting /\ it \notin DOMAIN work /\ Take(it)
            /\ work'[it] = [at |-> FirstCall[it.op], id |-> it.remoteID, mtime |-> 0,
                            path |-> it.rel]
         \/ it \in DOMAIN work /\ Call(it) /\ Comes(it, work'[it])
<1>1. ASSUME work' = work
      PROVE  it \in DOMAIN work /\ work'[it] = work[it]
  BY <1>1
<1>2. CASE Edit
  BY <1>1, <1>2, EditFacts DEF run
<1>3. CASE Other
  BY <1>1, <1>3, OtherFacts DEF run
<1>4. CASE \E i \in todo : CheckDrift(i)
  BY <1>1, <1>4 DEF CheckDrift
<1>5. CASE Goes
  BY <1>1, <1>5 DEF Goes
<1>6. CASE Ends
  BY <1>6 DEF Ends, Abandon, Empty
<1>7. CASE \E i \in waiting : Take(i)
  <2>1. PICK i \in waiting : Take(i)
    BY <1>7
  <2>2. CASE it = i
    BY <2>1, <2>2, TakeFacts
  <2>3. CASE it # i
    BY <2>1, <2>3, TakeFacts
  <2> QED
    BY <2>2, <2>3
<1>8. ASSUME NEW i \in DOMAIN work, Call(i)
      PROVE  \/ it \in DOMAIN work /\ work'[it] = work[it]
             \/ it \in DOMAIN work /\ Call(it) /\ Comes(it, work'[it])
  <2>1. PICK p : With(i, p) /\ Comes(i, p)
    BY <1>8, Outcomes
  <2>2. /\ DOMAIN work' = DOMAIN work /\ work'[i] = p
        /\ \A other \in DOMAIN work \ {i} : work'[other] = work[other]
    BY <2>1, WithFacts
  <2> QED
    BY <1>8, <2>1, <2>2
<1>9. ASSUME NEW i \in DOMAIN work, Collect(i) \/ CollectFailure(i)
      PROVE  it \in DOMAIN work /\ work'[it] = work[it]
  <2>1. Drop(i)
    BY <1>9 DEF Collect, CollectFailure
  <2> QED
    BY <2>1, DropFacts
<1>10. CASE UNCHANGED vars
  BY <1>1, <1>10 DEF vars, run
<1>11. ASSUME NEW o \in Options, Begin(o)
       PROVE  work' = work
  BY <1>11, BeginFacts
<1> QED
  BY <1>1, <1>2, <1>3, <1>4, <1>5, <1>6, <1>7, <1>8, <1>9, <1>10, <1>11, NextCases

\* Ids become unseen by other clients' changes alone.
LEMMA Unseens ==
  ASSUME Types, [Next]_vars
  PROVE  \/ unseen' \subseteq unseen
         \/ Other
<1>1. CASE Edit
  BY <1>1, EditFacts
<1>2. CASE \E o \in Options : Begin(o)
  BY <1>2, BeginFacts
<1>3. CASE \E it \in todo : CheckDrift(it)
  BY <1>3 DEF CheckDrift, history
<1>4. CASE Goes
  BY <1>4 DEF Goes
<1>5. CASE Ends
  BY <1>5 DEF Ends
<1>6. CASE \E it \in waiting : Take(it)
  BY <1>6 DEF Take, history
<1>7. ASSUME NEW it \in DOMAIN work, Call(it)
      PROVE  unseen' \subseteq unseen
  BY <1>7, Outcomes, CallAges
<1>8. ASSUME NEW it \in DOMAIN work, Collect(it) \/ CollectFailure(it)
      PROVE  unseen' \subseteq unseen
  BY <1>8 DEF Collect, CollectFailure
<1>9. CASE UNCHANGED vars
  BY <1>9 DEF vars, history
<1> QED
  BY <1>1, <1>2, <1>3, <1>4, <1>5, <1>6, <1>7, <1>8, <1>9, NextCases

\* An entry of a manifest that a result was recorded in.
LEMMA Entries ==
  ASSUME Types, NEW it \in DOMAIN work, NEW r \in DOMAIN Recorded(it)
  PROVE  \/ r \in DOMAIN m /\ Recorded(it)[r] = m[r] /\ (it.op = "delete" \/ r # it.rel)
         \/ /\ it.op # "delete" /\ r = it.rel
            /\ Recorded(it)[r] = [size |-> it.size, localMtime |-> it.mtime,
                                  remoteID |-> work[it].id, remoteMtime |-> work[it].mtime]
<1>1. CASE it.op = "delete"
  <2>1. Recorded(it) = Delete(m, it.rel)
    BY <1>1, RecordedFacts
  <2> QED
    BY <1>1, <2>1 DEF Delete
<1>2. CASE it.op # "delete" /\ r = it.rel
  BY <1>2, RecordedFacts
<1>3. CASE it.op # "delete" /\ r # it.rel
  BY <1>3, RecordedFacts
<1> QED
  BY <1>1, <1>2, <1>3

\* The world of a behaviour never changes.
LEMMA SameWorld ==
  ASSUME Types, [Next]_vars
  PROVE  setting' = setting
<1>1. CASE Edit
  BY <1>1, EditFacts
<1>2. CASE Other
  BY <1>2, OtherFacts
<1>3. CASE \E o \in Options : Begin(o)
  BY <1>3 DEF Begin
<1>4. CASE \E it \in todo : CheckDrift(it)
  BY <1>4 DEF CheckDrift
<1>5. CASE Goes \/ Ends
  BY <1>5 DEF Goes, Ends
<1>6. CASE \E it \in waiting : Take(it)
  BY <1>6 DEF Take
<1>7. ASSUME NEW it \in DOMAIN work, Call(it)
      PROVE  setting' = setting
  BY <1>7, Outcomes DEF Beside
<1>8. ASSUME NEW it \in DOMAIN work, Collect(it) \/ CollectFailure(it)
      PROVE  setting' = setting
  BY <1>8 DEF Collect, CollectFailure
<1>9. CASE UNCHANGED vars
  BY <1>9 DEF vars
<1> QED
  BY <1>1, <1>2, <1>3, <1>4, <1>5, <1>6, <1>7, <1>8, <1>9, NextCases

\* Every step keeps ids known.
LEMMA KnownStep ==
  ASSUME Types, Known, [Next]_vars
  PROVE  Known'
<1>0. Types' /\ RemoteAges
  BY TypesStep, Aging
<1>1. nextId \in Nat /\ nextId' \in Nat /\ nextId' >= nextId
      /\ DOMAIN remote \subseteq 1..(nextId - 1)
  BY <1>0 DEF Types, TreesTyped, RemoteAges
<1>a. 1..(nextId - 1) \subseteq 1..(nextId' - 1)
  <2>1. \A a, b \in Nat : b >= a => 1..(a - 1) \subseteq 1..(b - 1)
    OBVIOUS
  <2> QED
    BY <1>1, <2>1
<1>2. unseen' \subseteq 1..(nextId' - 1) /\ (MaxForeign' = 0 => unseen' = {})
  <2>1. MaxForeign' = MaxForeign
    BY SameWorld DEF MaxForeign
  <2>0. unseen \subseteq 1..(nextId - 1) /\ (MaxForeign = 0 => unseen = {})
    BY DEF Known
  <2>2. CASE unseen' \subseteq unseen
    BY <2>0, <2>1, <2>2, <1>a
  <2>3. CASE Other
    <3>1. PICK i : /\ unseen' = unseen \cup {i}
                   /\ \/ i = nextId /\ nextId' = nextId + 1
                      \/ i \in DOMAIN remote
      BY <2>3, OtherFacts
    <3>2. i \in 1..(nextId' - 1)
      BY <3>1, <1>0, <1>1 DEF Types, TreesTyped
    <3>3. foreign \in Nat /\ foreign < MaxForeign
      BY <2>3, OtherFacts DEF Types, RunTyped
    <3>4. MaxForeign # 0
      BY <3>3
    <3> QED
      BY <2>0, <2>1, <3>1, <3>2, <3>4, <1>a
  <2> QED
    BY <2>2, <2>3, Unseens
<1>3. \A o \in Options : Begin(o) => \A r \in DOMAIN Base(o) : Base(o)[r].remoteID < nextId
  <2> SUFFICES ASSUME NEW o \in Options, NEW r \in DOMAIN Base(o)
               PROVE  Base(o)[r].remoteID < nextId
    OBVIOUS
  <2>1. CASE r \in Seeded(o)
    <3>1. /\ Base(o)[r] = [size |-> Index[r].size, localMtime |-> local[r].mtime,
                            remoteID |-> Index[r].id, remoteMtime |-> Index[r].mtime]
          /\ r \in DOMAIN Index
      BY <2>1, BaseFacts
    <3>2. Base(o)[r].remoteID = Index[r].id
      BY <3>1
    <3> QED
      BY <3>1, <3>2, IndexFacts, <1>1
  <2>2. CASE r \notin Seeded(o)
    BY <2>2, BaseFacts DEF Known
  <2> QED
    BY <2>1, <2>2
<1>4. ASSUME NEW it \in DOMAIN work
      PROVE  \A r \in DOMAIN Recorded(it) : Recorded(it)[r].remoteID < nextId
  <2> SUFFICES ASSUME NEW r \in DOMAIN Recorded(it)
               PROVE  Recorded(it)[r].remoteID < nextId
    OBVIOUS
  <2>1. CASE it.op = "delete" \/ r # it.rel
    <3>1. r \in DOMAIN m /\ Recorded(it)[r] = m[r]
      BY <2>1, Entries
    <3> QED
      BY <3>1 DEF Known
  <2>2. CASE it.op # "delete" /\ r = it.rel
    <3>1. Recorded(it)[r] = [size |-> it.size, localMtime |-> it.mtime,
                             remoteID |-> work[it].id, remoteMtime |-> work[it].mtime]
      BY <2>2, Entries
    <3>2. Recorded(it)[r].remoteID = work[it].id
      BY <3>1
    <3> QED
      BY <3>2 DEF Known
  <2> QED
    BY <2>1, <2>2
<1>5. /\ \A r \in DOMAIN m' : m'[r].remoteID < nextId
      /\ \A r \in DOMAIN disk' : disk'[r].remoteID < nextId
  BY <1>3, <1>4, Manifests DEF Known, Ends
<1>6. \A r \in Spots : /\ r \in DOMAIN m' => m'[r].remoteID \in Nat
                       /\ r \in DOMAIN disk' => disk'[r].remoteID \in Nat
  BY <1>0 DEF Types, TreesTyped, Table, ManifestEntry
<1>7. /\ \A r \in DOMAIN m' : m'[r].remoteID < nextId'
      /\ \A r \in DOMAIN disk' : disk'[r].remoteID < nextId'
  <2>1. DOMAIN m' \subseteq Spots /\ DOMAIN disk' \subseteq Spots
    BY <1>0 DEF Types, TreesTyped, Table
  <2> QED
    BY <1>1, <1>5, <1>6, <2>1
<1>8. ASSUME NEW it \in InHand'
      PROVE  it.remoteID \in Nat /\ it.remoteID < nextId' /\ (it.op = "move" => opts'.detectMoves)
  <2>0. it \in Item
    BY <1>0, <1>8 DEF InHand, Types, RunTyped
  <2>1. CASE it \in InHand /\ opts' = opts
    BY <2>0, <2>1, <1>1 DEF Known, Item
  <2>2. ASSUME NEW o \in Options, Begin(o)
        PROVE  it.remoteID < nextId' /\ (it.op = "move" => opts'.detectMoves)
    <3>1. /\ InHand' = todo' \cup waiting' /\ todo' \cup waiting' = Planned(o, Base(o))
          /\ opts' = o /\ nextId' = nextId
      BY <2>2, BeginFacts DEF InHand, Types, Phases
    <3>2. Sound(it, Base(o))
      BY <2>2, <3>1, <1>8, BeginFacts
    <3>3. it.remoteID < nextId
      BY <2>0, <2>2, <3>2, <1>1, <1>3 DEF Sound, Item, Types, TreesTyped
    <3>4. Table(local, LocalFile) /\ Sizes \subseteq Nat /\ Table(Base(o), ManifestEntry)
      BY World, BaseFacts DEF Types, TreesTyped
    <3>5. ~o.detectMoves => it.op # "move"
      BY <3>1, <3>4, <1>8, PlannedSound
    <3> QED
      BY <3>1, <3>3, <3>5
  <2> QED
    BY <2>0, <2>1, <2>2, <1>8, Hands DEF Item
<1>9. ASSUME NEW it \in DOMAIN work'
      PROVE  work'[it].id < nextId'
  <2>0. work'[it].id \in Nat
    BY <1>0 DEF Types, RunTyped, Progress
  <2>1. CASE it \in DOMAIN work /\ work'[it] = work[it]
    BY <2>0, <2>1, <1>1 DEF Known
  <2>2. CASE it \in waiting /\ work'[it] = [at |-> FirstCall[it.op], id |-> it.remoteID,
                                            mtime |-> 0, path |-> it.rel]
    <3>1. work'[it].id = it.remoteID /\ it \in InHand
      BY <2>2 DEF InHand
    <3> QED
      BY <2>0, <3>1, <1>1 DEF Known
  <2>3. CASE it \in DOMAIN work /\ Comes(it, work'[it])
    <3>1. work'[it].id = work[it].id \/ work'[it].id < nextId'
      BY <2>3, CallAges
    <3> QED
      BY <2>0, <2>3, <3>1, <1>1 DEF Known
  <2> QED
    BY <2>1, <2>2, <2>3, Progresses
<1> QED
  BY <1>2, <1>7, <1>8, <1>9 DEF Known

-----------------------------------------------------------------------------
(* What other clients do stays visible                                      *)

\* Where other clients are about nobody uses --detect-moves: a move is not drift-checked
\* and records the mtime it finds (syncer/executor.go).
NoMoves == \A o \in Options : ~o.detectMoves

NoBlindMoves == MaxForeign = 0 \/ NoMoves

\* the file had this mtime at the latest, and another one before others changed it
Past(i, t) ==
  i \in DOMAIN remote => t <= remote[i].mtime /\ (i \in unseen => t < remote[i].mtime)

\* the same after the step
PastNext(i, t) ==
  i \in DOMAIN remote' => t <= remote'[i].mtime /\ (i \in unseen' => t < remote'[i].mtime)

\* Results that wait for the collector matter too: they will be entries.
Behind ==
  /\ \A r \in DOMAIN m : Past(m[r].remoteID, m[r].remoteMtime)
  /\ \A r \in DOMAIN disk : Past(disk[r].remoteID, disk[r].remoteMtime)
  /\ \A it \in DOMAIN work :
       work[it].at = "done" /\ it.op # "delete" => Past(work[it].id, work[it].mtime)

\* What was past stays past.
LEMMA PastKept ==
  ASSUME Types, Types', RemoteAges, NEW i \in Nat, NEW t \in Nat, i < nextId, Past(i, t)
  PROVE  PastNext(i, t)
<1> SUFFICES ASSUME i \in DOMAIN remote'
             PROVE  t <= remote'[i].mtime /\ (i \in unseen' => t < remote'[i].mtime)
  BY DEF PastNext
<1>1. /\ i \in DOMAIN remote /\ remote'[i].mtime >= remote[i].mtime
      /\ i \in unseen' => i \in unseen \/ remote'[i].mtime > remote[i].mtime
  BY DEF RemoteAges
<1>2. remote[i] \in RemoteFile /\ remote'[i] \in RemoteFile
  BY <1>1 DEF Types, TreesTyped
<1>3. remote[i].mtime \in Nat /\ remote'[i].mtime \in Nat
  BY <1>2 DEF RemoteFile
<1>4. t <= remote[i].mtime /\ (i \in unseen => t < remote[i].mtime)
  BY <1>1 DEF Past
<1> QED
  BY <1>1, <1>3, <1>4

\* A result is the mtime its file has.
LEMMA DonePast ==
  ASSUME Types, Known, NoBlindMoves, NEW it \in DOMAIN work, NEW p, Comes(it, p),
         p.at = "done", it.op # "delete", work[it].at # "done"
  PROVE  PastNext(p.id, p.mtime)
<1> DEFINE w == work[it]
<1>1. /\ remote \in [DOMAIN remote -> RemoteFile] /\ DOMAIN remote \subseteq 1..(nextId - 1)
      /\ nextId \in Nat /\ w \in Progress /\ it \in Item /\ Fits(it, w)
  BY DEF Types, TreesTyped, RunTyped, Phases
<1>2. \A i \in DOMAIN remote : remote[i].mtime \in Nat
  BY <1>1 DEF RemoteFile
<1>3. it.op = "move" => unseen = {}
  <2> SUFFICES ASSUME it.op = "move" PROVE unseen = {}
    OBVIOUS
  <2>1. opts \in Options /\ opts.detectMoves
    BY DEF Types, Phases, RunTyped, Known, InHand
  <2>2. MaxForeign = 0
    BY <2>1 DEF NoBlindMoves, NoMoves
  <2> QED
    BY <2>2 DEF Known
<1>4. CASE Fails(it, p) \/ Meets(it, p) \/ Misses(it, p) \/ Removes(it, p)
  <2>1. CASE Fails(it, p)
    BY <2>1, <1>1 DEF Fails, Progress
  <2>2. CASE Meets(it, p)
    BY <2>2, <1>1 DEF Meets, Progress
  <2>3. CASE Misses(it, p) \/ Removes(it, p)
    BY <2>3, <1>1 DEF Misses, Removes, Fits, Item
  <2> QED
    BY <1>4, <2>1, <2>2, <2>3
<1>5. CASE Finds(it, p)
  <2>1. PICK i \in DOMAIN remote : p = [w EXCEPT !.at = "replace", !.id = i]
    BY <1>5 DEF Finds
  <2> QED
    BY <2>1, <1>1 DEF Progress
<1>6. CASE Looks(it, p) \/ LooksAgain(it, p)
  <2>1. it.op = "move"
    BY <1>1, <1>6 DEF Looks, LooksAgain, Fits, Item
  <2>2. p.id \in DOMAIN remote /\ p.mtime = remote[p.id].mtime
    <3>1. CASE Looks(it, p)
      BY <3>1 DEF Looks
    <3>2. CASE LooksAgain(it, p)
      BY <3>2, <1>1 DEF LooksAgain, Progress
    <3> QED
      BY <1>6, <3>1, <3>2
  <2>3. remote' = remote /\ unseen' = unseen
    BY <1>6 DEF Looks, LooksAgain, SameRemote
  <2> QED
    BY <2>1, <2>2, <2>3, <1>2, <1>3 DEF PastNext
<1>7. CASE Makes(it, p)
  <2> DEFINE new == FromLocal(it, it.rel, 1)
  <2>1. remote' = Set(remote, nextId, new) /\ unseen' = unseen
    BY <1>7 DEF Makes
  <2>2. p.id = nextId /\ p.mtime = 1
    BY <1>7, <1>1 DEF Makes, Progress
  <2>3. new.mtime = 1
    BY DEF FromLocal
  <2> HIDE DEF new
  <2>4. nextId \notin unseen
    BY <1>1 DEF Known
  <2>5. remote'[nextId].mtime = 1
    BY <2>1, <2>3 DEF Set
  <2> QED
    BY <2>1, <2>2, <2>4, <2>5 DEF PastNext
<1>8. CASE Replaces(it, p)
  <2> DEFINE new == [path |-> remote[w.id].path, size |-> it.size,
                     mtime |-> remote[w.id].mtime + 1, data |-> local[it.rel].mtime]
  <2>1. /\ w.id \in DOMAIN remote /\ remote' = [remote EXCEPT ![w.id] = new]
        /\ unseen' = unseen \ {w.id}
    BY <1>8 DEF Replaces
  <2>2. new.mtime = remote[w.id].mtime + 1
    OBVIOUS
  <2>3. p.id = w.id /\ p.mtime = remote[w.id].mtime + 1
    BY <1>8, <1>1 DEF Replaces, Progress
  <2> HIDE DEF new
  <2>4. remote'[w.id].mtime = remote[w.id].mtime + 1
    BY <2>1, <2>2, <1>1
  <2> QED
    BY <2>1, <2>3, <2>4, <1>2 DEF PastNext
<1>9. CASE Relocates(it, p)
  <2>1. /\ w.id \in DOMAIN remote /\ unseen' = unseen
        /\ w.at \in {"move", "rename"}
        /\ \E path : remote' = [remote EXCEPT ![w.id].path = path]
    BY <1>9 DEF Relocates
  <2>2. it.op = "move"
    BY <2>1, <1>1 DEF Fits, Item
  <2>3. p.id = w.id /\ p.mtime = remote[w.id].mtime
    <3>1. \/ p = [w EXCEPT !.at = "failed"]
          \/ w.at = "move" /\ \E a \in {"rename", "restat"} : p = [w EXCEPT !.at = a]
          \/ p = [w EXCEPT !.at = "done", !.mtime = remote[w.id].mtime]
      BY <1>9 DEF Relocates
    <3> QED
      BY <3>1, <1>1 DEF Progress
  <2>4. remote'[w.id].mtime = remote[w.id].mtime
    BY <2>1, <1>1 DEF RemoteFile
  <2> QED
    BY <2>1, <2>2, <2>3, <2>4, <1>2, <1>3 DEF PastNext
<1> QED
  BY <1>4, <1>5, <1>6, <1>7, <1>8, <1>9 DEF Comes

\* A call is of an item that is not done.
LEMMA NotDone ==
  ASSUME NEW it \in DOMAIN work, Call(it)
  PROVE  work[it].at # "done" /\ work[it].at # "failed"
  BY DEF Call, Create, Find, Replace, Remove, MoveStat, MoveCall, RenameCall, MoveRestat, InCall

\* Every step keeps baselines behind what they are of.
LEMMA BehindStep ==
  ASSUME Types, Known, NoBlindMoves, Behind, [Next]_vars
  PROVE  Behind'
<1>0. Types' /\ RemoteAges
  BY TypesStep, Aging
<1>1. ASSUME NEW r \in DOMAIN m
      PROVE  PastNext(m[r].remoteID, m[r].remoteMtime)
  <2>1. m[r] \in ManifestEntry
    BY DEF Types, TreesTyped, Table
  <2>2. /\ m[r].remoteID \in Nat /\ m[r].remoteMtime \in Nat /\ m[r].remoteID < nextId
        /\ Past(m[r].remoteID, m[r].remoteMtime)
    BY <2>1 DEF ManifestEntry, Known, Behind
  <2> QED
    BY <2>2, <1>0, PastKept
<1>2. ASSUME NEW r \in DOMAIN disk
      PROVE  PastNext(disk[r].remoteID, disk[r].remoteMtime)
  <2>1. disk[r] \in ManifestEntry
    BY DEF Types, TreesTyped, Table
  <2>2. /\ disk[r].remoteID \in Nat /\ disk[r].remoteMtime \in Nat /\ disk[r].remoteID < nextId
        /\ Past(disk[r].remoteID, disk[r].remoteMtime)
    BY <2>1 DEF ManifestEntry, Known, Behind
  <2> QED
    BY <2>2, <1>0, PastKept
<1>3. ASSUME NEW it \in DOMAIN work, work[it].at = "done", it.op # "delete"
      PROVE  PastNext(work[it].id, work[it].mtime)
  <2>1. work[it] \in Progress
    BY DEF Types, RunTyped
  <2>2. /\ work[it].id \in Nat /\ work[it].mtime \in Nat /\ work[it].id < nextId
        /\ Past(work[it].id, work[it].mtime)
    BY <1>3, <2>1 DEF Progress, Known, Behind
  <2> QED
    BY <2>2, <1>0, PastKept
<1>4. ASSUME NEW o \in Options, Begin(o), NEW r \in DOMAIN Base(o)
      PROVE  PastNext(Base(o)[r].remoteID, Base(o)[r].remoteMtime)
  <2>1. CASE r \in Seeded(o)
    <3>1. /\ Base(o)[r] = [size |-> Index[r].size, localMtime |-> local[r].mtime,
                           remoteID |-> Index[r].id, remoteMtime |-> Index[r].mtime]
          /\ r \in DOMAIN Index
      BY <2>1, BaseFacts
    <3>2. /\ Base(o)[r].remoteID = Index[r].id /\ Base(o)[r].remoteMtime = Index[r].mtime
          /\ Index[r].id \in DOMAIN remote /\ Index[r].mtime = remote[Index[r].id].mtime
      BY <3>1, IndexFacts
    <3>3. remote' = remote /\ unseen' = unseen \ {Index[q].id : q \in Seeded(o)}
      BY <1>4, BeginFacts
    <3>4. Index[r].id \notin unseen'
      BY <2>1, <3>3
    <3>5. remote[Index[r].id].mtime \in Nat
      BY <3>2 DEF Types, TreesTyped, RemoteFile
    <3> QED
      BY <3>2, <3>3, <3>4, <3>5 DEF PastNext
  <2>2. CASE r \notin Seeded(o)
    BY <2>2, <1>2, BaseFacts
  <2> QED
    BY <2>1, <2>2
<1>5. ASSUME NEW it \in DOMAIN work, Collect(it), NEW r \in DOMAIN Recorded(it)
      PROVE  PastNext(Recorded(it)[r].remoteID, Recorded(it)[r].remoteMtime)
  <2>1. CASE r \in DOMAIN m /\ Recorded(it)[r] = m[r]
    BY <2>1, <1>1
  <2>2. CASE it.op # "delete"
             /\ Recorded(it)[r] = [size |-> it.size, localMtime |-> it.mtime,
                                   remoteID |-> work[it].id, remoteMtime |-> work[it].mtime]
    <3>1. work[it].at = "done"
      BY <1>5, CollectFacts
    <3>2. Recorded(it)[r].remoteID = work[it].id /\ Recorded(it)[r].remoteMtime = work[it].mtime
      BY <2>2
    <3> QED
      BY <2>2, <3>1, <3>2, <1>3
  <2> QED
    BY <2>1, <2>2, Entries
<1>6. /\ \A r \in DOMAIN m' : PastNext(m'[r].remoteID, m'[r].remoteMtime)
      /\ \A r \in DOMAIN disk' : PastNext(disk'[r].remoteID, disk'[r].remoteMtime)
  <2>1. CASE UNCHANGED <<m, disk>> \/ Ends
    <3>1. m' \in {m, disk} /\ disk' \in {m, disk}
      BY <2>1 DEF Ends
    <3> QED
      BY <3>1, <1>1, <1>2
  <2>2. ASSUME NEW o \in Options, Begin(o), m' = Base(o), disk' = disk
        PROVE  <1>6!1 /\ <1>6!2
    BY <2>2, <1>2, <1>4
  <2>3. ASSUME NEW it \in DOMAIN work, Collect(it), m' = Recorded(it), disk' \in {m', disk}
        PROVE  <1>6!1 /\ <1>6!2
    BY <2>3, <1>2, <1>5
  <2> QED
    BY <2>1, <2>2, <2>3, Manifests
<1>7. ASSUME NEW it \in DOMAIN work', work'[it].at = "done", it.op # "delete"
      PROVE  PastNext(work'[it].id, work'[it].mtime)
  <2>1. CASE it \in DOMAIN work /\ work'[it] = work[it]
    BY <2>1, <1>3, <1>7
  <2>2. CASE it \in waiting /\ work'[it] = [at |-> FirstCall[it.op], id |-> it.remoteID,
                                            mtime |-> 0, path |-> it.rel]
    <3>1. work'[it].at = FirstCall[it.op] /\ it \in Item
      BY <2>2 DEF Types, RunTyped
    <3> QED
      BY <3>1, <1>7 DEF FirstCall, Item
  <2>3. CASE it \in DOMAIN work /\ Call(it) /\ Comes(it, work'[it])
    BY <2>3, <1>7, NotDone, DonePast
  <2> QED
    BY <2>1, <2>2, <2>3, Progresses
<1>8. Behind' = (/\ \A r \in DOMAIN m' : PastNext(m'[r].remoteID, m'[r].remoteMtime)
                 /\ \A r \in DOMAIN disk' : PastNext(disk'[r].remoteID, disk'[r].remoteMtime)
                 /\ \A it \in DOMAIN work' :
                      work'[it].at = "done" /\ it.op # "delete" =>
                        PastNext(work'[it].id, work'[it].mtime))
  BY DEF Behind, Past, PastNext
<1> QED
  BY <1>6, <1>7, <1>8

\* The manifest keeps what is needed to see them.
LEMMA BehindSees ==
  ASSUME Types, Behind
  PROVE  UnseenStaysUnseen
<1> SUFFICES ASSUME NEW f \in {m, disk}, NEW r \in DOMAIN f,
                    f[r].remoteID \in unseen \cap DOMAIN remote
             PROVE  RemoteTouched(remote[f[r].remoteID], f[r])
  BY DEF UnseenStaysUnseen
<1>1. Past(f[r].remoteID, f[r].remoteMtime)
  BY DEF Behind
<1>2. f[r] \in ManifestEntry /\ remote[f[r].remoteID] \in RemoteFile
  BY DEF Types, TreesTyped, Table
<1>3. f[r].remoteMtime < remote[f[r].remoteID].mtime
  BY <1>1 DEF Past
<1>4. f[r].remoteMtime \in Nat /\ remote[f[r].remoteID].mtime \in Nat
  BY <1>2 DEF ManifestEntry, RemoteFile
<1> QED
  BY <1>3, <1>4 DEF RemoteTouched

\* Ids, first: whoever holds one holds one that was given.
LEMMA KnownAlways == Spec => []Known
<1>1. Init => Known
  <2> SUFFICES ASSUME Init PROVE Known
    OBVIOUS
  <2>1. Types
    BY Starts
  <2>2. /\ unseen = {} /\ InHand = {} /\ DOMAIN work = {} /\ m = disk
    BY DEF Init, InHand, Empty
  <2>3. ASSUME NEW r \in DOMAIN disk
        PROVE  disk[r].remoteID < nextId
    <3> DEFINE tree == DOMAIN StartTree
               N == Cardinality(tree)
    <3>1. /\ disk = (IF Synced THEN [q \in tree |-> StartEntry(q)] ELSE Empty)
          /\ nextId = N + 1 /\ setting \in DOMAIN Settings
      BY DEF Init
    <3>2. Synced /\ r \in tree /\ disk[r] = StartEntry(r)
      BY <3>1 DEF Empty
    <3>3. StartTree[r].mtime \in 1..N /\ N \in Nat
      <4>1. IsFiniteSet(tree) /\ StartTree \in [tree -> [size : Sizes, mtime : 1..N]]
        BY <3>1, World
      <4>2. StartTree[r] \in [size : Sizes, mtime : 1..N]
        BY <3>2, <4>1
      <4>3. N \in Nat
        BY <4>1, FS_CardinalityType
      <4> HIDE DEF N
      <4> QED
        BY <4>2, <4>3
    <3>4. disk[r].remoteID = StartTree[r].mtime
      BY <3>2 DEF StartEntry, Entry
    <3> QED
      BY <3>1, <3>3, <3>4
  <2> QED
    BY <2>2, <2>3 DEF Known
<1>2. Types /\ Known /\ [Next]_vars => Known'
  BY KnownStep
<1> QED
  BY <1>1, <1>2, TypesAlways, PTL DEF Spec

\* No baseline is ever of a version to come, or of one that another client changed since.
LEMMA BehindAlways == Spec /\ []NoBlindMoves => []Behind
<1>1. Init => Behind
  <2> SUFFICES ASSUME Init PROVE Behind
    OBVIOUS
  <2>1. unseen = {} /\ DOMAIN work = {} /\ m = disk /\ setting \in DOMAIN Settings
    BY DEF Init, Empty
  <2>2. ASSUME NEW r \in DOMAIN disk
        PROVE  Past(disk[r].remoteID, disk[r].remoteMtime)
    <3> DEFINE tree == DOMAIN StartTree
               R(i) == CHOOSE q \in tree : StartTree[q].mtime = i
    <3>1. /\ disk = (IF Synced THEN [q \in tree |-> StartEntry(q)] ELSE Empty)
          /\ Synced => remote = [i \in {StartTree[q].mtime : q \in tree} |->
                                   [path |-> R(i), size |-> StartTree[R(i)].size, mtime |-> 1,
                                    data |-> i]]
      BY DEF Init
    <3>2. Synced /\ r \in tree /\ disk[r] = StartEntry(r)
      BY <3>1 DEF Empty
    <3>3. \A i \in DOMAIN remote : remote[i].mtime = 1
      BY <3>1, <3>2
    <3>4. disk[r].remoteMtime = 1
      BY <3>2 DEF StartEntry, Entry
    <3> QED
      BY <2>1, <3>3, <3>4 DEF Past
  <2> QED
    BY <2>1, <2>2 DEF Behind
<1>2. Types /\ Known /\ NoBlindMoves /\ Behind /\ [Next]_vars => Behind'
  BY BehindStep
<1> QED
  BY <1>1, <1>2, TypesAlways, KnownAlways, PTL DEF Spec

\* No run, however it fails or is killed, brings the baseline of a file another client
\* changed to the changed version without having seen it: the drift check of the next
\* run, and the next pull, still find the difference (syncer/run.go records what a call
\* answered, and nothing else).
THEOREM UnseenChanges == Spec /\ []NoBlindMoves => []UnseenStaysUnseen
<1>1. Types /\ Behind => UnseenStaysUnseen
  BY BehindSees
<1> QED
  BY <1>1, TypesAlways, BehindAlways, PTL

-----------------------------------------------------------------------------
(* The drift check                                                          *)

\* Items to be checked are about the file their entry names; what was checked, or was
\* not to be, is about a file nobody has changed unseen.
Checked ==
  /\ phase = "drift" => \A it \in todo : /\ it.op \in {"overwrite", "delete"}
                                         /\ it.rel \in DOMAIN m
                                         /\ m[it.rel].remoteID = it.remoteID
  /\ phase # "idle" /\ ~opts.force =>
       \A it \in waiting \cup DOMAIN work :
          it.op \in {"overwrite", "delete"} => it.remoteID \notin unseen \cap DOMAIN remote

\* Where an item in the queue or at a worker was before the step.
LEMMA Queue ==
  ASSUME Types, [Next]_vars, NEW it \in waiting' \cup DOMAIN work'
  PROVE  \/ it \in waiting \cup DOMAIN work /\ opts' = opts /\ phase # "idle"
         \/ /\ it \in todo /\ CheckDrift(it) /\ ~Drifted(it) /\ phase = "drift"
            /\ UNCHANGED <<opts, remote, unseen>>
         \/ \E o \in Options : Begin(o)
<1>1. ASSUME UNCHANGED <<opts, waiting, work>>
      PROVE  it \in waiting \cup DOMAIN work /\ opts' = opts /\ phase # "idle"
  BY <1>1 DEF Types, Phases
<1>2. CASE Edit
  BY <1>1, <1>2, EditFacts DEF run
<1>3. CASE Other
  BY <1>1, <1>3, OtherFacts DEF run
<1>4. CASE \E i \in todo : CheckDrift(i)
  <2>1. PICK i \in todo : CheckDrift(i)
    BY <1>4
  <2>2. \/ waiting' = waiting
        \/ waiting' = waiting \cup {i} /\ ~Drifted(i)
    BY <2>1 DEF CheckDrift
  <2>3. phase = "drift" /\ UNCHANGED <<opts, work, remote, unseen>>
    BY <2>1 DEF CheckDrift, history
  <2> QED
    BY <2>1, <2>2, <2>3
<1>5. CASE Goes
  BY <1>1, <1>5 DEF Goes
<1>6. CASE Ends
  BY <1>6 DEF Ends, Abandon, Empty
<1>7. CASE \E i \in waiting : Take(i)
  <2>1. PICK i \in waiting : Take(i)
    BY <1>7
  <2>2. /\ waiting' = waiting \ {i} /\ DOMAIN work' = DOMAIN work \cup {i} /\ opts' = opts
        /\ phase = "run"
    BY <2>1, TakeFacts
  <2> QED
    BY <2>2
<1>8. ASSUME NEW i \in DOMAIN work, Call(i)
      PROVE  it \in waiting \cup DOMAIN work /\ opts' = opts /\ phase # "idle"
  <2>1. waiting' = waiting /\ opts' = opts /\ DOMAIN work' = DOMAIN work
    BY <1>8, Outcomes, WithFacts DEF Beside
  <2> QED
    BY <2>1 DEF Types, Phases
<1>9. ASSUME NEW i \in DOMAIN work, Collect(i) \/ CollectFailure(i)
      PROVE  it \in waiting \cup DOMAIN work /\ opts' = opts /\ phase # "idle"
  <2>1. Drop(i) /\ waiting' = waiting /\ opts' = opts
    BY <1>9 DEF Collect, CollectFailure
  <2>2. DOMAIN work' = DOMAIN work \ {i}
    BY <2>1, DropFacts
  <2> QED
    BY <2>1, <2>2 DEF Types, Phases
<1>10. CASE UNCHANGED vars
  BY <1>1, <1>10 DEF vars, run
<1> QED
  BY <1>2, <1>3, <1>4, <1>5, <1>6, <1>7, <1>8, <1>9, <1>10, NextCases

\* In the drift check, the entries and the items that are left of it stay.
LEMMA Drifting ==
  ASSUME Types, [Next]_vars, phase' = "drift"
  PROVE  (todo' \subseteq todo /\ m' = m /\ phase = "drift") \/ \E o \in Options : Begin(o)
<1>1. CASE Edit
  BY <1>1, EditFacts DEF run
<1>2. CASE Other
  BY <1>2, OtherFacts DEF run
<1>3. CASE \E it \in todo : CheckDrift(it)
  BY <1>3 DEF CheckDrift
<1>4. CASE Goes \/ Ends
  BY <1>4 DEF Goes, Ends, Abandon
<1>5. CASE \E it \in waiting : Take(it)
  BY <1>5 DEF Take
<1>6. ASSUME NEW it \in DOMAIN work, Call(it) \/ Collect(it) \/ CollectFailure(it)
      PROVE  FALSE
  <2>1. phase' = phase
    BY <1>6, Outcomes DEF Beside, Collect, CollectFailure
  <2> QED
    BY <2>1 DEF Types, Phases
<1>7. CASE UNCHANGED vars
  BY <1>7 DEF vars, run
<1> QED
  BY <1>1, <1>2, <1>3, <1>4, <1>5, <1>6, <1>7, NextCases

\* What has passed the drift check stays checked, as long as no client comes between.
LEMMA CheckedStep ==
  ASSUME Types, Known, Behind, Checked, ~ForeignInRun, [Next]_vars
  PROVE  Checked'
<1>0. Types' /\ RemoteAges
  BY TypesStep, Aging
<1>1. ASSUME NEW it, it.remoteID \in Nat, it.remoteID < nextId,
             it.remoteID \notin unseen \cap DOMAIN remote, phase # "idle"
      PROVE  it.remoteID \notin unseen' \cap DOMAIN remote'
  <2>1. unseen' \subseteq unseen
    <3>1. Other => phase = "idle"
      BY OtherFacts
    <3> QED
      BY <3>1, <1>1, Unseens
  <2>2. it.remoteID \in DOMAIN remote' => it.remoteID \in DOMAIN remote
    BY <1>0, <1>1 DEF RemoteAges
  <2> QED
    BY <2>1, <2>2, <1>1
<1>2. ASSUME phase' = "drift", NEW it \in todo'
      PROVE  /\ it.op \in {"overwrite", "delete"}
             /\ it.rel \in DOMAIN m' /\ m'[it.rel].remoteID = it.remoteID
  <2>1. CASE todo' \subseteq todo /\ m' = m /\ phase = "drift"
    BY <2>1, <1>2 DEF Checked
  <2>2. ASSUME NEW o \in Options, Begin(o)
        PROVE  /\ it.op \in {"overwrite", "delete"}
               /\ it.rel \in DOMAIN m' /\ m'[it.rel].remoteID = it.remoteID
    <3>1. m' = Base(o) /\ Sound(it, Base(o)) /\ it.op \in {"overwrite", "delete"}
      BY <1>2, <2>2, BeginFacts
    <3> QED
      BY <3>1 DEF Sound
  <2> QED
    BY <1>2, <2>1, <2>2, Drifting
<1>3. ASSUME phase' # "idle", ~opts'.force, NEW it \in waiting' \cup DOMAIN work',
             it.op \in {"overwrite", "delete"}
      PROVE  it.remoteID \notin unseen' \cap DOMAIN remote'
  <2>0. it \in Item
    BY <1>0 DEF Types, RunTyped
  <2>1. CASE it \in waiting \cup DOMAIN work /\ opts' = opts /\ phase # "idle"
    <3>1. it \in InHand
      BY <2>1 DEF InHand
    <3> QED
      BY <2>0, <2>1, <3>1, <1>1, <1>3 DEF Checked, Known, Item
  <2>2. CASE it \in todo /\ ~Drifted(it) /\ phase = "drift" /\ UNCHANGED <<remote, unseen>>
    <3>1. it.rel \in DOMAIN m /\ m[it.rel].remoteID = it.remoteID
      BY <2>2 DEF Checked
    <3>2. SUFFICES ASSUME it.remoteID \in unseen \cap DOMAIN remote
                   PROVE  FALSE
      BY <2>2
    <3>3. RemoteTouched(remote[it.remoteID], m[it.rel])
      BY <3>1, <3>2, BehindSees DEF UnseenStaysUnseen
    <3> QED
      BY <2>2, <3>2, <3>3 DEF Drifted
  <2>3. ASSUME NEW o \in Options, Begin(o)
        PROVE  FALSE
    <3>1. opts' = o /\ DOMAIN work' = {} /\ (o.force \/ it.op \in {"upload", "move"})
      BY <1>3, <2>3, BeginFacts DEF Types, Phases
    <3> QED
      BY <1>3, <3>1
  <2> QED
    BY <2>1, <2>2, <2>3, Queue
<1> QED
  BY <1>2, <1>3 DEF Checked

\* No other client changes anything during a run.
NoneInRun == ~ForeignInRun

\* What a run is about to overwrite or delete has been checked.
LEMMA CheckedAlways == Spec /\ []NoBlindMoves /\ []NoneInRun => []Checked
<1>1. Init => Checked
  BY DEF Init, Checked
<1>2. Types /\ Known /\ Behind /\ Checked /\ NoneInRun /\ [Next]_vars => Checked'
  BY CheckedStep DEF NoneInRun
<1> QED
  BY <1>1, <1>2, TypesAlways, KnownAlways, BehindAlways, PTL DEF Spec

\* What a step may do to a file.
Spared(i) == i \in DOMAIN remote' /\ ~(remote'[i].mtime # remote[i].mtime)

\* A call writes or removes the file of its item, and no other.
LEMMA CallSpares ==
  ASSUME Types, NEW it \in DOMAIN work, NEW p, Comes(it, p),
         NEW i \in DOMAIN remote, ~Spared(i)
  PROVE  work[it].id = i /\ work[it].at \in {"replace", "remove"}
<1> DEFINE w == work[it]
<1>1. /\ remote \in [DOMAIN remote -> RemoteFile] /\ DOMAIN remote \subseteq 1..(nextId - 1)
      /\ nextId \in Nat
  BY DEF Types, TreesTyped
<1>2. CASE remote' = remote
  BY <1>2 DEF Spared
<1>3. CASE Makes(it, p)
  BY <1>1, <1>3 DEF Makes, Set, Spared
<1>4. CASE Replaces(it, p)
  <2>1. w.at = "replace" /\ \E new : remote' = [remote EXCEPT ![w.id] = new]
    BY <1>4 DEF Replaces
  <2> QED
    BY <2>1, <1>1 DEF Spared
<1>5. CASE Removes(it, p)
  BY <1>5 DEF Removes, Delete, Spared
<1>6. CASE Relocates(it, p)
  <2>1. \E path : remote' = [remote EXCEPT ![w.id].path = path]
    BY <1>6 DEF Relocates
  <2>2. DOMAIN remote' = DOMAIN remote /\ \A j \in DOMAIN remote : remote'[j].mtime = remote[j].mtime
    BY <2>1, <1>1 DEF RemoteFile
  <2> QED
    BY <2>2 DEF Spared
<1> QED
  BY <1>2, <1>3, <1>4, <1>5, <1>6 DEF Comes, Fails, Meets, Finds, Misses, Looks, LooksAgain,
                                     SameRemote

\* No step harms a file that was changed since it was recorded.
LEMMA Spares ==
  ASSUME Types, Checked, [Next]_vars, NEW i \in (unseen \cap DOMAIN remote) \ TakenOver,
         foreign' = foreign, ~opts.force
  PROVE  Spared(i)
<1>1. CASE remote' = remote
  BY <1>1 DEF Spared
<1>2. CASE Other
  <2>1. foreign \in Nat
    BY DEF Types, RunTyped
  <2>2. foreign' = foreign + 1
    BY <1>2, OtherFacts
  <2> QED
    BY <2>1, <2>2
<1>3. ASSUME NEW it \in DOMAIN work, Call(it)
      PROVE  Spared(i)
  <2>1. SUFFICES ASSUME ~Spared(i) PROVE FALSE
    OBVIOUS
  <2>2. work[it].id = i /\ work[it].at \in {"replace", "remove"}
    BY <1>3, <2>1, Outcomes, CallSpares
  <2>3. it \in Item /\ Fits(it, work[it])
    BY DEF Types, RunTyped, Phases
  <2>4. CASE it.op = "upload"
    BY <2>2, <2>4 DEF TakenOver, OfKind
  <2>5. CASE it.op # "upload"
    <3>1. it.op \in {"overwrite", "delete"} /\ it.remoteID = i
      BY <2>2, <2>3, <2>5 DEF Fits, Item
    <3>2. phase # "idle"
      BY DEF Types, Phases
    <3> QED
      BY <3>1, <3>2 DEF Checked
  <2> QED
    BY <2>4, <2>5
<1>4. CASE Edit
  BY <1>1, <1>4, EditFacts
<1>5. CASE \E o \in Options : Begin(o)
  BY <1>1, <1>5 DEF Begin
<1>6. CASE \E it \in todo : CheckDrift(it)
  BY <1>1, <1>6 DEF CheckDrift
<1>7. CASE Goes \/ Ends
  BY <1>1, <1>7 DEF Goes, Ends
<1>8. CASE \E it \in waiting : Take(it)
  BY <1>1, <1>8 DEF Take
<1>9. ASSUME NEW it \in DOMAIN work, Collect(it) \/ CollectFailure(it)
      PROVE  Spared(i)
  BY <1>1, <1>9 DEF Collect, CollectFailure
<1>10. CASE UNCHANGED vars
  BY <1>1, <1>10 DEF vars
<1> QED
  BY <1>2, <1>3, <1>4, <1>5, <1>6, <1>7, <1>8, <1>9, <1>10, NextCases

\* Without --force, and where no client changes the folder between the check and the
\* call, no overwrite or delete of a plan lands on a file that was changed since it was
\* recorded (filterPushDrift, syncer/push.go), at whatever moment the change was made
\* and whatever the runs before it left behind.
THEOREM Unclobbered == Spec /\ []NoBlindMoves /\ []NoneInRun => NeverClobbers
<1>1. Types /\ Checked /\ [Next]_vars =>
        [\A i \in (unseen \cap DOMAIN remote) \ TakenOver :
           foreign' = foreign /\ ~opts.force =>
             i \in DOMAIN remote' /\ ~(remote'[i].mtime # remote[i].mtime)]_vars
  BY Spares DEF Spared
<1> QED
  BY <1>1, TypesAlways, CheckedAlways, PTL DEF Spec, NeverClobbers

-----------------------------------------------------------------------------
(* Paths and files                                                          *)

OneFilePerPath == \A i, j \in DOMAIN remote : remote[i].path = remote[j].path => i = j

\* Files that are in the folder before and after are where they were.
Stays ==
  \A i \in DOMAIN remote' :
     i < nextId => i \in DOMAIN remote /\ remote'[i].path = remote[i].path

\* Calls put a new file at a free path, or leave every file where it is, but for moves.
LEMMA CallPlaces ==
  ASSUME Types, NEW it \in DOMAIN work, NEW p, Comes(it, p)
  PROVE  \/ Stays /\ DOMAIN remote' \subseteq DOMAIN remote
         \/ /\ Stays /\ Makes(it, p)
            /\ DOMAIN remote' = DOMAIN remote \cup {nextId} /\ remote'[nextId].path = it.rel
         \/ Relocates(it, p)
<1> DEFINE w == work[it]
<1>1. /\ remote \in [DOMAIN remote -> RemoteFile] /\ DOMAIN remote \subseteq 1..(nextId - 1)
      /\ nextId \in Nat
  BY DEF Types, TreesTyped
<1>2. CASE SameRemote
  BY <1>2 DEF SameRemote, Stays
<1>3. CASE Makes(it, p)
  <2> DEFINE new == FromLocal(it, it.rel, 1)
  <2>1. remote' = Set(remote, nextId, new) /\ new.path = it.rel
    BY <1>3 DEF Makes, FromLocal
  <2> HIDE DEF new
  <2> QED
    BY <2>1, <1>1, <1>3 DEF Set, Stays
<1>4. CASE Replaces(it, p)
  <2> DEFINE new == [path |-> remote[w.id].path, size |-> it.size,
                     mtime |-> remote[w.id].mtime + 1, data |-> local[it.rel].mtime]
  <2>1. remote' = [remote EXCEPT ![w.id] = new] /\ new.path = remote[w.id].path
    BY <1>4 DEF Replaces
  <2> HIDE DEF new
  <2> QED
    BY <2>1, <1>1 DEF Stays
<1>5. CASE Removes(it, p)
  BY <1>5 DEF Removes, Delete, Stays
<1> QED
  BY <1>2, <1>3, <1>4, <1>5 DEF Comes, Fails, Meets, Finds, Misses, Looks, LooksAgain

\* A move's call takes its own file, to a path where there is no other.
LEMMA RelocatesFacts ==
  ASSUME Types, NEW it \in DOMAIN work, NEW p, Relocates(it, p)
  PROVE  LET id   == work[it].id
             was  == remote[id].path
             path == IF work[it].at = "move" THEN <<DirOf(it.rel), BaseOf(was)>>
                     ELSE <<DirOf(was), BaseOf(it.rel)>>
         IN /\ id \in DOMAIN remote /\ DOMAIN remote' = DOMAIN remote
            /\ remote'[id].path = path
            /\ \A i \in DOMAIN remote : remote[i].path = path => i = id
            /\ \A i \in DOMAIN remote \ {id} : remote'[i] = remote[i]
<1> DEFINE w == work[it]
           path == IF w.at = "move" THEN <<DirOf(it.rel), BaseOf(remote[w.id].path)>>
                   ELSE <<DirOf(remote[w.id].path), BaseOf(it.rel)>>
<1>1. /\ w.id \in DOMAIN remote /\ At(path) \subseteq {w.id}
      /\ remote' = [remote EXCEPT ![w.id].path = path]
  BY DEF Relocates
<1>2. remote \in [DOMAIN remote -> RemoteFile]
  BY DEF Types, TreesTyped
<1>3. remote[w.id] \in RemoteFile
  BY <1>1, <1>2
<1> HIDE DEF path
<1>4. DOMAIN remote' = DOMAIN remote /\ \A i \in DOMAIN remote \ {w.id} : remote'[i] = remote[i]
  BY <1>1, <1>2
<1>5. remote'[w.id].path = path
  BY <1>1, <1>2, <1>3 DEF RemoteFile
<1> QED
  BY <1>1, <1>4, <1>5 DEF At, path

\* What a step does to the remote folder.
LEMMA Places ==
  ASSUME Types, [Next]_vars
  PROVE  \/ Stays /\ DOMAIN remote' \subseteq DOMAIN remote
         \/ /\ Stays /\ DOMAIN remote' = DOMAIN remote \cup {nextId}
            /\ \A i \in DOMAIN remote : remote[i].path # remote'[nextId].path
         \/ \E it \in DOMAIN work : \E p : Call(it) /\ With(it, p) /\ Relocates(it, p)
<1>1. /\ remote \in [DOMAIN remote -> RemoteFile] /\ DOMAIN remote \subseteq 1..(nextId - 1)
      /\ nextId \in Nat
  BY DEF Types, TreesTyped
<1>2. CASE remote' = remote
  BY <1>2 DEF Stays
<1>3. CASE Other
  <2>1. PICK i :
          \/ /\ i = nextId
             /\ \E r \in Rels, new \in RemoteFile :
                  At(r) = {} /\ new.path = r /\ remote' = Set(remote, nextId, new)
          \/ /\ i \in DOMAIN remote
             /\ \E s \in Nat : remote' = [remote EXCEPT ![i].size = s, ![i].mtime = @ + 1,
                                                        ![i].data = 0]
          \/ i \in DOMAIN remote /\ remote' = Delete(remote, i)
    BY <1>3, OtherFacts
  <2>2. ASSUME NEW r \in Rels, NEW new \in RemoteFile, At(r) = {}, new.path = r,
               remote' = Set(remote, nextId, new)
        PROVE  /\ Stays /\ DOMAIN remote' = DOMAIN remote \cup {nextId}
               /\ \A j \in DOMAIN remote : remote[j].path # remote'[nextId].path
    <3>1. \A j \in DOMAIN remote : remote[j].path # r
      BY <2>2 DEF At
    <3>2. DOMAIN remote' = DOMAIN remote \cup {nextId} /\ remote'[nextId] = new
          /\ \A j \in DOMAIN remote : j # nextId => remote'[j] = remote[j]
      BY <2>2 DEF Set
    <3> QED
      BY <2>2, <3>1, <3>2, <1>1 DEF Stays
  <2>3. ASSUME NEW s \in Nat, i \in DOMAIN remote,
               remote' = [remote EXCEPT ![i].size = s, ![i].mtime = @ + 1, ![i].data = 0]
        PROVE  Stays /\ DOMAIN remote' \subseteq DOMAIN remote
    <3>1. DOMAIN remote' = DOMAIN remote
          /\ \A j \in DOMAIN remote \ {i} : remote'[j] = remote[j]
      BY <2>3, <1>1
    <3>2. remote[i] \in RemoteFile
      BY <2>3, <1>1
    <3>3. remote'[i].path = remote[i].path
      BY <2>3, <3>2, <1>1 DEF RemoteFile
    <3> QED
      BY <3>1, <3>3 DEF Stays
  <2>4. CASE i \in DOMAIN remote /\ remote' = Delete(remote, i)
    BY <2>4 DEF Delete, Stays
  <2> QED
    BY <2>1, <2>2, <2>3, <2>4
<1>4. ASSUME NEW it \in DOMAIN work, Call(it)
      PROVE  \/ Stays /\ DOMAIN remote' \subseteq DOMAIN remote
             \/ /\ Stays /\ DOMAIN remote' = DOMAIN remote \cup {nextId}
                /\ \A i \in DOMAIN remote : remote[i].path # remote'[nextId].path
             \/ \E p : With(it, p) /\ Relocates(it, p)
  <2>1. PICK p : With(it, p) /\ Comes(it, p)
    BY <1>4, Outcomes
  <2>2. Makes(it, p) => \A i \in DOMAIN remote : remote[i].path # it.rel
    BY DEF Makes, At
  <2> QED
    BY <2>1, <2>2, CallPlaces
<1>5. CASE Edit
  BY <1>2, <1>5, EditFacts
<1>6. CASE \E o \in Options : Begin(o)
  BY <1>2, <1>6 DEF Begin
<1>7. CASE \E it \in todo : CheckDrift(it)
  BY <1>2, <1>7 DEF CheckDrift
<1>8. CASE Goes \/ Ends
  BY <1>2, <1>8 DEF Goes, Ends
<1>9. CASE \E it \in waiting : Take(it)
  BY <1>2, <1>9 DEF Take
<1>10. ASSUME NEW it \in DOMAIN work, Collect(it) \/ CollectFailure(it)
       PROVE  remote' = remote
  BY <1>10 DEF Collect, CollectFailure
<1>11. CASE UNCHANGED vars
  BY <1>2, <1>11 DEF vars
<1> QED
  BY <1>2, <1>3, <1>4, <1>5, <1>6, <1>7, <1>8, <1>9, <1>10, <1>11, NextCases

\* No step puts two files at one path.
LEMMA OneFileStep ==
  ASSUME Types, OneFilePerPath, [Next]_vars
  PROVE  OneFilePerPath'
<1>1. DOMAIN remote \subseteq 1..(nextId - 1) /\ nextId \in Nat
  BY DEF Types, TreesTyped
<1>2. \A i \in DOMAIN remote : i < nextId
  BY <1>1
<1>3. CASE Stays /\ DOMAIN remote' \subseteq DOMAIN remote
  BY <1>2, <1>3 DEF Stays, OneFilePerPath
<1>4. CASE /\ Stays /\ DOMAIN remote' = DOMAIN remote \cup {nextId}
           /\ \A i \in DOMAIN remote : remote[i].path # remote'[nextId].path
  BY <1>2, <1>4 DEF Stays, OneFilePerPath
<1>5. ASSUME NEW it \in DOMAIN work, NEW p, Relocates(it, p)
      PROVE  OneFilePerPath'
  BY <1>5, RelocatesFacts DEF OneFilePerPath
<1> QED
  BY <1>3, <1>4, <1>5, Places

\* A folder never holds two files of one name, whatever fails: a push makes a file only
\* where there is none (conflict=error), and moves one only to a free place.
LEMMA OneFileAlways == Spec => []OneFilePerPath
<1>1. Init => OneFilePerPath
  <2> SUFFICES ASSUME Init PROVE OneFilePerPath
    OBVIOUS
  <2> DEFINE tree == DOMAIN StartTree
             R(i) == CHOOSE q \in tree : StartTree[q].mtime = i
  <2>1. \/ remote = Empty
        \/ remote = [i \in {StartTree[q].mtime : q \in tree} |->
                       [path |-> R(i), size |-> StartTree[R(i)].size, mtime |-> 1, data |-> i]]
    BY DEF Init
  <2>2. CASE remote = Empty
    BY <2>2 DEF Empty, OneFilePerPath
  <2>3. CASE remote # Empty
    <3>1. \A i \in DOMAIN remote : remote[i].path = R(i) /\ \E q \in tree : StartTree[q].mtime = i
      BY <2>1, <2>3
    <3>2. \A i \in DOMAIN remote : StartTree[R(i)].mtime = i
      BY <3>1
    <3> HIDE DEF R
    <3> QED
      BY <3>1, <3>2 DEF OneFilePerPath
  <2> QED
    BY <2>2, <2>3
<1>2. Types /\ OneFilePerPath /\ [Next]_vars => OneFilePerPath'
  BY OneFileStep
<1> QED
  BY <1>1, <1>2, TypesAlways, PTL DEF Spec

-----------------------------------------------------------------------------
(* Entries and files                                                        *)

\* What the manifest f says of an item, from the plan to the item's end.
Tied(it, f) ==
  /\ it.op # "move" => it.srcRel = it.rel
  /\ it.op \in {"upload", "move"} => it.rel \notin DOMAIN f
  /\ it.op \in {"overwrite", "delete", "move"} =>
       it.srcRel \in DOMAIN f /\ f[it.srcRel].remoteID = it.remoteID
  /\ it.op = "move" => f[it.srcRel].localMtime = it.mtime

\* No two items of a run have a path in common.
Planning == OneEach(InHand) /\ \A it \in InHand : Tied(it, m)

\* A result changes the entries of its item's paths, and no other.
LEMMA RecordedAround ==
  ASSUME Types, NEW it \in DOMAIN work, NEW r, r \notin Around(it)
  PROVE  /\ r \in DOMAIN Recorded(it) <=> r \in DOMAIN m
         /\ r \in DOMAIN m => Recorded(it)[r] = m[r]
<1>1. CASE it.op = "delete"
  <2>1. Recorded(it) = Delete(m, it.rel)
    BY <1>1, RecordedFacts
  <2> QED
    BY <2>1 DEF Delete, Around
<1>2. CASE it.op # "delete"
  <2>1. /\ DOMAIN Recorded(it) = (IF it.op = "move" THEN DOMAIN m \ {it.srcRel} ELSE DOMAIN m)
                                 \cup {it.rel}
        /\ \A q \in DOMAIN Recorded(it) \ {it.rel} : Recorded(it)[q] = m[q]
    BY <1>2, RecordedFacts
  <2> QED
    BY <2>1 DEF Around
<1> QED
  BY <1>1, <1>2

\* The items of a new run.
LEMMA BeginPlans ==
  ASSUME Types, NEW o \in Options, Begin(o)
  PROVE  Planning'
<1>1. /\ InHand' = todo' \cup waiting' /\ OneEach(todo' \cup waiting') /\ m' = Base(o)
      /\ todo' \cup waiting' \subseteq Item
      /\ \A it \in todo' \cup waiting' : Sound(it, Base(o))
  <2>1. work' = work /\ phase = "idle" /\ DOMAIN work = {}
    BY BeginFacts DEF Types, Phases
  <2> QED
    BY <2>1, BeginFacts DEF InHand
<1>2. \A it \in InHand' : Tied(it, m')
  BY <1>1 DEF Sound, Tied, Item
<1> QED
  BY <1>1, <1>2 DEF Planning, OneEach

\* Every step keeps items apart, and tied to their entries.
LEMMA PlanningStep ==
  ASSUME Types, Planning, [Next]_vars
  PROVE  Planning'
<1>1. \A a, b \in InHand : Around(a) \cap Around(b) # {} => a = b
  BY DEF Planning, OneEach
<1>2. ASSUME InHand' \subseteq InHand
      PROVE  OneEach(InHand')
  BY <1>1, <1>2 DEF OneEach
<1>3. CASE Ends
  <2>1. InHand' = {}
    BY <1>3 DEF Ends, Abandon, InHand, Empty
  <2> QED
    BY <2>1 DEF Planning, OneEach
<1>4. CASE InHand' \subseteq InHand /\ m' = m
  BY <1>2, <1>4 DEF Planning
<1>5. ASSUME NEW it \in DOMAIN work, Collect(it), m' = Recorded(it)
      PROVE  Planning'
  <2>1. InHand' \subseteq InHand \ {it}
    <3>1. Drop(it) /\ UNCHANGED <<todo, waiting>> /\ phase = "run"
      BY <1>5, CollectFacts
    <3>2. DOMAIN work' = DOMAIN work \ {it} /\ it \notin waiting /\ todo = {}
      BY <3>1, DropFacts DEF Types, Phases
    <3> QED
      BY <3>1, <3>2 DEF InHand
  <2>2. ASSUME NEW other \in InHand'
        PROVE  Tied(other, m')
    <3>1. other \in InHand /\ Around(it) \cap Around(other) = {}
      BY <2>1, <1>1 DEF InHand
    <3>2. other.rel \notin Around(it) /\ other.srcRel \notin Around(it)
      BY <3>1 DEF Around
    <3>3. Tied(other, m)
      BY <3>1 DEF Planning
    <3> QED
      BY <1>5, <3>2, <3>3, RecordedAround DEF Tied
  <2> QED
    BY <1>2, <2>1, <2>2 DEF Planning
<1>6. CASE \E o \in Options : Begin(o)
  BY <1>6, BeginPlans
<1>7. CASE InHand' = {}
  BY <1>7 DEF Planning, OneEach
<1>8. CASE InHand' \subseteq InHand
  BY <1>3, <1>4, <1>5, <1>6, <1>8, Manifests
<1> QED
  BY <1>6, <1>7, <1>8, Hands

\* Items are apart, and tied to their entries.
LEMMA PlanningAlways == Spec => []Planning
<1>1. Init => Planning
  BY DEF Init, Planning, OneEach, InHand, Empty
<1> QED
  BY <1>1, PlanningStep, TypesAlways, PTL DEF Spec

\* Without --detect-moves there are no moves.
LEMMA NoMoveItems ==
  ASSUME Types, Known, NoMoves, NEW it \in InHand
  PROVE  it.op # "move"
  BY DEF Types, Phases, RunTyped, Known, InHand, NoMoves

\* Nor will there be any.
LEMMA NoMovesStays ==
  ASSUME Types, [Next]_vars
  PROVE  NoMoves' = NoMoves
  BY SameWorld DEF NoMoves, Options

\* if file i is in the folder, it is at the path
Lies(i, path) == i \in DOMAIN remote => remote[i].path = path

OwnFiles(f) == \A r, q \in DOMAIN f : f[r].remoteID = f[q].remoteID => r = q

AtHome(f) == \A r \in DOMAIN f : Lies(f[r].remoteID, r)

\* an upload has the file it was given, or the one it took over
Claims(it, p) == it.op = "upload" /\ p.at \in {"replace", "done"}

\* where a move's file is before the call
Station(it, at) == CASE at \in {"stat", "move"}  -> it.srcRel
                     [] at = "rename"            -> <<DirOf(it.rel), BaseOf(it.srcRel)>>
                     [] at \in {"restat", "done"} -> it.rel

OnTheWay(it, p) ==
  /\ p.at \in {"move", "rename"} => p.path = it.srcRel
  /\ p.at # "failed" => Lies(it.remoteID, Station(it, p.at))

\* No two entries hold one file.
OwnEntries == OwnFiles(m) /\ OwnFiles(disk)

\* Each entry's file is at its path, or a move has it in hand.
EntriesPlaced ==
  /\ phase # "run" \/ NoMoves => AtHome(disk)
  /\ \A r \in DOMAIN m : \/ Lies(m[r].remoteID, r)
                         \/ \E it \in DOMAIN work : it.op = "move" /\ it.srcRel = r

\* An upload's file is at its path, and nobody else's.
ClaimsPlaced ==
  \A it \in DOMAIN work : Claims(it, work[it]) =>
    /\ Lies(work[it].id, it.rel)
    /\ \A r \in DOMAIN m : m[r].remoteID # work[it].id
    /\ \A other \in DOMAIN work :
         Claims(other, work[other]) /\ work[other].id = work[it].id => other = it

MovesPlaced == \A it \in DOMAIN work : it.op = "move" => OnTheWay(it, work[it])

Placed == OwnEntries /\ EntriesPlaced /\ ClaimsPlaced /\ MovesPlaced

\* What stays is where it was.
LEMMA LiesStill ==
  ASSUME Stays, NEW i, i < nextId, NEW path, Lies(i, path)
  PROVE  Lies(i, path)'
  BY DEF Stays, Lies

\* Steps of others, and those that only hand items on.
LEMMA PlacedKept ==
  ASSUME Types, Known, Placed, Stays, UNCHANGED <<m, disk, work>>,
         phase' # "run" => phase # "run", NoMoves' = NoMoves
  PROVE  Placed'
<1>1. /\ \A r \in DOMAIN m : m[r].remoteID < nextId
      /\ \A r \in DOMAIN disk : disk[r].remoteID < nextId
      /\ \A it \in DOMAIN work : it.remoteID < nextId /\ work[it].id < nextId
  BY DEF Known, InHand
<1>2. OwnEntries'
  BY DEF Placed, OwnEntries, OwnFiles
<1>3. EntriesPlaced'
  <2>1. \A r \in DOMAIN m : Lies(m[r].remoteID, r) => Lies(m[r].remoteID, r)'
    BY <1>1, LiesStill
  <2>2. \A r \in DOMAIN disk : Lies(disk[r].remoteID, r) => Lies(disk[r].remoteID, r)'
    BY <1>1, LiesStill
  <2> QED
    BY <2>1, <2>2 DEF Placed, EntriesPlaced, AtHome
<1>4. ClaimsPlaced'
  <2>1. \A it \in DOMAIN work : Lies(work[it].id, it.rel) => Lies(work[it].id, it.rel)'
    BY <1>1, LiesStill
  <2> QED
    BY <2>1 DEF Placed, ClaimsPlaced, Claims
<1>5. MovesPlaced'
  <2>1. \A it \in DOMAIN work : \A path : Lies(it.remoteID, path) => Lies(it.remoteID, path)'
    BY <1>1, LiesStill
  <2> QED
    BY <2>1 DEF Placed, MovesPlaced, OnTheWay, Station
<1> QED
  BY <1>2, <1>3, <1>4, <1>5 DEF Placed

\* The baseline of a run: an entry taken from the index is of the file at its path.
LEMMA PlacedBegin ==
  ASSUME Types, Placed, NEW o \in Options, Begin(o)
  PROVE  Placed'
<1>1. /\ phase = "idle" /\ phase' = "drift" /\ m' = Base(o) /\ DOMAIN work = {}
      /\ UNCHANGED <<remote, disk, work>>
  BY BeginFacts DEF Types, Phases
<1>2. OwnFiles(disk) /\ AtHome(disk)
  BY <1>1 DEF Placed, OwnEntries, EntriesPlaced
<1>3. ASSUME NEW r \in DOMAIN Base(o)
      PROVE  \/ Base(o)[r].remoteID \in DOMAIN remote /\ remote[Base(o)[r].remoteID].path = r
             \/ r \in DOMAIN disk /\ Base(o)[r] = disk[r]
  <2>1. CASE r \in Seeded(o)
    <3>1. /\ Base(o)[r] = [size |-> Index[r].size, localMtime |-> local[r].mtime,
                            remoteID |-> Index[r].id, remoteMtime |-> Index[r].mtime]
          /\ r \in DOMAIN Index
      BY <2>1, BaseFacts
    <3>2. Base(o)[r].remoteID = Index[r].id
      BY <3>1
    <3> QED
      BY <3>1, <3>2, IndexFacts
  <2>2. CASE r \notin Seeded(o)
    BY <2>2, BaseFacts
  <2> QED
    BY <2>1, <2>2
<1>4. AtHome(Base(o))
  BY <1>2, <1>3 DEF AtHome, Lies
<1>5. OwnFiles(Base(o))
  <2> SUFFICES ASSUME NEW r \in DOMAIN Base(o), NEW q \in DOMAIN Base(o),
                      Base(o)[r].remoteID = Base(o)[q].remoteID
               PROVE  r = q
    BY DEF OwnFiles
  <2>1. CASE Base(o)[r].remoteID \in DOMAIN remote
    BY <2>1, <1>4 DEF AtHome, Lies
  <2>2. CASE Base(o)[r].remoteID \notin DOMAIN remote
    BY <2>2, <1>2, <1>3 DEF OwnFiles
  <2> QED
    BY <2>1, <2>2
<1>6. OwnFiles(m)' /\ OwnFiles(disk)' /\ AtHome(m)' /\ AtHome(disk)'
  BY <1>1, <1>2, <1>4, <1>5 DEF OwnFiles, AtHome, Lies
<1> QED
  BY <1>1, <1>6 DEF Placed, OwnEntries, EntriesPlaced, ClaimsPlaced, MovesPlaced, AtHome

\* The end of a run: what is saved was at home, with no item in the workers' hands.
LEMMA PlacedEnd ==
  ASSUME Types, Placed, Ends, (faults' = faults /\ crashes' = crashes) \/ NoMoves
  PROVE  Placed'
<1>1. /\ phase' = "idle" /\ DOMAIN work' = {} /\ remote' = remote
      /\ {faults, crashes} \subseteq Nat
  BY DEF Ends, Abandon, Empty, Types, RunTyped
<1>2. \/ disk' = m /\ m' = m /\ DOMAIN work = {}
      \/ disk' = disk /\ m' = disk /\ (phase = "drift" \/ NoMoves)
  <2>1. (faults' # faults + 1 /\ crashes' # crashes + 1) \/ NoMoves
    BY <1>1
  <2> QED
    BY <2>1 DEF Ends
<1>3. \/ disk' = m /\ m' = m /\ OwnFiles(m) /\ AtHome(m)
      \/ disk' = disk /\ m' = disk /\ OwnFiles(disk) /\ AtHome(disk)
  BY <1>2 DEF Placed, OwnEntries, EntriesPlaced, AtHome
<1>4. OwnFiles(m)' /\ OwnFiles(disk)' /\ AtHome(m)' /\ AtHome(disk)'
  BY <1>1, <1>3 DEF OwnFiles, AtHome, Lies
<1> QED
  BY <1>1, <1>4 DEF Placed, OwnEntries, EntriesPlaced, ClaimsPlaced, MovesPlaced, AtHome

\* A move that begins finds its file at the path it goes from.
LEMMA PlacedTake ==
  ASSUME Types, Planning, Placed, NEW it \in waiting, Take(it), NoMoves' = NoMoves
  PROVE  Placed'
<1>1. /\ phase = "run" /\ it \notin DOMAIN work /\ DOMAIN work' = DOMAIN work \cup {it}
      /\ work'[it] = [at |-> FirstCall[it.op], id |-> it.remoteID, mtime |-> 0, path |-> it.rel]
      /\ \A other \in DOMAIN work : work'[other] = work[other]
      /\ UNCHANGED <<remote, disk, m, phase>>
      /\ it \in InHand /\ DOMAIN work \subseteq InHand
  BY TakeFacts DEF InHand
<1>2. work'[it].at = FirstCall[it.op]
  BY <1>1
<1>3. /\ it.op = "upload" => work'[it].at = "create"
      /\ it.op = "move" => work'[it].at = "stat"
  BY <1>2 DEF FirstCall
<1>4. OwnEntries'
  BY <1>1 DEF Placed, OwnEntries, OwnFiles
<1>5. EntriesPlaced'
  BY <1>1 DEF Placed, EntriesPlaced, AtHome, Lies
<1>6. ClaimsPlaced'
  <2>1. ASSUME NEW other \in DOMAIN work', Claims(other, work'[other])
        PROVE  other \in DOMAIN work /\ Claims(other, work[other]) /\ work'[other] = work[other]
    <3>1. other # it
      BY <2>1, <1>3 DEF Claims
    <3> QED
      BY <2>1, <3>1, <1>1
  <2> QED
    BY <1>1, <2>1 DEF Placed, ClaimsPlaced, Lies
<1>7. ASSUME NEW other \in DOMAIN work', other.op = "move"
      PROVE  OnTheWay(other, work[other])'
  <2>1. CASE other = it
    <3>1. it.srcRel \in DOMAIN m /\ m[it.srcRel].remoteID = it.remoteID
      BY <2>1, <1>1, <1>7 DEF Planning, Tied
    <3>2. Lies(it.remoteID, it.srcRel)
      <4>1. ASSUME NEW mv \in DOMAIN work, mv.srcRel = it.srcRel
            PROVE  FALSE
        <5>1. Around(mv) \cap Around(it) # {}
          BY <4>1 DEF Around
        <5> QED
          BY <5>1, <1>1 DEF Planning, OneEach
      <4> QED
        BY <3>1, <4>1 DEF Placed, EntriesPlaced
    <3> QED
      BY <2>1, <3>2, <1>1, <1>3, <1>7 DEF OnTheWay, Station, Lies
  <2>2. CASE other # it
    <3>1. other \in DOMAIN work /\ work'[other] = work[other]
      BY <2>2, <1>1
    <3> QED
      BY <3>1, <1>1, <1>7 DEF Placed, MovesPlaced, OnTheWay, Lies
  <2> QED
    BY <2>1, <2>2
<1> QED
  BY <1>4, <1>5, <1>6, <1>7 DEF Placed, MovesPlaced

\* The file an item's success is recorded with is at the item's path, and no other
\* entry's.
LEMMA CollectedFile ==
  ASSUME Types, Planning, Placed, NEW it \in DOMAIN work, work[it].at = "done",
         it.op # "delete"
  PROVE  /\ Lies(work[it].id, it.rel)
         /\ \A r \in DOMAIN m \ {it.srcRel} : m[r].remoteID # work[it].id
<1>1. /\ it \in Item /\ Fits(it, work[it]) /\ it \in InHand /\ DOMAIN work \subseteq InHand
      /\ Tied(it, m)
  BY DEF Types, RunTyped, Phases, InHand, Planning
<1>2. CASE it.op = "upload"
  BY <1>2 DEF Placed, ClaimsPlaced, Claims
<1>3. CASE it.op = "overwrite"
  <2>1. it.rel = it.srcRel /\ it.rel \in DOMAIN m /\ m[it.rel].remoteID = work[it].id
    BY <1>1, <1>3 DEF Tied, Fits
  <2>2. ASSUME NEW mv \in DOMAIN work, mv.op = "move", mv.srcRel = it.rel
        PROVE  FALSE
    <3>1. Around(mv) \cap Around(it) # {}
      BY <2>2 DEF Around
    <3>2. mv = it
      BY <3>1, <1>1 DEF Planning, OneEach
    <3> QED
      BY <2>2, <3>2, <1>3
  <2> QED
    BY <2>1, <2>2 DEF Placed, EntriesPlaced, OwnEntries, OwnFiles
<1>4. CASE it.op = "move"
  <2>1. it.srcRel \in DOMAIN m /\ m[it.srcRel].remoteID = it.remoteID /\ work[it].id = it.remoteID
    BY <1>1, <1>4 DEF Tied, Fits
  <2>2. Lies(it.remoteID, it.rel)
    BY <1>4 DEF Placed, MovesPlaced, OnTheWay, Station
  <2> QED
    BY <2>1, <2>2 DEF Placed, OwnEntries, OwnFiles
<1> QED
  BY <1>1, <1>2, <1>3, <1>4 DEF Item

\* The entry that a success leaves is of a file at its path, and of no other entry's.
LEMMA PlacedCollect ==
  ASSUME Types, Known, Planning, Placed, NEW it \in DOMAIN work, Collect(it),
         NoMoves' = NoMoves
  PROVE  Placed'
<1>1. /\ work[it].at = "done" /\ phase = "run" /\ phase' = "run" /\ remote' = remote
      /\ m' = Recorded(it) /\ (disk' = m' \/ disk' = disk)
      /\ DOMAIN work' = DOMAIN work \ {it}
      /\ \A other \in DOMAIN work' : work'[other] = work[other]
  BY CollectFacts, DropFacts
<1>2. it \in Item /\ Fits(it, work[it]) /\ Tied(it, m)
  BY DEF Types, RunTyped, Phases, InHand, Planning
<1>3. it.op # "delete" =>
        /\ Lies(work[it].id, it.rel)
        /\ \A r \in DOMAIN m \ {it.srcRel} : m[r].remoteID # work[it].id
  BY <1>1, CollectedFile
<1>4. ASSUME NEW r \in DOMAIN m'
      PROVE  \/ r \in DOMAIN m /\ m'[r] = m[r] /\ r # it.srcRel
             \/ it.op # "delete" /\ r = it.rel /\ m'[r].remoteID = work[it].id
  <2>1. CASE r = it.rel /\ it.op # "delete"
    <3>1. m'[r] = [size |-> it.size, localMtime |-> it.mtime,
                   remoteID |-> work[it].id, remoteMtime |-> work[it].mtime]
      BY <1>1, <2>1, RecordedFacts
    <3> QED
      BY <2>1, <3>1
  <2>2. CASE r # it.rel /\ it.op # "delete"
    <3>1. r \in DOMAIN m /\ m'[r] = m[r]
      BY <1>1, <2>2, Entries
    <3>2. it.op = "move" => DOMAIN m' = (DOMAIN m \ {it.srcRel}) \cup {it.rel}
      BY <1>1, RecordedFacts
    <3>3. it.op # "move" => it.srcRel = it.rel
      BY <1>2 DEF Tied
    <3> QED
      BY <2>2, <3>1, <3>2, <3>3
  <2>3. CASE it.op = "delete"
    <3>1. m' = Delete(m, it.rel) /\ it.srcRel = it.rel
      BY <1>1, <1>2, <2>3, RecordedFacts DEF Tied
    <3> QED
      BY <3>1 DEF Delete
  <2> QED
    BY <2>1, <2>2, <2>3
<1>5. OwnEntries'
  <2>1. OwnFiles(m')
    BY <1>3, <1>4 DEF Placed, OwnEntries, OwnFiles
  <2> QED
    BY <1>1, <2>1 DEF Placed, OwnEntries, OwnFiles
<1>6. EntriesPlaced'
  <2>1. ASSUME NEW r \in DOMAIN m'
        PROVE  \/ Lies(m'[r].remoteID, r)
               \/ \E mv \in DOMAIN work' : mv.op = "move" /\ mv.srcRel = r
    BY <1>1, <1>3, <1>4 DEF Placed, EntriesPlaced
  <2>2. ASSUME NoMoves, NEW r \in DOMAIN disk'
        PROVE  Lies(disk'[r].remoteID, r)
    <3>1. \A mv \in DOMAIN work : mv.op # "move"
      BY <2>2, NoMoveItems DEF InHand
    <3>2. AtHome(disk)
      BY <2>2 DEF Placed, EntriesPlaced
    <3> QED
      BY <1>1, <2>1, <2>2, <3>1, <3>2 DEF AtHome
  <2> QED
    BY <1>1, <2>1, <2>2 DEF EntriesPlaced, AtHome, Lies
<1>7. ClaimsPlaced'
  <2>1. ASSUME NEW other \in DOMAIN work', Claims(other, work[other]), NEW r \in DOMAIN m'
        PROVE  m'[r].remoteID # work[other].id
    <3>1. other \in DOMAIN work /\ other # it /\ \A q \in DOMAIN m : m[q].remoteID # work[other].id
      BY <1>1, <2>1 DEF Placed, ClaimsPlaced
    <3>2. it.op # "delete" => work[it].id # work[other].id
      <4>1. CASE it.op = "upload"
        <5>1. Claims(it, work[it])
          BY <1>1, <4>1 DEF Claims
        <5> QED
          BY <2>1, <3>1, <5>1 DEF Placed, ClaimsPlaced
      <4>2. CASE it.op \in {"overwrite", "move"}
        BY <1>2, <3>1, <4>2 DEF Tied, Fits
      <4> QED
        BY <1>2, <4>1, <4>2 DEF Item
    <3> QED
      BY <1>4, <3>1, <3>2
  <2> QED
    BY <1>1, <2>1 DEF Placed, ClaimsPlaced, Lies
<1>8. MovesPlaced'
  BY <1>1 DEF Placed, MovesPlaced, OnTheWay, Lies
<1> QED
  BY <1>5, <1>6, <1>7, <1>8 DEF Placed

\* A move that failed has left its file where its entry says, or gone astray.
LEMMA PlacedFailure ==
  ASSUME Types, Known, Planning, Placed, NEW it \in DOMAIN work, CollectFailure(it),
         ~astray' \/ NoMoves, NoMoves' = NoMoves
  PROVE  Placed'
<1>1. /\ phase = "run" /\ phase' = "run" /\ UNCHANGED <<remote, m, disk>>
      /\ DOMAIN work' = DOMAIN work \ {it}
      /\ \A other \in DOMAIN work' : work'[other] = work[other]
  <2>1. Drop(it) /\ UNCHANGED <<remote, m, disk, phase>> /\ phase = "run"
    BY DEF CollectFailure, Types, Phases, RunTyped
  <2> QED
    BY <2>1, DropFacts
<1>2. Tied(it, m) /\ ~HalfWay(it)
  <2>1. NoMoves => it.op # "move"
    BY NoMoveItems DEF InHand
  <2> QED
    BY <2>1 DEF Planning, InHand, CollectFailure, HalfWay
<1>3. ASSUME NEW r \in DOMAIN m, it.op = "move", it.srcRel = r
      PROVE  Lies(m[r].remoteID, r)
  BY <1>2, <1>3 DEF Tied, HalfWay, Lies
<1>4. OwnEntries'
  BY <1>1 DEF Placed, OwnEntries, OwnFiles
<1>5. EntriesPlaced'
  <2>1. NoMoves => AtHome(disk)'
    BY <1>1 DEF Placed, EntriesPlaced, AtHome, Lies
  <2>2. ASSUME NEW r \in DOMAIN m'
        PROVE  \/ Lies(m[r].remoteID, r)
               \/ \E mv \in DOMAIN work' : mv.op = "move" /\ mv.srcRel = r
    <3>1. \/ Lies(m[r].remoteID, r)
          \/ \E mv \in DOMAIN work : mv.op = "move" /\ mv.srcRel = r
      BY <1>1, <2>2 DEF Placed, EntriesPlaced
    <3> QED
      BY <1>1, <1>3, <2>2, <3>1
  <2> QED
    BY <1>1, <2>1, <2>2 DEF EntriesPlaced, Lies
<1>6. ClaimsPlaced'
  BY <1>1 DEF Placed, ClaimsPlaced, Lies
<1>7. MovesPlaced'
  BY <1>1 DEF Placed, MovesPlaced, OnTheWay, Lies
<1> QED
  BY <1>4, <1>5, <1>6, <1>7 DEF Placed

\* A call moves no file but that of a move.
LEMMA CallLeaves ==
  ASSUME Types, NEW it \in DOMAIN work, NEW p, Comes(it, p), NEW i, i < nextId,
         it.op # "move" \/ i # it.remoteID, NEW path, Lies(i, path)
  PROVE  Lies(i, path)'
<1>1. CASE Stays
  BY <1>1, LiesStill
<1>2. CASE Relocates(it, p)
  <2>1. work[it].at \in {"move", "rename"} /\ it \in Item /\ Fits(it, work[it])
    BY <1>2 DEF Relocates, Types, RunTyped, Phases
  <2>2. it.op = "move" /\ work[it].id = it.remoteID
    BY <2>1 DEF Fits, Item
  <2>3. DOMAIN remote' = DOMAIN remote /\ \A j \in DOMAIN remote \ {work[it].id} : remote'[j] = remote[j]
    BY <1>2, RelocatesFacts
  <2> QED
    BY <2>2, <2>3 DEF Lies
<1> QED
  BY <1>1, <1>2, CallPlaces

\* After its call a move's file is where the next call will look for it.
LEMMA MoveGoesOn ==
  ASSUME Types, Planning, Placed, NEW it \in DOMAIN work, it.op = "move", NEW p, Comes(it, p)
  PROVE  OnTheWay(it, p)'
<1>1. /\ it \in Item /\ Fits(it, work[it]) /\ work[it] \in Progress /\ work[it].id = it.remoteID
      /\ OnTheWay(it, work[it])
  BY DEF Types, RunTyped, Phases, Fits, Placed, MovesPlaced
<1>2. it.rel = <<DirOf(it.rel), BaseOf(it.rel)>> /\ it.srcRel = <<DirOf(it.srcRel), BaseOf(it.srcRel)>>
  BY <1>1 DEF Item, Spots, DirOf, BaseOf
<1>3. CASE Fails(it, p)
  <2>1. p.at = "failed"
    BY <1>1, <1>3 DEF Fails, Progress
  <2> QED
    BY <2>1 DEF OnTheWay
<1>4. CASE Looks(it, p)
  <2>1. /\ it.remoteID \in DOMAIN remote /\ remote[it.remoteID].path = it.srcRel /\ remote' = remote
    BY <1>1, <1>4 DEF Looks, OnTheWay, Station, Lies, SameRemote
  <2>2. p.at = AfterStat(it, it.srcRel) /\ p.path = it.srcRel
    BY <1>1, <1>4, <2>1 DEF Looks
  <2>3. \/ p.at = "move"
        \/ p.at = "rename" /\ DirOf(it.srcRel) = DirOf(it.rel)
        \/ /\ p.at = "done" /\ DirOf(it.srcRel) = DirOf(it.rel)
           /\ BaseOf(it.srcRel) = BaseOf(it.rel)
    BY <2>2 DEF AfterStat, LiveDir
  <2>4. Station(it, p.at) = it.srcRel
    BY <1>2, <2>3 DEF Station
  <2> QED
    BY <2>1, <2>2, <2>4 DEF OnTheWay, Lies
<1>5. CASE LooksAgain(it, p)
  <2>1. work[it].at = "restat" /\ p.at = "done" /\ remote' = remote
    BY <1>1, <1>5 DEF LooksAgain, Progress, SameRemote
  <2> QED
    BY <1>1, <2>1 DEF OnTheWay, Station, Lies
<1>6. CASE Relocates(it, p)
  <2>0. /\ work[it].at \in {"move", "rename"} /\ work[it].path = it.srcRel
        /\ remote[it.remoteID].path = IF work[it].at = "move" THEN it.srcRel
                                      ELSE <<DirOf(it.rel), BaseOf(it.srcRel)>>
    BY <1>1, <1>6 DEF Relocates, OnTheWay, Lies, Station
  <2>1. /\ work[it].at \in {"move", "rename"} /\ work[it].path = it.srcRel
        /\ remote'[it.remoteID].path = IF work[it].at = "move" THEN <<DirOf(it.rel), BaseOf(it.srcRel)>>
                                       ELSE it.rel
    <3>1. remote'[it.remoteID].path =
            IF work[it].at = "move" THEN <<DirOf(it.rel), BaseOf(remote[it.remoteID].path)>>
            ELSE <<DirOf(remote[it.remoteID].path), BaseOf(it.rel)>>
      BY <1>1, <1>6, RelocatesFacts
    <3>2. work[it].at = "rename" => DirOf(remote[it.remoteID].path) = DirOf(it.rel)
      BY <2>0 DEF DirOf
    <3>3. work[it].at = "move" => BaseOf(remote[it.remoteID].path) = BaseOf(it.srcRel)
      BY <2>0
    <3> QED
      BY <2>0, <3>1, <3>2, <3>3, <1>2
  <2>2. \/ p.at = "failed"
        \/ work[it].at = "move" /\ p.at = "rename" /\ p.path = it.srcRel
        \/ work[it].at = "move" /\ p.at = "restat" /\ BaseOf(it.srcRel) = BaseOf(it.rel)
        \/ work[it].at = "rename" /\ p.at = "done"
    BY <1>1, <1>6, <2>1 DEF Relocates, Progress
  <2>3. /\ work[it].at = "move" /\ p.at = "rename" => remote'[it.remoteID].path = Station(it, "rename")
        /\ work[it].at = "move" /\ p.at = "restat" => remote'[it.remoteID].path = Station(it, "restat")
        /\ work[it].at = "rename" /\ p.at = "done" => remote'[it.remoteID].path = Station(it, "done")
    BY <1>2, <2>1, <2>2 DEF Station
  <2> QED
    BY <2>2, <2>3 DEF OnTheWay, Lies
<1>7. work[it].at \in {"stat", "move", "rename", "restat", "done", "failed"}
  BY <1>1 DEF Fits
<1> QED
  BY <1>3, <1>4, <1>5, <1>6, <1>7 DEF Comes, Meets, Finds, Misses, Makes, Replaces, Removes

\* The file an upload has made is new, and the one it takes over is nobody's: the entry
\* at its path would have kept it from being planned, and a move that has the file in
\* hand is what astray tells of.
LEMMA UploadClaims ==
  ASSUME Types, Known, Planning, Placed, NEW it \in DOMAIN work, NEW p, Comes(it, p),
         Claims(it, p), ~astray' \/ NoMoves
  PROVE  /\ Lies(p.id, it.rel)'
         /\ \A r \in DOMAIN m : m[r].remoteID # p.id
         /\ \A other \in DOMAIN work \ {it} : Claims(other, work[other]) => work[other].id # p.id
<1>1. /\ it \in Item /\ Fits(it, work[it]) /\ work[it] \in Progress /\ Tied(it, m)
      /\ it.op = "upload" /\ p.at \in {"replace", "done"}
      /\ it \in InHand /\ DOMAIN work \subseteq InHand
  BY DEF Types, RunTyped, Phases, Claims, Planning, InHand
<1>2. nextId \in Nat /\ remote \in [DOMAIN remote -> RemoteFile]
  BY DEF Types, TreesTyped
<1>3. CASE Finds(it, p)
  <2>1. PICK i \in DOMAIN remote : remote[i].path = it.rel /\ p = [work[it] EXCEPT !.at = "replace", !.id = i]
                                   /\ remote' = remote /\ astray' = (astray \/ Carried(i))
    BY <1>3 DEF Finds, SameRemote
  <2>2. p.id = i
    BY <1>1, <2>1 DEF Progress
  <2>3. \A mv \in DOMAIN work : mv.op = "move" => mv.remoteID # i
    <3>1. NoMoves => \A mv \in DOMAIN work : mv.op # "move"
      BY NoMoveItems DEF InHand
    <3> QED
      BY <2>1, <3>1 DEF Carried, OfKind
  <2>4. ASSUME NEW r \in DOMAIN m, m[r].remoteID = i
        PROVE  FALSE
    <3>1. CASE Lies(i, r)
      BY <1>1, <2>1, <2>4, <3>1 DEF Lies, Tied
    <3>2. ASSUME NEW mv \in DOMAIN work, mv.op = "move", mv.srcRel = r
          PROVE  FALSE
      <4>1. Tied(mv, m)
        BY <1>1 DEF Planning
      <4> QED
        BY <2>3, <2>4, <3>2, <4>1 DEF Tied
    <3> QED
      BY <2>4, <3>1, <3>2 DEF Placed, EntriesPlaced
  <2>5. ASSUME NEW other \in DOMAIN work, Claims(other, work[other]), work[other].id = i
        PROVE  other = it
    <3>1. other.rel = it.rel
      BY <2>1, <2>5 DEF Placed, ClaimsPlaced, Lies
    <3>2. Around(other) \cap Around(it) # {}
      BY <3>1 DEF Around
    <3> QED
      BY <1>1, <3>2 DEF Planning, OneEach
  <2> QED
    BY <2>1, <2>2, <2>4, <2>5 DEF Lies
<1>4. CASE Makes(it, p)
  <2> DEFINE new == FromLocal(it, it.rel, 1)
  <2>1. remote' = Set(remote, nextId, new) /\ new.path = it.rel
    BY <1>4 DEF Makes, FromLocal
  <2>2. p.id = nextId
    BY <1>1, <1>4 DEF Makes, Progress
  <2> HIDE DEF new
  <2>3. p.id \in DOMAIN remote' => remote'[p.id].path = it.rel
    BY <2>1, <2>2 DEF Set
  <2>4. /\ \A r \in DOMAIN m : m[r].remoteID < nextId
        /\ \A other \in DOMAIN work : work[other].id < nextId
    BY DEF Known
  <2>5. ~(nextId < nextId)
    BY <1>2
  <2> QED
    BY <2>2, <2>3, <2>4, <2>5 DEF Lies
<1>5. CASE Replaces(it, p)
  <2>1. work[it].at = "replace" /\ p.id = work[it].id
    BY <1>1, <1>5 DEF Replaces, Progress
  <2>2. Claims(it, work[it])
    BY <1>1, <2>1 DEF Claims
  <2>3. Lies(p.id, it.rel) /\ p.id < nextId
    BY <2>1, <2>2 DEF Placed, ClaimsPlaced, Known
  <2>4. Lies(p.id, it.rel)'
    BY <1>1, <2>3, CallLeaves
  <2> QED
    BY <2>1, <2>2, <2>4 DEF Placed, ClaimsPlaced
<1>6. Fails(it, p) \/ Meets(it, p) => p.at \in {"failed", "find"}
  BY <1>1 DEF Fails, Meets, Progress
<1> QED
  BY <1>1, <1>3, <1>4, <1>5, <1>6 DEF Comes, Misses, Looks, LooksAgain, Removes, Relocates, Fits

\* A call takes no file from its place but a move's, which is on its way.
LEMMA PlacedCall ==
  ASSUME Types, Known, Planning, Placed, NEW it \in DOMAIN work, Call(it),
         ~astray' \/ NoMoves, NoMoves' = NoMoves
  PROVE  Placed'
<1>1. PICK p : With(it, p) /\ Comes(it, p)
  BY Outcomes
<1>2. /\ phase = "run" /\ UNCHANGED <<phase, m, disk>>
      /\ DOMAIN work' = DOMAIN work /\ work'[it] = p
      /\ \A other \in DOMAIN work \ {it} : work'[other] = work[other]
  <2>1. Beside /\ phase = "run"
    BY Outcomes DEF Types, Phases, RunTyped
  <2> QED
    BY <1>1, <2>1, WithFacts DEF Beside
<1>3. /\ \A r \in DOMAIN m : m[r].remoteID < nextId
      /\ \A other \in DOMAIN work : /\ other.remoteID < nextId /\ work[other].id < nextId
                                    /\ Tied(other, m) /\ other \in InHand
  BY DEF Known, InHand, Planning
<1>4. OwnEntries'
  BY <1>2 DEF Placed, OwnEntries, OwnFiles
<1>5. EntriesPlaced'
  <2>1. ASSUME NEW r \in DOMAIN m, Lies(m[r].remoteID, r)
        PROVE  Lies(m[r].remoteID, r)' \/ (it.op = "move" /\ it.srcRel = r)
    <3>1. CASE it.op = "move" /\ m[r].remoteID = it.remoteID
      BY <1>3, <2>1, <3>1 DEF Tied, Placed, OwnEntries, OwnFiles
    <3>2. CASE it.op # "move" \/ m[r].remoteID # it.remoteID
      <4> DEFINE i == m[r].remoteID
      <4>1. i < nextId /\ (it.op # "move" \/ i # it.remoteID) /\ Lies(i, r)
        BY <1>3, <2>1, <3>2
      <4>2. \A j : j < nextId /\ (it.op # "move" \/ j # it.remoteID) /\ Lies(j, r) => Lies(j, r)'
        BY <1>1, CallLeaves
      <4>3. PICK j : j = i
        OBVIOUS
      <4>4. Lies(j, r)'
        BY <4>1, <4>2, <4>3
      <4> QED
        BY <1>2, <4>3, <4>4 DEF Lies
    <3> QED
      BY <3>1, <3>2
  <2>2. ASSUME NoMoves, NEW r \in DOMAIN disk
        PROVE  \A i : i = disk[r].remoteID => Lies(i, r)'
    <3>1. it.op # "move"
      BY <2>2, NoMoveItems DEF InHand
    <3>2. Lies(disk[r].remoteID, r) /\ disk[r].remoteID < nextId
      BY <2>2 DEF Placed, EntriesPlaced, AtHome, Known
    <3> QED
      BY <1>1, <3>1, <3>2, CallLeaves
  <2> QED
    BY <1>2, <2>1, <2>2 DEF Placed, EntriesPlaced, AtHome, Lies
<1>6. ClaimsPlaced'
  <2>1. Claims(it, p) =>
          /\ Lies(p.id, it.rel)'
          /\ \A r \in DOMAIN m : m[r].remoteID # p.id
          /\ \A other \in DOMAIN work \ {it} : Claims(other, work[other]) => work[other].id # p.id
    BY <1>1, UploadClaims
  <2>2. ASSUME NEW other \in DOMAIN work \ {it}, Claims(other, work[other])
        PROVE  \A j : j = work[other].id => Lies(j, other.rel)'
    <3>1. it.op = "move" => work[other].id # it.remoteID
      BY <1>3, <2>2 DEF Placed, ClaimsPlaced, Tied
    <3>2. Lies(work[other].id, other.rel)
      BY <2>2 DEF Placed, ClaimsPlaced
    <3> QED
      BY <1>1, <1>3, <3>1, <3>2, CallLeaves
  <2>3. ASSUME NEW other \in DOMAIN work', Claims(other, work'[other])
        PROVE  /\ work'[other].id \in DOMAIN remote' => remote'[work'[other].id].path = other.rel
               /\ \A r \in DOMAIN m : m[r].remoteID # work'[other].id
               /\ \A third \in DOMAIN work : Claims(third, work'[third]) /\ work'[third].id = work'[other].id
                                               => third = other
    <3>1. CASE other = it
      BY <1>2, <2>1, <2>3, <3>1 DEF Lies
    <3>2. CASE other # it
      BY <1>2, <2>1, <2>2, <2>3, <3>2 DEF Lies, Placed, ClaimsPlaced
    <3> QED
      BY <3>1, <3>2
  <2> QED
    BY <1>2, <2>3 DEF ClaimsPlaced, Lies, Claims
<1>7. MovesPlaced'
  <2>1. it.op = "move" => OnTheWay(it, p)'
    BY <1>1, MoveGoesOn
  <2>2. ASSUME NEW other \in DOMAIN work \ {it}, other.op = "move"
        PROVE  /\ OnTheWay(other, work[other])
               /\ \A path : Lies(other.remoteID, path) => Lies(other.remoteID, path)'
    <3>1. OnTheWay(other, work[other])
      BY <2>2 DEF Placed, MovesPlaced
    <3>2. ASSUME it.op = "move", other.remoteID = it.remoteID
          PROVE  FALSE
      <4>1. other.srcRel = it.srcRel
        BY <1>3, <2>2, <3>2 DEF Tied, Placed, OwnEntries, OwnFiles
      <4>2. Around(other) \cap Around(it) # {}
        BY <4>1 DEF Around
      <4> QED
        BY <1>3, <2>2, <4>2 DEF Planning, OneEach
    <3> QED
      BY <1>1, <1>3, <3>1, <3>2, CallLeaves
  <2> QED
    BY <1>2, <2>1, <2>2 DEF MovesPlaced, OnTheWay, Station, Lies
<1> QED
  BY <1>4, <1>5, <1>6, <1>7 DEF Placed

\* What has been disturbed remains so.
LEMMA DisturbedStays ==
  ASSUME Types, [Next]_vars, Undisturbed'
  PROVE  Undisturbed /\ faults' = faults /\ crashes' = crashes
<1>1. faults \in Nat /\ crashes \in Nat
  BY DEF Types, RunTyped
<1>2. SUFFICES /\ faults' = faults \/ faults' = faults + 1
               /\ crashes' = crashes \/ crashes' = crashes + 1
               /\ astray => astray'
  BY <1>1 DEF Undisturbed
<1>3. CASE Edit
  BY <1>3, EditFacts
<1>4. CASE Other
  <2>1. UNCHANGED <<faults, crashes, astray>>
    BY <1>4, OtherFacts
  <2> QED
    BY <2>1
<1>5. CASE \E o \in Options : Begin(o)
  BY <1>5, BeginFacts
<1>6. CASE \E it \in todo : CheckDrift(it)
  BY <1>6 DEF CheckDrift, bounds, history
<1>7. CASE Goes
  BY <1>7 DEF Goes, bounds
<1>8. CASE Ends
  BY <1>8 DEF Ends
<1>9. CASE \E it \in waiting : Take(it)
  BY <1>9 DEF Take, bounds, history
<1>10. ASSUME NEW it \in DOMAIN work, Call(it)
       PROVE  /\ faults' = faults \/ faults' = faults + 1
              /\ crashes' = crashes
              /\ astray => astray'
  <2>1. PICK p : Comes(it, p)
    BY <1>10, Outcomes
  <2>2. astray => astray'
    BY <2>1 DEF Comes, Fails, Meets, Finds, Misses, Looks, LooksAgain, Makes, Replaces, Removes,
                Relocates
  <2> QED
    BY <1>10, <2>2, Outcomes DEF Beside
<1>11. ASSUME NEW it \in DOMAIN work, Collect(it)
       PROVE  /\ faults' = faults \/ faults' = faults + 1
              /\ crashes' = crashes /\ astray' = astray
  BY <1>11, CollectFacts
<1>12. ASSUME NEW it \in DOMAIN work, CollectFailure(it)
       PROVE  faults' = faults /\ crashes' = crashes /\ (astray => astray')
  BY <1>12 DEF CollectFailure, bounds
<1>13. CASE UNCHANGED vars
  BY <1>13 DEF vars, bounds, history
<1> QED
  BY <1>3, <1>4, <1>5, <1>6, <1>7, <1>8, <1>9, <1>10, <1>11, <1>12, <1>13, NextCases

\* Every step keeps files in their places; with moves, if it disturbs nothing.
LEMMA PlacedStep ==
  ASSUME Types, Known, Planning, Accountable => Placed, [Next]_vars, Accountable'
  PROVE  Placed'
<1>0. /\ Placed /\ NoMoves' = NoMoves
      /\ (faults' = faults /\ crashes' = crashes /\ ~astray') \/ NoMoves
  <2>1. Accountable' <=> Undisturbed' \/ NoMoves'
    BY DEF Accountable, NoMoves
  <2>2. Accountable <=> Undisturbed \/ NoMoves
    BY DEF Accountable, NoMoves
  <2>3. NoMoves' = NoMoves
    BY NoMovesStays
  <2> QED
    BY <2>1, <2>2, <2>3, DisturbedStays DEF Undisturbed
<1>1. nextId \in Nat /\ DOMAIN remote \subseteq 1..(nextId - 1)
  BY DEF Types, TreesTyped
<1>2. ASSUME remote' = remote, UNCHANGED <<m, disk, work>>, phase' = phase \/ phase' = "run"
      PROVE  Placed'
  <2>1. Stays
    BY <1>2 DEF Stays
  <2> QED
    BY <1>0, <1>2, <2>1, PlacedKept
<1>3. CASE Edit
  BY <1>2, <1>3, EditFacts DEF run
<1>4. CASE Other
  <2>1. UNCHANGED <<m, disk, work, phase>>
    BY <1>4, OtherFacts DEF run
  <2>2. Stays
    <3>1. ASSUME NEW it \in DOMAIN work, NEW p, Call(it), With(it, p), Relocates(it, p)
          PROVE  FALSE
      <4>1. foreign' = foreign /\ foreign \in Nat
        BY <3>1, Outcomes DEF Beside, Types, RunTyped
      <4>2. foreign' = foreign + 1
        BY <1>4, OtherFacts
      <4> QED
        BY <4>1, <4>2
    <3> QED
      BY <3>1, Places
  <2> QED
    BY <1>0, <2>1, <2>2, PlacedKept
<1>5. CASE \E o \in Options : Begin(o)
  BY <1>0, <1>5, PlacedBegin
<1>6. CASE \E it \in todo : CheckDrift(it)
  BY <1>2, <1>6 DEF CheckDrift
<1>7. CASE Goes
  BY <1>2, <1>7 DEF Goes
<1>8. CASE Ends
  BY <1>0, <1>8, PlacedEnd
<1>9. CASE \E it \in waiting : Take(it)
  BY <1>0, <1>9, PlacedTake
<1>10. ASSUME NEW it \in DOMAIN work, Call(it) \/ Collect(it) \/ CollectFailure(it)
       PROVE  Placed'
  BY <1>0, <1>10, PlacedCall, PlacedCollect, PlacedFailure
<1>11. CASE UNCHANGED vars
  BY <1>2, <1>11 DEF vars, run
<1> QED
  BY <1>3, <1>4, <1>5, <1>6, <1>7, <1>8, <1>9, <1>10, <1>11, NextCases

\* Without --detect-moves, or while nothing has failed, been killed or gone astray, files
\* are in their places.
AccountablyPlaced == Accountable => Placed

\* So files are in their places.
LEMMA PlacedAlways == Spec => []AccountablyPlaced
<1>1. Init => AccountablyPlaced
  <2> SUFFICES ASSUME Init PROVE Placed
    BY DEF AccountablyPlaced
  <2> DEFINE tree == DOMAIN StartTree
             R(i) == CHOOSE q \in tree : StartTree[q].mtime = i
  <2>1. m = disk /\ DOMAIN work = {} /\ phase = "idle"
    BY DEF Init, Empty
  <2>2. OwnFiles(disk) /\ AtHome(disk)
    <3>1. CASE disk = Empty
      BY <3>1 DEF Empty, OwnFiles, AtHome
    <3>2. CASE disk # Empty
      <4>1. /\ disk = [r \in tree |-> StartEntry(r)]
            /\ remote = [i \in {StartTree[q].mtime : q \in tree} |->
                           [path |-> R(i), size |-> StartTree[R(i)].size, mtime |-> 1,
                            data |-> i]]
        BY <3>2 DEF Init
      <4>2. \A r \in tree : disk[r].remoteID = StartTree[r].mtime
        BY <4>1 DEF StartEntry, Entry
      <4>3. \A i \in DOMAIN remote : remote[i].path = R(i) /\ \E q \in tree : StartTree[q].mtime = i
        BY <4>1
      <4>4. \A i \in DOMAIN remote : R(i) \in tree /\ StartTree[R(i)].mtime = i
        BY <4>3
      <4>5. \A r, q \in tree : StartTree[r].mtime = StartTree[q].mtime => r = q
        <5>1. setting \in DOMAIN Settings
          BY DEF Init
        <5> QED
          BY <5>1, PushAssumption DEF StartTree
      <4>6. DOMAIN disk = tree
        BY <4>1
      <4> HIDE DEF tree, R
      <4> QED
        BY <4>2, <4>3, <4>4, <4>5, <4>6 DEF OwnFiles, AtHome, Lies
    <3> QED
      BY <3>1, <3>2
  <2> QED
    BY <2>1, <2>2 DEF Placed, OwnEntries, EntriesPlaced, ClaimsPlaced, MovesPlaced, AtHome
<1>2. Types /\ Known /\ Planning /\ AccountablyPlaced /\ [Next]_vars => AccountablyPlaced'
  BY PlacedStep DEF AccountablyPlaced
<1> QED
  BY <1>1, <1>2, TypesAlways, KnownAlways, PlanningAlways, PTL DEF Spec

\* Paths and files go one to one: no folder ever holds two files of one name, and no two
\* paths are baselined on one remote file, whatever fails; with --detect-moves the latter
\* while nothing does (PushExecutor and PlanPush, syncer/executor.go and syncer/plan.go).
THEOREM OneToOne == Spec => []OnePathPerFile
<1>1. OneFilePerPath /\ AccountablyPlaced => OnePathPerFile
  BY DEF OneFilePerPath, AccountablyPlaced, Accountable, Placed, OwnEntries, OwnFiles, OnePathPerFile
<1> QED
  BY <1>1, OneFileAlways, PlacedAlways, PTL

-----------------------------------------------------------------------------
(* Versions of local files                                                  *)

\* During a run nobody renames local files: a file that is renamed away and back again
\* has the mtime an item was planned with, and the run may have sent another one.
NoRenameInRun == ~(MayRename /\ LocalInRun)

\* the version is nowhere but there
OnlyAt(v, rel) == \A q \in DOMAIN local : local[q].mtime = v => q = rel

\* the version is not there any more
Gone(v) == \A q \in DOMAIN local : local[q].mtime # v

\* Mtimes tell versions apart, those of entries and of planned items too: an item's
\* version is at its path or nowhere.
Dated ==
  /\ \A r \in DOMAIN local : local[r].mtime <= clock
  /\ \A r \in DOMAIN local : OnlyAt(local[r].mtime, r)
  /\ \A r \in DOMAIN m : m[r].localMtime <= clock
  /\ \A r \in DOMAIN disk : disk[r].localMtime <= clock
  /\ \A it \in InHand : it.op # "delete" => it.mtime <= clock /\ OnlyAt(it.mtime, it.rel)

\* the step leaves the file alone
Unedited(q) == q \in DOMAIN local /\ local'[q] = local[q]

\* An edit writes one new version, removes one, or renames one.
LEMMA EditCases ==
  ASSUME Types, Edit
  PROVE  \/ \E r : \A q \in DOMAIN local' : Unedited(q) \/ (q = r /\ local'[q].mtime = clock + 1)
         \/ /\ MayRename /\ (LocalInRun \/ phase = "idle")
            /\ \E r \in DOMAIN local, q \in Rels :
                 local' = Set(Delete(local, r), q, local[r])
<1>1. ASSUME NEW r \in Rels, LocalWrite(r)
      PROVE  \A q \in DOMAIN local' : Unedited(q) \/ (q = r /\ local'[q].mtime = clock + 1)
  <2>1. PICK s \in Sizes : local' = Set(local, r, [size |-> s, mtime |-> clock + 1])
    BY <1>1 DEF LocalWrite
  <2>2. /\ DOMAIN local' = DOMAIN local \cup {r}
        /\ local'[r] = [size |-> s, mtime |-> clock + 1]
        /\ \A q \in DOMAIN local \ {r} : local'[q] = local[q]
    BY <2>1 DEF Set
  <2>3. local'[r].mtime = clock + 1
    BY <2>2
  <2> QED
    BY <2>2, <2>3 DEF Unedited
<1>2. ASSUME NEW r \in Rels, LocalRemove(r)
      PROVE  \A q \in DOMAIN local' : Unedited(q)
  BY <1>2 DEF LocalRemove, Delete, Unedited
<1>3. ASSUME NEW r \in Rels, NEW q \in Rels, LocalRename(r, q)
      PROVE  /\ MayRename /\ (LocalInRun \/ phase = "idle") /\ r \in DOMAIN local
             /\ local' = Set(Delete(local, r), q, local[r])
  BY <1>3 DEF LocalRename, LocalEdit
<1>4. CASE \E r \in Rels : LocalWrite(r)
  BY <1>1, <1>4
<1>5. CASE \E r \in Rels : LocalRemove(r)
  BY <1>2, <1>5
<1>6. CASE \E r, q \in Rels : LocalRename(r, q)
  BY <1>3, <1>6
<1> QED
  BY <1>4, <1>5, <1>6 DEF Edit

\* Nobody else changes the local tree.
LEMMA LocalSteps ==
  ASSUME Types, [Next]_vars
  PROVE  Edit \/ UNCHANGED <<local, clock>>
<1>1. CASE Other
  BY <1>1, OtherFacts
<1>2. CASE \E o \in Options : Begin(o)
  BY <1>2, BeginFacts
<1>3. CASE \E it \in todo : CheckDrift(it)
  BY <1>3 DEF CheckDrift, bounds
<1>4. CASE Goes \/ Ends
  BY <1>4 DEF Goes, Ends, bounds
<1>5. CASE \E it \in waiting : Take(it)
  BY <1>5 DEF Take, bounds
<1>6. ASSUME NEW it \in DOMAIN work, Call(it)
      PROVE  UNCHANGED <<local, clock>>
  BY <1>6, Outcomes DEF Beside
<1>7. ASSUME NEW it \in DOMAIN work, Collect(it) \/ CollectFailure(it)
      PROVE  UNCHANGED <<local, clock>>
  BY <1>7 DEF Collect, CollectFailure, bounds
<1>8. CASE UNCHANGED vars
  BY <1>8 DEF vars, bounds
<1> QED
  BY <1>1, <1>2, <1>3, <1>4, <1>5, <1>6, <1>7, <1>8, NextCases

\* Each version after a step was there before, or is a new one; but for renames, at
\* the same path.
LEMMA Versions ==
  ASSUME Types, [Next]_vars
  PROVE  /\ clock \in Nat /\ clock' \in Nat /\ clock <= clock'
         /\ \A q \in DOMAIN local' :
              \/ \E r \in DOMAIN local : local'[q].mtime = local[r].mtime
              \/ local'[q].mtime = clock + 1 /\ clock' = clock + 1
         /\ NoRenameInRun /\ phase # "idle" =>
              \A q \in DOMAIN local' :
                \/ q \in DOMAIN local /\ local'[q].mtime = local[q].mtime
                \/ local'[q].mtime = clock + 1 /\ clock' = clock + 1
<1>1. clock \in Nat
  BY DEF Types, RunTyped
<1>2. CASE UNCHANGED <<local, clock>>
  BY <1>1, <1>2
<1>3. CASE Edit
  <2>1. clock' = clock + 1
    BY <1>3, EditFacts
  <2>2. CASE \E r : \A q \in DOMAIN local' : Unedited(q) \/ (q = r /\ local'[q].mtime = clock + 1)
    BY <1>1, <2>1, <2>2 DEF Unedited
  <2>3. CASE /\ MayRename /\ (LocalInRun \/ phase = "idle")
             /\ \E r \in DOMAIN local, q \in Rels : local' = Set(Delete(local, r), q, local[r])
    <3>1. PICK r \in DOMAIN local, q \in Rels : local' = Set(Delete(local, r), q, local[r])
      BY <2>3
    <3>2. local'[q] = local[r] /\ DOMAIN local' = (DOMAIN local \ {r}) \cup {q}
      BY <3>1 DEF Set, Delete
    <3>3. ASSUME NEW s \in DOMAIN local', s # q
          PROVE  s \in DOMAIN local /\ local'[s] = local[s]
      BY <3>1, <3>3 DEF Set, Delete
    <3>4. NoRenameInRun => phase = "idle"
      BY <2>3 DEF NoRenameInRun
    <3> QED
      BY <1>1, <2>1, <3>1, <3>2, <3>3, <3>4
  <2> QED
    BY <1>3, <2>2, <2>3, EditCases
<1> QED
  BY <1>2, <1>3, LocalSteps

\* What is gone does not come back.
LEMMA GoneKept ==
  ASSUME Types, [Next]_vars, NEW v \in Nat, v <= clock, Gone(v)
  PROVE  Gone(v)'
<1>1. \A q \in DOMAIN local' : local'[q].mtime # v
  BY Versions DEF Gone
<1> QED
  BY <1>1 DEF Gone

\* A run's versions stay where they were planned.
LEMMA OnlyAtKept ==
  ASSUME Types, [Next]_vars, NoRenameInRun, phase # "idle", NEW v \in Nat, v <= clock, NEW rel,
         OnlyAt(v, rel)
  PROVE  OnlyAt(v, rel)'
<1>1. \A q \in DOMAIN local' : local'[q].mtime = v => q = rel
  BY Versions DEF OnlyAt
<1> QED
  BY <1>1 DEF OnlyAt

\* Mtimes go on telling versions apart.
LEMMA DatedStep ==
  ASSUME Types, NoRenameInRun, Dated, [Next]_vars
  PROVE  Dated'
<1>0. Types'
  BY TypesStep
<1>1. /\ clock \in Nat /\ clock' \in Nat /\ clock <= clock'
      /\ \A q \in DOMAIN local' :
           \/ \E r \in DOMAIN local : local'[q].mtime = local[r].mtime
           \/ local'[q].mtime = clock + 1 /\ clock' = clock + 1
  BY Versions
<1>2. /\ \A r \in DOMAIN local : local[r] \in LocalFile
      /\ \A r \in DOMAIN m : m[r] \in ManifestEntry
      /\ \A r \in DOMAIN disk : disk[r] \in ManifestEntry
      /\ \A it \in InHand : it \in Item
  BY DEF Types, TreesTyped, RunTyped, Table, InHand
<1>3. /\ \A r \in DOMAIN local : local[r].mtime \in Nat /\ local[r].mtime <= clock
      /\ \A r \in DOMAIN m : m[r].localMtime \in Nat /\ m[r].localMtime <= clock
      /\ \A r \in DOMAIN disk : disk[r].localMtime \in Nat /\ disk[r].localMtime <= clock
      /\ \A it \in InHand : it.mtime \in Nat /\ (it.op # "delete" => it.mtime <= clock)
  BY <1>2 DEF Dated, LocalFile, ManifestEntry, Item
<1>4. ASSUME NEW r \in DOMAIN local'
      PROVE  local'[r].mtime <= clock'
  BY <1>1, <1>3, <1>4
<1>5. ASSUME NEW r \in DOMAIN local', NEW q \in DOMAIN local', local'[q].mtime = local'[r].mtime
      PROVE  q = r
  <2>1. \A a, b \in DOMAIN local : local[a].mtime = local[b].mtime => a = b
    BY DEF Dated, OnlyAt
  <2>2. CASE local' = local
    BY <1>5, <2>1, <2>2
  <2>3. CASE \E s : \A t \in DOMAIN local' : Unedited(t) \/ (t = s /\ local'[t].mtime = clock + 1)
    <3>1. PICK s : \A t \in DOMAIN local' : Unedited(t) \/ (t = s /\ local'[t].mtime = clock + 1)
      BY <2>3
    <3>2. Unedited(q) \/ (q = s /\ local'[q].mtime = clock + 1)
      BY <3>1
    <3>3. Unedited(r) \/ (r = s /\ local'[r].mtime = clock + 1)
      BY <3>1
    <3>4. \A t : Unedited(t) => /\ t \in DOMAIN local /\ local'[t].mtime = local[t].mtime
                                /\ local[t].mtime \in Nat /\ local[t].mtime <= clock
      BY <1>3 DEF Unedited
    <3> QED
      BY <1>1, <1>5, <2>1, <3>2, <3>3, <3>4
  <2>4. ASSUME NEW s \in DOMAIN local, NEW t \in Rels, local' = Set(Delete(local, s), t, local[s])
        PROVE  q = r
    <3>1. /\ DOMAIN local' = (DOMAIN local \ {s}) \cup {t} /\ local'[t] = local[s]
          /\ \A u \in DOMAIN local' \ {t} : u \in DOMAIN local \ {s} /\ local'[u] = local[u]
      BY <2>4 DEF Set, Delete
    <3> QED
      BY <1>5, <2>1, <3>1
  <2> QED
    BY <2>2, <2>3, <2>4, LocalSteps, EditCases
<1>6. ASSUME NEW o \in Options, Begin(o), NEW r \in DOMAIN Base(o)
      PROVE  Base(o)[r].localMtime <= clock
  <2>1. CASE r \in Seeded(o)
    <3>1. /\ Base(o)[r] = [size |-> Index[r].size, localMtime |-> local[r].mtime,
                           remoteID |-> Index[r].id, remoteMtime |-> Index[r].mtime]
          /\ r \in DOMAIN local
      BY <2>1, BaseFacts
    <3>2. Base(o)[r].localMtime = local[r].mtime
      BY <3>1
    <3> QED
      BY <1>3, <3>1, <3>2
  <2>2. CASE r \notin Seeded(o)
    BY <1>3, <2>2, BaseFacts
  <2> QED
    BY <2>1, <2>2
<1>7. ASSUME NEW it \in DOMAIN work, NEW r \in DOMAIN Recorded(it)
      PROVE  Recorded(it)[r].localMtime <= clock
  <2>1. CASE r \in DOMAIN m /\ Recorded(it)[r] = m[r]
    BY <2>1, <1>3
  <2>2. CASE it.op # "delete"
             /\ Recorded(it)[r] = [size |-> it.size, localMtime |-> it.mtime,
                                   remoteID |-> work[it].id, remoteMtime |-> work[it].mtime]
    <3>1. Recorded(it)[r].localMtime = it.mtime
      BY <2>2
    <3> QED
      BY <1>3, <2>2, <3>1 DEF InHand
  <2> QED
    BY <2>1, <2>2, Entries
<1>8. /\ \A r \in DOMAIN m' : m'[r].localMtime <= clock
      /\ \A r \in DOMAIN disk' : disk'[r].localMtime <= clock
  <2>1. CASE UNCHANGED <<m, disk>> \/ Ends
    <3>1. m' \in {m, disk} /\ disk' \in {m, disk}
      BY <2>1 DEF Ends
    <3> QED
      BY <3>1, <1>3
  <2>2. ASSUME NEW o \in Options, Begin(o), m' = Base(o), disk' = disk
        PROVE  <1>8!1 /\ <1>8!2
    BY <2>2, <1>3, <1>6
  <2>3. ASSUME NEW it \in DOMAIN work, m' = Recorded(it), disk' \in {m', disk}
        PROVE  <1>8!1 /\ <1>8!2
    BY <2>3, <1>3, <1>7
  <2> QED
    BY <2>1, <2>2, <2>3, Manifests
<1>9. /\ \A r \in DOMAIN m' : m'[r].localMtime <= clock'
      /\ \A r \in DOMAIN disk' : disk'[r].localMtime <= clock'
  <2>1. /\ \A r \in DOMAIN m' : m'[r] \in ManifestEntry
        /\ \A r \in DOMAIN disk' : disk'[r] \in ManifestEntry
    BY <1>0 DEF Types, TreesTyped, Table
  <2>2. /\ \A r \in DOMAIN m' : m'[r].localMtime \in Nat
        /\ \A r \in DOMAIN disk' : disk'[r].localMtime \in Nat
    BY <2>1 DEF ManifestEntry
  <2> QED
    BY <1>1, <1>8, <2>2
<1>10. ASSUME NEW it \in InHand', it.op # "delete"
       PROVE  it.mtime <= clock' /\ OnlyAt(it.mtime, it.rel)'
  <2>1. ASSUME NEW o \in Options, Begin(o)
        PROVE  it.mtime <= clock' /\ OnlyAt(it.mtime, it.rel)'
    <3>1. InHand' = todo' \cup waiting' /\ local' = local /\ clock' = clock
      <4>1. work' = work /\ DOMAIN work = {}
        BY <2>1, BeginFacts DEF Types, Phases
      <4> QED
        BY <2>1, <4>1, BeginFacts DEF InHand
    <3>2. Sound(it, Base(o)) /\ it \in Item
      BY <2>1, <3>1, BeginFacts
    <3>3. it.rel \in DOMAIN local /\ it.mtime = local[it.rel].mtime
      BY <1>10, <3>2 DEF Sound, Item
    <3> QED
      BY <1>3, <3>1, <3>3 DEF Dated, OnlyAt
  <2>2. CASE it \in InHand /\ phase # "idle"
    <3>1. it.mtime \in Nat /\ it.mtime <= clock /\ OnlyAt(it.mtime, it.rel)
      BY <1>3, <1>10, <2>2 DEF Dated
    <3> QED
      BY <1>1, <2>2, <3>1, OnlyAtKept
  <2>3. InHand # {} => phase # "idle"
    BY DEF InHand, Types, Phases
  <2> QED
    BY <2>1, <2>2, <2>3, Hands
<1> QED
  BY <1>4, <1>5, <1>9, <1>10 DEF Dated, OnlyAt

\* Mtimes tell versions apart.
LEMMA DatedAlways == Spec /\ []NoRenameInRun => []Dated
<1>1. Init => Dated
  <2> SUFFICES ASSUME Init PROVE Dated
    OBVIOUS
  <2> DEFINE tree == DOMAIN StartTree
             N == Cardinality(tree)
  <2>1. /\ local = StartTree /\ clock = N /\ m = disk /\ InHand = {}
        /\ disk = (IF Synced THEN [r \in tree |-> StartEntry(r)] ELSE Empty)
        /\ setting \in DOMAIN Settings
    BY DEF Init, InHand, Empty
  <2>2. IsFiniteSet(tree) /\ StartTree \in [tree -> [size : Sizes, mtime : 1..N]]
    BY <2>1, World
  <2>3. \A r, q \in tree : StartTree[r].mtime = StartTree[q].mtime => r = q
    BY <2>1, World
  <2>4. N \in Nat
    BY <2>2, FS_CardinalityType
  <2>5. \A r \in tree : StartTree[r] \in [size : Sizes, mtime : 1..N]
    BY <2>2
  <2> HIDE DEF N
  <2>6. \A r \in tree : StartTree[r].mtime <= N
    BY <2>4, <2>5
  <2>7. \A r \in tree : StartEntry(r).localMtime = StartTree[r].mtime
    BY DEF StartEntry, Entry
  <2>8. \A r \in DOMAIN disk : disk[r].localMtime <= clock
    BY <2>1, <2>6, <2>7 DEF Empty
  <2> QED
    BY <2>1, <2>3, <2>6, <2>8 DEF Dated, OnlyAt
<1>2. Types /\ NoRenameInRun /\ Dated /\ [Next]_vars => Dated'
  BY DatedStep
<1> QED
  BY <1>1, <1>2, TypesAlways, PTL DEF Spec

-----------------------------------------------------------------------------
(* The saved manifest, while items are in hand                              *)

\* What the saved manifest, which may be older than the one in memory, says of an item.
OnDisk(it) ==
  /\ it.op \in {"upload", "move"} => it.rel \notin DOMAIN disk
  /\ it.op \in {"overwrite", "delete"} /\ it.rel \in DOMAIN disk =>
       disk[it.rel].remoteID = it.remoteID \/ disk[it.rel].remoteID \notin DOMAIN remote
  /\ it.op = "move" => it.srcRel \in DOMAIN disk /\ disk[it.srcRel].localMtime = it.mtime

Saved == Accountable => \A it \in InHand : OnDisk(it)

\* What a history may be called to account for, it might have been before.
LEMMA AccountableBefore ==
  ASSUME Types, [Next]_vars, Accountable'
  PROVE  /\ Accountable /\ (Undisturbed' => Undisturbed)
         /\ NoMoves' = NoMoves
         /\ ~NoMoves => Undisturbed'
<1>1. {faults, crashes} \subseteq Nat
  BY DEF Types, RunTyped
<1>2. NoMoves' = NoMoves
  BY NoMovesStays
<1>3. /\ faults' = faults \/ faults' = faults + 1
      /\ crashes' = crashes \/ crashes' = crashes + 1
      /\ astray => astray'
  <2>1. CASE Edit
    BY <2>1, EditFacts
  <2>2. CASE Other
    <3>1. UNCHANGED <<faults, crashes, astray>>
      BY <2>2, OtherFacts
    <3> QED
      BY <3>1
  <2>3. CASE \E o \in Options : Begin(o)
    BY <2>3, BeginFacts
  <2>4. CASE \E it \in todo : CheckDrift(it)
    BY <2>4 DEF CheckDrift, bounds, history
  <2>5. CASE Goes \/ Ends
    BY <2>5 DEF Goes, Ends, bounds
  <2>6. CASE \E it \in waiting : Take(it)
    BY <2>6 DEF Take, bounds, history
  <2>7. ASSUME NEW it \in DOMAIN work, Call(it)
        PROVE  <1>3!1 /\ <1>3!2 /\ <1>3!3
    <3>1. Beside /\ (faults' = faults \/ faults' = faults + 1) /\ \E p : Comes(it, p)
      BY <2>7, Outcomes
    <3>2. astray => astray'
      BY <3>1 DEF Comes, Fails, Meets, Finds, Misses, Looks, LooksAgain, Makes, Replaces, Removes,
                  Relocates
    <3> QED
      BY <3>1, <3>2 DEF Beside
  <2>8. ASSUME NEW it \in DOMAIN work, Collect(it)
        PROVE  <1>3!1 /\ <1>3!2 /\ <1>3!3
    BY <2>8, CollectFacts
  <2>9. ASSUME NEW it \in DOMAIN work, CollectFailure(it)
        PROVE  <1>3!1 /\ <1>3!2 /\ <1>3!3
    BY <2>9 DEF CollectFailure, bounds
  <2>10. CASE UNCHANGED vars
    BY <2>10 DEF vars, bounds, history
  <2> QED
    BY <2>1, <2>2, <2>3, <2>4, <2>5, <2>6, <2>7, <2>8, <2>9, <2>10, NextCases
<1>4. Undisturbed' => Undisturbed
  BY <1>1, <1>3 DEF Undisturbed
<1> QED
  BY <1>2, <1>4 DEF Accountable, NoMoves

\* At the beginning of a run the saved manifest and the baseline, which may have been
\* put together anew, tell of the same files.
LEMMA BeginSaved ==
  ASSUME Types, Placed, OneFilePerPath, NEW o \in Options, Begin(o), NEW it \in InHand'
  PROVE  OnDisk(it)'
<1>1. /\ InHand' = todo' \cup waiting' /\ disk' = disk /\ remote' = remote /\ phase = "idle"
  <2>1. work' = work /\ DOMAIN work = {}
    BY BeginFacts DEF Types, Phases
  <2> QED
    BY <2>1, BeginFacts DEF InHand
<1>2. Sound(it, Base(o)) /\ it \in Item
  BY <1>1, BeginFacts
<1>3. AtHome(disk)
  BY <1>1 DEF Placed, EntriesPlaced
<1>4. DOMAIN Base(o) = DOMAIN disk \cup Seeded(o) /\ Seeded(o) \subseteq DOMAIN local \cap DOMAIN Index
  BY BaseFacts
<1>5. it.op \in {"upload", "move"} => it.rel \notin DOMAIN disk
  BY <1>2, <1>4 DEF Sound
<1>6. ASSUME it.op \in {"overwrite", "delete"}, it.rel \in DOMAIN disk
      PROVE  disk[it.rel].remoteID = it.remoteID \/ disk[it.rel].remoteID \notin DOMAIN remote
  <2>1. it.remoteID = Base(o)[it.rel].remoteID /\ it.rel \in DOMAIN Base(o)
    BY <1>2, <1>6 DEF Sound
  <2>2. CASE it.rel \notin Seeded(o)
    BY <2>1, <2>2, BaseFacts
  <2>3. CASE it.rel \in Seeded(o)
    <3>1. Base(o)[it.rel] = [size |-> Index[it.rel].size, localMtime |-> local[it.rel].mtime,
                           remoteID |-> Index[it.rel].id, remoteMtime |-> Index[it.rel].mtime]
      BY <2>3, BaseFacts
    <3>2. it.remoteID = Index[it.rel].id
      BY <2>1, <3>1
    <3>3. Index[it.rel].id \in DOMAIN remote /\ remote[Index[it.rel].id].path = it.rel
      BY <1>4, <2>3, IndexFacts
    <3> QED
      BY <1>3, <1>6, <3>2, <3>3 DEF AtHome, Lies, OneFilePerPath
  <2> QED
    BY <2>2, <2>3
<1>7. ASSUME it.op = "move"
      PROVE  it.srcRel \in DOMAIN disk /\ disk[it.srcRel].localMtime = it.mtime
  <2>1. it.srcRel \in DOMAIN Base(o) /\ it.srcRel \notin DOMAIN local
        /\ it.mtime = Base(o)[it.srcRel].localMtime
    BY <1>2, <1>7 DEF Sound
  <2>2. it.srcRel \notin Seeded(o)
    BY <1>4, <2>1
  <2> QED
    BY <1>4, <2>1, <2>2, BaseFacts
<1> QED
  BY <1>1, <1>5, <1>6, <1>7 DEF OnDisk

\* An item is about what the saved manifest has of its path, or about what has replaced
\* it there.
LEMMA SavedStep ==
  ASSUME Types, Known, Planning, AccountablyPlaced, OneFilePerPath, Saved, [Next]_vars
  PROVE  Saved'
<1> SUFFICES ASSUME Accountable', NEW it \in InHand'
             PROVE  OnDisk(it)'
  BY DEF Saved
<1>1. Accountable /\ Placed /\ \A other \in InHand : OnDisk(other)
  BY AccountableBefore DEF AccountablyPlaced, Saved
<1>2. RemoteAges /\ Planning'
  BY Aging, PlanningStep
<1>3. CASE \E o \in Options : Begin(o)
  BY <1>1, <1>3, BeginSaved
<1>4. CASE disk' = disk /\ it \in InHand
  <2>1. \A r \in DOMAIN disk : disk[r].remoteID < nextId
    BY DEF Known
  <2>2. \A r \in DOMAIN disk : disk[r].remoteID \in DOMAIN remote' => disk[r].remoteID \in DOMAIN remote
    BY <1>2, <2>1 DEF RemoteAges
  <2>3. OnDisk(it)
    BY <1>1, <1>4
  <2> QED
    BY <1>4, <2>2, <2>3 DEF OnDisk
<1>5. CASE disk' = m'
  <2>1. Tied(it, m') /\ it \in Item
    <3>1. Types'
      BY TypesStep
    <3> QED
      BY <1>2, <3>1 DEF Planning, InHand, Types, RunTyped
  <2> QED
    BY <1>5, <2>1 DEF Tied, OnDisk
<1>6. CASE Ends
  BY <1>6 DEF Ends, Abandon, InHand, Empty
<1> QED
  BY <1>3, <1>4, <1>5, <1>6, Hands, Manifests

\* What the saved manifest says of items.
LEMMA SavedAlways == Spec => []Saved
<1>1. Init => Saved
  BY DEF Init, Saved, InHand, Empty
<1>2. Types /\ Known /\ Planning /\ AccountablyPlaced /\ OneFilePerPath /\ Saved /\ [Next]_vars
        => Saved'
  BY SavedStep
<1> QED
  BY <1>1, <1>2, TypesAlways, KnownAlways, PlanningAlways, PlacedAlways, OneFileAlways, PTL DEF Spec

-----------------------------------------------------------------------------
(* Contents of remote files                                                 *)

\* A file that is written gets a later mtime: with the same one it has the same content.
Contents ==
  \A i \in DOMAIN remote' :
    i < nextId =>
      /\ i \in DOMAIN remote
      /\ \/ remote'[i].mtime > remote[i].mtime
         \/ remote'[i].mtime = remote[i].mtime /\ remote'[i].data = remote[i].data

\* So it is for calls,
LEMMA CallContents ==
  ASSUME Types, NEW it \in DOMAIN work, NEW p, Comes(it, p)
  PROVE  Contents
<1> DEFINE w == work[it]
<1>1. /\ remote \in [DOMAIN remote -> RemoteFile] /\ DOMAIN remote \subseteq 1..(nextId - 1)
      /\ nextId \in Nat
  BY DEF Types, TreesTyped
<1>2. \A i \in DOMAIN remote : remote[i].mtime \in Nat
  BY <1>1 DEF RemoteFile
<1>3. CASE remote' = remote
  BY <1>3 DEF Contents
<1>4. CASE Makes(it, p)
  <2> DEFINE new == FromLocal(it, it.rel, 1)
  <2>1. remote' = Set(remote, nextId, new)
    BY <1>4 DEF Makes
  <2> HIDE DEF new
  <2>2. \A i \in DOMAIN remote' : i < nextId => i \in DOMAIN remote /\ remote'[i] = remote[i]
    BY <2>1, <1>1 DEF Set
  <2> QED
    BY <2>2 DEF Contents
<1>5. CASE Replaces(it, p)
  <2> DEFINE new == [path |-> remote[w.id].path, size |-> it.size,
                     mtime |-> remote[w.id].mtime + 1, data |-> local[it.rel].mtime]
  <2>1. w.id \in DOMAIN remote /\ remote' = [remote EXCEPT ![w.id] = new]
    BY <1>5 DEF Replaces
  <2>2. new.mtime = remote[w.id].mtime + 1
    OBVIOUS
  <2> HIDE DEF new
  <2>3. /\ DOMAIN remote' = DOMAIN remote /\ remote'[w.id].mtime = remote[w.id].mtime + 1
        /\ \A i \in DOMAIN remote \ {w.id} : remote'[i] = remote[i]
    BY <2>1, <2>2, <1>1
  <2> QED
    BY <2>3, <1>2 DEF Contents
<1>6. CASE Removes(it, p)
  <2>1. remote' = Delete(remote, w.id)
    BY <1>6 DEF Removes
  <2>2. DOMAIN remote' \subseteq DOMAIN remote /\ \A i \in DOMAIN remote' : remote'[i] = remote[i]
    BY <2>1 DEF Delete
  <2> QED
    BY <2>2 DEF Contents
<1>7. CASE Relocates(it, p)
  <2>1. \E path : remote' = [remote EXCEPT ![w.id].path = path]
    BY <1>7 DEF Relocates
  <2>2. DOMAIN remote' = DOMAIN remote
        /\ \A i \in DOMAIN remote' : /\ remote'[i].mtime = remote[i].mtime
                                     /\ remote'[i].data = remote[i].data
    BY <2>1, <1>1 DEF RemoteFile
  <2> QED
    BY <2>2 DEF Contents
<1> QED
  BY <1>3, <1>4, <1>5, <1>6, <1>7
     DEF Comes, Fails, Meets, Finds, Misses, Looks, LooksAgain, SameRemote

\* and for every step.
LEMMA ContentsStep ==
  ASSUME Types, [Next]_vars
  PROVE  Contents
<1>1. /\ remote \in [DOMAIN remote -> RemoteFile] /\ DOMAIN remote \subseteq 1..(nextId - 1)
      /\ nextId \in Nat
  BY DEF Types, TreesTyped
<1>2. \A i \in DOMAIN remote : remote[i].mtime \in Nat
  BY <1>1 DEF RemoteFile
<1>3. ASSUME remote' = remote
      PROVE  Contents
  BY <1>3 DEF Contents
<1>4. CASE Edit
  BY <1>3, <1>4, EditFacts
<1>5. CASE Other
  <2>1. PICK i :
          \/ \E new \in RemoteFile : remote' = Set(remote, nextId, new)
          \/ /\ i \in DOMAIN remote
             /\ \E s \in Nat : remote' = [remote EXCEPT ![i].size = s, ![i].mtime = @ + 1,
                                                        ![i].data = 0]
          \/ remote' = Delete(remote, i)
    BY <1>5, OtherFacts
  <2>2. CASE \E new \in RemoteFile : remote' = Set(remote, nextId, new)
    <3>1. \A j \in DOMAIN remote' : j < nextId => j \in DOMAIN remote /\ remote'[j] = remote[j]
      BY <2>2, <1>1 DEF Set
    <3> QED
      BY <3>1 DEF Contents
  <2>3. CASE i \in DOMAIN remote
             /\ \E s \in Nat : remote' = [remote EXCEPT ![i].size = s, ![i].mtime = @ + 1,
                                                        ![i].data = 0]
    <3>0. PICK s \in Nat : remote' = [remote EXCEPT ![i].size = s, ![i].mtime = @ + 1,
                                                   ![i].data = 0]
      BY <2>3
    <3>1. /\ DOMAIN remote' = DOMAIN remote
          /\ \A j \in DOMAIN remote \ {i} : remote'[j] = remote[j]
      BY <3>0, <1>1
    <3>2. i \in DOMAIN remote /\ remote[i] \in RemoteFile
      BY <2>3, <1>1
    <3>3. remote'[i].mtime = remote[i].mtime + 1
      BY <3>0, <3>2, <1>1 DEF RemoteFile
    <3> QED
      BY <3>1, <3>3, <1>2 DEF Contents
  <2>4. CASE remote' = Delete(remote, i)
    <3>1. DOMAIN remote' \subseteq DOMAIN remote /\ \A j \in DOMAIN remote' : remote'[j] = remote[j]
      BY <2>4 DEF Delete
    <3> QED
      BY <3>1 DEF Contents
  <2> QED
    BY <2>1, <2>2, <2>3, <2>4
<1>6. CASE \E o \in Options : Begin(o)
  BY <1>3, <1>6, BeginFacts
<1>7. CASE \E it \in todo : CheckDrift(it)
  BY <1>3, <1>7 DEF CheckDrift
<1>8. CASE Goes \/ Ends
  BY <1>3, <1>8 DEF Goes, Ends
<1>9. CASE \E it \in waiting : Take(it)
  BY <1>3, <1>9 DEF Take
<1>10. ASSUME NEW it \in DOMAIN work, Call(it)
       PROVE  Contents
  BY <1>10, Outcomes, CallContents
<1>11. ASSUME NEW it \in DOMAIN work, Collect(it)
       PROVE  Contents
  BY <1>3, <1>11, CollectFacts
<1>12. ASSUME NEW it \in DOMAIN work, CollectFailure(it)
       PROVE  Contents
  BY <1>3, <1>12 DEF CollectFailure
<1>13. CASE UNCHANGED vars
  BY <1>3, <1>13 DEF vars
<1> QED
  BY <1>4, <1>5, <1>6, <1>7, <1>8, <1>9, <1>10, <1>11, <1>12, <1>13, NextCases

-----------------------------------------------------------------------------
(* What entries are worth                                                   *)

\* If file i has this mtime, it has been made from this local version, or the version is
\* one no local file will agree with.
Worth(i, t, v) ==
  \/ i \in DOMAIN remote /\ remote[i].mtime = t => remote[i].data = v
  \/ Gone(v)

\* the same after the step
WorthNext(i, t, v) ==
  \/ i \in DOMAIN remote' /\ remote'[i].mtime = t => remote'[i].data = v
  \/ \A q \in DOMAIN local' : local'[q].mtime # v

\* The file, if there is one, has been written since it had this mtime.
Outdated(i, t) == i \in DOMAIN remote => t < remote[i].mtime

\* the same after the step
OutdatedNext(i, t) == i \in DOMAIN remote' => t < remote'[i].mtime

\* What is worth something keeps it,
LEMMA WorthKept ==
  ASSUME Types, Types', [Next]_vars, NEW i \in Nat, NEW t \in Nat, NEW v \in Nat, i < nextId,
         v <= clock, Past(i, t), Worth(i, t, v)
  PROVE  WorthNext(i, t, v)
<1>1. CASE Gone(v)
  <2>1. Gone(v)'
    BY <1>1, GoneKept
  <2> QED
    BY <2>1 DEF Gone, WorthNext
<1>2. CASE i \in DOMAIN remote /\ remote[i].mtime = t => remote[i].data = v
  <2> SUFFICES ASSUME i \in DOMAIN remote', remote'[i].mtime = t
               PROVE  remote'[i].data = v
    BY DEF WorthNext
  <2>1. /\ i \in DOMAIN remote
        /\ \/ remote'[i].mtime > remote[i].mtime
           \/ remote'[i].mtime = remote[i].mtime /\ remote'[i].data = remote[i].data
    BY ContentsStep DEF Contents
  <2>2. remote[i].mtime \in Nat
    BY <2>1 DEF Types, TreesTyped, RemoteFile
  <2>3. t <= remote[i].mtime
    BY <2>1 DEF Past
  <2> QED
    BY <1>2, <2>1, <2>2, <2>3
<1> QED
  BY <1>1, <1>2 DEF Worth

\* and what is outdated stays so.
LEMMA OutdatedKept ==
  ASSUME Types, Types', Known, [Next]_vars, NEW i \in Nat, NEW t \in Nat, i < nextId, Outdated(i, t)
  PROVE  OutdatedNext(i, t)
<1> SUFFICES ASSUME i \in DOMAIN remote'
             PROVE  t < remote'[i].mtime
  BY DEF OutdatedNext
<1>1. i \in DOMAIN remote /\ remote'[i].mtime >= remote[i].mtime
  BY Aging DEF RemoteAges
<1>2. remote[i].mtime \in Nat /\ remote'[i].mtime \in Nat
  BY <1>1 DEF Types, TreesTyped, RemoteFile
<1>3. t < remote[i].mtime
  BY <1>1 DEF Outdated
<1> QED
  BY <1>1, <1>2, <1>3

\* Entries change, and the rels taken from an index, at the beginning of a run, with a
\* result and at the end.
LEMMA Routine ==
  ASSUME Types, [Next]_vars
  PROVE  \/ UNCHANGED <<m, disk, adopted>> /\ (phase = "run" => phase' = "run")
         \/ Ends
         \/ \E o \in Options : Begin(o)
         \/ \E it \in DOMAIN work : Collect(it)
<1>1. CASE Edit
  <2>1. UNCHANGED <<m, disk, adopted, phase>>
    BY <1>1, EditFacts DEF run
  <2> QED
    BY <2>1
<1>2. CASE Other
  <2>1. UNCHANGED <<m, disk, adopted, phase>>
    BY <1>2, OtherFacts DEF run
  <2> QED
    BY <2>1
<1>3. CASE \E it \in todo : CheckDrift(it)
  BY <1>3 DEF CheckDrift, history
<1>4. CASE Goes
  BY <1>4 DEF Goes
<1>5. CASE \E it \in waiting : Take(it)
  BY <1>5 DEF Take, history
<1>6. ASSUME NEW it \in DOMAIN work, Call(it)
      PROVE  UNCHANGED <<m, disk, adopted, phase>>
  BY <1>6, Outcomes DEF Beside
<1>7. ASSUME NEW it \in DOMAIN work, CollectFailure(it)
      PROVE  UNCHANGED <<m, disk, adopted, phase>>
  BY <1>7 DEF CollectFailure
<1>8. CASE UNCHANGED vars
  BY <1>8 DEF vars, run, history
<1> QED
  BY <1>1, <1>2, <1>3, <1>4, <1>5, <1>6, <1>7, <1>8, NextCases

-----------------------------------------------------------------------------
(* Entries and files, while nobody interferes                               *)

\* If the file is there, it has this mtime.
Exact(i, t) == i \in DOMAIN remote => remote[i].mtime = t

\* the same after the step
ExactNext(i, t) == i \in DOMAIN remote' => remote'[i].mtime = t

\* the entry's file has been overwritten, and the result is not recorded yet
Pending(r) == \E it \in DOMAIN work : it.op = "overwrite" /\ it.rel = r /\ work[it].at = "done"

\* the same after the step
PendingNext(r) ==
  \E it \in DOMAIN work' : it.op = "overwrite" /\ it.rel = r /\ work'[it].at = "done"

ExactEntries == \A r \in DOMAIN m : Exact(m[r].remoteID, m[r].remoteMtime) \/ Pending(r)

ExactBetween ==
  phase # "run" => \A r \in DOMAIN disk : Exact(disk[r].remoteID, disk[r].remoteMtime)

ExactResults ==
  \A it \in DOMAIN work :
    work[it].at = "done" /\ it.op # "delete" => Exact(work[it].id, work[it].mtime)

Quiet == Undisturbed /\ MaxForeign = 0

\* With no other client about and no failing call, entries have the mtimes of their files.
Exactly == Quiet => ExactEntries /\ ExactBetween /\ ExactResults

\* the file, if it was there before, has the mtime it had
SameTime(i) ==
  i \in DOMAIN remote' /\ i < nextId => i \in DOMAIN remote /\ remote'[i].mtime = remote[i].mtime

\* What keeps its mtime stays exact.
LEMMA ExactKept ==
  ASSUME NEW i, NEW t, i < nextId, SameTime(i), Exact(i, t)
  PROVE  ExactNext(i, t)
  BY DEF SameTime, Exact, ExactNext

\* Of a run's calls only the writes of a file that is there change mtimes.
LEMMA CallTimes ==
  ASSUME Types, NEW it \in DOMAIN work, NEW p, Comes(it, p), NEW i, ~SameTime(i)
  PROVE  Replaces(it, p) /\ i = work[it].id
<1> DEFINE w == work[it]
<1>1. /\ remote \in [DOMAIN remote -> RemoteFile] /\ DOMAIN remote \subseteq 1..(nextId - 1)
      /\ nextId \in Nat
  BY DEF Types, TreesTyped
<1>2. remote' # remote
  BY DEF SameTime
<1>3. ~Makes(it, p)
  <2> SUFFICES ASSUME Makes(it, p) PROVE SameTime(i)
    OBVIOUS
  <2> DEFINE new == FromLocal(it, it.rel, 1)
  <2>1. remote' = Set(remote, nextId, new)
    BY DEF Makes
  <2> HIDE DEF new
  <2> QED
    BY <2>1, <1>1 DEF Set, SameTime
<1>4. ~Removes(it, p)
  BY DEF Removes, Delete, SameTime
<1>5. ~Relocates(it, p)
  <2> SUFFICES ASSUME Relocates(it, p) PROVE SameTime(i)
    OBVIOUS
  <2>1. \E path : remote' = [remote EXCEPT ![w.id].path = path]
    BY DEF Relocates
  <2> QED
    BY <2>1, <1>1 DEF RemoteFile, SameTime
<1>6. Replaces(it, p)
  BY <1>2, <1>3, <1>4, <1>5 DEF Comes, Fails, Meets, Finds, Misses, Looks, LooksAgain, SameRemote
<1>7. i = w.id
  <2> DEFINE new == [path |-> remote[w.id].path, size |-> it.size,
                     mtime |-> remote[w.id].mtime + 1, data |-> local[it.rel].mtime]
  <2>1. remote' = [remote EXCEPT ![w.id] = new]
    BY <1>6 DEF Replaces
  <2> HIDE DEF new
  <2> QED
    BY <2>1, <1>1 DEF SameTime
<1> QED
  BY <1>6, <1>7

\* A write that fails is a fault.
LEMMA ReplaceFault ==
  ASSUME Types, NEW it \in DOMAIN work, Call(it), NEW p, With(it, p), Replaces(it, p)
  PROVE  p.at = "done" \/ faults' = faults + 1
<1> DEFINE w == work[it]
<1>1. w \in Progress /\ work' = [work EXCEPT ![it] = p] /\ work'[it] = p
  BY WithFacts DEF Types, RunTyped, With
<1>2. InCall(it, "replace") /\ Readable(it) /\ w.id \in DOMAIN remote
  BY DEF Replaces, InCall
<1>3. Replace(it)
  BY <1>2 DEF Call, Create, Find, Replace, Remove, MoveStat, MoveCall, RenameCall, MoveRestat,
              InCall
<1>4. Faulty \/ Done(it, w.id, remote[w.id].mtime + 1)
  BY <1>2, <1>3 DEF Replace
<1>5. CASE Faulty
  BY <1>5 DEF Faulty
<1>6. CASE Done(it, w.id, remote[w.id].mtime + 1)
  <2>1. work'[it].at = "done"
    BY <1>1, <1>6 DEF Done, Progress, Types, RunTyped
  <2> QED
    BY <2>1, <1>1
<1> QED
  BY <1>4, <1>5, <1>6

\* A result is the mtime its file has.
LEMMA DoneExact ==
  ASSUME Types, NEW it \in DOMAIN work, NEW p, Comes(it, p), p.at = "done", it.op # "delete",
         work[it].at # "done"
  PROVE  /\ p.id \in DOMAIN remote' /\ remote'[p.id].mtime = p.mtime
         /\ it.op = "overwrite" => p.id = it.remoteID
<1> DEFINE w == work[it]
<1>1. /\ remote \in [DOMAIN remote -> RemoteFile] /\ DOMAIN remote \subseteq 1..(nextId - 1)
      /\ nextId \in Nat /\ w \in Progress /\ it \in Item /\ Fits(it, w)
  BY DEF Types, TreesTyped, RunTyped, Phases
<1>2. \A i \in DOMAIN remote : remote[i].mtime \in Nat
  BY <1>1 DEF RemoteFile
<1>3. Fits(it, p)
  BY Steps
<1>4. it.op = "overwrite" => p.id = it.remoteID
  BY <1>3 DEF Fits
<1>5. CASE Fails(it, p) \/ Meets(it, p) \/ Misses(it, p) \/ Removes(it, p)
  <2>1. CASE Fails(it, p)
    BY <2>1, <1>1 DEF Fails, Progress
  <2>2. CASE Meets(it, p)
    BY <2>2, <1>1 DEF Meets, Progress
  <2>3. CASE Misses(it, p) \/ Removes(it, p)
    BY <2>3, <1>1 DEF Misses, Removes, Fits, Item
  <2> QED
    BY <1>5, <2>1, <2>2, <2>3
<1>6. CASE Finds(it, p)
  <2>1. PICK i \in DOMAIN remote : p = [w EXCEPT !.at = "replace", !.id = i]
    BY <1>6 DEF Finds
  <2> QED
    BY <2>1, <1>1 DEF Progress
<1>7. CASE Looks(it, p) \/ LooksAgain(it, p)
  <2>1. p.id \in DOMAIN remote /\ p.mtime = remote[p.id].mtime
    <3>1. CASE Looks(it, p)
      BY <3>1 DEF Looks
    <3>2. CASE LooksAgain(it, p)
      BY <3>2, <1>1 DEF LooksAgain, Progress
    <3> QED
      BY <1>7, <3>1, <3>2
  <2>2. remote' = remote
    BY <1>7 DEF Looks, LooksAgain, SameRemote
  <2> QED
    BY <2>1, <2>2, <1>4
<1>8. CASE Makes(it, p)
  <2> DEFINE new == FromLocal(it, it.rel, 1)
  <2>1. remote' = Set(remote, nextId, new)
    BY <1>8 DEF Makes
  <2>2. p.id = nextId /\ p.mtime = 1
    BY <1>8, <1>1 DEF Makes, Progress
  <2>3. new.mtime = 1
    BY DEF FromLocal
  <2> HIDE DEF new
  <2>4. nextId \in DOMAIN remote' /\ remote'[nextId].mtime = 1
    BY <2>1, <2>3 DEF Set
  <2> QED
    BY <2>2, <2>4, <1>4
<1>9. CASE Replaces(it, p)
  <2> DEFINE new == [path |-> remote[w.id].path, size |-> it.size,
                     mtime |-> remote[w.id].mtime + 1, data |-> local[it.rel].mtime]
  <2>1. w.id \in DOMAIN remote /\ remote' = [remote EXCEPT ![w.id] = new]
    BY <1>9 DEF Replaces
  <2>2. new.mtime = remote[w.id].mtime + 1
    OBVIOUS
  <2>3. p.id = w.id /\ p.mtime = remote[w.id].mtime + 1
    BY <1>9, <1>1 DEF Replaces, Progress
  <2> HIDE DEF new
  <2>4. w.id \in DOMAIN remote' /\ remote'[w.id].mtime = remote[w.id].mtime + 1
    BY <2>1, <2>2, <1>1
  <2> QED
    BY <2>3, <2>4, <1>4
<1>10. CASE Relocates(it, p)
  <2>1. /\ w.id \in DOMAIN remote
        /\ \E path : remote' = [remote EXCEPT ![w.id].path = path]
    BY <1>10 DEF Relocates
  <2>2. p.id = w.id /\ p.mtime = remote[w.id].mtime
    <3>1. \/ p = [w EXCEPT !.at = "failed"]
          \/ w.at = "move" /\ \E a \in {"rename", "restat"} : p = [w EXCEPT !.at = a]
          \/ p = [w EXCEPT !.at = "done", !.mtime = remote[w.id].mtime]
      BY <1>10 DEF Relocates
    <3> QED
      BY <3>1, <1>1 DEF Progress
  <2>3. w.id \in DOMAIN remote' /\ remote'[w.id].mtime = remote[w.id].mtime
    BY <2>1, <1>1 DEF RemoteFile
  <2> QED
    BY <2>2, <2>3, <1>4
<1> QED
  BY <1>5, <1>6, <1>7, <1>8, <1>9, <1>10 DEF Comes

\* Nobody else writes the file of another item's result.
LEMMA OthersFile ==
  ASSUME Types, Planning, Placed, NEW it \in DOMAIN work, work[it].at = "replace",
         NEW other \in DOMAIN work, work[other].at = "done", other.op # "delete"
  PROVE  work[other].id # work[it].id
<1>1. Fits(it, work[it]) /\ Fits(other, work[other]) /\ it \in Item /\ other \in Item
  BY DEF Types, RunTyped, Phases
<1>2. it.op \in {"upload", "overwrite"}
  BY <1>1 DEF Fits, Item
<1>3. Tied(it, m) /\ Tied(other, m) /\ (Around(it) \cap Around(other) # {} => it = other)
  BY DEF Planning, OneEach, InHand
<1>4. it # other
  OBVIOUS
<1>5. CASE it.op = "upload" /\ other.op = "upload"
  BY <1>4, <1>5 DEF Placed, ClaimsPlaced, Claims
<1>6. CASE it.op = "upload" /\ other.op # "upload"
  <2>1. work[other].id = other.remoteID /\ other.srcRel \in DOMAIN m
        /\ m[other.srcRel].remoteID = other.remoteID
    BY <1>1, <1>3, <1>6 DEF Fits, Tied, Item
  <2>2. \A r \in DOMAIN m : m[r].remoteID # work[it].id
    BY <1>6 DEF Placed, ClaimsPlaced, Claims
  <2> QED
    BY <2>1, <2>2
<1>7. CASE it.op = "overwrite" /\ other.op = "upload"
  <2>1. work[it].id = it.remoteID /\ it.srcRel \in DOMAIN m /\ m[it.srcRel].remoteID = it.remoteID
    BY <1>1, <1>3, <1>7 DEF Fits, Tied
  <2>2. \A r \in DOMAIN m : m[r].remoteID # work[other].id
    BY <1>7 DEF Placed, ClaimsPlaced, Claims
  <2> QED
    BY <2>1, <2>2
<1>8. CASE it.op = "overwrite" /\ other.op # "upload"
  <2>1. /\ work[it].id = it.remoteID /\ it.srcRel \in DOMAIN m
        /\ m[it.srcRel].remoteID = it.remoteID
        /\ work[other].id = other.remoteID /\ other.srcRel \in DOMAIN m
        /\ m[other.srcRel].remoteID = other.remoteID
    BY <1>1, <1>3, <1>8 DEF Fits, Tied, Item
  <2>2. it.srcRel # other.srcRel
    BY <1>3, <1>4 DEF Around
  <2> QED
    BY <2>1, <2>2 DEF Placed, OwnEntries, OwnFiles
<1> QED
  BY <1>2, <1>5, <1>6, <1>7, <1>8

\* Nor is it the file of an entry, but for the entry that is overwritten.
LEMMA EntrysFile ==
  ASSUME Types, Planning, Placed, NEW it \in DOMAIN work, work[it].at = "replace",
         NEW r \in DOMAIN m, m[r].remoteID = work[it].id
  PROVE  it.op = "overwrite" /\ r = it.rel
<1>1. Fits(it, work[it]) /\ it \in Item /\ Tied(it, m)
  BY DEF Types, RunTyped, Phases, Planning, InHand
<1>2. it.op \in {"upload", "overwrite"}
  BY <1>1 DEF Fits, Item
<1>3. it.op # "upload"
  BY DEF Placed, ClaimsPlaced, Claims
<1>4. it.op = "overwrite"
  BY <1>2, <1>3
<1>5. /\ work[it].id = it.remoteID /\ it.srcRel = it.rel /\ it.srcRel \in DOMAIN m
      /\ m[it.srcRel].remoteID = it.remoteID
  BY <1>1, <1>4 DEF Fits, Tied
<1>6. r = it.rel
  BY <1>5 DEF Placed, OwnEntries, OwnFiles
<1> QED
  BY <1>4, <1>6

\* A call that is no fault leaves entries and results exact, or their items pending.
LEMMA ExactCall ==
  ASSUME Types, Known, Planning, Placed, ExactEntries, ExactResults, NEW it \in DOMAIN work,
         Call(it), faults' = faults
  PROVE  ExactEntries' /\ ExactResults'
<1>1. PICK p : With(it, p) /\ Comes(it, p)
  BY Outcomes
<1>2. /\ DOMAIN work' = DOMAIN work /\ work'[it] = p
      /\ \A other \in DOMAIN work \ {it} : work'[other] = work[other]
  BY <1>1, WithFacts
<1>3. m' = m /\ work[it].at # "done" /\ faults \in Nat
  BY Outcomes, NotDone DEF Beside, Types, RunTyped
<1>4. \A i : ~SameTime(i) => p.at = "done" /\ work[it].at = "replace" /\ i = work[it].id
  <2>1. \A i : ~SameTime(i) => Replaces(it, p) /\ i = work[it].id
    BY <1>1, CallTimes
  <2>2. Replaces(it, p) => p.at = "done" \/ faults' = faults + 1
    BY <1>1, ReplaceFault
  <2>3. Replaces(it, p) => work[it].at = "replace"
    BY DEF Replaces
  <2> QED
    BY <1>3, <2>1, <2>2, <2>3
<1>5. ASSUME NEW r \in DOMAIN m
      PROVE  ExactNext(m[r].remoteID, m[r].remoteMtime) \/ PendingNext(r)
  <2>1. CASE Pending(r)
    BY <1>2, <1>3, <2>1 DEF Pending, PendingNext
  <2>2. CASE Exact(m[r].remoteID, m[r].remoteMtime) /\ SameTime(m[r].remoteID)
    BY <2>2, ExactKept DEF Known
  <2>3. CASE ~SameTime(m[r].remoteID)
    <3>1. p.at = "done" /\ it.op = "overwrite" /\ r = it.rel
      BY <1>4, <2>3, EntrysFile
    <3> QED
      BY <1>2, <3>1 DEF PendingNext
  <2> QED
    BY <2>1, <2>2, <2>3 DEF ExactEntries
<1>6. ASSUME NEW other \in DOMAIN work', work'[other].at = "done", other.op # "delete"
      PROVE  ExactNext(work'[other].id, work'[other].mtime)
  <2>1. CASE other = it
    <3>1. p.id \in DOMAIN remote' /\ remote'[p.id].mtime = p.mtime
      BY <1>1, <1>2, <1>3, <1>6, <2>1, DoneExact
    <3> QED
      BY <1>2, <2>1, <3>1 DEF ExactNext
  <2>2. CASE other # it
    <3>1. other \in DOMAIN work /\ work'[other] = work[other]
      BY <1>2, <2>2
    <3>2. SameTime(work[other].id)
      BY <1>4, <1>6, <3>1, OthersFile
    <3>3. Exact(work[other].id, work[other].mtime) /\ work[other].id < nextId
      BY <1>6, <3>1 DEF ExactResults, Known
    <3> QED
      BY <3>1, <3>2, <3>3, ExactKept
  <2> QED
    BY <2>1, <2>2
<1>7. ExactEntries' = (\A r \in DOMAIN m' : ExactNext(m'[r].remoteID, m'[r].remoteMtime)
                                              \/ PendingNext(r))
  BY DEF ExactEntries, Exact, ExactNext, Pending, PendingNext
<1>8. ExactResults' = (\A other \in DOMAIN work' :
                         work'[other].at = "done" /\ other.op # "delete" =>
                           ExactNext(work'[other].id, work'[other].mtime))
  BY DEF ExactResults, Exact, ExactNext
<1> QED
  BY <1>3, <1>5, <1>6, <1>7, <1>8

\* So does every step, while nothing fails.
LEMMA ExactlyStep ==
  ASSUME Types, Known, Planning, AccountablyPlaced, Exactly, [Next]_vars
  PROVE  Exactly'
<1> SUFFICES ASSUME Quiet'
             PROVE  ExactEntries' /\ ExactBetween' /\ ExactResults'
  BY DEF Exactly
<1>1. /\ Undisturbed /\ faults' = faults /\ crashes' = crashes /\ {faults, crashes} \subseteq Nat
      /\ MaxForeign = 0
  BY DisturbedStays, SameWorld DEF Quiet, MaxForeign, Types, RunTyped
<1>2. ExactEntries /\ ExactBetween /\ ExactResults /\ Placed
  BY <1>1 DEF Exactly, Quiet, AccountablyPlaced, Accountable
<1>3. ~Other
  <2>1. Other => foreign < MaxForeign
    BY OtherFacts
  <2>2. foreign \in Nat
    BY DEF Types, RunTyped
  <2> QED
    BY <1>1, <2>1, <2>2
<1>4. ASSUME UNCHANGED <<remote, m, disk, work>>, phase' # "run" => phase # "run"
      PROVE  ExactEntries' /\ ExactBetween' /\ ExactResults'
  BY <1>2, <1>4 DEF ExactEntries, ExactBetween, ExactResults, Exact, Pending
<1>5. CASE Edit
  <2>1. UNCHANGED <<remote, m, disk, work, phase>>
    BY <1>5, EditFacts DEF run
  <2> QED
    BY <1>4, <2>1
<1>6. CASE \E it \in todo : CheckDrift(it)
  BY <1>4, <1>6 DEF CheckDrift
<1>7. CASE Goes
  BY <1>4, <1>7 DEF Goes
<1>8. CASE UNCHANGED vars
  BY <1>4, <1>8 DEF vars, run
<1>9. ASSUME NEW it \in waiting, Take(it)
      PROVE  ExactEntries' /\ ExactBetween' /\ ExactResults'
  <2>0. /\ DOMAIN work' = DOMAIN work \cup {it}
        /\ work'[it] = [at |-> FirstCall[it.op], id |-> it.remoteID, mtime |-> 0, path |-> it.rel]
        /\ \A other \in DOMAIN work : work'[other] = work[other]
        /\ UNCHANGED <<remote, m, disk, phase>>
    BY <1>9, TakeFacts
  <2>1. /\ DOMAIN work' = DOMAIN work \cup {it} /\ work'[it].at = FirstCall[it.op]
        /\ \A other \in DOMAIN work : work'[other] = work[other]
        /\ UNCHANGED <<remote, m, disk, phase>>
    BY <2>0
  <2>2. it \in Item
    BY DEF Types, RunTyped
  <2>3. FirstCall[it.op] # "done"
    BY <2>2 DEF FirstCall, Item
  <2>4. ExactEntries'
    BY <1>2, <2>1 DEF ExactEntries, Exact, Pending
  <2>5. ExactBetween'
    BY <1>2, <2>1 DEF ExactBetween, Exact
  <2>6. ExactResults'
    BY <1>2, <2>1, <2>3 DEF ExactResults, Exact
  <2> QED
    BY <2>4, <2>5, <2>6
<1>10. ASSUME NEW o \in Options, Begin(o)
       PROVE  ExactEntries' /\ ExactBetween' /\ ExactResults'
  <2>1. m' = Base(o) /\ UNCHANGED <<remote, disk, work>> /\ phase = "idle" /\ DOMAIN work = {}
    BY <1>10, BeginFacts DEF Types, Phases
  <2>2. ASSUME NEW r \in DOMAIN Base(o)
        PROVE  Exact(Base(o)[r].remoteID, Base(o)[r].remoteMtime)
    <3>1. CASE r \in Seeded(o)
      <4>1. /\ Base(o)[r] = [size |-> Index[r].size, localMtime |-> local[r].mtime,
                             remoteID |-> Index[r].id, remoteMtime |-> Index[r].mtime]
            /\ r \in DOMAIN Index
        BY <3>1, BaseFacts
      <4>2. /\ Base(o)[r].remoteID = Index[r].id /\ Base(o)[r].remoteMtime = Index[r].mtime
            /\ Index[r].id \in DOMAIN remote /\ Index[r].mtime = remote[Index[r].id].mtime
        BY <4>1, IndexFacts
      <4> QED
        BY <4>2 DEF Exact
    <3>2. CASE r \notin Seeded(o)
      BY <1>2, <2>1, <3>2, BaseFacts DEF ExactBetween
    <3> QED
      BY <3>1, <3>2
  <2>3. ExactEntries'
    BY <2>1, <2>2 DEF ExactEntries, Exact
  <2>4. ExactBetween' /\ ExactResults'
    BY <1>2, <2>1 DEF ExactBetween, ExactResults, Exact
  <2> QED
    BY <2>3, <2>4
<1>11. CASE Ends
  <2>1. /\ DOMAIN work' = {} /\ remote' = remote
        /\ \/ disk' = m /\ m' = m /\ DOMAIN work = {}
           \/ disk' = disk /\ m' = disk /\ phase = "drift"
    BY <1>1, <1>11 DEF Ends, Abandon, Empty
  <2>2. CASE disk' = m /\ m' = m /\ DOMAIN work = {}
    BY <1>2, <2>1, <2>2 DEF ExactEntries, ExactBetween, ExactResults, Exact, Pending
  <2>3. CASE disk' = disk /\ m' = disk /\ phase = "drift"
    BY <1>2, <2>1, <2>3 DEF ExactEntries, ExactBetween, ExactResults, Exact
  <2> QED
    BY <2>1, <2>2, <2>3
<1>12. ASSUME NEW it \in DOMAIN work, Call(it)
       PROVE  ExactEntries' /\ ExactBetween' /\ ExactResults'
  <2>1. phase' = "run"
    BY <1>12, Outcomes DEF Beside, Types, Phases, RunTyped
  <2> QED
    BY <1>1, <1>2, <1>12, <2>1, ExactCall DEF ExactBetween
<1>13. ASSUME NEW it \in DOMAIN work, Collect(it)
       PROVE  ExactEntries' /\ ExactBetween' /\ ExactResults'
  <2>1. /\ m' = Recorded(it) /\ remote' = remote /\ phase' = "run" /\ work[it].at = "done"
        /\ DOMAIN work' = DOMAIN work \ {it}
        /\ \A other \in DOMAIN work \ {it} : work'[other] = work[other]
    BY <1>13, CollectFacts, DropFacts
  <2>2. ASSUME NEW r \in DOMAIN Recorded(it)
        PROVE  Exact(Recorded(it)[r].remoteID, Recorded(it)[r].remoteMtime) \/ PendingNext(r)
    <3>1. CASE r \in DOMAIN m /\ Recorded(it)[r] = m[r] /\ (it.op = "delete" \/ r # it.rel)
      <4>1. Pending(r) => PendingNext(r)
        BY <2>1, <3>1 DEF Pending, PendingNext
      <4> QED
        BY <1>2, <3>1, <4>1 DEF ExactEntries
    <3>2. CASE it.op # "delete"
               /\ Recorded(it)[r] = [size |-> it.size, localMtime |-> it.mtime,
                                     remoteID |-> work[it].id, remoteMtime |-> work[it].mtime]
      <4>1. Recorded(it)[r].remoteID = work[it].id /\ Recorded(it)[r].remoteMtime = work[it].mtime
        BY <3>2
      <4> QED
        BY <1>2, <2>1, <3>2, <4>1 DEF ExactResults
    <3> QED
      BY <3>1, <3>2, Entries
  <2>3. ExactEntries'
    BY <2>1, <2>2 DEF ExactEntries, Exact, Pending, PendingNext
  <2>4. ExactBetween' /\ ExactResults'
    BY <1>2, <2>1 DEF ExactBetween, ExactResults, Exact
  <2> QED
    BY <2>3, <2>4
<1>14. ASSUME NEW it \in DOMAIN work, CollectFailure(it)
       PROVE  ExactEntries' /\ ExactBetween' /\ ExactResults'
  <2>1. UNCHANGED <<remote, m, disk, phase>> /\ work[it].at = "failed" /\ Drop(it)
    BY <1>14 DEF CollectFailure, InCall
  <2>2. /\ DOMAIN work' = DOMAIN work \ {it}
        /\ \A other \in DOMAIN work \ {it} : work'[other] = work[other]
    BY <2>1, DropFacts
  <2>3. ExactEntries'
    BY <1>2, <2>1, <2>2 DEF ExactEntries, Exact, Pending
  <2>4. ExactBetween' /\ ExactResults'
    BY <1>2, <2>1, <2>2 DEF ExactBetween, ExactResults, Exact
  <2> QED
    BY <2>3, <2>4
<1> QED
  BY <1>3, <1>5, <1>6, <1>7, <1>8, <1>9, <1>10, <1>11, <1>12, <1>13, <1>14, NextCases

\* So it is in every run that nobody disturbs.
LEMMA ExactlyAlways == Spec => []Exactly
<1>1. Init => Exactly
  <2> SUFFICES ASSUME Init PROVE ExactEntries /\ ExactBetween /\ ExactResults
    BY DEF Exactly
  <2>1. DOMAIN work = {} /\ m = disk
    BY DEF Init, Empty
  <2>2. ASSUME NEW r \in DOMAIN disk
        PROVE  Exact(disk[r].remoteID, disk[r].remoteMtime)
    <3> DEFINE tree == DOMAIN StartTree
               R(i) == CHOOSE q \in tree : StartTree[q].mtime = i
    <3>1. /\ disk = (IF Synced THEN [q \in tree |-> StartEntry(q)] ELSE Empty)
          /\ Synced => remote = [i \in {StartTree[q].mtime : q \in tree} |->
                                   [path |-> R(i), size |-> StartTree[R(i)].size, mtime |-> 1,
                                    data |-> i]]
      BY DEF Init
    <3>2. Synced /\ r \in tree /\ disk[r] = StartEntry(r)
      BY <3>1 DEF Empty
    <3>3. \A i \in DOMAIN remote : remote[i].mtime = 1
      BY <3>1, <3>2
    <3>4. disk[r].remoteMtime = 1
      BY <3>2 DEF StartEntry, Entry
    <3> QED
      BY <3>3, <3>4 DEF Exact
  <2> QED
    BY <2>1, <2>2 DEF ExactEntries, ExactBetween, ExactResults
<1>2. Types /\ Known /\ Planning /\ AccountablyPlaced /\ Exactly /\ [Next]_vars => Exactly'
  BY ExactlyStep
<1> QED
  BY <1>1, <1>2, TypesAlways, KnownAlways, PlanningAlways, PlacedAlways, PTL DEF Spec

-----------------------------------------------------------------------------
(* Entries that have been made, and those that were adopted                 *)

EntryWorth(e) == Worth(e.remoteID, e.remoteMtime, e.localMtime)

\* the same after the step
EntryWorthNext(e) == WorthNext(e.remoteID, e.remoteMtime, e.localMtime)

EntryOutdated(e) == Outdated(e.remoteID, e.remoteMtime)

\* the same after the step
EntryOutdatedNext(e) == OutdatedNext(e.remoteID, e.remoteMtime)

\* The saved entry of a file a move took away: the version is not there for the rest of
\* the run, and the run, if nothing disturbs it, will save an other manifest.
Superseded(r) ==
  /\ phase = "run" /\ ~NoMoves
  /\ r \in DOMAIN local => local[r].mtime # disk[r].localMtime

\* the item's result says what its file is made of
Counts(it) == it.op \in {"upload", "overwrite"} \/ (it.op = "move" /\ it.srcRel \notin adopted)

VouchedMemory == \A r \in DOMAIN m \ adopted : EntryWorth(m[r])

VouchedDisk == \A r \in DOMAIN disk \ adopted : EntryWorth(disk[r]) \/ Superseded(r)

VouchedResults ==
  \A it \in DOMAIN work :
    work[it].at = "done" /\ Counts(it) => Worth(work[it].id, work[it].mtime, it.mtime)

\* Results are of files that were written or removed, whose entries cannot agree any more.
WrittenSince ==
  \A it \in DOMAIN work :
    work[it].at = "done" /\ it.op # "move" =>
      /\ it.rel \in DOMAIN m => EntryOutdated(m[it.rel])
      /\ it.rel \in DOMAIN disk => EntryOutdated(disk[it.rel])

Vouched == Accountable => VouchedMemory /\ VouchedDisk /\ VouchedResults /\ WrittenSince

\* What is known of the numbers in entries, items and results.
LEMMA Typing ==
  ASSUME Types, Known, Dated, Behind
  PROVE  /\ \A r \in DOMAIN m : /\ m[r].remoteID \in Nat /\ m[r].remoteMtime \in Nat
                                /\ m[r].localMtime \in Nat /\ m[r].remoteID < nextId
                                /\ m[r].localMtime <= clock
                                /\ Past(m[r].remoteID, m[r].remoteMtime)
         /\ \A r \in DOMAIN disk : /\ disk[r].remoteID \in Nat /\ disk[r].remoteMtime \in Nat
                                   /\ disk[r].localMtime \in Nat /\ disk[r].remoteID < nextId
                                   /\ disk[r].localMtime <= clock
                                   /\ Past(disk[r].remoteID, disk[r].remoteMtime)
         /\ \A it \in DOMAIN work : /\ work[it].id \in Nat /\ work[it].mtime \in Nat
                                    /\ work[it].id < nextId
                                    /\ it \in Item /\ it \in InHand /\ it.mtime \in Nat
         /\ \A it \in DOMAIN work :
              it.op # "delete" => /\ it.mtime <= clock /\ OnlyAt(it.mtime, it.rel)
                                  /\ work[it].at = "done" => Past(work[it].id, work[it].mtime)
<1>1. /\ \A r \in DOMAIN m : m[r] \in ManifestEntry
      /\ \A r \in DOMAIN disk : disk[r] \in ManifestEntry
      /\ \A it \in DOMAIN work : work[it] \in Progress /\ it \in Item /\ it \in InHand
  BY DEF Types, TreesTyped, RunTyped, Table, InHand
<1>2. /\ \A r \in DOMAIN m : m[r].remoteID \in Nat /\ m[r].remoteMtime \in Nat /\ m[r].localMtime \in Nat
      /\ \A r \in DOMAIN disk : disk[r].remoteID \in Nat /\ disk[r].remoteMtime \in Nat
                                /\ disk[r].localMtime \in Nat
      /\ \A it \in DOMAIN work : work[it].id \in Nat /\ work[it].mtime \in Nat /\ it.mtime \in Nat
  BY <1>1 DEF ManifestEntry, Progress, Item
<1>3. /\ \A r \in DOMAIN m : m[r].remoteID < nextId
      /\ \A r \in DOMAIN disk : disk[r].remoteID < nextId
      /\ \A it \in DOMAIN work : work[it].id < nextId
  BY DEF Known
<1>4. /\ \A r \in DOMAIN m : m[r].localMtime <= clock
      /\ \A r \in DOMAIN disk : disk[r].localMtime <= clock
      /\ \A it \in DOMAIN work : it.op # "delete" => it.mtime <= clock /\ OnlyAt(it.mtime, it.rel)
  BY <1>1 DEF Dated
<1> QED
  BY <1>1, <1>2, <1>3, <1>4 DEF Behind

\* What entries and results are worth is kept by a step.
LEMMA VouchesKept ==
  ASSUME Types, Known, Dated, Behind, [Next]_vars
  PROVE  /\ \A r \in DOMAIN m : /\ EntryWorth(m[r]) => EntryWorthNext(m[r])
                                /\ EntryOutdated(m[r]) => EntryOutdatedNext(m[r])
         /\ \A r \in DOMAIN disk : /\ EntryWorth(disk[r]) => EntryWorthNext(disk[r])
                                   /\ EntryOutdated(disk[r]) => EntryOutdatedNext(disk[r])
         /\ \A it \in DOMAIN work :
              work[it].at = "done" /\ it.op # "delete"
                /\ Worth(work[it].id, work[it].mtime, it.mtime) =>
                  WorthNext(work[it].id, work[it].mtime, it.mtime)
<1>1. Types'
  BY TypesStep
<1>2. ASSUME NEW r \in DOMAIN m
      PROVE  /\ EntryWorth(m[r]) => EntryWorthNext(m[r])
             /\ EntryOutdated(m[r]) => EntryOutdatedNext(m[r])
  <2>1. /\ m[r].remoteID \in Nat /\ m[r].remoteMtime \in Nat /\ m[r].localMtime \in Nat
        /\ m[r].remoteID < nextId /\ m[r].localMtime <= clock
        /\ Past(m[r].remoteID, m[r].remoteMtime)
    BY Typing
  <2>2. EntryWorth(m[r]) => EntryWorthNext(m[r])
    BY <1>1, <2>1, WorthKept DEF EntryWorth, EntryWorthNext
  <2>3. EntryOutdated(m[r]) => EntryOutdatedNext(m[r])
    BY <1>1, <2>1, OutdatedKept DEF EntryOutdated, EntryOutdatedNext
  <2> QED
    BY <2>2, <2>3
<1>3. ASSUME NEW r \in DOMAIN disk
      PROVE  /\ EntryWorth(disk[r]) => EntryWorthNext(disk[r])
             /\ EntryOutdated(disk[r]) => EntryOutdatedNext(disk[r])
  <2>1. /\ disk[r].remoteID \in Nat /\ disk[r].remoteMtime \in Nat /\ disk[r].localMtime \in Nat
        /\ disk[r].remoteID < nextId /\ disk[r].localMtime <= clock
        /\ Past(disk[r].remoteID, disk[r].remoteMtime)
    BY Typing
  <2>2. EntryWorth(disk[r]) => EntryWorthNext(disk[r])
    BY <1>1, <2>1, WorthKept DEF EntryWorth, EntryWorthNext
  <2>3. EntryOutdated(disk[r]) => EntryOutdatedNext(disk[r])
    BY <1>1, <2>1, OutdatedKept DEF EntryOutdated, EntryOutdatedNext
  <2> QED
    BY <2>2, <2>3
<1>4. ASSUME NEW it \in DOMAIN work, work[it].at = "done", it.op # "delete",
             Worth(work[it].id, work[it].mtime, it.mtime)
      PROVE  WorthNext(work[it].id, work[it].mtime, it.mtime)
  <2>1. /\ work[it].id \in Nat /\ work[it].mtime \in Nat /\ it.mtime \in Nat
        /\ work[it].id < nextId /\ it.mtime <= clock /\ Past(work[it].id, work[it].mtime)
    BY <1>4, Typing
  <2> QED
    BY <1>1, <1>4, <2>1, WorthKept
<1> QED
  BY <1>2, <1>3, <1>4

\* What is outdated agrees with nothing, so there is nothing to vouch for.
LEMMA OutdatedWorth ==
  ASSUME Types', NEW i, NEW t \in Nat, NEW v, OutdatedNext(i, t)
  PROVE  WorthNext(i, t, v)
<1>1. i \in DOMAIN remote' => remote'[i].mtime \in Nat
  BY DEF Types, TreesTyped, RemoteFile
<1> QED
  BY <1>1 DEF OutdatedNext, WorthNext

\* A version that is away stays away.
LEMMA SupersededKept ==
  ASSUME Types, Dated, Known, Behind, NoRenameInRun, [Next]_vars, phase' = "run", NoMoves' = NoMoves,
         NEW r \in DOMAIN disk, disk'[r] = disk[r], Superseded(r)
  PROVE  Superseded(r)'
<1>1. disk[r].localMtime \in Nat /\ disk[r].localMtime <= clock
  BY Typing
<1>2. /\ clock \in Nat
      /\ \A q \in DOMAIN local' :
           \/ q \in DOMAIN local /\ local'[q].mtime = local[q].mtime
           \/ local'[q].mtime = clock + 1
  BY Versions DEF Superseded
<1>3. r \in DOMAIN local' => local'[r].mtime # disk[r].localMtime
  BY <1>1, <1>2 DEF Superseded
<1>4. ~NoMoves'
  BY DEF Superseded
<1> QED
  BY <1>3, <1>4 DEF Superseded

\* An upload or overwrite sends what is at its path now: the version it was planned with,
\* or one that has replaced it everywhere.
LEMMA SentWorth ==
  ASSUME Types, Known, Dated, Behind, NEW it \in DOMAIN work, it.op \in {"upload", "overwrite"},
         Beside, NEW p, Comes(it, p), p.at = "done", work[it].at # "done"
  PROVE  WorthNext(p.id, p.mtime, it.mtime)
<1> DEFINE w == work[it]
<1>1. /\ remote \in [DOMAIN remote -> RemoteFile] /\ DOMAIN remote \subseteq 1..(nextId - 1)
      /\ nextId \in Nat /\ w \in Progress /\ it \in Item /\ Fits(it, w)
  BY DEF Types, TreesTyped, RunTyped, Phases
<1>2. OnlyAt(it.mtime, it.rel) /\ local' = local
  BY Typing DEF Beside
<1>3. ASSUME Readable(it), local[it.rel].mtime # it.mtime
      PROVE  \A q \in DOMAIN local' : local'[q].mtime # it.mtime
  BY <1>2, <1>3 DEF OnlyAt
<1>4. w.at \in {"create", "find", "replace", "done", "failed"}
  BY <1>1 DEF Fits
<1>5. CASE Fails(it, p) \/ Meets(it, p) \/ Finds(it, p)
  <2>1. CASE Fails(it, p)
    BY <2>1, <1>1 DEF Fails, Progress
  <2>2. CASE Meets(it, p)
    BY <2>2, <1>1 DEF Meets, Progress
  <2>3. CASE Finds(it, p)
    <3>1. PICK i \in DOMAIN remote : p = [w EXCEPT !.at = "replace", !.id = i]
      BY <2>3 DEF Finds
    <3> QED
      BY <3>1, <1>1 DEF Progress
  <2> QED
    BY <1>5, <2>1, <2>2, <2>3
<1>6. CASE Makes(it, p)
  <2> DEFINE new == FromLocal(it, it.rel, 1)
  <2>1. remote' = Set(remote, nextId, new)
    BY <1>6 DEF Makes
  <2>2. p.id = nextId
    BY <1>6, <1>1 DEF Makes, Progress
  <2>3. new.data = local[it.rel].mtime
    BY DEF FromLocal
  <2> HIDE DEF new
  <2>4. remote'[nextId].data = local[it.rel].mtime
    BY <2>1, <2>3 DEF Set
  <2> QED
    BY <1>3, <1>6, <2>2, <2>4 DEF WorthNext, Makes
<1>7. CASE Replaces(it, p)
  <2> DEFINE new == [path |-> remote[w.id].path, size |-> it.size,
                     mtime |-> remote[w.id].mtime + 1, data |-> local[it.rel].mtime]
  <2>1. w.id \in DOMAIN remote /\ remote' = [remote EXCEPT ![w.id] = new]
    BY <1>7 DEF Replaces
  <2>2. new.data = local[it.rel].mtime
    OBVIOUS
  <2>3. p.id = w.id
    BY <1>7, <1>1 DEF Replaces, Progress
  <2> HIDE DEF new
  <2>4. remote'[w.id].data = local[it.rel].mtime
    BY <2>1, <2>2, <1>1
  <2> QED
    BY <1>3, <1>7, <2>3, <2>4 DEF WorthNext, Replaces
<1>8. ~Misses(it, p) /\ ~Looks(it, p) /\ ~LooksAgain(it, p) /\ ~Removes(it, p) /\ ~Relocates(it, p)
  BY <1>4 DEF Misses, Looks, LooksAgain, Removes, Relocates
<1> QED
  BY <1>5, <1>6, <1>7, <1>8 DEF Comes

\* A move takes the file its entry is of, as it is: what the entry was worth, the result is.
LEMMA MovedWorth ==
  ASSUME Types, Known, Dated, Behind, Planning, VouchedMemory, ExactEntries,
         NEW it \in DOMAIN work, it.op = "move", it.srcRel \notin adopted,
         Call(it), NEW p, Comes(it, p), p.at = "done"
  PROVE  WorthNext(p.id, p.mtime, it.mtime)
<1> DEFINE w == work[it]
<1>1. /\ remote \in [DOMAIN remote -> RemoteFile] /\ DOMAIN remote \subseteq 1..(nextId - 1)
      /\ nextId \in Nat /\ w \in Progress /\ it \in Item /\ Fits(it, w) /\ w.at # "done"
  BY NotDone DEF Types, TreesTyped, RunTyped, Phases
<1>2. /\ it.srcRel \in DOMAIN m /\ m[it.srcRel].remoteID = it.remoteID
      /\ m[it.srcRel].localMtime = it.mtime
  BY DEF Planning, Tied, InHand
<1>3. p.id = it.remoteID /\ it.remoteID < nextId /\ w.id = it.remoteID
  BY <1>1, Steps DEF Fits, Known, InHand
<1>4. Exact(it.remoteID, m[it.srcRel].remoteMtime)
  <2>1. ~Pending(it.srcRel)
    BY DEF Pending, Planning, OneEach, InHand, Around
  <2> QED
    BY <1>2, <2>1 DEF ExactEntries
<1>5. Worth(it.remoteID, m[it.srcRel].remoteMtime, it.mtime)
  BY <1>2 DEF VouchedMemory, EntryWorth
<1>6. it.remoteID \in DOMAIN remote => remote[it.remoteID].data = it.mtime \/ Gone(it.mtime)
  BY <1>4, <1>5 DEF Exact, Worth
<1>7. p.id \in DOMAIN remote' => /\ p.id \in DOMAIN remote
                                 /\ remote'[p.id].data = remote[p.id].data
  <2>1. w.at \in {"stat", "move", "rename", "restat", "failed"}
    BY <1>1 DEF Fits
  <2>2. ~Replaces(it, p) /\ ~Makes(it, p) /\ ~Removes(it, p)
    BY <2>1 DEF Replaces, Makes, Removes
  <2>3. CASE Relocates(it, p)
    <3>1. \E path : remote' = [remote EXCEPT ![w.id].path = path]
      BY <2>3 DEF Relocates
    <3> QED
      BY <3>1, <1>1 DEF RemoteFile
  <2>4. CASE remote' = remote
    BY <2>4
  <2> QED
    BY <2>2, <2>3, <2>4 DEF Comes, Fails, Meets, Finds, Misses, Looks, LooksAgain, SameRemote
<1>8. local' = local
  BY Outcomes DEF Beside
<1> QED
  BY <1>3, <1>6, <1>7, <1>8 DEF WorthNext, Gone

\* What an upload, overwrite or delete has done leaves the old entries of its path, in
\* memory and saved, behind.
LEMMA ResultOutdates ==
  ASSUME Types, Known, Dated, Behind, Planning, NEW it \in DOMAIN work, it.op # "move", OnDisk(it),
         NEW p, Comes(it, p), RemoteAges, p.at = "done", work[it].at # "done"
  PROVE  /\ it.rel \in DOMAIN m => EntryOutdatedNext(m[it.rel])
         /\ it.rel \in DOMAIN disk => EntryOutdatedNext(disk[it.rel])
<1> DEFINE w == work[it]
<1>1. /\ remote \in [DOMAIN remote -> RemoteFile] /\ DOMAIN remote \subseteq 1..(nextId - 1)
      /\ nextId \in Nat /\ w \in Progress /\ it \in Item /\ Fits(it, w)
  BY DEF Types, TreesTyped, RunTyped, Phases
<1>2. Tied(it, m)
  BY DEF Planning, InHand
<1>3. CASE it.op = "upload"
  BY <1>2, <1>3 DEF Tied, OnDisk
<1>4. ASSUME it.op \in {"overwrite", "delete"}, NEW t \in Nat, Past(it.remoteID, t)
      PROVE  OutdatedNext(it.remoteID, t)
  <2>1. w.id = it.remoteID
    BY <1>1, <1>4 DEF Fits
  <2>2. CASE it.op = "overwrite"
    <3>1. w.at \in {"replace", "done", "failed"}
      BY <1>1, <2>2 DEF Fits
    <3>2. Replaces(it, p)
      <4>1. ~Fails(it, p)
        BY <1>1 DEF Fails, Progress
      <4> QED
        BY <3>1, <4>1 DEF Comes, Meets, Finds, Misses, Looks, LooksAgain, Makes, Removes, Relocates
    <3> DEFINE new == [path |-> remote[w.id].path, size |-> it.size,
                       mtime |-> remote[w.id].mtime + 1, data |-> local[it.rel].mtime]
    <3>3. w.id \in DOMAIN remote /\ remote' = [remote EXCEPT ![w.id] = new]
      BY <3>2 DEF Replaces
    <3>4. new.mtime = remote[w.id].mtime + 1
      OBVIOUS
    <3> HIDE DEF new
    <3>5. remote'[w.id].mtime = remote[w.id].mtime + 1 /\ remote[w.id].mtime \in Nat
      BY <1>1, <3>3, <3>4 DEF RemoteFile
    <3>6. t <= remote[w.id].mtime
      BY <1>4, <2>1, <3>3 DEF Past
    <3> QED
      BY <2>1, <3>5, <3>6 DEF OutdatedNext
  <2>3. CASE it.op = "delete"
    <3>1. w.at \in {"remove", "done", "failed"}
      BY <1>1, <2>3 DEF Fits
    <3>2. Misses(it, p) \/ Removes(it, p)
      <4>1. ~Fails(it, p)
        BY <1>1 DEF Fails, Progress
      <4> QED
        BY <3>1, <4>1 DEF Comes, Meets, Finds, Replaces, Looks, LooksAgain, Makes, Relocates
    <3>3. w.id \notin DOMAIN remote'
      BY <3>2 DEF Misses, Removes, SameRemote, Delete
    <3> QED
      BY <2>1, <3>3 DEF OutdatedNext
  <2> QED
    BY <1>4, <2>2, <2>3
<1>5. CASE it.op \in {"overwrite", "delete"}
  <2>1. it.rel \in DOMAIN m => EntryOutdatedNext(m[it.rel])
    <3>1. /\ m[it.rel].remoteID = it.remoteID
          /\ it.rel \in DOMAIN m
      BY <1>2, <1>5 DEF Tied
    <3>2. m[it.rel].remoteMtime \in Nat /\ Past(m[it.rel].remoteID, m[it.rel].remoteMtime)
      BY <3>1, Typing
    <3> QED
      BY <1>4, <1>5, <3>1, <3>2 DEF EntryOutdatedNext
  <2>2. ASSUME it.rel \in DOMAIN disk
        PROVE  EntryOutdatedNext(disk[it.rel])
    <3>1. /\ disk[it.rel].remoteMtime \in Nat /\ disk[it.rel].remoteID < nextId
          /\ Past(disk[it.rel].remoteID, disk[it.rel].remoteMtime)
      BY <2>2, Typing
    <3>2. CASE disk[it.rel].remoteID = it.remoteID
      BY <1>4, <1>5, <3>1, <3>2 DEF EntryOutdatedNext
    <3>3. CASE disk[it.rel].remoteID \notin DOMAIN remote
      BY <3>1, <3>3 DEF RemoteAges, EntryOutdatedNext, OutdatedNext
    <3> QED
      BY <1>5, <2>2, <3>2, <3>3 DEF OnDisk
  <2> QED
    BY <2>1, <2>2
<1> QED
  BY <1>1, <1>3, <1>5 DEF Item

\* the same after the step
SupersededNext(r) ==
  /\ phase' = "run" /\ ~NoMoves
  /\ r \in DOMAIN local' => local'[r].mtime # disk'[r].localMtime

\* the same after the step
CountsNext(it) == it.op \in {"upload", "overwrite"} \/ (it.op = "move" /\ it.srcRel \notin adopted')

EntriesNext ==
  /\ \A r \in DOMAIN m' \ adopted' : EntryWorthNext(m'[r])
  /\ \A r \in DOMAIN disk' \ adopted' : EntryWorthNext(disk'[r]) \/ SupersededNext(r)

ResultsNext ==
  \A it \in DOMAIN work' : work'[it].at = "done" =>
    /\ CountsNext(it) => WorthNext(work'[it].id, work'[it].mtime, it.mtime)
    /\ it.op # "move" => /\ it.rel \in DOMAIN m' => EntryOutdatedNext(m'[it.rel])
                         /\ it.rel \in DOMAIN disk' => EntryOutdatedNext(disk'[it.rel])

\* The conditions after a step, said of the state before.
LEMMA VouchedAfter ==
  ASSUME NoMoves' = NoMoves, EntriesNext, ResultsNext
  PROVE  VouchedMemory' /\ VouchedDisk' /\ VouchedResults' /\ WrittenSince'
<1>1. VouchedMemory'
  BY DEF EntriesNext, VouchedMemory, EntryWorth, EntryWorthNext, Worth, WorthNext, Gone
<1>2. VouchedDisk'
  <2>1. ASSUME NEW r \in DOMAIN disk' \ adopted'
        PROVE  (EntryWorth(disk[r]) \/ Superseded(r))'
    <3>1. EntryWorthNext(disk'[r]) \/ SupersededNext(r)
      BY DEF EntriesNext
    <3>2. CASE EntryWorthNext(disk'[r])
      BY <3>2 DEF EntryWorth, EntryWorthNext, Worth, WorthNext, Gone
    <3>3. CASE SupersededNext(r)
      BY <3>3 DEF Superseded, SupersededNext
    <3> QED
      BY <3>1, <3>2, <3>3
  <2> QED
    BY <2>1 DEF VouchedDisk
<1>3. VouchedResults'
  BY DEF ResultsNext, CountsNext, VouchedResults, Counts, Worth, WorthNext, Gone
<1>4. WrittenSince'
  BY DEF ResultsNext, WrittenSince, EntryOutdated, EntryOutdatedNext, Outdated, OutdatedNext
<1> QED
  BY <1>1, <1>2, <1>3, <1>4

\* what a step starts from, when the history after it is to be accounted for
Standing ==
  /\ Types /\ Known /\ Dated /\ Behind /\ Planning /\ Placed /\ Exactly
  /\ \A it \in InHand : OnDisk(it)
  /\ VouchedMemory /\ VouchedDisk /\ VouchedResults /\ WrittenSince
  /\ NoBlindMoves /\ NoRenameInRun
  /\ NoMoves' = NoMoves
  /\ ~NoMoves => Undisturbed' /\ Undisturbed

\* Saved entries that stay where they are.
LEMMA DiskStill ==
  ASSUME Standing, [Next]_vars, phase = "run" => phase' = "run", NEW r \in DOMAIN disk \ adopted,
         disk'[r] = disk[r]
  PROVE  EntryWorthNext(disk'[r]) \/ SupersededNext(r)
<1>1. CASE EntryWorth(disk[r])
  BY <1>1, VouchesKept DEF Standing
<1>2. CASE Superseded(r)
  <2>1. phase' = "run"
    BY <1>2 DEF Superseded
  <2>2. Superseded(r)'
    BY <1>2, <2>1, SupersededKept DEF Standing
  <2> QED
    BY <2>2 DEF Superseded, SupersededNext, Standing
<1> QED
  BY <1>1, <1>2 DEF Standing, VouchedDisk

\* Steps that leave the entries as they are: calls add results.
LEMMA VouchedRoutine ==
  ASSUME Standing, [Next]_vars, UNCHANGED <<m, disk, adopted>>, phase = "run" => phase' = "run"
  PROVE  EntriesNext /\ ResultsNext
<1>1. EntriesNext
  <2>1. \A r \in DOMAIN m \ adopted : EntryWorthNext(m[r])
    BY VouchesKept DEF Standing, VouchedMemory
  <2>2. \A r \in DOMAIN disk \ adopted : EntryWorthNext(disk'[r]) \/ SupersededNext(r)
    BY DiskStill
  <2> QED
    BY <2>1, <2>2 DEF EntriesNext
<1>2. ASSUME NEW it \in DOMAIN work', work'[it].at = "done"
      PROVE  /\ CountsNext(it) => WorthNext(work'[it].id, work'[it].mtime, it.mtime)
             /\ it.op # "move" => /\ it.rel \in DOMAIN m => EntryOutdatedNext(m[it.rel])
                                  /\ it.rel \in DOMAIN disk => EntryOutdatedNext(disk[it.rel])
  <2>1. CASE it \in DOMAIN work /\ work'[it] = work[it]
    <3>1. CountsNext(it) => WorthNext(work'[it].id, work'[it].mtime, it.mtime)
      <4>1. CountsNext(it) => Counts(it) /\ it.op # "delete"
        BY DEF CountsNext, Counts
      <4> QED
        BY <1>2, <2>1, <4>1, VouchesKept DEF Standing, VouchedResults
    <3>2. it.op # "move" => /\ it.rel \in DOMAIN m => EntryOutdatedNext(m[it.rel])
                            /\ it.rel \in DOMAIN disk => EntryOutdatedNext(disk[it.rel])
      BY <1>2, <2>1, VouchesKept DEF Standing, WrittenSince
    <3> QED
      BY <3>1, <3>2
  <2>2. CASE it \in waiting /\ work'[it] = [at |-> FirstCall[it.op], id |-> it.remoteID,
                                            mtime |-> 0, path |-> it.rel]
    <3>1. work'[it].at = FirstCall[it.op] /\ it \in Item
      BY <2>2 DEF Standing, Types, RunTyped
    <3> QED
      BY <3>1, <1>2 DEF FirstCall, Item
  <2>3. CASE it \in DOMAIN work /\ Call(it) /\ Comes(it, work'[it])
    <3>1. Beside /\ work[it].at # "done" /\ it \in InHand /\ OnDisk(it) /\ RemoteAges
      BY <2>3, Outcomes, NotDone, Aging DEF Standing, InHand
    <3>2. CASE it.op = "move" /\ CountsNext(it)
      <4>1. it.srcRel \notin adopted
        BY <3>2 DEF CountsNext
      <4>2. ~NoMoves
        BY <3>1, <3>2, NoMoveItems DEF Standing
      <4>3. ExactEntries
        BY <4>2 DEF Standing, NoBlindMoves, Exactly, Quiet
      <4> QED
        BY <1>2, <2>3, <3>2, <4>1, <4>3, MovedWorth DEF Standing
    <3>3. CASE it.op \in {"upload", "overwrite"}
      BY <1>2, <2>3, <3>1, <3>3, SentWorth, ResultOutdates DEF Standing
    <3>4. CASE it.op = "delete"
      BY <1>2, <2>3, <3>1, <3>4, ResultOutdates DEF Standing, CountsNext
    <3>5. it \in Item
      BY <2>3 DEF Standing, Types, RunTyped
    <3> QED
      BY <3>2, <3>3, <3>4, <3>5 DEF Item
  <2> QED
    BY <2>1, <2>2, <2>3, Progresses DEF Standing
<1> QED
  BY <1>1, <1>2 DEF ResultsNext

\* The beginning of a run takes the saved entries over, or new ones from an index.
LEMMA VouchedBegin ==
  ASSUME Standing, [Next]_vars, NEW o \in Options, Begin(o)
  PROVE  EntriesNext /\ ResultsNext
<1>1. /\ phase = "idle" /\ m' = Base(o) /\ disk' = disk /\ adopted' = adopted \cup Seeded(o)
      /\ work' = work /\ DOMAIN work = {} /\ Types
  BY BeginFacts DEF Standing, Types, Phases
<1>2. \A r \in DOMAIN disk \ adopted : EntryWorthNext(disk[r])
  BY <1>1, VouchesKept DEF Standing, VouchedDisk, Superseded
<1>3. \A r \in DOMAIN Base(o) \ Seeded(o) : r \in DOMAIN disk /\ Base(o)[r] = disk[r]
  BY <1>1, BaseFacts
<1>4. EntriesNext
  BY <1>1, <1>2, <1>3 DEF EntriesNext
<1> QED
  BY <1>1, <1>4 DEF ResultsNext

\* The end of a run saves the manifest, or loses it, but for moves not without disturbance.
LEMMA VouchedEnd ==
  ASSUME Standing, [Next]_vars, Ends
  PROVE  EntriesNext /\ ResultsNext
<1>1. /\ DOMAIN work' = {} /\ adopted' = adopted
      /\ \/ disk' = m /\ m' = m
         \/ /\ disk' = disk /\ m' = disk
            /\ phase = "drift" \/ faults' = faults + 1 \/ crashes' = crashes + 1
  BY DEF Ends, Abandon, Empty
<1>2. CASE disk' = m /\ m' = m
  <2>1. \A r \in DOMAIN m \ adopted : EntryWorthNext(m[r])
    BY VouchesKept DEF Standing, VouchedMemory
  <2> QED
    BY <1>1, <1>2, <2>1 DEF EntriesNext, ResultsNext
<1>3. CASE /\ disk' = disk /\ m' = disk
           /\ phase = "drift" \/ faults' = faults + 1 \/ crashes' = crashes + 1
  <2>1. {faults, crashes} \subseteq Nat
    BY DEF Standing, Types, RunTyped
  <2>2. \A r : ~Superseded(r)
    BY <1>3, <2>1 DEF Standing, Superseded, Undisturbed
  <2>3. \A r \in DOMAIN disk \ adopted : EntryWorthNext(disk[r])
    BY <2>2, VouchesKept DEF Standing, VouchedDisk
  <2> QED
    BY <1>1, <1>3, <2>3 DEF EntriesNext, ResultsNext
<1> QED
  BY <1>1, <1>2, <1>3

\* Paths leave adopted with the result that is recorded for them.
LEMMA LeavesAdopted ==
  ASSUME NEW it, NEW r, r \in adopted, r \notin StillAdopted(it)
  PROVE  r \in Around(it)
  BY DEF StillAdopted, Around

\* Nor do other paths join.
LEMMA JoinsAdopted ==
  ASSUME NEW it, NEW r, r \in StillAdopted(it), r \notin adopted
  PROVE  r = it.rel
  BY DEF StillAdopted

\* A result becomes an entry.
LEMMA VouchedCollect ==
  ASSUME Standing, [Next]_vars, NEW it \in DOMAIN work, Collect(it)
  PROVE  EntriesNext /\ ResultsNext
<1>1. /\ work[it].at = "done" /\ phase = "run" /\ phase' = "run" /\ m' = Recorded(it)
      /\ adopted' = StillAdopted(it) /\ disk' \in {m', disk} /\ local' = local
      /\ DOMAIN work' = DOMAIN work \ {it}
      /\ \A other \in DOMAIN work \ {it} : work'[other] = work[other]
  <2>1. Types
    BY DEF Standing
  <2>2. Drop(it)
    BY <2>1, CollectFacts
  <2> QED
    BY <2>1, <2>2, CollectFacts, DropFacts
<1>2. /\ it \in Item /\ it \in InHand /\ Tied(it, m) /\ OnDisk(it) /\ Types
      /\ it.op # "delete" => OnlyAt(it.mtime, it.rel)
  BY Typing DEF Standing, Planning
<1>3. ASSUME NEW r \in DOMAIN m' \ adopted'
      PROVE  EntryWorthNext(m'[r])
  <2>1. CASE r \in DOMAIN m /\ Recorded(it)[r] = m[r] /\ (it.op = "delete" \/ r # it.rel)
    <3>1. r \notin adopted
      <4> SUFFICES ASSUME r \in adopted PROVE FALSE
        OBVIOUS
      <4>1. r \in Around(it)
        BY <1>1, <1>3, LeavesAdopted
      <4>2. r = it.rel \/ (r = it.srcRel /\ it.op = "move" /\ r # it.rel)
        BY <4>1, <1>2 DEF Around, Tied
      <4>3. CASE r = it.rel
        <5>1. it.op = "delete"
          BY <2>1, <4>3
        <5>2. m' = Delete(m, it.rel)
          BY <1>1, <1>2, <5>1, RecordedFacts
        <5> QED
          BY <1>3, <4>3, <5>2 DEF Delete
      <4>4. CASE r = it.srcRel /\ it.op = "move" /\ r # it.rel
        <5>1. DOMAIN m' = (DOMAIN m \ {it.srcRel}) \cup {it.rel}
          BY <1>1, <1>2, <4>4, RecordedFacts
        <5> QED
          BY <1>3, <4>4, <5>1
      <4> QED
        BY <4>2, <4>3, <4>4
    <3>2. EntryWorthNext(m[r])
      BY <2>1, <3>1, VouchesKept DEF Standing, VouchedMemory
    <3> QED
      BY <1>1, <2>1, <3>2
  <2>2. CASE it.op # "delete" /\ r = it.rel
             /\ Recorded(it)[r] = [size |-> it.size, localMtime |-> it.mtime,
                                   remoteID |-> work[it].id, remoteMtime |-> work[it].mtime]
    <3>1. /\ m'[r].localMtime = it.mtime /\ m'[r].remoteID = work[it].id
          /\ m'[r].remoteMtime = work[it].mtime
      BY <1>1, <2>2
    <3>2. Counts(it)
      BY <1>1, <1>2, <1>3, <2>2 DEF Counts, StillAdopted, Item
    <3>3. WorthNext(work[it].id, work[it].mtime, it.mtime)
      BY <1>1, <2>2, <3>2, VouchesKept DEF Standing, VouchedResults
    <3> QED
      BY <3>1, <3>3 DEF EntryWorthNext
  <2> QED
    BY <1>1, <1>2, <1>3, <2>1, <2>2, Entries
<1>4. ASSUME disk' = disk, NEW r \in DOMAIN disk \ adopted'
      PROVE  EntryWorthNext(disk[r]) \/ SupersededNext(r)
  <2>1. CASE r \notin adopted
    BY <1>1, <1>4, <2>1, DiskStill
  <2>2. CASE r \in adopted /\ it.op # "move"
    <3>1. r = it.rel
      BY <1>1, <1>2, <1>4, <2>2, LeavesAdopted DEF Around, Tied
    <3>2. EntryOutdatedNext(disk[r])
      BY <1>1, <1>4, <2>2, <3>1, VouchesKept DEF Standing, WrittenSince
    <3>3. disk[r].remoteMtime \in Nat /\ Types'
      BY <1>4, Typing, TypesStep DEF Standing
    <3> QED
      BY <3>2, <3>3, OutdatedWorth DEF EntryOutdatedNext, EntryWorthNext
  <2>3. CASE r \in adopted /\ it.op = "move"
    <3>1. r = it.srcRel /\ r # it.rel /\ disk[r].localMtime = it.mtime
      BY <1>1, <1>2, <1>4, <2>3, LeavesAdopted DEF Around, OnDisk
    <3>2. r \in DOMAIN local => local[r].mtime # it.mtime
      BY <1>2, <2>3, <3>1 DEF OnlyAt
    <3>3. ~NoMoves
      BY <1>2, <2>3, NoMoveItems DEF Standing
    <3> QED
      BY <1>1, <1>4, <3>1, <3>2, <3>3 DEF SupersededNext
  <2> QED
    BY <2>1, <2>2, <2>3
<1>5. EntriesNext
  BY <1>1, <1>3, <1>4 DEF EntriesNext
<1>6. ASSUME NEW other \in DOMAIN work', work'[other].at = "done"
      PROVE  /\ CountsNext(other) => WorthNext(work'[other].id, work'[other].mtime, other.mtime)
             /\ other.op # "move" =>
                  /\ other.rel \in DOMAIN m' => EntryOutdatedNext(m'[other.rel])
                  /\ other.rel \in DOMAIN disk' => EntryOutdatedNext(disk'[other.rel])
  <2>1. /\ other \in DOMAIN work /\ other # it /\ work'[other] = work[other]
        /\ Around(other) \cap Around(it) = {}
    BY <1>1, <1>2 DEF Standing, Planning, OneEach, InHand
  <2>2. CountsNext(other) => Counts(other) /\ other.op # "delete"
    <3>1. other.srcRel \in adopted => other.srcRel \in adopted'
      BY <1>1, <2>1, LeavesAdopted DEF Around
    <3> QED
      BY <3>1 DEF CountsNext, Counts
  <2>3. CountsNext(other) => WorthNext(work'[other].id, work'[other].mtime, other.mtime)
    BY <1>6, <2>1, <2>2, VouchesKept DEF Standing, VouchedResults
  <2>4. ASSUME other.op # "move"
        PROVE  /\ other.rel \in DOMAIN m => EntryOutdatedNext(m[other.rel])
               /\ other.rel \in DOMAIN disk => EntryOutdatedNext(disk[other.rel])
    BY <1>6, <2>1, <2>4, VouchesKept DEF Standing, WrittenSince
  <2>5. /\ other.rel \in DOMAIN m' <=> other.rel \in DOMAIN m
        /\ other.rel \in DOMAIN m => m'[other.rel] = m[other.rel]
    <3>1. other.rel \notin Around(it)
      BY <2>1 DEF Around
    <3> QED
      BY <1>1, <1>2, <3>1, RecordedAround
  <2> QED
    BY <1>1, <2>3, <2>4, <2>5
<1> QED
  BY <1>5, <1>6 DEF ResultsNext

\* Every step keeps entries and results vouched for.
LEMMA VouchedStep ==
  ASSUME Types, Known, Dated, Behind, Planning, AccountablyPlaced, Exactly, Saved, Vouched,
         NoBlindMoves, NoRenameInRun, [Next]_vars
  PROVE  Vouched'
<1> SUFFICES ASSUME Accountable'
             PROVE  VouchedMemory' /\ VouchedDisk' /\ VouchedResults' /\ WrittenSince'
  BY DEF Vouched
<1>1. /\ Accountable /\ NoMoves' = NoMoves
      /\ ~NoMoves => Undisturbed' /\ Undisturbed
  BY AccountableBefore
<1>2. Standing
  BY <1>1 DEF Standing, AccountablyPlaced, Saved, Vouched
<1>3. EntriesNext /\ ResultsNext
  BY <1>2, Routine, VouchedRoutine, VouchedBegin, VouchedEnd, VouchedCollect
<1> QED
  BY <1>1, <1>3, VouchedAfter

\* Entries and results are vouched for.
LEMMA VouchedAlways == Spec /\ []NoBlindMoves /\ []NoRenameInRun => []Vouched
<1>1. Init => Vouched
  <2> SUFFICES ASSUME Init PROVE VouchedMemory /\ VouchedDisk /\ VouchedResults /\ WrittenSince
    BY DEF Vouched
  <2>1. DOMAIN work = {} /\ m = disk
    BY DEF Init, Empty
  <2>2. ASSUME NEW r \in DOMAIN disk
        PROVE  EntryWorth(disk[r])
    <3> DEFINE tree == DOMAIN StartTree
               R(i) == CHOOSE q \in tree : StartTree[q].mtime = i
    <3>1. /\ disk = (IF Synced THEN [q \in tree |-> StartEntry(q)] ELSE Empty)
          /\ Synced => remote = [i \in {StartTree[q].mtime : q \in tree} |->
                                   [path |-> R(i), size |-> StartTree[R(i)].size, mtime |-> 1,
                                    data |-> i]]
      BY DEF Init
    <3>2. Synced /\ r \in tree /\ disk[r] = StartEntry(r)
      BY <3>1 DEF Empty
    <3>3. \A i \in DOMAIN remote : remote[i].data = i
      BY <3>1, <3>2
    <3>4. disk[r].remoteID = StartTree[r].mtime /\ disk[r].localMtime = StartTree[r].mtime
      BY <3>2 DEF StartEntry, Entry
    <3> QED
      BY <3>3, <3>4 DEF EntryWorth, Worth
  <2> QED
    BY <2>1, <2>2 DEF VouchedMemory, VouchedDisk, VouchedResults, WrittenSince
<1>2. Types /\ Known /\ Dated /\ Behind /\ Planning /\ AccountablyPlaced /\ Exactly /\ Saved
        /\ Vouched /\ NoBlindMoves /\ NoRenameInRun /\ [Next]_vars => Vouched'
  BY VouchedStep
<1> QED
  BY <1>1, <1>2, TypesAlways, KnownAlways, DatedAlways, BehindAlways, PlanningAlways, PlacedAlways,
     ExactlyAlways, SavedAlways, PTL DEF Spec

\* What the next run takes for unchanged is unchanged: where an entry agrees with the local
\* file and with the remote file it names, and was not merely adopted from an index, both
\* have the same content.  PlanPush (syncer/plan.go) compares sizes and mtimes alone, and the
\* entry it compares with is made of the item as planned and the mtime the call answered
\* (syncer/run.go); the premises are that there are no moves where other clients are, and
\* no local renames during a run.
THEOREM SoundManifest == Spec /\ []NoBlindMoves /\ []NoRenameInRun => []ManifestSound
<1>1. Vouched => ManifestSound
  <2> SUFFICES ASSUME Vouched, Accountable, NEW f \in {m, disk}, NEW r \in DOMAIN f \ adopted,
                      Agrees(f, r)
               PROVE  remote[f[r].remoteID].data = local[r].mtime
    BY DEF ManifestSound
  <2>1. /\ r \in DOMAIN local /\ local[r].mtime = f[r].localMtime
        /\ f[r].remoteID \in DOMAIN remote
        /\ remote[f[r].remoteID].mtime = f[r].remoteMtime
    BY DEF Agrees, Touched, RemoteTouched
  <2>2. EntryWorth(f[r])
    <3>1. CASE f = m
      BY <3>1 DEF Vouched, VouchedMemory
    <3>2. CASE f = disk
      BY <2>1, <3>2 DEF Vouched, VouchedDisk, Superseded
    <3> QED
      BY <3>1, <3>2
  <2> QED
    BY <2>1, <2>2 DEF EntryWorth, Worth, Gone
<1> QED
  BY <1>1, VouchedAlways, PTL

-----------------------------------------------------------------------------
(* CleanRunMirrors: what manifests say is there, and plans cover the rest      *)

\* the same after the step
OnlyAtNext(v, rel) == \A q \in DOMAIN local' : local'[q].mtime = v => q = rel

GoneNext(v) == \A q \in DOMAIN local' : local'[q].mtime # v


\* Users who rename files meet no fault: a file that is renamed away, and back again after
\* a call that was not recorded, has the mtime that its entry still has.
CalmRenames == MayRename => Undisturbed

\* a version can be at another path than its entry's
Loose == MayRename \/ ~NoMoves

\* An entry's version is at its path or nowhere, where nobody renames files.
Rooted == ~MayRename => /\ \A r \in DOMAIN m : OnlyAt(m[r].localMtime, r)
                        /\ \A r \in DOMAIN disk : OnlyAt(disk[r].localMtime, r)

\* A version that is at one path only is at no other after a step, where nobody renames files.
LEMMA RootedKept ==
  ASSUME Types, [Next]_vars, ~MayRename, NEW v \in Nat, v <= clock, NEW rel, OnlyAt(v, rel)
  PROVE  OnlyAtNext(v, rel)
<1>1. clock \in Nat
  BY DEF Types, RunTyped
<1>2. CASE UNCHANGED <<local, clock>>
  BY <1>2 DEF OnlyAt, OnlyAtNext
<1>3. CASE Edit
  <2>1. PICK r : \A q \in DOMAIN local' : Unedited(q) \/ (q = r /\ local'[q].mtime = clock + 1)
    BY <1>3, EditCases
  <2>2. \A q \in DOMAIN local' : local'[q].mtime = v => q = rel
    BY <1>1, <2>1 DEF Unedited, OnlyAt
  <2> QED
    BY <2>2 DEF OnlyAtNext
<1> QED
  BY <1>2, <1>3, LocalSteps

\* that of an overwritten or deleted file has been replaced by the item's or is gone
Surpassed(it, f) ==
  it.op \in {"overwrite", "delete"} /\ it.rel \in DOMAIN f =>
    Gone(f[it.rel].localMtime) \/ (it.op = "overwrite" /\ f[it.rel].localMtime = it.mtime)

\* the same after the step
SurpassedNext(it, f) ==
  it.op \in {"overwrite", "delete"} /\ it.rel \in DOMAIN f =>
    GoneNext(f[it.rel].localMtime) \/ (it.op = "overwrite" /\ f[it.rel].localMtime = it.mtime)

\* so for each item in hand
Surpassing == ~MayRename => \A it \in InHand : Surpassed(it, m) /\ Surpassed(it, disk)

\* Entries a run begins with come from the saved manifest or have the local file's mtime.
LEMMA BaseSource ==
  ASSUME Types, NEW o, NEW r \in DOMAIN Base(o)
  PROVE  \/ r \in DOMAIN disk /\ Base(o)[r] = disk[r]
         \/ r \in DOMAIN local /\ Base(o)[r].localMtime = local[r].mtime
<1>1. CASE r \in Seeded(o)
  <2>1. /\ r \in DOMAIN local
        /\ Base(o)[r] = [size |-> Index[r].size, localMtime |-> local[r].mtime,
                         remoteID |-> Index[r].id, remoteMtime |-> Index[r].mtime]
    BY <1>1, BaseFacts
  <2>2. Base(o)[r].localMtime = local[r].mtime
    BY <2>1
  <2> QED
    BY <2>1, <2>2
<1>2. CASE r \notin Seeded(o)
  BY <1>2, BaseFacts
<1> QED
  BY <1>1, <1>2

\* Entries stay of the version at their path.
LEMMA RootedStep ==
  ASSUME Types, Planning, NoRenameInRun, Dated, Rooted, [Next]_vars
  PROVE  Rooted'
<1> SUFFICES ASSUME ~MayRename
             PROVE  /\ \A r \in DOMAIN m' : OnlyAtNext(m'[r].localMtime, r)
                    /\ \A r \in DOMAIN disk' : OnlyAtNext(disk'[r].localMtime, r)
  BY SameWorld DEF Rooted, MayRename, OnlyAt, OnlyAtNext
<1>1. Table(m, ManifestEntry) /\ Table(disk, ManifestEntry) /\ Table(local, LocalFile) /\ Sizes \subseteq Nat
  BY World DEF Types, TreesTyped
<1>2. /\ \A r \in DOMAIN m : m[r].localMtime \in Nat /\ m[r].localMtime <= clock
      /\ \A r \in DOMAIN disk : disk[r].localMtime \in Nat /\ disk[r].localMtime <= clock
      /\ \A r \in DOMAIN local : local[r].mtime \in Nat /\ local[r].mtime <= clock
  BY <1>1 DEF Table, ManifestEntry, LocalFile, Dated
<1>3. /\ \A r \in DOMAIN m : OnlyAtNext(m[r].localMtime, r)
      /\ \A r \in DOMAIN disk : OnlyAtNext(disk[r].localMtime, r)
      /\ \A r \in DOMAIN local : OnlyAtNext(local[r].mtime, r)
  <2>1. /\ \A r \in DOMAIN m : OnlyAt(m[r].localMtime, r)
        /\ \A r \in DOMAIN disk : OnlyAt(disk[r].localMtime, r)
        /\ \A r \in DOMAIN local : OnlyAt(local[r].mtime, r)
    BY DEF Rooted, Dated
  <2>2. \A v \in Nat : \A r : v <= clock /\ OnlyAt(v, r) => OnlyAtNext(v, r)
    BY RootedKept
  <2> QED
    BY <1>2, <2>1, <2>2
<1>4. CASE UNCHANGED <<m, disk>>
  BY <1>3, <1>4
<1>5. CASE Ends
  BY <1>3, <1>5 DEF Ends
<1>6. ASSUME NEW o \in Options, Begin(o), m' = Base(o), disk' = disk
      PROVE  /\ \A r \in DOMAIN m' : OnlyAtNext(m'[r].localMtime, r)
             /\ \A r \in DOMAIN disk' : OnlyAtNext(disk'[r].localMtime, r)
  <2>1. \A r \in DOMAIN Base(o) : \/ r \in DOMAIN disk /\ Base(o)[r] = disk[r]
                                  \/ r \in DOMAIN local /\ Base(o)[r].localMtime = local[r].mtime
    BY BaseSource
  <2> QED
    BY <1>3, <1>6, <2>1
<1>7. ASSUME NEW it \in DOMAIN work, Collect(it), m' = Recorded(it), disk' \in {m', disk}
      PROVE  /\ \A r \in DOMAIN m' : OnlyAtNext(m'[r].localMtime, r)
             /\ \A r \in DOMAIN disk' : OnlyAtNext(disk'[r].localMtime, r)
  <2>1. it \in InHand /\ it \in Item
    BY DEF InHand, Types, RunTyped
  <2>2. it.op # "delete" => OnlyAtNext(it.mtime, it.rel)
    BY <2>1, RootedKept DEF Dated, Item
  <2>3. \A r \in DOMAIN m' : OnlyAtNext(m'[r].localMtime, r)
    <3> SUFFICES ASSUME NEW r \in DOMAIN m' PROVE OnlyAtNext(m'[r].localMtime, r)
      OBVIOUS
    <3>1. CASE r \in DOMAIN m /\ m'[r] = m[r]
      BY <3>1, <1>3
    <3>2. CASE it.op # "delete" /\ r = it.rel /\ m'[r].localMtime = it.mtime
      BY <3>2, <2>2
    <3> QED
      BY <1>7, <3>1, <3>2, Entries
  <2> QED
    BY <1>3, <1>7, <2>3
<1> QED
  BY <1>4, <1>5, <1>6, <1>7, Manifests

\* The first manifest is of the first tree, whose versions are all different.
LEMMA InitRooted ==
  ASSUME Init
  PROVE  Rooted
<1> DEFINE tree == DOMAIN StartTree
<1>1. m = disk /\ local = StartTree
  BY DEF Init
<1>2. \A r, q \in tree : StartTree[r].mtime = StartTree[q].mtime => r = q
  <2>1. setting \in DOMAIN Settings
    BY DEF Init
  <2> QED
    BY <2>1, PushAssumption DEF StartTree
<1>3. \A r \in DOMAIN disk : r \in tree /\ disk[r].localMtime = StartTree[r].mtime
  <2>1. disk = Empty \/ disk = [r \in tree |-> StartEntry(r)]
    BY DEF Init
  <2> QED
    BY <2>1 DEF Empty, StartEntry, Entry
<1> QED
  BY <1>1, <1>2, <1>3 DEF Rooted, OnlyAt

\* Entries name versions that are at their path or nowhere.
LEMMA RootedAlways == Spec /\ []NoRenameInRun => []Rooted
<1>1. Init => Rooted
  BY InitRooted
<1>2. Types /\ Planning /\ NoRenameInRun /\ Dated /\ Rooted /\ [Next]_vars => Rooted'
  BY RootedStep
<1> QED
  BY <1>1, <1>2, TypesAlways, PlanningAlways, DatedAlways, PTL DEF Spec

\* Overwritten and deleted versions stay replaced or gone until the item is done.
LEMMA SurpassingStep ==
  ASSUME Types, Planning, NoRenameInRun, Dated, Rooted, Surpassing, [Next]_vars
  PROVE  Surpassing'
<1> SUFFICES ASSUME ~MayRename, NEW it \in InHand'
             PROVE  SurpassedNext(it, m') /\ SurpassedNext(it, disk')
  BY SameWorld DEF Surpassing, MayRename, Surpassed, SurpassedNext, Gone, GoneNext
<1>1. Table(m, ManifestEntry) /\ Table(disk, ManifestEntry) /\ Table(local, LocalFile) /\ Sizes \subseteq Nat
  BY World DEF Types, TreesTyped
<1>2. /\ \A r \in DOMAIN m : m[r].localMtime \in Nat /\ m[r].localMtime <= clock
      /\ \A r \in DOMAIN disk : disk[r].localMtime \in Nat /\ disk[r].localMtime <= clock
  BY <1>1 DEF Table, ManifestEntry, Dated
<1>3. /\ \A r \in DOMAIN m : Gone(m[r].localMtime) => GoneNext(m[r].localMtime)
      /\ \A r \in DOMAIN disk : Gone(disk[r].localMtime) => GoneNext(disk[r].localMtime)
  <2>1. \A v \in Nat : v <= clock /\ Gone(v) => GoneNext(v)
    BY GoneKept DEF Gone, GoneNext
  <2> QED
    BY <1>2, <2>1
<1>4. ASSUME it \in InHand
      PROVE  SurpassedNext(it, m) /\ SurpassedNext(it, disk)
  BY <1>3, <1>4 DEF Surpassing, Surpassed, SurpassedNext
<1>5. ASSUME NEW o \in Options, Begin(o)
      PROVE  SurpassedNext(it, m') /\ SurpassedNext(it, disk')
  <2>1. /\ InHand' = todo' \cup waiting' /\ disk' = disk /\ m' = Base(o) /\ local' = local
    <3>1. work' = work /\ DOMAIN work = {}
      BY <1>5, BeginFacts DEF Types, Phases
    <3> QED
      BY <1>5, <3>1, BeginFacts DEF InHand
  <2>2. Sound(it, Base(o)) /\ it \in Item
    BY <1>5, <2>1, BeginFacts
  <2>3. \A r \in DOMAIN Base(o) : \/ r \in DOMAIN disk /\ Base(o)[r] = disk[r]
                                  \/ r \in DOMAIN local /\ Base(o)[r].localMtime = local[r].mtime
    BY BaseSource
  <2>4. /\ \A r \in DOMAIN Base(o) : OnlyAt(Base(o)[r].localMtime, r)
        /\ \A r \in DOMAIN disk : OnlyAt(disk[r].localMtime, r)
    BY <2>3 DEF Rooted, Dated
  <2>5. /\ it.op = "overwrite" => it.rel \in DOMAIN local /\ it.mtime = local[it.rel].mtime
        /\ it.op = "delete" => it.rel \notin DOMAIN local
    BY <2>2 DEF Sound
  <2>6. \A v : GoneNext(v) <=> Gone(v)
    BY <2>1 DEF Gone, GoneNext
  <2>7. ASSUME NEW v, OnlyAt(v, it.rel), it.op \in {"overwrite", "delete"}
        PROVE  Gone(v) \/ (it.op = "overwrite" /\ v = it.mtime)
    BY <2>5, <2>7 DEF OnlyAt, Gone
  <2> QED
    BY <2>1, <2>4, <2>6, <2>7 DEF SurpassedNext
<1>6. CASE UNCHANGED <<m, disk>> /\ it \in InHand
  BY <1>4, <1>6
<1>7. ASSUME NEW jt \in DOMAIN work, Collect(jt), m' = Recorded(jt), disk' \in {m', disk}, it \in InHand
      PROVE  SurpassedNext(it, m') /\ SurpassedNext(it, disk')
  <2>1. Drop(jt) /\ UNCHANGED <<todo, waiting>>
    BY <1>7, CollectFacts
  <2>2. DOMAIN work' = DOMAIN work \ {jt}
    BY <2>1, DropFacts
  <2>3. it # jt
    <3>1. jt \notin todo \cup waiting
      BY <1>7, CollectFacts DEF Types, Phases
    <3> QED
      BY <2>1, <2>2, <3>1 DEF InHand
  <2>4. it.rel \notin Around(jt)
    BY <1>7, <2>3 DEF Planning, OneEach, InHand, Around
  <2>5. /\ it.rel \in DOMAIN Recorded(jt) <=> it.rel \in DOMAIN m
        /\ it.rel \in DOMAIN m => Recorded(jt)[it.rel] = m[it.rel]
    BY <2>4, RecordedAround
  <2> QED
    BY <1>4, <1>7, <2>5 DEF SurpassedNext
<1>8. CASE Ends
  BY <1>8 DEF Ends, Abandon, InHand, Empty
<1>9. ASSUME it \notin InHand
      PROVE  \E o \in Options : Begin(o)
  BY <1>9, Hands
<1> QED
  BY <1>5, <1>6, <1>7, <1>8, <1>9, Manifests

\* The version an overwrite or a delete is about to replace is gone, or is the item's.
LEMMA SurpassingAlways == Spec /\ []NoRenameInRun => []Surpassing
<1>1. Init => Surpassing
  BY DEF Init, Surpassing, InHand, Empty
<1>2. Types /\ Planning /\ NoRenameInRun /\ Dated /\ Rooted /\ Surpassing /\ [Next]_vars => Surpassing'
  BY SurpassingStep
<1> QED
  BY <1>1, <1>2, TypesAlways, PlanningAlways, DatedAlways, RootedAlways, PTL DEF Spec

\* The entry's file is there, with the entry's content, but for what others did to it.
Holds(r, e) ==
  \/ e.remoteID \in unseen
  \/ /\ e.remoteID \in DOMAIN remote
     /\ r \in adopted \/ remote[e.remoteID].data = e.localMtime

\* the same after the step
HoldsNext(r, e) ==
  \/ e.remoteID \in unseen'
  \/ /\ e.remoteID \in DOMAIN remote'
     /\ r \in adopted' \/ remote'[e.remoteID].data = e.localMtime

\* the file has been overwritten or deleted, and the result is not recorded yet
Awaited(r) ==
  \E it \in DOMAIN work : it.op \in {"overwrite", "delete"} /\ it.rel = r /\ work[it].at = "done"

\* the same after the step
AwaitedNext(r) ==
  \E it \in DOMAIN work' : it.op \in {"overwrite", "delete"} /\ it.rel = r /\ work'[it].at = "done"

\* the entries in memory
HoldsMemory == \A r \in DOMAIN m : Holds(r, m[r]) \/ Gone(m[r].localMtime) \/ Awaited(r)

\* the saved entries, but those of a run that can move files
HoldsDisk == \/ Loose /\ phase = "run"
             \/ \A r \in DOMAIN disk : Holds(r, disk[r]) \/ Gone(disk[r].localMtime)

\* what an upload or an overwrite has sent
Sent(it, p) ==
  p.at = "done" /\ it.op \in {"upload", "overwrite"} =>
    \/ p.id \in unseen
    \/ p.id \in DOMAIN remote /\ remote[p.id].data = it.mtime
    \/ Gone(it.mtime)

\* the same after the step
SentNext(it, p) ==
  p.at = "done" /\ it.op \in {"upload", "overwrite"} =>
    \/ p.id \in unseen'
    \/ p.id \in DOMAIN remote' /\ remote'[p.id].data = it.mtime
    \/ GoneNext(it.mtime)

\* the results the collector has not seen
HoldsResults == \A it \in DOMAIN work : Sent(it, work[it])

\* What entries and results say of the remote files is so.
Held == Accountable => HoldsMemory /\ HoldsDisk /\ HoldsResults

\* the step does nothing to the file, or another client does
LeavesContent(i) ==
  \/ i \in unseen'
  \/ i \notin unseen /\ (i \in DOMAIN remote => i \in DOMAIN remote' /\ remote'[i].data = remote[i].data)

\* A file that is left alone still has its entry's content.
LEMMA HoldsKept ==
  ASSUME NEW r, NEW e, Holds(r, e), LeavesContent(e.remoteID), r \in adopted => r \in adopted'
  PROVE  HoldsNext(r, e)
  BY DEF Holds, HoldsNext, LeavesContent

\* Calls but those that replace or remove the file spare it.
LEMMA CallLeavesContent ==
  ASSUME Types, Known, NEW it \in DOMAIN work, NEW p, Comes(it, p), NEW i, i < nextId,
         ~Replaces(it, p) \/ i # work[it].id, ~Removes(it, p) \/ i # work[it].id
  PROVE  LeavesContent(i)
<1>0. remote \in [DOMAIN remote -> RemoteFile] /\ nextId \in Nat
  BY DEF Types, TreesTyped
<1>1. CASE SameRemote
  BY <1>1 DEF SameRemote, LeavesContent
<1>2. CASE Makes(it, p)
  <2>1. unseen' = unseen /\ remote' = Set(remote, nextId, FromLocal(it, it.rel, 1))
    BY <1>2 DEF Makes
  <2>2. i \in DOMAIN remote => i \in DOMAIN remote' /\ remote'[i] = remote[i]
    BY <1>0, <2>1 DEF Set
  <2> QED
    BY <2>1, <2>2 DEF LeavesContent
<1>3. CASE Replaces(it, p)
  <2>1. unseen' = unseen \ {work[it].id} /\ DOMAIN remote' = DOMAIN remote
        /\ \A j \in DOMAIN remote \ {work[it].id} : remote'[j] = remote[j]
    BY <1>3 DEF Replaces
  <2> QED
    BY <1>3, <2>1 DEF LeavesContent
<1>4. CASE Removes(it, p)
  <2>1. unseen' = unseen /\ DOMAIN remote' = DOMAIN remote \ {work[it].id}
        /\ \A j \in DOMAIN remote \ {work[it].id} : remote'[j] = remote[j]
    BY <1>4 DEF Removes, Delete
  <2> QED
    BY <1>4, <2>1 DEF LeavesContent
<1>5. CASE Relocates(it, p)
  <2>1. unseen' = unseen /\ DOMAIN remote' = DOMAIN remote
        /\ \E path : remote' = [remote EXCEPT ![work[it].id].path = path]
    BY <1>5 DEF Relocates
  <2>2. i \in DOMAIN remote => remote'[i].data = remote[i].data
    BY <1>0, <2>1 DEF RemoteFile
  <2> QED
    BY <2>1, <2>2 DEF LeavesContent
<1> QED
  BY <1>1, <1>2, <1>3, <1>4, <1>5 DEF Comes, Fails, Meets, Finds, Misses, Looks, LooksAgain

\* Edits on either side, and the steps that only hand items on, spare every file.
LEMMA OthersLeaveContent ==
  ASSUME Types, Known, Other, NEW i, i < nextId
  PROVE  LeavesContent(i)
<1>0. remote \in [DOMAIN remote -> RemoteFile] /\ nextId \in Nat
  BY DEF Types, TreesTyped
<1>1. PICK j :
         /\ unseen' = unseen \cup {j}
         /\ \/ /\ j = nextId /\ nextId' = nextId + 1
               /\ \E r \in Rels, new \in RemoteFile :
                    At(r) = {} /\ new.path = r /\ remote' = Set(remote, nextId, new)
            \/ /\ j \in DOMAIN remote /\ nextId' = nextId
               /\ \E s \in Nat : remote' = [remote EXCEPT ![j].size = s, ![j].mtime = @ + 1,
                                                          ![j].data = 0]
            \/ j \in DOMAIN remote /\ nextId' = nextId /\ remote' = Delete(remote, j)
  BY OtherFacts
<1>2. CASE i = j
  BY <1>1, <1>2 DEF LeavesContent
<1>3. CASE i # j
  <2>1. i \in DOMAIN remote => i \in DOMAIN remote' /\ remote'[i] = remote[i]
    <3>1. ASSUME NEW new, remote' = Set(remote, j, new)
          PROVE  i \in DOMAIN remote => i \in DOMAIN remote' /\ remote'[i] = remote[i]
      BY <1>3, <3>1 DEF Set
    <3>2. ASSUME NEW s, remote' = [remote EXCEPT ![j].size = s, ![j].mtime = @ + 1, ![j].data = 0]
          PROVE  i \in DOMAIN remote => i \in DOMAIN remote' /\ remote'[i] = remote[i]
      BY <1>3, <3>2
    <3>3. ASSUME remote' = Delete(remote, j)
          PROVE  i \in DOMAIN remote => i \in DOMAIN remote' /\ remote'[i] = remote[i]
      BY <1>3, <3>3 DEF Delete
    <3> QED
      BY <1>1, <3>1, <3>2, <3>3
  <2> QED
    BY <1>1, <1>3, <2>1 DEF LeavesContent
<1> QED
  BY <1>2, <1>3

\* So do steps that leave the remote folder alone.
LEMMA QuietLeavesContent ==
  ASSUME UNCHANGED <<remote, unseen>>, NEW i
  PROVE  LeavesContent(i)
  BY DEF LeavesContent

\* Steps that leave manifests and results as they are, and spare every file in them.
LEMMA HeldRoutine ==
  ASSUME Types, Known, Dated, Held, [Next]_vars, Accountable',
         UNCHANGED <<m, disk, adopted>>, phase = "run" => phase' = "run",
         \A i : i < nextId => LeavesContent(i),
         \A it \in DOMAIN work : work[it].at = "done" => it \in DOMAIN work' /\ work'[it] = work[it],
         \A it \in DOMAIN work' : work'[it].at = "done" => it \in DOMAIN work /\ work'[it] = work[it]
  PROVE  HoldsMemory' /\ HoldsDisk' /\ HoldsResults'
<1>0. HoldsMemory /\ HoldsDisk /\ HoldsResults
  BY AccountableBefore DEF Held
<1>1. Table(m, ManifestEntry) /\ Table(disk, ManifestEntry)
      /\ \A it \in DOMAIN work : it \in Item /\ it \in InHand
  BY DEF Types, TreesTyped, RunTyped, InHand
<1>2. /\ \A r \in DOMAIN m : m[r].localMtime \in Nat /\ m[r].localMtime <= clock /\ m[r].remoteID < nextId
      /\ \A r \in DOMAIN disk : disk[r].localMtime \in Nat /\ disk[r].localMtime <= clock
                                /\ disk[r].remoteID < nextId
      /\ \A it \in DOMAIN work : /\ it.op # "delete" => it.mtime \in Nat /\ it.mtime <= clock
                                 /\ work[it].id < nextId
  BY <1>1 DEF Table, ManifestEntry, Dated, Known, Item
<1>3. \A v \in Nat : v <= clock /\ Gone(v) => GoneNext(v)
  BY GoneKept DEF Gone, GoneNext
<1>4. \A r : Awaited(r) => AwaitedNext(r)
  BY DEF Awaited, AwaitedNext
<1>5. HoldsMemory'
  <2>1. \A r \in DOMAIN m : HoldsNext(r, m[r]) \/ GoneNext(m[r].localMtime) \/ AwaitedNext(r)
    <3> SUFFICES ASSUME NEW r \in DOMAIN m
                 PROVE HoldsNext(r, m[r]) \/ GoneNext(m[r].localMtime) \/ AwaitedNext(r)
      OBVIOUS
    <3>1. Holds(r, m[r]) \/ Gone(m[r].localMtime) \/ Awaited(r)
      BY <1>0 DEF HoldsMemory
    <3>2. Holds(r, m[r]) => HoldsNext(r, m[r])
      BY <1>2, HoldsKept
    <3> QED
      BY <1>2, <1>3, <1>4, <3>1, <3>2
  <2> QED
    BY <2>1 DEF HoldsMemory, Holds, HoldsNext, Gone, GoneNext, Awaited, AwaitedNext
<1>6. HoldsDisk'
  <2>0. Loose' = Loose
    BY SameWorld, NoMovesStays DEF Loose, MayRename
  <2>1. CASE Loose /\ phase = "run"
    BY <2>0, <2>1 DEF HoldsDisk
  <2>2. CASE \A r \in DOMAIN disk : Holds(r, disk[r]) \/ Gone(disk[r].localMtime)
    <3>1. \A r \in DOMAIN disk : HoldsNext(r, disk[r]) \/ GoneNext(disk[r].localMtime)
      <4> SUFFICES ASSUME NEW r \in DOMAIN disk
                   PROVE HoldsNext(r, disk[r]) \/ GoneNext(disk[r].localMtime)
        OBVIOUS
      <4>1. Holds(r, disk[r]) \/ Gone(disk[r].localMtime)
        BY <2>2
      <4>2. Holds(r, disk[r]) => HoldsNext(r, disk[r])
        BY <1>2, HoldsKept
      <4> QED
        BY <1>2, <1>3, <4>1, <4>2
    <3> QED
      BY <3>1 DEF HoldsDisk, Holds, HoldsNext, Gone, GoneNext
  <2> QED
    BY <1>0, <2>1, <2>2 DEF HoldsDisk
<1>7. HoldsResults'
  <2> SUFFICES ASSUME NEW it \in DOMAIN work', work'[it].at = "done", it.op \in {"upload", "overwrite"}
               PROVE  SentNext(it, work'[it])
    BY DEF HoldsResults, Sent, SentNext, Gone, GoneNext
  <2>1. it \in DOMAIN work /\ work'[it] = work[it] /\ Sent(it, work[it])
    BY <1>0 DEF HoldsResults
  <2>2. it.mtime \in Nat /\ it.mtime <= clock /\ LeavesContent(work[it].id)
    BY <1>2, <2>1
  <2> QED
    BY <1>3, <2>1, <2>2 DEF Sent, SentNext, LeavesContent
<1> QED
  BY <1>5, <1>6, <1>7

\* A failing call that has done something is a fault.
LEMMA RemoveFault ==
  ASSUME Types, NEW it \in DOMAIN work, Call(it), NEW p, With(it, p), Removes(it, p)
  PROVE  p.at = "done" \/ faults' = faults + 1
<1> DEFINE w == work[it]
<1>1. w \in Progress /\ work' = [work EXCEPT ![it] = p] /\ work'[it] = p
  BY WithFacts DEF Types, RunTyped, With
<1>2. InCall(it, "remove") /\ w.id \in DOMAIN remote
  BY DEF Removes, InCall
<1>3. Remove(it)
  BY <1>2 DEF Call, Create, Find, Replace, Remove, MoveStat, MoveCall, RenameCall, MoveRestat,
              InCall
<1>4. Faulty \/ Done(it, w.id, 0)
  BY <1>2, <1>3 DEF Remove
<1>5. CASE Faulty
  BY <1>5 DEF Faulty
<1>6. CASE Done(it, w.id, 0)
  <2>1. work'[it].at = "done"
    BY <1>1, <1>6 DEF Done, Progress, Types, RunTyped
  <2> QED
    BY <2>1, <1>1
<1> QED
  BY <1>4, <1>5, <1>6

\* Where a version can be at another path nothing has failed.
LEMMA LooseFaultless ==
  ASSUME Types, [Next]_vars, Accountable', CalmRenames', Loose
  PROVE  Undisturbed' /\ Loose'
  BY AccountableBefore, SameWorld DEF Loose, CalmRenames, MayRename

\* The file a call replaces or removes is of the item's own path.
LEMMA TargetsPath ==
  ASSUME Types, Planning, Placed, NEW it \in DOMAIN work, work[it].at \in {"replace", "remove"},
         work[it].id \in DOMAIN remote
  PROVE  /\ it.op \in {"upload", "overwrite", "delete"}
         /\ \A r \in DOMAIN m : m[r].remoteID = work[it].id =>
              r = it.rel /\ it.op \in {"overwrite", "delete"}
         /\ NoMoves /\ phase = "run" => \A r \in DOMAIN disk : disk[r].remoteID = work[it].id => r = it.rel
         /\ \A other \in DOMAIN work :
              other # it /\ work[other].at = "done" /\ other.op \in {"upload", "overwrite"} =>
                work[other].id # work[it].id
<1>1. Fits(it, work[it]) /\ it \in Item /\ Tied(it, m)
  BY DEF Types, RunTyped, Phases, Planning, InHand
<1>2. /\ it.op \in {"upload", "overwrite", "delete"}
      /\ it.op = "upload" => work[it].at = "replace"
      /\ it.op # "upload" => work[it].id = it.remoteID /\ it.rel \in DOMAIN m
                             /\ it.srcRel = it.rel /\ m[it.rel].remoteID = it.remoteID
  BY <1>1 DEF Fits, Item, Tied
<1>3. ASSUME NEW r \in DOMAIN m, m[r].remoteID = work[it].id
      PROVE  r = it.rel /\ it.op \in {"overwrite", "delete"}
  <2>1. it.op # "upload"
    BY <1>2, <1>3 DEF Placed, ClaimsPlaced, Claims
  <2> QED
    BY <1>2, <1>3, <2>1 DEF Placed, OwnEntries, OwnFiles
<1>4. ASSUME NoMoves, phase = "run", NEW r \in DOMAIN disk, disk[r].remoteID = work[it].id
      PROVE  r = it.rel
  <2>1. remote[work[it].id].path = r
    BY <1>4 DEF Placed, EntriesPlaced, AtHome, Lies
  <2>2. CASE it.op = "upload"
    BY <1>2, <2>1, <2>2 DEF Placed, ClaimsPlaced, Claims, Lies
  <2>3. CASE it.op # "upload"
    <3>1. ~\E jt \in DOMAIN work : jt.op = "move" /\ jt.srcRel = it.rel
      BY <1>2, <2>3 DEF Planning, OneEach, InHand, Around
    <3> QED
      BY <1>2, <2>1, <2>3, <3>1 DEF Placed, EntriesPlaced, Lies
  <2> QED
    BY <2>2, <2>3
<1>5. ASSUME NEW other \in DOMAIN work, other # it, work[other].at = "done",
             other.op \in {"upload", "overwrite"}, work[other].id = work[it].id
      PROVE  FALSE
  <2>1. Fits(other, work[other]) /\ other \in Item /\ Tied(other, m)
    BY DEF Types, RunTyped, Phases, Planning, InHand
  <2>2. CASE other.op = "overwrite"
    <3>1. work[other].id = other.remoteID /\ other.rel \in DOMAIN m /\ m[other.rel].remoteID = other.remoteID
      BY <2>1, <2>2 DEF Fits, Tied
    <3>2. other.rel = it.rel
      BY <1>3, <1>5, <3>1
    <3> QED
      BY <1>5, <3>2 DEF Planning, OneEach, InHand, Around
  <2>3. CASE other.op = "upload"
    <3>1. CASE it.op = "upload"
      BY <1>2, <1>5, <2>3, <3>1 DEF Placed, ClaimsPlaced, Claims
    <3>2. CASE it.op # "upload"
      BY <1>2, <1>5, <2>3, <3>2 DEF Placed, ClaimsPlaced, Claims
    <3> QED
      BY <3>1, <3>2
  <2> QED
    BY <1>5, <2>2, <2>3
<1> QED
  BY <1>2, <1>3, <1>4, <1>5

\* What an upload or an overwrite has sent is the planned version, unless that is gone.
LEMMA SentHolds ==
  ASSUME Types, Dated, NEW it \in DOMAIN work, it.op \in {"upload", "overwrite"},
         Beside, NEW p, Comes(it, p), p.at = "done"
  PROVE  SentNext(it, p)
<1> DEFINE w == work[it]
<1>1. w \in Progress /\ it \in Item /\ it \in InHand /\ Fits(it, w)
      /\ remote \in [DOMAIN remote -> RemoteFile]
  BY DEF Types, TreesTyped, RunTyped, Phases, InHand
<1>2. local' = local /\ OnlyAt(it.mtime, it.rel)
  BY <1>1 DEF Beside, Dated
<1>3. local[it.rel].mtime = it.mtime \/ GoneNext(it.mtime)
  BY <1>2 DEF OnlyAt, GoneNext
<1>4. w.at \in {"create", "find", "replace", "done", "failed"}
  BY <1>1 DEF Fits
<1>5. CASE Fails(it, p)
  BY <1>1, <1>5 DEF Fails, Progress
<1>6. CASE Meets(it, p)
  BY <1>1, <1>6 DEF Meets, Progress
<1>7. CASE Finds(it, p)
  <2> PICK i : p = [w EXCEPT !.at = "replace", !.id = i]
    BY <1>7 DEF Finds
  <2> QED
    BY <1>1 DEF Progress
<1>8. CASE Makes(it, p)
  <2>1. p = [w EXCEPT !.at = "done", !.id = nextId, !.mtime = 1]
    <3>1. p # [w EXCEPT !.at = "failed"] /\ p # [w EXCEPT !.at = "find"]
      BY <1>1 DEF Progress
    <3> QED
      BY <1>8, <3>1 DEF Makes
  <2>2. p.id = nextId
    BY <1>1, <2>1 DEF Progress
  <2>3. remote' = Set(remote, nextId, FromLocal(it, it.rel, 1))
    BY <1>8 DEF Makes
  <2>4. nextId \in DOMAIN remote' /\ remote'[nextId] = FromLocal(it, it.rel, 1)
    BY <2>3 DEF Set
  <2>5. remote'[nextId].data = local[it.rel].mtime
    BY <2>4 DEF FromLocal
  <2> QED
    BY <1>3, <2>2, <2>4, <2>5 DEF SentNext
<1>9. CASE Replaces(it, p)
  <2>1. p = [w EXCEPT !.at = "done", !.mtime = remote[w.id].mtime + 1]
    <3>1. p # [w EXCEPT !.at = "failed"]
      BY <1>1 DEF Progress
    <3> QED
      BY <1>9, <3>1 DEF Replaces
  <2>2. p.id = w.id
    BY <1>1, <2>1 DEF Progress
  <2>3. /\ w.id \in DOMAIN remote' /\ w.id \in DOMAIN remote
        /\ remote'[w.id] = [path |-> remote[w.id].path, size |-> it.size,
                            mtime |-> remote[w.id].mtime + 1, data |-> local[it.rel].mtime]
    BY <1>9 DEF Replaces
  <2>4. remote'[w.id].data = local[it.rel].mtime
    BY <2>3
  <2> QED
    BY <1>3, <2>2, <2>3, <2>4 DEF SentNext
<1> QED
  BY <1>4, <1>5, <1>6, <1>7, <1>8, <1>9
     DEF Comes, Misses, Looks, LooksAgain, Removes, Relocates

\* What a call that changes a file makes of the entries that are of it.
LEMMA TargetHeld ==
  ASSUME Types, Dated, Surpassing, NEW it \in DOMAIN work, Beside, NEW p, Comes(it, p),
         Replaces(it, p) \/ Removes(it, p), ~MayRename,
         NEW f \in {m, disk}, it.rel \in DOMAIN f, it.op \in {"overwrite", "delete"},
         f[it.rel].remoteID = work[it].id
  PROVE  HoldsNext(it.rel, f[it.rel]) \/ GoneNext(f[it.rel].localMtime)
<1> DEFINE w == work[it]
           v == f[it.rel].localMtime
<1>1. w \in Progress /\ it \in Item /\ it \in InHand /\ Fits(it, w) /\ local' = local
  BY DEF Types, RunTyped, Phases, InHand, Beside
<1>2. Gone(v) \/ (it.op = "overwrite" /\ v = it.mtime)
  BY <1>1 DEF Surpassing, Surpassed
<1>3. CASE Gone(v)
  BY <1>1, <1>3 DEF Gone, GoneNext
<1>4. CASE it.op = "overwrite" /\ v = it.mtime
  <2>1. OnlyAt(it.mtime, it.rel)
    BY <1>1, <1>4 DEF Dated
  <2>2. local[it.rel].mtime = v \/ GoneNext(v)
    BY <1>1, <1>4, <2>1 DEF OnlyAt, GoneNext
  <2>3. Replaces(it, p)
    BY <1>1, <1>4 DEF Removes, Fits
  <2>4. /\ w.id \in DOMAIN remote' /\ w.id \in DOMAIN remote
        /\ remote'[w.id] = [path |-> remote[w.id].path, size |-> it.size,
                            mtime |-> remote[w.id].mtime + 1, data |-> local[it.rel].mtime]
    BY <2>3 DEF Replaces
  <2>5. remote'[w.id].data = local[it.rel].mtime
    BY <2>4
  <2> QED
    BY <2>2, <2>4, <2>5 DEF HoldsNext
<1> QED
  BY <1>2, <1>3, <1>4

\* A call keeps what manifests and results say.
LEMMA HeldCall ==
  ASSUME Types, Known, Planning, Placed, Saved, Dated, Surpassing, Held, [Next]_vars, Accountable',
         CalmRenames', NEW it \in DOMAIN work, Call(it)
  PROVE  HoldsMemory' /\ HoldsDisk' /\ HoldsResults'
<1>0. HoldsMemory /\ HoldsDisk /\ HoldsResults /\ Accountable
  BY AccountableBefore DEF Held
<1>1. PICK p : With(it, p) /\ Comes(it, p)
  BY Outcomes
<1>2. Beside /\ (faults' = faults \/ faults' = faults + 1) /\ {faults, crashes} \subseteq Nat
  BY Outcomes DEF Types, RunTyped
<1>3. /\ DOMAIN work' = DOMAIN work /\ work'[it] = p
      /\ \A other \in DOMAIN work \ {it} : work'[other] = work[other]
  BY <1>1, WithFacts
<1>4. UNCHANGED <<m, disk, adopted, phase, local, clock>> /\ phase = "run"
  BY <1>2 DEF Beside, Types, RunTyped, Phases
<1>5. Table(m, ManifestEntry) /\ Table(disk, ManifestEntry)
      /\ \A jt \in DOMAIN work : jt \in Item /\ jt \in InHand
  BY DEF Types, TreesTyped, RunTyped, InHand
<1>6. /\ \A r \in DOMAIN m : m[r].remoteID < nextId
      /\ \A r \in DOMAIN disk : disk[r].remoteID < nextId
      /\ \A jt \in DOMAIN work : work[jt].id < nextId
  BY <1>5 DEF Known
<1>7. \A v : Gone(v) => GoneNext(v)
  BY <1>4 DEF Gone, GoneNext
<1>8. work[it].at # "done"
  BY NotDone
<1>9. \A r : Awaited(r) => AwaitedNext(r)
  BY <1>3, <1>8 DEF Awaited, AwaitedNext
<1> DEFINE hit == Replaces(it, p) \/ Removes(it, p)
           id  == work[it].id
<1>10. hit => id \in DOMAIN remote /\ work[it].at \in {"replace", "remove"}
  BY DEF Replaces, Removes
<1>11. \A i : i < nextId /\ ~(hit /\ i = id) => LeavesContent(i)
  BY <1>1, CallLeavesContent
<1>12. hit => p.at = "done" \/ faults' = faults + 1
  BY <1>1, RemoveFault, ReplaceFault
<1>13. faults' = faults + 1 => ~Loose
  BY <1>2, LooseFaultless DEF Undisturbed
<1>14. HoldsMemory'
  <2>1. \A r \in DOMAIN m : HoldsNext(r, m[r]) \/ GoneNext(m[r].localMtime) \/ AwaitedNext(r)
    <3> SUFFICES ASSUME NEW r \in DOMAIN m
                 PROVE HoldsNext(r, m[r]) \/ GoneNext(m[r].localMtime) \/ AwaitedNext(r)
      OBVIOUS
    <3>1. Holds(r, m[r]) \/ Gone(m[r].localMtime) \/ Awaited(r)
      BY <1>0 DEF HoldsMemory
    <3>2. CASE hit /\ m[r].remoteID = id
      <4>1. r = it.rel /\ it.op \in {"overwrite", "delete"}
        BY <1>10, <3>2, TargetsPath
      <4>2. CASE p.at = "done"
        BY <1>3, <4>1, <4>2 DEF AwaitedNext
      <4>3. CASE p.at # "done"
        <5>1. ~MayRename
          BY <1>12, <1>13, <3>2, <4>3 DEF Loose
        <5> QED
          BY <1>1, <1>2, <3>2, <4>1, <5>1, TargetHeld
      <4> QED
        BY <4>2, <4>3
    <3>3. CASE ~(hit /\ m[r].remoteID = id)
      <4>1. LeavesContent(m[r].remoteID)
        BY <1>6, <1>11, <3>3
      <4>2. Holds(r, m[r]) => HoldsNext(r, m[r])
        BY <1>4, <4>1, HoldsKept
      <4> QED
        BY <1>7, <1>9, <3>1, <4>2
    <3> QED
      BY <3>2, <3>3
  <2> QED
    BY <1>4, <2>1 DEF HoldsMemory, Holds, HoldsNext, Gone, GoneNext, Awaited, AwaitedNext
<1>15. HoldsDisk'
  <2>0. Loose' = Loose
    BY SameWorld, NoMovesStays DEF Loose, MayRename
  <2>1. CASE Loose
    BY <1>4, <2>0, <2>1 DEF HoldsDisk
  <2>2. CASE ~Loose
    <3>1. \A r \in DOMAIN disk : HoldsNext(r, disk[r]) \/ GoneNext(disk[r].localMtime)
      <4> SUFFICES ASSUME NEW r \in DOMAIN disk
                   PROVE HoldsNext(r, disk[r]) \/ GoneNext(disk[r].localMtime)
        OBVIOUS
      <4>1. Holds(r, disk[r]) \/ Gone(disk[r].localMtime)
        BY <1>0, <2>2 DEF HoldsDisk
      <4>2. CASE hit /\ disk[r].remoteID = id
        <5>1. r = it.rel /\ it.op \in {"upload", "overwrite", "delete"}
          BY <1>4, <1>10, <2>2, <4>2, TargetsPath DEF Loose
        <5>2. it.op # "upload"
          BY <1>0, <1>5, <5>1 DEF Saved, OnDisk
        <5> QED
          BY <1>1, <1>2, <2>2, <4>2, <5>1, <5>2, TargetHeld DEF Loose
      <4>3. CASE ~(hit /\ disk[r].remoteID = id)
        <5>1. LeavesContent(disk[r].remoteID)
          BY <1>6, <1>11, <4>3
        <5>2. Holds(r, disk[r]) => HoldsNext(r, disk[r])
          BY <1>4, <5>1, HoldsKept
        <5> QED
          BY <1>7, <4>1, <5>2
      <4> QED
        BY <4>2, <4>3
    <3> QED
      BY <1>4, <3>1 DEF HoldsDisk, Holds, HoldsNext, Gone, GoneNext
  <2> QED
    BY <2>1, <2>2
<1>16. HoldsResults'
  <2> SUFFICES ASSUME NEW jt \in DOMAIN work', work'[jt].at = "done", jt.op \in {"upload", "overwrite"}
               PROVE  SentNext(jt, work'[jt])
    BY DEF HoldsResults, Sent, SentNext, Gone, GoneNext
  <2>1. CASE jt = it
    BY <1>1, <1>2, <1>3, <2>1, SentHolds
  <2>2. CASE jt # it
    <3>1. jt \in DOMAIN work /\ work'[jt] = work[jt] /\ Sent(jt, work[jt])
      BY <1>0, <1>3, <2>2 DEF HoldsResults
    <3>2. ~(hit /\ work[jt].id = id)
      BY <1>10, <2>2, <3>1, TargetsPath
    <3>3. LeavesContent(work[jt].id)
      BY <1>6, <1>11, <3>1, <3>2
    <3> QED
      BY <1>7, <3>1, <3>3 DEF Sent, SentNext, LeavesContent
  <2> QED
    BY <2>1, <2>2
<1> QED
  BY <1>14, <1>15, <1>16

\* A run that begins adopts what its index shows.
LEMMA HeldBegin ==
  ASSUME Types, Known, Placed, OneFilePerPath, Held, [Next]_vars, Accountable', NEW o \in Options, Begin(o)
  PROVE  HoldsMemory' /\ HoldsDisk' /\ HoldsResults'
<1>0. HoldsMemory /\ HoldsDisk /\ HoldsResults /\ Accountable
  BY AccountableBefore DEF Held
<1>1. /\ phase = "idle" /\ phase' = "drift" /\ m' = Base(o) /\ adopted' = adopted \cup Seeded(o)
      /\ unseen' = unseen \ {Index[r].id : r \in Seeded(o)}
      /\ UNCHANGED <<local, remote, disk, work>> /\ DOMAIN work = {} /\ AtHome(disk)
  BY BeginFacts DEF Types, Phases, Placed, EntriesPlaced
<1>2. Seeded(o) \subseteq DOMAIN Index
  BY BaseFacts
<1>3. \A v : Gone(v) => GoneNext(v)
  BY <1>1 DEF Gone, GoneNext
<1>4. ASSUME NEW r \in DOMAIN disk
      PROVE  HoldsNext(r, disk[r]) \/ GoneNext(disk[r].localMtime)
  <2>1. Holds(r, disk[r]) \/ Gone(disk[r].localMtime)
    BY <1>0, <1>1 DEF HoldsDisk
  <2>2. CASE Holds(r, disk[r])
    <3>1. CASE \E q \in Seeded(o) : disk[r].remoteID = Index[q].id
      <4>1. PICK q \in Seeded(o) : disk[r].remoteID = Index[q].id
        BY <3>1
      <4>2. disk[r].remoteID \in DOMAIN remote /\ remote[disk[r].remoteID].path = q
        BY <1>2, <4>1, IndexFacts
      <4>3. q = r
        BY <1>1, <4>2 DEF AtHome, Lies
      <4> QED
        BY <1>1, <4>2, <4>3 DEF HoldsNext
    <3>2. CASE ~\E q \in Seeded(o) : disk[r].remoteID = Index[q].id
      BY <1>1, <2>2, <3>2 DEF Holds, HoldsNext
    <3> QED
      BY <3>1, <3>2
  <2> QED
    BY <1>3, <2>1, <2>2
<1>5. ASSUME NEW r \in DOMAIN m'
      PROVE  HoldsNext(r, m'[r]) \/ GoneNext(m'[r].localMtime)
  <2>1. CASE r \in Seeded(o)
    <3>1. m'[r] = [size |-> Index[r].size, localMtime |-> local[r].mtime,
                   remoteID |-> Index[r].id, remoteMtime |-> Index[r].mtime]
      BY <1>1, <2>1, BaseFacts
    <3>2. m'[r].remoteID = Index[r].id
      BY <3>1
    <3>3. m'[r].remoteID \in DOMAIN remote'
      BY <1>1, <1>2, <2>1, <3>2, IndexFacts
    <3> QED
      BY <1>1, <2>1, <3>3 DEF HoldsNext
  <2>2. CASE r \notin Seeded(o)
    <3>1. r \in DOMAIN disk /\ m'[r] = disk[r]
      BY <1>1, <2>2, BaseFacts
    <3> QED
      BY <1>4, <3>1
  <2> QED
    BY <2>1, <2>2
<1>6. HoldsMemory'
  BY <1>5 DEF HoldsMemory, Holds, HoldsNext, Gone, GoneNext
<1>7. HoldsDisk'
  BY <1>1, <1>4 DEF HoldsDisk, Holds, HoldsNext, Gone, GoneNext
<1>8. HoldsResults'
  BY <1>1 DEF HoldsResults
<1> QED
  BY <1>6, <1>7, <1>8

\* A result that waits for the collector vouches for the entry it replaces.
LEMMA AwaitedHolds ==
  ASSUME Types, Planning, Surpassing, HoldsResults, ~MayRename, NEW f \in {m, disk},
         NEW it \in DOMAIN work, it.op \in {"overwrite", "delete"}, work[it].at = "done",
         it.rel \in DOMAIN f, f[it.rel].remoteID = work[it].id
  PROVE  \/ f[it.rel].remoteID \in unseen
         \/ /\ f[it.rel].remoteID \in DOMAIN remote
            /\ remote[f[it.rel].remoteID].data = f[it.rel].localMtime
         \/ Gone(f[it.rel].localMtime)
<1> DEFINE v == f[it.rel].localMtime
<1>1. Gone(v) \/ (it.op = "overwrite" /\ v = it.mtime)
  BY DEF Surpassing, Surpassed, InHand
<1>2. it.op = "overwrite" => Sent(it, work[it])
  BY DEF HoldsResults
<1> QED
  BY <1>1, <1>2 DEF Sent

\* A result that is recorded keeps it.
LEMMA HeldCollect ==
  ASSUME Types, Planning, Saved, Surpassing, Held, Known, [Next]_vars, Accountable', CalmRenames',
         NEW it \in DOMAIN work, Collect(it)
  PROVE  HoldsMemory' /\ HoldsDisk' /\ HoldsResults'
<1>0. HoldsMemory /\ HoldsDisk /\ HoldsResults /\ Accountable
  BY AccountableBefore DEF Held
<1>1. /\ work[it].at = "done" /\ phase = "run" /\ phase' = "run" /\ m' = Recorded(it)
      /\ adopted' = StillAdopted(it) /\ (disk' = m' \/ disk' = disk)
      /\ UNCHANGED <<setting, local, remote, unseen>> /\ Drop(it)
  BY CollectFacts
<1>2. DOMAIN work' = DOMAIN work \ {it} /\ \A other \in DOMAIN work \ {it} : work'[other] = work[other]
  BY <1>1, DropFacts
<1>3. it \in Item /\ it \in InHand /\ Tied(it, m) /\ Fits(it, work[it]) /\ OnDisk(it)
  BY <1>0 DEF Types, RunTyped, Phases, Planning, InHand, Saved
<1>4. \A r : r \in adopted /\ r \notin Around(it) => r \in adopted'
  BY <1>1 DEF StillAdopted, Around
<1>5. \A v : GoneNext(v) <=> Gone(v)
  BY <1>1 DEF Gone, GoneNext
<1>6. ASSUME NEW r, NEW e, Holds(r, e), r \notin Around(it)
      PROVE  HoldsNext(r, e)
  BY <1>1, <1>4, <1>6 DEF Holds, HoldsNext
<1>7. ASSUME NEW r, Awaited(r), r \notin Around(it)
      PROVE  AwaitedNext(r)
  <2>1. PICK jt \in DOMAIN work : jt.op \in {"overwrite", "delete"} /\ jt.rel = r /\ work[jt].at = "done"
    BY <1>7 DEF Awaited
  <2>2. jt # it
    BY <1>7, <2>1 DEF Around
  <2> QED
    BY <1>2, <2>1, <2>2 DEF AwaitedNext
<1>8. \A r \in DOMAIN m' : \/ r \in DOMAIN m /\ m'[r] = m[r] /\ r \notin Around(it)
                           \/ /\ it.op # "delete" /\ r = it.rel
                              /\ m'[r].localMtime = it.mtime /\ m'[r].remoteID = work[it].id
  <2> SUFFICES ASSUME NEW r \in DOMAIN m'
               PROVE  \/ r \in DOMAIN m /\ m'[r] = m[r] /\ r \notin Around(it)
                      \/ /\ it.op # "delete" /\ r = it.rel
                         /\ m'[r].localMtime = it.mtime /\ m'[r].remoteID = work[it].id
    OBVIOUS
  <2>1. CASE r \in DOMAIN m /\ m'[r] = m[r] /\ (it.op = "delete" \/ r # it.rel)
    <3>1. it.op = "delete" => r # it.rel
      BY <1>1, RecordedFacts DEF Delete
    <3>2. it.op = "move" => r # it.srcRel
      <4>1. it.op = "move" => it.srcRel # it.rel
        BY <1>3 DEF Tied
      <4> QED
        BY <1>1, <4>1, <2>1, RecordedFacts
    <3> QED
      BY <1>3, <2>1, <3>1, <3>2 DEF Around, Tied
  <2>2. CASE /\ it.op # "delete" /\ r = it.rel
             /\ m'[r] = [size |-> it.size, localMtime |-> it.mtime,
                         remoteID |-> work[it].id, remoteMtime |-> work[it].mtime]
    BY <2>2
  <2> QED
    BY <1>1, <2>1, <2>2, Entries
<1>9. HoldsMemory'
  <2>1. ASSUME NEW r \in DOMAIN m'
        PROVE  HoldsNext(r, m'[r]) \/ GoneNext(m'[r].localMtime) \/ AwaitedNext(r)
    <3>1. CASE r \in DOMAIN m /\ m'[r] = m[r] /\ r \notin Around(it)
      BY <1>0, <1>5, <1>6, <1>7, <3>1 DEF HoldsMemory
    <3>2. CASE /\ it.op # "delete" /\ r = it.rel
               /\ m'[r].localMtime = it.mtime /\ m'[r].remoteID = work[it].id
      <4>1. CASE it.op \in {"upload", "overwrite"}
        <5>1. Sent(it, work[it])
          BY <1>0 DEF HoldsResults
        <5> QED
          BY <1>1, <1>5, <3>2, <4>1, <5>1 DEF Sent, HoldsNext
      <4>2. CASE it.op = "move"
        <5> DEFINE src == it.srcRel
        <5>1. /\ src \in DOMAIN m /\ m[src].remoteID = work[it].id /\ m[src].localMtime = it.mtime
          BY <1>3, <4>2 DEF Tied, Fits
        <5>2. ~Awaited(src)
          <6> SUFFICES ASSUME NEW jt \in DOMAIN work, jt.op \in {"overwrite", "delete"}, jt.rel = src
                       PROVE FALSE
            BY DEF Awaited
          <6>1. jt = it
            BY DEF Planning, OneEach, InHand, Around
          <6> QED
            BY <4>2, <6>1
        <5>3. Holds(src, m[src]) \/ Gone(it.mtime)
          BY <1>0, <5>1, <5>2 DEF HoldsMemory
        <5>4. src \in adopted => r \in adopted'
          BY <1>1, <3>2, <4>2 DEF StillAdopted
        <5> QED
          BY <1>1, <1>5, <3>2, <5>1, <5>3, <5>4 DEF Holds, HoldsNext
      <4> QED
        BY <1>3, <3>2, <4>1, <4>2 DEF Item
    <3> QED
      BY <1>8, <3>1, <3>2
  <2> QED
    BY <2>1 DEF HoldsMemory, Holds, HoldsNext, Gone, GoneNext, Awaited, AwaitedNext
<1>10. HoldsDisk'
  <2>0. Loose' = Loose
    BY SameWorld, NoMovesStays DEF Loose, MayRename
  <2>1. CASE Loose
    BY <1>1, <2>0, <2>1 DEF HoldsDisk
  <2>2. CASE ~Loose
    <3>1. it.op # "move" /\ ~MayRename
      BY <1>1, <1>3, <2>2, NoMoveItems DEF Loose
    <3>2. ASSUME disk' = disk, NEW r \in DOMAIN disk
          PROVE  HoldsNext(r, disk[r]) \/ GoneNext(disk[r].localMtime)
      <4>1. Holds(r, disk[r]) \/ Gone(disk[r].localMtime)
        BY <1>0, <2>2 DEF HoldsDisk
      <4>2. CASE r \notin Around(it)
        BY <1>5, <1>6, <4>1, <4>2
      <4>3. CASE r \in Around(it)
        <5>1. r = it.rel /\ it.op \in {"overwrite", "delete"}
          BY <1>3, <3>1, <3>2, <4>3 DEF Around, Tied, OnDisk, Item
        <5>2. disk[r].remoteID = work[it].id \/ disk[r].remoteID \notin DOMAIN remote
          BY <1>3, <3>2, <5>1 DEF OnDisk, Fits
        <5>3. CASE disk[r].remoteID = work[it].id
          <6>1. \/ disk[r].remoteID \in unseen
                \/ /\ disk[r].remoteID \in DOMAIN remote
                   /\ remote[disk[r].remoteID].data = disk[r].localMtime
                \/ Gone(disk[r].localMtime)
            BY <1>0, <1>1, <3>1, <3>2, <5>1, <5>3, AwaitedHolds
          <6> QED
            BY <1>1, <1>5, <6>1 DEF HoldsNext
        <5>4. CASE disk[r].remoteID \notin DOMAIN remote
          BY <1>1, <1>5, <4>1, <5>4 DEF Holds, HoldsNext
        <5> QED
          BY <5>2, <5>3, <5>4
      <4> QED
        BY <4>2, <4>3
    <3>3. ASSUME disk' = m', NEW r \in DOMAIN m'
          PROVE  HoldsNext(r, m'[r]) \/ GoneNext(m'[r].localMtime)
      <4>1. CASE r \in DOMAIN m /\ m'[r] = m[r] /\ r \notin Around(it)
        <5>1. CASE Holds(r, m[r]) \/ Gone(m[r].localMtime)
          BY <1>5, <1>6, <4>1, <5>1
        <5>2. CASE Awaited(r)
          <6>1. PICK jt \in DOMAIN work :
                       jt.op \in {"overwrite", "delete"} /\ jt.rel = r /\ work[jt].at = "done"
            BY <5>2 DEF Awaited
          <6>2. m[r].remoteID = work[jt].id
            <7>1. Tied(jt, m) /\ Fits(jt, work[jt]) /\ jt.op \in {"overwrite", "delete"} /\ jt.rel = r
              BY <6>1 DEF Types, Phases, Planning, InHand
            <7> QED
              BY <7>1 DEF Tied, Fits
          <6>3. \/ m[r].remoteID \in unseen
                \/ m[r].remoteID \in DOMAIN remote /\ remote[m[r].remoteID].data = m[r].localMtime
                \/ Gone(m[r].localMtime)
            BY <1>0, <3>1, <4>1, <6>1, <6>2, AwaitedHolds
          <6> QED
            BY <1>1, <1>5, <4>1, <6>3 DEF HoldsNext
        <5> QED
          BY <1>0, <4>1, <5>1, <5>2 DEF HoldsMemory
      <4>2. CASE /\ it.op # "delete" /\ r = it.rel
                 /\ m'[r].localMtime = it.mtime /\ m'[r].remoteID = work[it].id
        <5>1. Sent(it, work[it]) /\ it.op \in {"upload", "overwrite"}
          BY <1>0, <1>3, <3>1, <4>2 DEF HoldsResults, Item
        <5> QED
          BY <1>1, <1>5, <4>2, <5>1 DEF Sent, HoldsNext
      <4> QED
        BY <1>8, <4>1, <4>2
    <3>4. \A r \in DOMAIN disk' : HoldsNext(r, disk'[r]) \/ GoneNext(disk'[r].localMtime)
      BY <1>1, <3>2, <3>3
    <3> QED
      BY <3>4 DEF HoldsDisk, Holds, HoldsNext, Gone, GoneNext
  <2> QED
    BY <2>1, <2>2
<1>11. HoldsResults'
  <2> SUFFICES ASSUME NEW jt \in DOMAIN work'
               PROVE  SentNext(jt, work'[jt])
    BY DEF HoldsResults, Sent, SentNext, Gone, GoneNext
  <2>1. jt \in DOMAIN work /\ work'[jt] = work[jt] /\ Sent(jt, work[jt])
    BY <1>0, <1>2 DEF HoldsResults
  <2> QED
    BY <1>1, <1>5, <2>1 DEF Sent, SentNext
<1> QED
  BY <1>9, <1>10, <1>11

\* The end of a run, saved or not, keeps it.
LEMMA HeldEnd ==
  ASSUME Types, Held, [Next]_vars, Accountable', CalmRenames', Ends
  PROVE  HoldsMemory' /\ HoldsDisk' /\ HoldsResults'
<1>0. HoldsMemory /\ HoldsDisk /\ HoldsResults
  BY AccountableBefore DEF Held
<1>1. /\ phase # "idle" /\ phase' = "idle" /\ DOMAIN work' = {} /\ phase \in {"idle", "drift", "run"}
      /\ UNCHANGED <<local, remote, unseen, adopted>>
      /\ \/ disk' = m /\ m' = m /\ DOMAIN work = {}
         \/ disk' = disk /\ m' = disk /\ (phase = "drift" \/ faults' = faults + 1 \/ crashes' = crashes + 1)
  BY DEF Ends, Abandon, Empty, Types, RunTyped
<1>2. \A r \in DOMAIN m' : Holds(r, m'[r]) \/ Gone(m'[r].localMtime)
  <2>1. CASE m' = m /\ DOMAIN work = {}
    BY <1>0, <2>1 DEF HoldsMemory, Awaited
  <2>2. CASE m' = disk /\ (phase = "drift" \/ faults' = faults + 1 \/ crashes' = crashes + 1)
    <3>1. ~(Loose /\ phase = "run")
      <4>1. Loose => faults' = 0 /\ crashes' = 0
        BY LooseFaultless DEF Undisturbed
      <4>2. faults \in Nat /\ crashes \in Nat
        BY DEF Types, RunTyped
      <4> QED
        BY <2>2, <4>1, <4>2
    <3> QED
      BY <1>0, <2>2, <3>1 DEF HoldsDisk
  <2> QED
    BY <1>1, <2>1, <2>2
<1>3. disk' = m'
  BY <1>1
<1> QED
  BY <1>1, <1>2, <1>3 DEF HoldsMemory, HoldsDisk, HoldsResults, Holds, Gone

\* What manifests and results say stays so.
LEMMA HeldStep ==
  ASSUME Types, Known, Planning, AccountablyPlaced, OneFilePerPath, Saved, Dated, Surpassing, Held,
         CalmRenames', [Next]_vars
  PROVE  Held'
<1> SUFFICES ASSUME Accountable'
             PROVE  HoldsMemory' /\ HoldsDisk' /\ HoldsResults'
  BY DEF Held
<1>0. Accountable /\ Placed
  BY AccountableBefore DEF AccountablyPlaced
<1>1. CASE UNCHANGED vars
  BY <1>1, QuietLeavesContent, HeldRoutine DEF vars, run, bounds, history
<1>2. CASE Edit
  BY <1>2, EditFacts, QuietLeavesContent, HeldRoutine DEF run
<1>3. CASE Other
  <2>1. UNCHANGED <<m, disk, adopted, phase, work>>
    BY <1>3, OtherFacts DEF run
  <2> QED
    BY <1>3, <2>1, OthersLeaveContent, HeldRoutine
<1>4. CASE Goes
  <2>1. UNCHANGED <<m, disk, adopted, work, remote, unseen>> /\ phase' = "run"
    BY <1>4 DEF Goes
  <2> QED
    BY <2>1, QuietLeavesContent, HeldRoutine
<1>5. CASE Ends
  BY <1>5, HeldEnd
<1>6. ASSUME NEW o \in Options, Begin(o) PROVE HoldsMemory' /\ HoldsDisk' /\ HoldsResults'
  BY <1>0, <1>6, HeldBegin
<1>7. ASSUME NEW it \in todo, CheckDrift(it) PROVE HoldsMemory' /\ HoldsDisk' /\ HoldsResults'
  <2>1. UNCHANGED <<m, disk, adopted, work, remote, unseen, phase>>
    BY <1>7 DEF CheckDrift, history
  <2> QED
    BY <2>1, QuietLeavesContent, HeldRoutine
<1>8. ASSUME NEW it \in waiting, Take(it) PROVE HoldsMemory' /\ HoldsDisk' /\ HoldsResults'
  <2>1. UNCHANGED <<m, disk, adopted, remote, unseen, phase>>
    BY <1>8, TakeFacts DEF history
  <2>2. /\ it \notin DOMAIN work /\ DOMAIN work' = DOMAIN work \cup {it} /\ work'[it].at # "done"
        /\ \A other \in DOMAIN work : work'[other] = work[other]
    <3>1. it \in Item
      BY DEF Types, RunTyped
    <3>2. FirstCall[it.op] # "done"
      BY <3>1 DEF FirstCall, Item
    <3>3. work'[it] = [at |-> FirstCall[it.op], id |-> it.remoteID, mtime |-> 0, path |-> it.rel]
      BY <1>8, TakeFacts
    <3>4. work'[it].at = FirstCall[it.op]
      BY <3>3
    <3> QED
      BY <1>8, <3>2, <3>4, TakeFacts
  <2> QED
    BY <2>1, <2>2, QuietLeavesContent, HeldRoutine
<1>9. ASSUME NEW it \in DOMAIN work, Call(it) PROVE HoldsMemory' /\ HoldsDisk' /\ HoldsResults'
  BY <1>0, <1>9, HeldCall
<1>10. ASSUME NEW it \in DOMAIN work, Collect(it) PROVE HoldsMemory' /\ HoldsDisk' /\ HoldsResults'
  BY <1>10, HeldCollect
<1>11. ASSUME NEW it \in DOMAIN work, CollectFailure(it) PROVE HoldsMemory' /\ HoldsDisk' /\ HoldsResults'
  <2>1. /\ UNCHANGED <<m, disk, adopted, remote, unseen, phase>> /\ Drop(it)
        /\ work[it].at = "failed"
    BY <1>11 DEF CollectFailure, InCall
  <2>2. DOMAIN work' = DOMAIN work \ {it} /\ \A other \in DOMAIN work \ {it} : work'[other] = work[other]
    BY <2>1, DropFacts
  <2> QED
    BY <2>1, <2>2, QuietLeavesContent, HeldRoutine
<1> QED
  BY <1>1, <1>2, <1>3, <1>4, <1>5, <1>6, <1>7, <1>8, <1>9, <1>10, <1>11, NextCases

\* It is so of the first manifest.
LEMMA InitHeld ==
  ASSUME Init
  PROVE  Held
<1> DEFINE tree == DOMAIN StartTree
<1>1. m = disk /\ DOMAIN work = {}
  BY DEF Init, Empty
<1>2. \A r \in DOMAIN disk : Holds(r, disk[r])
  <2>1. CASE ~Synced
    BY <2>1 DEF Init, Empty
  <2>2. CASE Synced
    <3>1. /\ remote = [i \in {StartTree[r].mtime : r \in tree} |->
                         LET r == CHOOSE q \in tree : StartTree[q].mtime = i
                         IN [path |-> r, size |-> StartTree[r].size, mtime |-> 1, data |-> i]]
          /\ disk = [r \in tree |-> StartEntry(r)]
      BY <2>2 DEF Init
    <3>2. ASSUME NEW r \in DOMAIN disk
          PROVE  Holds(r, disk[r])
      <4>1. r \in tree /\ disk[r].remoteID = StartTree[r].mtime /\ disk[r].localMtime = StartTree[r].mtime
        BY <3>1, <3>2 DEF StartEntry, Entry
      <4>2. disk[r].remoteID \in DOMAIN remote /\ remote[disk[r].remoteID].data = disk[r].localMtime
        BY <3>1, <4>1
      <4> QED
        BY <4>2 DEF Holds
    <3> QED
      BY <3>2
  <2> QED
    BY <2>1, <2>2
<1> QED
  BY <1>1, <1>2 DEF Held, HoldsMemory, HoldsDisk, HoldsResults

\* Entries and results hold what they say, of every version that is still local.
LEMMA HeldAlways == Spec /\ []NoRenameInRun /\ []CalmRenames => []Held
<1>1. Init => Held
  BY InitHeld
<1>2. /\ Types /\ Known /\ Planning /\ AccountablyPlaced /\ OneFilePerPath /\ Saved /\ Dated
      /\ Surpassing /\ Held /\ CalmRenames' /\ [Next]_vars
      => Held'
  BY HeldStep
<1> QED
  BY <1>1, <1>2, TypesAlways, KnownAlways, PlanningAlways, PlacedAlways, OneFileAlways, SavedAlways,
     DatedAlways, SurpassingAlways, PTL DEF Spec

\* nothing has come in between in this run
Calm == phase # "idle" /\ ~dirty /\ ~failures /\ skipped = {} /\ ~opts.noDelete

\* the manifest knows the local file as it is
SettledIn(f, r) ==
  /\ r \in DOMAIN local <=> r \in DOMAIN f
  /\ r \in DOMAIN local => ~Touched(local[r], f[r])

\* an item is of the path
Covers(items, r) == \E it \in items : r \in Around(it)

\* the item is of the local files as they are
AsPlanned(it) ==
  /\ it.op \in {"upload", "overwrite", "move"} =>
       it.rel \in DOMAIN local /\ it.size = local[it.rel].size /\ it.mtime = local[it.rel].mtime
  /\ it.op \in {"delete", "move"} => it.srcRel \notin DOMAIN local

\* What nobody has planned is as it should be, and plans still fit.
OnCourse ==
  Calm => /\ \A r \in DOMAIN local \cup DOMAIN m : SettledIn(m, r) \/ Covers(InHand, r)
          /\ \A it \in InHand : AsPlanned(it)

\* The planner has an item for every path that is not settled.
LEMMA PlanCovers ==
  ASSUME NEW f, NEW r \in DOMAIN local \cup DOMAIN f
  PROVE  SettledIn(f, r) \/ \E it \in PlanPush(local, f) : it.rel = r /\ it.srcRel = r
<1>1. CASE r \in DOMAIN local \ DOMAIN f
  <2>1. UploadItem(r, local[r]) \in PlanPush(local, f)
    BY <1>1 DEF PlanPush
  <2> QED
    BY <2>1 DEF UploadItem
<1>2. CASE r \in DOMAIN f \ DOMAIN local
  <2>1. DeleteItem(r, f[r]) \in PlanPush(local, f)
    BY <1>2 DEF PlanPush
  <2> QED
    BY <2>1 DEF DeleteItem
<1>3. CASE r \in DOMAIN local \cap DOMAIN f /\ Touched(local[r], f[r])
  <2>1. OverwriteItem(r, local[r], f[r]) \in PlanPush(local, f)
    BY <1>3 DEF PlanPush
  <2> QED
    BY <2>1 DEF OverwriteItem
<1>4. CASE r \in DOMAIN local \cap DOMAIN f /\ ~Touched(local[r], f[r])
  BY <1>4 DEF SettledIn
<1> QED
  BY <1>1, <1>2, <1>3, <1>4

\* Moves are of the paths of the uploads and deletes they replace.
LEMMA MovesCover ==
  ASSUME NEW items, NEW f, NEW it \in items, it.srcRel = it.rel
  PROVE  Covers(DetectMoves(items, f), it.rel)
<1> DEFINE pairs == MovePairs(items, f)
<1>1. CASE it \notin UNION {{p[1], p[2]} : p \in pairs}
  BY <1>1 DEF DetectMoves, Covers, Around
<1>2. CASE it \in UNION {{p[1], p[2]} : p \in pairs}
  <2>1. PICK p \in pairs : it = p[1] \/ it = p[2]
    BY <1>2
  <2> DEFINE mv == MoveItem(p[1], p[2], f[p[2].rel])
  <2>2. mv \in DetectMoves(items, f)
    BY <2>1 DEF DetectMoves
  <2>3. mv.rel = p[1].rel /\ mv.srcRel = p[2].rel
    BY DEF MoveItem
  <2>4. it.rel \in Around(mv)
    BY <2>1, <2>3 DEF Around
  <2> QED
    BY <2>2, <2>4 DEF Covers
<1> QED
  BY <1>1, <1>2

\* So has the plan of a run that keeps its deletes.
LEMMA PlannedCovers ==
  ASSUME NEW o, ~o.noDelete, NEW f, NEW r \in DOMAIN local \cup DOMAIN f
  PROVE  SettledIn(f, r) \/ Covers(Planned(o, f), r)
<1> SUFFICES ASSUME ~SettledIn(f, r)
             PROVE  Covers(Planned(o, f), r)
  OBVIOUS
<1>1. PICK it \in PlanPush(local, f) : it.rel = r /\ it.srcRel = r
  BY PlanCovers
<1>2. Covers(PlanPush(local, f), r)
  BY <1>1 DEF Covers, Around
<1>3. Covers(DetectMoves(PlanPush(local, f), f), r)
  BY <1>1, MovesCover
<1> QED
  BY <1>2, <1>3 DEF Planned

\* the same after the step
SettledNext(r) ==
  /\ r \in DOMAIN local' <=> r \in DOMAIN m'
  /\ r \in DOMAIN local' => ~Touched(local'[r], m'[r])

\* the same after the step
AsPlannedNext(it) ==
  /\ it.op \in {"upload", "overwrite", "move"} =>
       it.rel \in DOMAIN local' /\ it.size = local'[it.rel].size /\ it.mtime = local'[it.rel].mtime
  /\ it.op \in {"delete", "move"} => it.srcRel \notin DOMAIN local'

\* OnCourse of a run that is calm after the step
OnCourseNext ==
  /\ \A r \in DOMAIN local' \cup DOMAIN m' : SettledNext(r) \/ Covers(InHand', r)
  /\ \A it \in InHand' : AsPlannedNext(it)

\* The plan covers all that is not settled, and fits.
LEMMA CourseBegun ==
  ASSUME Types, NEW o \in Options, Begin(o), ~o.noDelete
  PROVE  OnCourseNext
<1>1. /\ m' = Base(o) /\ local' = local /\ InHand' = Planned(o, Base(o))
      /\ \A it \in InHand' : Sound(it, Base(o))
  <2>1. work' = work /\ DOMAIN work = {}
    BY BeginFacts DEF Types, Phases
  <2>2. InHand' = todo' \cup waiting'
    BY <2>1 DEF InHand
  <2> QED
    BY <2>2, BeginFacts
<1>2. \A r \in DOMAIN local \cup DOMAIN Base(o) : SettledIn(Base(o), r) \/ Covers(Planned(o, Base(o)), r)
  BY PlannedCovers
<1>3. \A r : SettledIn(Base(o), r) => SettledNext(r)
  BY <1>1 DEF SettledIn, SettledNext
<1>4. \A it \in InHand' : AsPlannedNext(it)
  BY <1>1 DEF Sound, AsPlannedNext
<1> QED
  BY <1>1, <1>2, <1>3, <1>4 DEF OnCourseNext

\* A result that is collected settles the item's paths.
LEMMA CourseCollected ==
  ASSUME Types, Planning, NEW it \in DOMAIN work, Collect(it), Calm, OnCourse
  PROVE  OnCourseNext
<1>1. /\ m' = Recorded(it) /\ Drop(it) /\ phase = "run"
      /\ UNCHANGED <<local, todo, waiting>>
  BY CollectFacts
<1>2. /\ it \in InHand /\ it \in Item /\ Tied(it, m) /\ AsPlanned(it)
      /\ InHand' = InHand \ {it}
  <2>1. DOMAIN work' = DOMAIN work \ {it}
    BY <1>1, DropFacts
  <2>2. it \in InHand /\ it \notin todo \cup waiting
    BY <1>1 DEF Types, Phases, InHand
  <2>3. InHand' = todo \cup waiting \cup DOMAIN work'
    BY <1>1 DEF InHand
  <2> QED
    BY <2>1, <2>2, <2>3 DEF InHand, Types, RunTyped, Planning, OnCourse
<1>3. ASSUME NEW r \in DOMAIN local' \cup DOMAIN m'
      PROVE  SettledNext(r) \/ Covers(InHand', r)
  <2>1. CASE r \notin Around(it)
    <3>1. (r \in DOMAIN m' <=> r \in DOMAIN m) /\ (r \in DOMAIN m => m'[r] = m[r])
      BY <1>1, <2>1, RecordedAround
    <3>2. SettledIn(m, r) \/ Covers(InHand, r)
      BY <1>1, <1>3, <3>1 DEF OnCourse
    <3>3. SettledIn(m, r) => SettledNext(r)
      BY <1>1, <3>1 DEF SettledIn, SettledNext
    <3>4. Covers(InHand, r) => Covers(InHand', r)
      BY <1>2, <2>1 DEF Covers
    <3> QED
      BY <3>2, <3>3, <3>4
  <2>2. CASE it.op = "delete" /\ r \in Around(it)
    <3>1. r = it.rel /\ r \notin DOMAIN local
      BY <1>2, <2>2 DEF Around, Tied, AsPlanned
    <3>2. r \notin DOMAIN m'
      BY <1>1, <2>2, <3>1, RecordedFacts DEF Delete
    <3> QED
      BY <1>1, <3>1, <3>2 DEF SettledNext
  <2>3. CASE it.op # "delete" /\ r = it.rel
    <3>1. /\ r \in DOMAIN m'
          /\ m'[r] = [size |-> it.size, localMtime |-> it.mtime,
                      remoteID |-> work[it].id, remoteMtime |-> work[it].mtime]
      BY <1>1, <2>3, RecordedFacts
    <3>2. m'[r].size = it.size /\ m'[r].localMtime = it.mtime
      BY <3>1
    <3>3. r \in DOMAIN local /\ it.size = local[r].size /\ it.mtime = local[r].mtime
      BY <1>2, <2>3 DEF AsPlanned, Item
    <3> QED
      BY <1>1, <3>1, <3>2, <3>3 DEF SettledNext, Touched
  <2>4. CASE it.op = "move" /\ r = it.srcRel
    <3>1. r \notin DOMAIN local /\ it.srcRel # it.rel
      BY <1>2, <2>4 DEF AsPlanned, Tied
    <3>2. r \notin DOMAIN m'
      BY <1>1, <2>4, <3>1, RecordedFacts
    <3> QED
      BY <1>1, <3>1, <3>2 DEF SettledNext
  <2>5. it.op \notin {"delete", "move"} => it.srcRel = it.rel
    BY <1>2 DEF Tied
  <2> QED
    BY <2>1, <2>2, <2>3, <2>4, <2>5 DEF Around
<1>4. ASSUME NEW jt \in InHand'
      PROVE  AsPlannedNext(jt)
  <2>1. AsPlanned(jt)
    BY <1>2, <1>4 DEF OnCourse
  <2> QED
    BY <1>1, <2>1 DEF AsPlanned, AsPlannedNext
<1> QED
  BY <1>3, <1>4 DEF OnCourseNext

\* Steps that only hand items on keep the course.
LEMMA CourseKept ==
  ASSUME Calm, OnCourse, UNCHANGED <<m, local>>, InHand' = InHand
  PROVE  OnCourseNext
  BY DEF OnCourse, OnCourseNext, SettledIn, SettledNext, AsPlanned, AsPlannedNext

\* A calm run stays on course.
LEMMA OnCourseStep ==
  ASSUME Types, Planning, OnCourse, [Next]_vars
  PROVE  OnCourse'
<1> SUFFICES ASSUME Calm'
             PROVE  OnCourseNext
  BY DEF OnCourse, OnCourseNext, SettledIn, SettledNext, Covers, AsPlanned, AsPlannedNext
<1>0. phase' # "idle" /\ ~dirty' /\ ~failures' /\ skipped' = {} /\ ~opts'.noDelete
  BY DEF Calm
<1>1. CASE UNCHANGED vars
  <2>1. UNCHANGED <<m, local, todo, waiting, work, phase, dirty, failures, skipped, opts>>
    BY <1>1 DEF vars, run, history
  <2> QED
    BY <1>0, <2>1, CourseKept DEF Calm, InHand
<1>2. CASE Edit
  BY <1>0, <1>2, EditFacts
<1>3. CASE Other
  BY <1>0, <1>3, OtherFacts
<1>4. CASE Goes
  <2>1. UNCHANGED <<m, local, todo, waiting, work, dirty, failures, skipped, opts>> /\ phase # "idle"
    BY <1>4 DEF Goes
  <2> QED
    BY <1>0, <2>1, CourseKept DEF Calm, InHand
<1>5. CASE Ends
  BY <1>0, <1>5 DEF Ends, Abandon
<1>6. ASSUME NEW o \in Options, Begin(o) PROVE OnCourseNext
  BY <1>0, <1>6, BeginFacts, CourseBegun
<1>7. ASSUME NEW it \in todo, CheckDrift(it) PROVE OnCourseNext
  <2>1. /\ UNCHANGED <<m, local, work, dirty, failures, opts>> /\ phase # "idle"
        /\ todo' = todo \ {it}
        /\ \/ skipped' = skipped \cup {it.rel}
           \/ waiting' = waiting \cup {it} /\ skipped' = skipped
    BY <1>7 DEF CheckDrift, history
  <2>2. waiting' = waiting \cup {it} /\ skipped = {}
    BY <1>0, <2>1
  <2>3. InHand' = InHand
    BY <1>7, <2>1, <2>2 DEF InHand
  <2> QED
    BY <1>0, <2>1, <2>2, <2>3, CourseKept DEF Calm
<1>8. ASSUME NEW it \in waiting, Take(it) PROVE OnCourseNext
  <2>1. UNCHANGED <<m, local, dirty, failures, skipped, opts, phase, todo>>
    BY <1>8, TakeFacts DEF history
  <2>2. InHand' = InHand
    BY <1>8, <2>1, TakeFacts DEF InHand
  <2> QED
    BY <1>0, <2>1, <2>2, CourseKept DEF Calm
<1>9. ASSUME NEW it \in DOMAIN work, Call(it) PROVE OnCourseNext
  <2>1. UNCHANGED <<m, local, dirty, failures, skipped, opts, phase, todo, waiting>>
    BY <1>9, Outcomes DEF Beside
  <2>2. DOMAIN work' = DOMAIN work
    <3>1. PICK p : With(it, p)
      BY <1>9, Outcomes
    <3> QED
      BY <3>1, WithFacts
  <2>3. InHand' = InHand
    BY <2>1, <2>2 DEF InHand
  <2> QED
    BY <1>0, <2>1, <2>3, CourseKept DEF Calm
<1>10. ASSUME NEW it \in DOMAIN work, Collect(it) PROVE OnCourseNext
  <2>1. UNCHANGED <<dirty, failures, skipped, opts, phase>>
    BY <1>10, CollectFacts
  <2> QED
    BY <1>0, <1>10, <2>1, CourseCollected DEF Calm
<1>11. ASSUME NEW it \in DOMAIN work, CollectFailure(it) PROVE OnCourseNext
  BY <1>0, <1>11 DEF CollectFailure
<1> QED
  BY <1>1, <1>2, <1>3, <1>4, <1>5, <1>6, <1>7, <1>8, <1>9, <1>10, <1>11, NextCases

\* Runs that nothing has come between are on course.
LEMMA OnCourseAlways == Spec => []OnCourse
<1>1. Init => OnCourse
  BY DEF Init, OnCourse, Calm
<1>2. Types /\ Planning /\ OnCourse /\ [Next]_vars => OnCourse'
  BY OnCourseStep
<1> QED
  BY <1>1, <1>2, TypesAlways, PlanningAlways, PTL DEF Spec

\* After a run that says so everything is settled, and as long as nothing is edited.
CleanSettled ==
  clean => /\ phase = "idle"
           /\ \A r \in DOMAIN local \cup DOMAIN m : SettledIn(m, r)

\* Only the end of a run on course says that it was clean.
LEMMA CleanStep ==
  ASSUME Types, OnCourse, CleanSettled, [Next]_vars
  PROVE  CleanSettled'
<1> SUFFICES ASSUME clean'
             PROVE  phase' = "idle" /\ \A r \in DOMAIN local' \cup DOMAIN m' : SettledNext(r)
  BY DEF CleanSettled, SettledIn, SettledNext
<1>1. ASSUME clean, UNCHANGED <<local, m, phase>>
      PROVE  phase' = "idle" /\ \A r \in DOMAIN local' \cup DOMAIN m' : SettledNext(r)
  BY <1>1 DEF CleanSettled, SettledIn, SettledNext
<1>2. clean => phase = "idle"
  BY DEF CleanSettled
<1>3. CASE UNCHANGED vars
  BY <1>1, <1>3 DEF vars, run, history
<1>4. CASE Edit
  BY <1>4, EditFacts
<1>5. CASE Other
  BY <1>5, OtherFacts
<1>6. CASE Goes
  BY <1>2, <1>6 DEF Goes
<1>7. CASE Ends
  <2>1. /\ phase' = "idle" /\ m' = m /\ local' = local /\ phase = "run" /\ waiting = {} /\ DOMAIN work = {}
        /\ ~failures /\ skipped = {} /\ ~opts.noDelete /\ ~dirty
    BY <1>2, <1>7 DEF Ends, Abandon
  <2>2. InHand = {}
    BY <2>1 DEF InHand, Types, Phases
  <2>3. \A r \in DOMAIN local \cup DOMAIN m : SettledIn(m, r)
    BY <2>1, <2>2 DEF OnCourse, Calm, Covers
  <2> QED
    BY <2>1, <2>3 DEF SettledIn, SettledNext
<1>8. ASSUME NEW o \in Options, Begin(o) PROVE FALSE
  BY <1>8, BeginFacts
<1>9. ASSUME NEW it \in todo, CheckDrift(it) PROVE FALSE
  BY <1>2, <1>9 DEF CheckDrift, history
<1>10. ASSUME NEW it \in waiting, Take(it) PROVE FALSE
  BY <1>2, <1>10 DEF Take, history
<1>11. ASSUME NEW it \in DOMAIN work, Call(it) \/ Collect(it) \/ CollectFailure(it) PROVE FALSE
  <2>1. phase = "run"
    BY <1>11 DEF Types, Phases
  <2>2. clean' = clean
    BY <1>11, Outcomes, CollectFacts DEF Beside, CollectFailure
  <2> QED
    BY <1>2, <2>1, <2>2
<1> QED
  BY <1>3, <1>4, <1>5, <1>6, <1>7, <1>8, <1>9, <1>10, <1>11, NextCases

\* What the invariants come to after a clean run.
LEMMA CleanMirror ==
  ASSUME Types, AccountablyPlaced, Held, CleanSettled
  PROVE  CleanRunMirrors
<1> SUFFICES ASSUME clean, Accountable
             PROVE  /\ DOMAIN disk = DOMAIN local
                    /\ \A r \in DOMAIN local :
                         LET e == disk[r] IN
                         /\ ~Touched(local[r], e)
                         /\ e.remoteID \notin unseen =>
                              /\ e.remoteID \in DOMAIN remote
                              /\ remote[e.remoteID].path = r
                              /\ r \notin adopted => remote[e.remoteID].data = local[r].mtime
  BY DEF CleanRunMirrors
<1>1. phase = "idle" /\ m = disk /\ DOMAIN work = {} /\ AtHome(disk) /\ HoldsMemory
  BY DEF CleanSettled, Types, Phases, AccountablyPlaced, Placed, EntriesPlaced, Held
<1>2. \A r \in DOMAIN local \cup DOMAIN disk : SettledIn(disk, r)
  BY <1>1 DEF CleanSettled
<1>3. DOMAIN disk = DOMAIN local
  BY <1>2 DEF SettledIn
<1>4. ASSUME NEW r \in DOMAIN local
      PROVE  /\ ~Touched(local[r], disk[r])
             /\ disk[r].remoteID \notin unseen =>
                  /\ disk[r].remoteID \in DOMAIN remote
                  /\ remote[disk[r].remoteID].path = r
                  /\ r \notin adopted => remote[disk[r].remoteID].data = local[r].mtime
  <2>1. ~Touched(local[r], disk[r]) /\ r \in DOMAIN disk
    BY <1>2, <1>3 DEF SettledIn
  <2>2. disk[r].localMtime = local[r].mtime
    BY <2>1 DEF Touched
  <2>3. ~Gone(disk[r].localMtime)
    BY <2>2 DEF Gone
  <2>4. Holds(r, disk[r])
    BY <1>1, <2>1, <2>3 DEF HoldsMemory, Awaited
  <2>5. Lies(disk[r].remoteID, r)
    BY <1>1, <2>1 DEF AtHome
  <2> QED
    BY <2>1, <2>2, <2>4, <2>5 DEF Holds, Lies
<1> QED
  BY <1>3, <1>4

\* CleanRunMirrors in every world of that kind: after a run that reported no failure, skipped
\* nothing and kept its deletes (the end of Push, run.go), and as long as nothing is edited,
\* the saved manifest has exactly the local files, each with the remote file it names, of
\* that path and content.  The premises are that users do not rename local files during a
\* run, and that those who rename any meet no failing call and no kill.
THEOREM CleanRunsMirror ==
  Spec /\ []NoRenameInRun /\ []CalmRenames => []CleanRunMirrors
<1>1. Init => CleanSettled
  BY DEF Init, CleanSettled
<1>2. Types /\ OnCourse /\ CleanSettled /\ [Next]_vars => CleanSettled'
  BY CleanStep
<1>3. Types /\ AccountablyPlaced /\ Held /\ CleanSettled => CleanRunMirrors
  BY CleanMirror
<1> QED
  BY <1>1, <1>2, <1>3, TypesAlways, OnCourseAlways, PlacedAlways, HeldAlways, PTL DEF Spec
=============================================================================
