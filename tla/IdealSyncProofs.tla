-------------------------- MODULE IdealSyncProofs --------------------------
(***************************************************************************)
(* What the planners plan, on any number of paths, with any sizes, edits   *)
(* on both sides and whole runs in any order.                              *)
(*                                                                         *)
(* The proof follows the two ways a plan is used.  PushedRemoteFacts and   *)
(* PushedManifestFacts say path by path what a push makes of the remote    *)
(* folder and the manifest, PulledFacts what a pull makes of the local     *)
(* tree and the manifest.  From them come the invariant after a run and    *)
(* what the run leaves to do.                                              *)
(***************************************************************************)
EXTENDS IdealSync, TLAPS


-----------------------------------------------------------------------------
(* The inductive invariant                                                   *)

\* ids from here on have not been given
Top == (clock + 1) * (NumRels + 1)

\* a version of a local file
Stamp == [size : Nat, mtime : Nat]

\* one of a remote file, and its id
RemoteStamp == [id : Nat \ {0}, size : Nat, mtime : Nat]

\* and what the manifest records of both
ManifestEntry == [size : Nat, localMtime : Nat, remoteID : Nat, remoteMtime : Nat]

\* what the manifest of a run, and the one it begins with, say of the remote folder: ids and
\* dates there have been; the file of an id is at the entry's path or nowhere; a file with the
\* date of the entry is the file that the entry names
Good(b) ==
  /\ DOMAIN b \subseteq Rels
  /\ \A r \in DOMAIN b : /\ b[r] \in ManifestEntry
                         /\ b[r].remoteID < Top /\ b[r].remoteMtime <= clock
                         /\ WithId(b[r].remoteID) \subseteq {r}
                         /\ r \in DOMAIN remote /\ remote[r].mtime = b[r].remoteMtime
                              => remote[r].id = b[r].remoteID

\* both trees: ids and dates there have been, and no two files of one id
Trees ==
  /\ clock \in Nat
  /\ DOMAIN local \subseteq Rels /\ \A r \in DOMAIN local : local[r] \in Stamp
  /\ DOMAIN remote \subseteq Rels
  /\ \A r \in DOMAIN remote : /\ remote[r] \in RemoteStamp
                              /\ remote[r].id < Top /\ remote[r].mtime <= clock
  /\ \A r, q \in DOMAIN remote : remote[r].id = remote[q].id => r = q

\* the inductive invariant
Inv == Trees /\ Good(m)

\* a new id is none there has been, and is below the next bound
LEMMA NewIds ==
  ASSUME clock \in Nat, NEW r \in Rels
  PROVE  /\ Top \in Nat \ {0} /\ NewId(r, clock + 1) \in Nat \ {0}
         /\ Top < NewId(r, clock + 1)
         /\ NewId(r, clock + 1) < (clock + 2) * (NumRels + 1)
         /\ Top < (clock + 2) * (NumRels + 1)
         /\ \A q \in Rels : NewId(q, clock + 1) = NewId(r, clock + 1) => q = r
<1> DEFINE n == NumRels + 1
           t == (clock + 1) * n
<1>1. NumRels \in Nat /\ r \in 1..NumRels /\ n \in Nat \ {0} /\ clock + 1 \in Nat \ {0}
  BY IdealSyncAssumption DEF Rels
<1>2. t \in Nat \ {0}
  BY <1>1
<1>3. (clock + 2) * n = t + n
  BY <1>1
<1>4. Top = t /\ \A q \in Rels : NewId(q, clock + 1) = t + q /\ q \in 1..NumRels
  BY DEF Top, NewId, Rels
<1> HIDE DEF t
<1> QED
  BY <1>1, <1>2, <1>3, <1>4

-----------------------------------------------------------------------------
(* Plans                                                                     *)

\* A push plan has one item for each path the local side has changed, and no other.
LEMMA PushPlan ==
  ASSUME NEW f, NEW b
  PROVE  /\ \A it \in PlanPush(f, b) :
              /\ LocalChanged(f, b, it.rel) /\ it.srcRel = it.rel
              /\ \/ /\ it.op = "upload" /\ it.rel \in DOMAIN f \ DOMAIN b /\ it.remoteID = 0
                    /\ it.size = f[it.rel].size /\ it.mtime = f[it.rel].mtime
                 \/ /\ it.op = "overwrite" /\ it.rel \in DOMAIN f \cap DOMAIN b
                    /\ it.remoteID = b[it.rel].remoteID
                    /\ it.size = f[it.rel].size /\ it.mtime = f[it.rel].mtime
                 \/ /\ it.op = "delete" /\ it.rel \in DOMAIN b \ DOMAIN f
                    /\ it.remoteID = b[it.rel].remoteID
         /\ \A it, jt \in PlanPush(f, b) : it.rel = jt.rel => it = jt
         /\ \A r : LocalChanged(f, b, r) => \E it \in PlanPush(f, b) : it.rel = r
<1>1. \A it \in PlanPush(f, b) :
         \/ it.rel \in DOMAIN f \ DOMAIN b /\ it = UploadItem(it.rel, f[it.rel])
         \/ /\ it.rel \in DOMAIN f \cap DOMAIN b /\ Touched(f[it.rel], b[it.rel])
            /\ it = OverwriteItem(it.rel, f[it.rel], b[it.rel])
         \/ it.rel \in DOMAIN b \ DOMAIN f /\ it = DeleteItem(it.rel, b[it.rel])
  BY DEF PlanPush, UploadItem, OverwriteItem, DeleteItem
<1>2. ASSUME NEW it \in PlanPush(f, b)
      PROVE  /\ LocalChanged(f, b, it.rel) /\ it.srcRel = it.rel
             /\ \/ /\ it.op = "upload" /\ it.rel \in DOMAIN f \ DOMAIN b /\ it.remoteID = 0
                   /\ it.size = f[it.rel].size /\ it.mtime = f[it.rel].mtime
                \/ /\ it.op = "overwrite" /\ it.rel \in DOMAIN f \cap DOMAIN b
                   /\ it.remoteID = b[it.rel].remoteID
                   /\ it.size = f[it.rel].size /\ it.mtime = f[it.rel].mtime
                \/ /\ it.op = "delete" /\ it.rel \in DOMAIN b \ DOMAIN f
                   /\ it.remoteID = b[it.rel].remoteID
  <2>1. CASE it.rel \in DOMAIN f \ DOMAIN b /\ it = UploadItem(it.rel, f[it.rel])
    BY <2>1 DEF UploadItem, LocalChanged
  <2>2. CASE /\ it.rel \in DOMAIN f \cap DOMAIN b /\ Touched(f[it.rel], b[it.rel])
             /\ it = OverwriteItem(it.rel, f[it.rel], b[it.rel])
    BY <2>2 DEF OverwriteItem, LocalChanged
  <2>3. CASE it.rel \in DOMAIN b \ DOMAIN f /\ it = DeleteItem(it.rel, b[it.rel])
    BY <2>3 DEF DeleteItem, LocalChanged
  <2> QED
    BY <1>1, <2>1, <2>2, <2>3
<1>3. \A it, jt \in PlanPush(f, b) : it.rel = jt.rel => it = jt
  BY <1>1
<1>4. ASSUME NEW r, LocalChanged(f, b, r)
      PROVE  \E it \in PlanPush(f, b) : it.rel = r
  <2>1. CASE r \in DOMAIN f \ DOMAIN b
    <3>1. UploadItem(r, f[r]) \in PlanPush(f, b)
      BY <2>1 DEF PlanPush
    <3> QED
      BY <3>1 DEF UploadItem
  <2>2. CASE r \in DOMAIN b \ DOMAIN f
    <3>1. DeleteItem(r, b[r]) \in PlanPush(f, b)
      BY <2>2 DEF PlanPush
    <3> QED
      BY <3>1 DEF DeleteItem
  <2>3. CASE r \in DOMAIN f \cap DOMAIN b /\ Touched(f[r], b[r])
    <3>1. OverwriteItem(r, f[r], b[r]) \in PlanPush(f, b)
      BY <2>3 DEF PlanPush
    <3> QED
      BY <3>1 DEF OverwriteItem
  <2> QED
    BY <1>4, <2>1, <2>2, <2>3 DEF LocalChanged
<1> QED
  BY <1>2, <1>3, <1>4

\* A pull plan, likewise, has one for each path the remote side has changed.
LEMMA PullPlan ==
  ASSUME NEW idx, NEW b
  PROVE  /\ \A it \in PlanPull(idx, b) :
              /\ RemoteChanged(idx, b, it.rel)
              /\ \/ /\ it.op = "download" /\ it.rel \in DOMAIN idx /\ it.remoteID = idx[it.rel].id
                    /\ it.size = idx[it.rel].size /\ it.remoteMtime = idx[it.rel].mtime
                 \/ it.op = "deleteLocal" /\ it.rel \in DOMAIN b \ DOMAIN idx
         /\ \A it, jt \in PlanPull(idx, b) : it.rel = jt.rel => it = jt
         /\ \A r : RemoteChanged(idx, b, r) => \E it \in PlanPull(idx, b) : it.rel = r
<1>1. \A it \in PlanPull(idx, b) :
         \/ /\ it.rel \in DOMAIN idx
            /\ it.rel \notin DOMAIN b \/ RemoteTouched(idx[it.rel], b[it.rel])
            /\ it = DownloadItem(it.rel, idx[it.rel])
         \/ it.rel \in DOMAIN b \ DOMAIN idx /\ it = DeleteLocalItem(it.rel)
  BY DEF PlanPull, DownloadItem, DeleteLocalItem
<1>2. ASSUME NEW it \in PlanPull(idx, b)
      PROVE  /\ RemoteChanged(idx, b, it.rel)
             /\ \/ /\ it.op = "download" /\ it.rel \in DOMAIN idx /\ it.remoteID = idx[it.rel].id
                   /\ it.size = idx[it.rel].size /\ it.remoteMtime = idx[it.rel].mtime
                \/ it.op = "deleteLocal" /\ it.rel \in DOMAIN b \ DOMAIN idx
  <2>1. CASE /\ it.rel \in DOMAIN idx
             /\ (it.rel \notin DOMAIN b \/ RemoteTouched(idx[it.rel], b[it.rel]))
             /\ it = DownloadItem(it.rel, idx[it.rel])
    BY <2>1 DEF DownloadItem, RemoteChanged
  <2>2. CASE it.rel \in DOMAIN b \ DOMAIN idx /\ it = DeleteLocalItem(it.rel)
    BY <2>2 DEF DeleteLocalItem, RemoteChanged
  <2> QED
    BY <1>1, <2>1, <2>2
<1>3. \A it, jt \in PlanPull(idx, b) : it.rel = jt.rel => it = jt
  BY <1>1
<1>4. ASSUME NEW r, RemoteChanged(idx, b, r)
      PROVE  \E it \in PlanPull(idx, b) : it.rel = r
  <2>1. CASE r \in DOMAIN idx /\ (r \notin DOMAIN b \/ RemoteTouched(idx[r], b[r]))
    <3>1. DownloadItem(r, idx[r]) \in PlanPull(idx, b)
      BY <2>1 DEF PlanPull
    <3> QED
      BY <3>1 DEF DownloadItem
  <2>2. CASE r \in DOMAIN b \ DOMAIN idx
    <3>1. DeleteLocalItem(r) \in PlanPull(idx, b)
      BY <2>2 DEF PlanPull
    <3> QED
      BY <3>1 DEF DeleteLocalItem
  <2> QED
    BY <1>4, <2>1, <2>2 DEF RemoteChanged
<1> QED
  BY <1>2, <1>3, <1>4

-----------------------------------------------------------------------------
(* What items do                                                             *)

\* the paths of an item
Around(it) == {it.rel, it.srcRel}

\* items that a push can carry out from the baseline b, no two of which meet
Proper(items, b) ==
  /\ \A it \in items :
       /\ it.op \in {"upload", "overwrite", "delete", "move"} /\ it.rel \in Rels
       /\ it.op # "move" => it.srcRel = it.rel
       /\ it.op = "upload" => it.rel \notin DOMAIN b /\ it.remoteID = 0
       /\ it.op # "upload" => it.srcRel \in DOMAIN b /\ it.remoteID = b[it.srcRel].remoteID
       /\ it.op \in {"overwrite", "move"} => WithId(it.remoteID) # {}
       /\ it.op = "move" => it.rel \notin DOMAIN b \cup DOMAIN remote
       /\ it.op # "delete" => it.size \in Nat /\ it.mtime \in Nat
  /\ \A it, jt \in items : Around(it) \cap Around(jt) # {} => it = jt

\* a path that is no item's
Idle(items, r) == \A it \in items : r \notin Around(it)

\* Items only reach files of their own paths.
LEMMA Reach ==
  ASSUME Trees, NEW b, Good(b), NEW items, Proper(items, b), NEW it \in items
  PROVE  /\ WithId(it.remoteID) \subseteq {it.srcRel}
         /\ it.op = "upload" => WithId(it.remoteID) = {}
         /\ \A r \in WithId(it.remoteID) : r \in DOMAIN remote /\ remote[r].id = it.remoteID
<1>1. CASE it.op = "upload"
  BY <1>1 DEF Proper, WithId, Trees, RemoteStamp
<1>2. CASE it.op # "upload"
  BY <1>2 DEF Proper, WithId, Good
<1> QED
  BY <1>1, <1>2 DEF WithId

\* The remote folder after a push, path by path.
LEMMA PushedRemoteFacts ==
  ASSUME Trees, NEW b, Good(b), NEW items, Proper(items, b), NEW f, f = PushedRemote(items)
  PROVE  /\ \A r : Idle(items, r) => /\ r \in DOMAIN f <=> r \in DOMAIN remote
                                     /\ r \in DOMAIN remote => f[r] = remote[r]
         /\ \A it \in items :
              /\ it.op # "delete" => it.rel \in DOMAIN f /\ f[it.rel] = NewRemote(it)
              /\ it.op = "move" => it.srcRel \notin DOMAIN f
              /\ it.op = "delete" /\ WithId(it.remoteID) # {} => it.rel \notin DOMAIN f
              /\ it.op = "delete" /\ WithId(it.remoteID) = {} =>
                   /\ it.rel \in DOMAIN f <=> it.rel \in DOMAIN remote
                   /\ it.rel \in DOMAIN remote => f[it.rel] = remote[it.rel]
<1> DEFINE written == {it.rel : it \in Kept(items)}
           left    == UNION {WithId(it.remoteID) : it \in items}
<1>1. /\ DOMAIN f = (DOMAIN remote \ left) \cup written
      /\ \A r \in written : f[r] = NewRemote(ItemAt(Kept(items), r))
      /\ \A r \in DOMAIN f \ written : f[r] = remote[r]
  BY DEF PushedRemote
<1>2. ASSUME NEW it \in items, it.op # "delete"
      PROVE  it.rel \in written /\ ItemAt(Kept(items), it.rel) = it
  <2>1. it \in Kept(items)
    BY <1>2 DEF Kept
  <2>2. \A jt \in Kept(items) : jt.rel = it.rel => jt = it
    BY DEF Kept, Proper, Around
  <2> QED
    BY <2>1, <2>2 DEF ItemAt
<1>3. ASSUME NEW r
      PROVE  /\ r \in written <=> \E it \in items : it.op # "delete" /\ it.rel = r
             /\ r \in left <=> \E it \in items : r \in WithId(it.remoteID)
  BY DEF Kept
<1>4. ASSUME NEW r, Idle(items, r)
      PROVE  r \notin written /\ r \notin left
  BY <1>3, <1>4, Reach DEF Idle, Around
<1>5. ASSUME NEW it \in items
      PROVE  /\ \A jt \in items : it.rel = jt.rel \/ it.rel = jt.srcRel \/ it.srcRel = jt.rel
                                  \/ it.srcRel = jt.srcRel => it = jt
             /\ it.op = "move" => it.srcRel # it.rel
  BY DEF Proper, Around
<1> HIDE DEF written, left
<1>6. ASSUME NEW it \in items, it.op = "move"
      PROVE  it.srcRel \in left /\ it.srcRel \notin written
  <2>1. it.srcRel \in WithId(it.remoteID)
    <3>1. WithId(it.remoteID) # {}
      BY <1>6 DEF Proper
    <3> QED
      BY <3>1, Reach
  <2>2. it.srcRel \notin written
    BY <1>3, <1>5, <1>6
  <2> QED
    BY <1>3, <2>1, <2>2
<1>7. ASSUME NEW it \in items, it.op = "delete"
      PROVE  /\ it.rel \notin written
             /\ it.rel \in left <=> WithId(it.remoteID) # {}
  <2>1. it.srcRel = it.rel
    BY <1>7 DEF Proper
  <2>2. it.rel \notin written
    BY <1>3, <1>5, <1>7
  <2>3. ASSUME NEW jt \in items, it.rel \in WithId(jt.remoteID) PROVE jt = it
    BY <1>5, <2>1, <2>3, Reach
  <2>4. WithId(it.remoteID) # {} => it.rel \in WithId(it.remoteID)
    BY <2>1, Reach
  <2> QED
    BY <1>3, <2>2, <2>3, <2>4
<1> QED
  BY <1>1, <1>2, <1>4, <1>6, <1>7

\* The manifest after a push, path by path.
LEMMA PushedManifestFacts ==
  ASSUME NEW b, NEW items, Proper(items, b), NEW f, f = PushedManifest(b, items)
  PROVE  /\ \A r : Idle(items, r) => /\ r \in DOMAIN f <=> r \in DOMAIN b
                                     /\ r \in DOMAIN b => f[r] = b[r]
         /\ \A it \in items :
              /\ it.op # "delete" => /\ it.rel \in DOMAIN f
                                     /\ f[it.rel] = Entry(it.size, it.mtime, TargetId(it),
                                                          NewRemote(it).mtime)
              /\ it.op \in {"delete", "move"} => it.srcRel \notin DOMAIN f
<1> DEFINE written == {it.rel : it \in Kept(items)}
           gone    == {it.rel : it \in OfKind(items, "delete")}
                      \cup {it.srcRel : it \in OfKind(items, "move")}
           Record(it) == Entry(it.size, it.mtime, TargetId(it), NewRemote(it).mtime)
<1>1. /\ DOMAIN f = (DOMAIN b \ gone) \cup written
      /\ \A r \in written : f[r] = Record(ItemAt(Kept(items), r))
      /\ \A r \in DOMAIN f \ written : f[r] = b[r]
  BY DEF PushedManifest
<1>2. ASSUME NEW it \in items, it.op # "delete"
      PROVE  it.rel \in written /\ ItemAt(Kept(items), it.rel) = it
  <2>1. it \in Kept(items)
    BY <1>2 DEF Kept
  <2>2. \A jt \in Kept(items) : jt.rel = it.rel => jt = it
    BY DEF Kept, Proper, Around
  <2> QED
    BY <2>1, <2>2 DEF ItemAt
<1>3. ASSUME NEW r
      PROVE  /\ r \in written <=> \E it \in items : it.op # "delete" /\ it.rel = r
             /\ r \in gone <=> \E it \in items : \/ it.op = "delete" /\ it.rel = r
                                                 \/ it.op = "move" /\ it.srcRel = r
  BY DEF Kept, OfKind
<1>4. ASSUME NEW r, Idle(items, r)
      PROVE  r \notin written /\ r \notin gone
  BY <1>3, <1>4 DEF Idle, Around
<1>5. ASSUME NEW it \in items, it.op \in {"delete", "move"}
      PROVE  it.srcRel \in gone /\ it.srcRel \notin written
  <2>1. /\ \A jt \in items : it.srcRel = jt.rel => it = jt
        /\ it.op = "delete" => it.srcRel = it.rel
        /\ it.op = "move" => it.srcRel # it.rel
    BY DEF Proper, Around
  <2> QED
    BY <1>3, <1>5, <2>1
<1> HIDE DEF written, gone
<1> QED
  BY <1>1, <1>2, <1>4, <1>5

\* Where an item's file ends up.
LEMMA Results ==
  ASSUME Trees, NEW b, Good(b), NEW items, Proper(items, b), NEW it \in items, it.op # "delete"
  PROVE  /\ it.op = "move" => /\ it.srcRel \in DOMAIN remote /\ NewRemote(it) = remote[it.srcRel]
                              /\ remote[it.srcRel].id = it.remoteID /\ TargetId(it) = it.remoteID
         /\ it.op # "move" =>
              NewRemote(it) = [id |-> TargetId(it), size |-> it.size, mtime |-> clock + 1]
         /\ it.op = "overwrite" => it.rel \in DOMAIN remote /\ TargetId(it) = remote[it.rel].id
         /\ it.op = "upload" /\ it.rel \in DOMAIN remote => TargetId(it) = remote[it.rel].id
         /\ it.op = "upload" /\ it.rel \notin DOMAIN remote =>
              TargetId(it) = NewId(it.rel, clock + 1)
<1>1. CASE it.op = "move"
  <2>1. WithId(it.remoteID) = {it.srcRel}
    <3>1. WithId(it.remoteID) # {}
      BY <1>1 DEF Proper
    <3> QED
      BY <3>1, Reach
  <2>2. (CHOOSE r \in WithId(it.remoteID) : TRUE) = it.srcRel
    BY <2>1
  <2> QED
    BY <1>1, <2>1, <2>2, Reach DEF NewRemote, TargetId
<1>2. CASE it.op = "overwrite"
  <2>1. WithId(it.remoteID) = {it.srcRel} /\ it.srcRel = it.rel
    <3>1. WithId(it.remoteID) # {} /\ it.srcRel = it.rel
      BY <1>2 DEF Proper
    <3> QED
      BY <3>1, Reach
  <2> QED
    BY <1>2, <2>1, Reach DEF NewRemote, TargetId
<1>3. CASE it.op = "upload"
  BY <1>3 DEF NewRemote, TargetId
<1> QED
  BY <1>1, <1>2, <1>3 DEF Proper

-----------------------------------------------------------------------------
(* The invariant after a push                                                *)

\* Top after the step
TopNext == (clock' + 1) * (NumRels + 1)

\* Good and Trees after the step
GoodNext(b) ==
  /\ DOMAIN b \subseteq Rels
  /\ \A r \in DOMAIN b : /\ b[r] \in ManifestEntry
                         /\ b[r].remoteID < TopNext /\ b[r].remoteMtime <= clock'
                         /\ \A q \in DOMAIN remote' : remote'[q].id = b[r].remoteID => q = r
                         /\ r \in DOMAIN remote' /\ remote'[r].mtime = b[r].remoteMtime
                              => remote'[r].id = b[r].remoteID

\* the remote half of Trees after the step
RemoteNext ==
  /\ DOMAIN remote' \subseteq Rels
  /\ \A r \in DOMAIN remote' : /\ remote'[r] \in RemoteStamp
                               /\ remote'[r].id < TopNext /\ remote'[r].mtime <= clock'
  /\ \A r, q \in DOMAIN remote' : remote'[r].id = remote'[q].id => r = q

\* Ids of this step are above those there were and below those to come.
LEMMA Ticks ==
  ASSUME clock \in Nat, clock' = clock + 1
  PROVE  /\ TopNext \in Nat /\ Top \in Nat \ {0} /\ Top <= TopNext
         /\ \A r \in Rels : /\ NewId(r, clock + 1) \in Nat \ {0}
                            /\ Top < NewId(r, clock + 1) /\ NewId(r, clock + 1) < TopNext
         /\ \A r, q \in Rels : NewId(q, clock + 1) = NewId(r, clock + 1) => q = r
<1> DEFINE n == NumRels + 1
           t == clock * n
<1>1. NumRels \in Nat /\ n \in Nat \ {0} /\ t \in Nat
  BY IdealSyncAssumption
<1>2. Top = t + n /\ TopNext = t + n + n
  <2>1. (clock + 1) * n = t + n /\ (clock + 2) * n = t + n + n
    BY <1>1
  <2> QED
    BY <2>1 DEF Top, TopNext
<1> HIDE DEF t
<1>3. Top \in Nat \ {0} /\ TopNext \in Nat /\ Top <= TopNext
  BY <1>1, <1>2
<1>4. clock' + 1 = clock + 2
  OBVIOUS
<1>5. (clock + 2) * n = TopNext
  BY <1>4 DEF TopNext
<1> QED
  BY <1>3, <1>5, NewIds

\* Where the files of the remote folder come from.
LEMMA Origins ==
  ASSUME Trees, NEW b, Good(b), NEW items, Proper(items, b), NEW f, f = PushedRemote(items),
         NEW r \in DOMAIN f
  PROVE  \/ /\ r \in DOMAIN remote /\ f[r] = remote[r]
            /\ \A it \in items : it.op = "delete" \/ it.rel # r
         \/ \E it \in items :
              /\ it.op \in {"upload", "overwrite"} /\ it.rel = r
              /\ f[r] = [id |-> TargetId(it), size |-> it.size, mtime |-> clock + 1]
              /\ \/ r \in DOMAIN remote /\ f[r].id = remote[r].id
                 \/ r \notin DOMAIN remote /\ f[r].id = NewId(r, clock + 1)
         \/ \E it \in items :
              /\ it.op = "move" /\ it.rel = r
              /\ it.srcRel \in DOMAIN remote \ DOMAIN f /\ f[r] = remote[it.srcRel]
<1>1. CASE \E it \in items : it.op # "delete" /\ it.rel = r
  <2>1. PICK it \in items : it.op # "delete" /\ it.rel = r
    BY <1>1
  <2>2. f[r] = NewRemote(it) /\ (it.op = "move" => it.srcRel \notin DOMAIN f)
    BY <2>1, PushedRemoteFacts
  <2>3. CASE it.op = "move"
    BY <2>1, <2>2, <2>3, Results
  <2>4. CASE it.op \in {"upload", "overwrite"}
    <3>1. f[r] = [id |-> TargetId(it), size |-> it.size, mtime |-> clock + 1]
      BY <2>1, <2>2, <2>4, Results
    <3>2. f[r].id = TargetId(it)
      BY <3>1
    <3>3. \/ r \in DOMAIN remote /\ TargetId(it) = remote[r].id
          \/ r \notin DOMAIN remote /\ TargetId(it) = NewId(r, clock + 1)
      BY <2>1, <2>4, Results
    <3> QED
      BY <2>1, <2>4, <3>1, <3>2, <3>3
  <2> QED
    BY <2>1, <2>3, <2>4 DEF Proper
<1>2. CASE ~\E it \in items : it.op # "delete" /\ it.rel = r
  <2>1. CASE Idle(items, r)
    BY <1>2, <2>1, PushedRemoteFacts
  <2>2. CASE ~Idle(items, r)
    <3>1. PICK it \in items : r \in Around(it)
      BY <2>2 DEF Idle
    <3>2. it.op # "move"
      BY <1>2, <3>1, PushedRemoteFacts DEF Around
    <3>3. it.op = "delete" /\ r = it.rel
      BY <1>2, <3>1, <3>2 DEF Proper, Around
    <3>4. r \in DOMAIN remote /\ f[r] = remote[r]
      <4>1. WithId(it.remoteID) = {}
        BY <3>3, PushedRemoteFacts
      <4> QED
        BY <3>3, <4>1, PushedRemoteFacts
    <3> QED
      BY <1>2, <3>4
  <2> QED
    BY <2>1, <2>2
<1> QED
  BY <1>1, <1>2

\* After a push the remote folder has one file of an id, with a date of the clock.
LEMMA RemotePushed ==
  ASSUME Trees, NEW b, Good(b), NEW items, Proper(items, b), clock' = clock + 1,
         remote' = PushedRemote(items)
  PROVE  RemoteNext
<1>0. clock \in Nat /\ DOMAIN remote \subseteq Rels
  BY DEF Trees
<1> DEFINE same(r) == r \in DOMAIN remote /\ remote'[r].id = remote[r].id
           new(r)  == remote'[r].id = NewId(r, clock + 1)
           moved(r, it) == /\ it.op = "move" /\ it.rel = r
                           /\ it.srcRel \in DOMAIN remote \ DOMAIN remote'
                           /\ remote'[r] = remote[it.srcRel]
<1>1. \A r \in DOMAIN remote' : same(r) \/ new(r) \/ \E it \in items : moved(r, it)
  BY Origins
<1>2. ASSUME NEW r \in DOMAIN remote'
      PROVE  /\ r \in Rels
             /\ \/ \E q \in DOMAIN remote : remote'[r] = remote[q]
                \/ \E it \in items : /\ it.op \in {"upload", "overwrite"}
                                     /\ remote'[r] = [id |-> TargetId(it), size |-> it.size,
                                                      mtime |-> clock + 1]
                                     /\ same(r) \/ new(r)
  BY <1>0, Origins DEF Proper
<1>3. ASSUME NEW r \in DOMAIN remote'
      PROVE  /\ remote'[r] \in RemoteStamp
             /\ remote'[r].id < TopNext /\ remote'[r].mtime <= clock'
  <2>1. ASSUME NEW q \in DOMAIN remote, remote'[r] = remote[q]
        PROVE  /\ remote'[r] \in RemoteStamp
               /\ remote'[r].id < TopNext /\ remote'[r].mtime <= clock'
    <3>1. remote[q] \in RemoteStamp /\ remote[q].id < Top /\ remote[q].mtime <= clock
      BY DEF Trees
    <3> QED
      BY <1>0, <2>1, <3>1, Ticks DEF RemoteStamp
  <2>2. ASSUME NEW it \in items, it.op \in {"upload", "overwrite"}, same(r) \/ new(r),
               remote'[r] = [id |-> TargetId(it), size |-> it.size, mtime |-> clock + 1]
        PROVE  /\ remote'[r] \in RemoteStamp
               /\ remote'[r].id < TopNext /\ remote'[r].mtime <= clock'
    <3>1. it.size \in Nat
      BY <2>2 DEF Proper
    <3>2. remote'[r].id \in Nat \ {0} /\ remote'[r].id < TopNext
      <4>1. same(r) => remote'[r].id \in Nat \ {0} /\ remote'[r].id < Top
        BY DEF Trees, RemoteStamp
      <4>2. new(r) => remote'[r].id \in Nat \ {0} /\ remote'[r].id < TopNext
        BY <1>0, <1>2, Ticks
      <4> QED
        BY <1>0, <2>2, <4>1, <4>2, Ticks
    <3>3. remote'[r].id = TargetId(it) /\ remote'[r].mtime = clock + 1
      BY <2>2
    <3> QED
      BY <1>0, <2>2, <3>1, <3>2, <3>3 DEF RemoteStamp
  <2> QED
    BY <1>2, <2>1, <2>2
<1>4. ASSUME NEW r \in DOMAIN remote', NEW q \in DOMAIN remote', remote'[r].id = remote'[q].id
      PROVE  r = q
  <2>1. \A p, s \in DOMAIN remote : remote[p].id = remote[s].id => p = s
    BY DEF Trees
  <2>2. ASSUME NEW p \in DOMAIN remote, NEW s \in Rels
        PROVE  remote[p].id # NewId(s, clock + 1)
    BY <1>0, Ticks DEF Trees, RemoteStamp
  <2>3. r \in Rels /\ q \in Rels
    BY <1>2
  <2>4. CASE same(r) /\ same(q)
    BY <1>4, <2>1, <2>4
  <2>5. CASE new(r) /\ new(q)
    BY <1>0, <1>4, <2>3, <2>5, Ticks
  <2>6. CASE same(r) /\ new(q)
    BY <1>4, <2>2, <2>3, <2>6
  <2>7. CASE new(r) /\ same(q)
    BY <1>4, <2>2, <2>3, <2>7
  <2>8. ASSUME NEW it \in items, moved(r, it) PROVE r = q
    <3>1. CASE same(q)
      BY <1>4, <2>1, <2>8, <3>1
    <3>2. CASE new(q)
      BY <1>4, <2>2, <2>3, <2>8, <3>2
    <3>3. ASSUME NEW jt \in items, moved(q, jt) PROVE r = q
      <4>1. it.srcRel = jt.srcRel
        BY <1>4, <2>1, <2>8, <3>3
      <4>2. it = jt
        BY <4>1 DEF Proper, Around
      <4> QED
        BY <2>8, <3>3, <4>2
    <3> QED
      BY <1>1, <3>1, <3>2, <3>3
  <2>9. ASSUME NEW it \in items, moved(q, it) PROVE r = q
    <3>1. CASE same(r)
      BY <1>4, <2>1, <2>9, <3>1
    <3>2. CASE new(r)
      BY <1>4, <2>2, <2>3, <2>9, <3>2
    <3> QED
      BY <1>1, <2>8, <3>1, <3>2
  <2> QED
    BY <1>1, <2>4, <2>5, <2>6, <2>7, <2>8, <2>9
<1> QED
  BY <1>2, <1>3, <1>4 DEF RemoteNext

\* After a push each entry is of the file at its path, or of one that is gone.
LEMMA ManifestPushed ==
  ASSUME Trees, NEW b, Good(b), NEW items, Proper(items, b), clock' = clock + 1,
         remote' = PushedRemote(items), NEW f, f = PushedManifest(b, items)
  PROVE  GoodNext(f)
<1>0. clock \in Nat /\ RemoteNext
  BY RemotePushed DEF Trees
<1>1. ASSUME NEW r \in DOMAIN f
      PROVE  (Idle(items, r) /\ r \in DOMAIN b /\ f[r] = b[r])
             \/ \E it \in items : it.op # "delete" /\ it.rel = r
  <2>1. CASE Idle(items, r)
    BY <2>1, PushedManifestFacts
  <2>2. ASSUME NEW it \in items, r \in Around(it)
        PROVE  it.op # "delete" /\ it.rel = r
    <3>1. it.op \in {"delete", "move"} => it.srcRel # r
      BY PushedManifestFacts
    <3>2. it.op # "move" => it.srcRel = it.rel
      BY DEF Proper
    <3> QED
      BY <2>2, <3>1, <3>2 DEF Around
  <2> QED
    BY <2>1, <2>2 DEF Idle
<1>2. ASSUME NEW r \in DOMAIN f
      PROVE  /\ r \in Rels /\ f[r] \in ManifestEntry
             /\ f[r].remoteID < TopNext /\ f[r].remoteMtime <= clock'
             /\ \A q \in DOMAIN remote' : remote'[q].id = f[r].remoteID => q = r
             /\ r \in DOMAIN remote' /\ remote'[r].mtime = f[r].remoteMtime
                  => remote'[r].id = f[r].remoteID
  <2>1. CASE Idle(items, r) /\ r \in DOMAIN b /\ f[r] = b[r]
    <3>1. /\ r \in Rels /\ b[r] \in ManifestEntry
          /\ b[r].remoteID < Top /\ b[r].remoteMtime <= clock
          /\ WithId(b[r].remoteID) \subseteq {r}
          /\ r \in DOMAIN remote /\ remote[r].mtime = b[r].remoteMtime
               => remote[r].id = b[r].remoteID
      BY <2>1 DEF Good
    <3>2. /\ r \in DOMAIN remote' <=> r \in DOMAIN remote
          /\ r \in DOMAIN remote => remote'[r] = remote[r]
      BY <2>1, PushedRemoteFacts
    <3>3. ASSUME NEW q \in DOMAIN remote', remote'[q].id = b[r].remoteID
          PROVE  q = r
      <4>1. CASE q \in DOMAIN remote /\ remote'[q].id = remote[q].id
        BY <3>1, <3>3, <4>1 DEF WithId
      <4>2. CASE remote'[q].id = NewId(q, clock + 1)
        BY <1>0, <3>1, <3>3, <4>2, Ticks DEF RemoteNext, ManifestEntry
      <4>3. ASSUME NEW it \in items, it.srcRel \in DOMAIN remote, remote'[q] = remote[it.srcRel]
            PROVE  FALSE
        <5>1. it.srcRel = r
          BY <3>1, <3>3, <4>3 DEF WithId
        <5> QED
          BY <2>1, <5>1 DEF Idle, Around
      <4> QED
        BY <4>1, <4>2, <4>3, Origins
    <3>4. b[r].remoteID < TopNext /\ b[r].remoteMtime <= clock'
      BY <1>0, <3>1, Ticks DEF ManifestEntry
    <3> QED
      BY <2>1, <3>1, <3>2, <3>3, <3>4
  <2>2. ASSUME NEW it \in items, it.op # "delete", it.rel = r
        PROVE  /\ r \in Rels /\ f[r] \in ManifestEntry
               /\ f[r].remoteID < TopNext /\ f[r].remoteMtime <= clock'
               /\ \A q \in DOMAIN remote' : remote'[q].id = f[r].remoteID => q = r
               /\ r \in DOMAIN remote' /\ remote'[r].mtime = f[r].remoteMtime
                    => remote'[r].id = f[r].remoteID
    <3>1. /\ r \in DOMAIN remote' /\ remote'[r] = NewRemote(it)
          /\ f[r] = [size |-> it.size, localMtime |-> it.mtime, remoteID |-> TargetId(it),
                     remoteMtime |-> NewRemote(it).mtime]
      <4>1. r \in DOMAIN remote' /\ remote'[r] = NewRemote(it)
        BY <2>2, PushedRemoteFacts
      <4>2. f[r] = Entry(it.size, it.mtime, TargetId(it), NewRemote(it).mtime)
        BY <2>2, PushedManifestFacts
      <4> QED
        BY <4>1, <4>2 DEF Entry
    <3>2. f[r].remoteID = TargetId(it) /\ f[r].remoteMtime = remote'[r].mtime
      BY <3>1
    <3>3. TargetId(it) = remote'[r].id
      <4>1. CASE it.op = "move"
        BY <2>2, <3>1, <4>1, Results
      <4>2. CASE it.op # "move"
        <5>1. remote'[r] = [id |-> TargetId(it), size |-> it.size, mtime |-> clock + 1]
          BY <2>2, <3>1, <4>2, Results
        <5> QED
          BY <5>1
      <4> QED
        BY <4>1, <4>2
    <3>4. /\ remote'[r] \in RemoteStamp /\ remote'[r].id < TopNext /\ remote'[r].mtime <= clock'
          /\ it.size \in Nat /\ it.mtime \in Nat /\ r \in Rels
      BY <1>0, <2>2, <3>1 DEF RemoteNext, Proper
    <3>5. f[r] \in ManifestEntry
      BY <3>1, <3>2, <3>3, <3>4 DEF ManifestEntry, RemoteStamp
    <3> QED
      BY <1>0, <3>1, <3>2, <3>3, <3>4, <3>5 DEF RemoteNext
  <2> QED
    BY <1>1, <2>1, <2>2
<1> QED
  BY <1>2 DEF GoodNext

-----------------------------------------------------------------------------
(* Bases                                                                     *)

\* What an index adds to the manifest is so.
LEMMA BootstrapGood ==
  ASSUME Inv, NEW idx, DOMAIN idx \subseteq DOMAIN remote, \A r \in DOMAIN idx : idx[r] = remote[r]
  PROVE  Good(Bootstrap(m, idx, local))
<1> DEFINE b == Bootstrap(m, idx, local)
           seeded == DOMAIN local \cap DOMAIN idx
<1>1. /\ DOMAIN b = DOMAIN m \cup seeded
      /\ \A r \in DOMAIN b \ seeded : b[r] = m[r]
      /\ \A r \in seeded : b[r] = [size |-> remote[r].size, localMtime |-> local[r].mtime,
                                   remoteID |-> remote[r].id, remoteMtime |-> remote[r].mtime]
  BY DEF Bootstrap, Entry
<1>2. seeded \subseteq DOMAIN local \cap DOMAIN remote
  OBVIOUS
<1> HIDE DEF b, seeded
<1>3. DOMAIN b \subseteq Rels
  BY <1>1, <1>2 DEF Inv, Good, Trees
<1>4. ASSUME NEW r \in DOMAIN b
      PROVE  /\ b[r] \in ManifestEntry
             /\ b[r].remoteID < Top /\ b[r].remoteMtime <= clock
             /\ WithId(b[r].remoteID) \subseteq {r}
             /\ r \in DOMAIN remote /\ remote[r].mtime = b[r].remoteMtime
                  => remote[r].id = b[r].remoteID
  <2>1. CASE r \in seeded
    <3>1. /\ local[r] \in Stamp /\ remote[r] \in RemoteStamp
          /\ remote[r].id < Top /\ remote[r].mtime <= clock
      BY <1>2, <2>1 DEF Inv, Trees
    <3>2. b[r].remoteID = remote[r].id /\ b[r].remoteMtime = remote[r].mtime
      BY <1>1, <2>1
    <3>3. b[r] \in ManifestEntry
      BY <1>1, <2>1, <3>1 DEF Stamp, RemoteStamp, ManifestEntry
    <3>4. WithId(remote[r].id) \subseteq {r}
      BY <1>2, <2>1 DEF Inv, Trees, WithId
    <3> QED
      BY <3>1, <3>2, <3>3, <3>4
  <2>2. CASE r \notin seeded
    BY <1>1, <2>2 DEF Inv, Good
  <2> QED
    BY <2>1, <2>2
<1> QED
  BY <1>3, <1>4 DEF Good, b

\* So are the manifests that the first runs begin with.
LEMMA BasesGood ==
  ASSUME Inv
  PROVE  Good(PushBase) /\ Good(TwoWayBase)
<1>1. Good(m) /\ Good(Bootstrap(m, remote, local))
  BY BootstrapGood DEF Inv
<1> DEFINE same == [r \in {q \in DOMAIN remote \cap DOMAIN local : remote[q].size = local[q].size}
                    |-> remote[r]]
<1>2. Good(Bootstrap(m, same, local))
  BY BootstrapGood
<1> QED
  BY <1>1, <1>2 DEF PushBase, TwoWayBase, SeedSynced

-----------------------------------------------------------------------------
(* Moves                                                                     *)

\* A pair of a move, and its uniqueness.
LEMMA PairFacts ==
  ASSUME NEW items, NEW b, NEW p \in MovePairs(items, b)
  PROVE  /\ p[1] \in items /\ p[1].op = "upload" /\ p[1].size # 0
         /\ p[2] \in items /\ p[2].op = "delete" /\ b[p[2].rel].size # 0
         /\ p = <<p[1], p[2]>> /\ SameKey(p[1], p[2], b)
         /\ \A u \in items : u.op = "upload" /\ u.size # 0 /\ SameKey(u, p[2], b) => u = p[1]
         /\ \A d \in items : d.op = "delete" /\ b[d.rel].size # 0 /\ SameKey(p[1], d, b) => d = p[2]
         /\ \A q \in MovePairs(items, b) : p[1] = q[1] \/ p[2] = q[2] => p = q
  BY DEF MovePairs, OfKind

\* What makes an upload and a delete a pair.
LEMMA IsPair ==
  ASSUME NEW items, NEW b, NEW up \in items, NEW del \in items,
         up.op = "upload", up.size # 0, del.op = "delete", b[del.rel].size # 0, SameKey(up, del, b),
         \A u \in items : u.op = "upload" /\ u.size # 0 /\ SameKey(u, del, b) => u = up,
         \A d \in items : d.op = "delete" /\ b[d.rel].size # 0 /\ SameKey(up, d, b) => d = del
  PROVE  <<up, del>> \in MovePairs(items, b)
  BY DEF MovePairs, OfKind

\* The items of a plan in which moves are sought: those of the plan that are in no pair, and
\* a move for each pair.
LEMMA Detected ==
  ASSUME NEW b, NEW plan, plan = PlanPush(local, b), NEW it
  PROVE  /\ it \in DetectMoves(plan, b) /\ it.op # "move" =>
              it \in plan /\ \A p \in MovePairs(plan, b) : it # p[1] /\ it # p[2]
         /\ it \in DetectMoves(plan, b) /\ it.op = "move" =>
              \E p \in MovePairs(plan, b) : it = MoveItem(p[1], p[2], b[p[2].rel])
         /\ it \in plan /\ (\A p \in MovePairs(plan, b) : it # p[1] /\ it # p[2]) =>
              it \in DetectMoves(plan, b)
         /\ \A p \in MovePairs(plan, b) : MoveItem(p[1], p[2], b[p[2].rel]) \in DetectMoves(plan, b)
<1>1. it \in plan => it.op # "move"
  BY PushPlan
<1>2. \A p \in MovePairs(plan, b) : MoveItem(p[1], p[2], b[p[2].rel]).op = "move"
  BY DEF MoveItem
<1>3. it \in UNION {{p[1], p[2]} : p \in MovePairs(plan, b)}
        <=> \E p \in MovePairs(plan, b) : it = p[1] \/ it = p[2]
  OBVIOUS
<1> QED
  BY <1>1, <1>2, <1>3 DEF DetectMoves

\* A move is of a new local path and a recorded one that is gone, and of its file.
LEMMA MoveFacts ==
  ASSUME NEW b, NEW plan, plan = PlanPush(local, b), NEW p \in MovePairs(plan, b), NEW it,
         it = MoveItem(p[1], p[2], b[p[2].rel])
  PROVE  /\ it.op = "move" /\ it.rel = p[1].rel /\ it.srcRel = p[2].rel
         /\ it.rel \in DOMAIN local \ DOMAIN b /\ it.srcRel \in DOMAIN b \ DOMAIN local
         /\ it.remoteID = b[it.srcRel].remoteID
         /\ it.size = local[it.rel].size /\ it.mtime = local[it.rel].mtime
<1>1. /\ it.op = "move" /\ it.rel = p[1].rel /\ it.srcRel = p[2].rel
      /\ it.remoteID = b[it.srcRel].remoteID /\ it.size = b[it.srcRel].size /\ it.mtime = p[1].mtime
  BY DEF MoveItem
<1>2. /\ p[1] \in plan /\ p[1].op = "upload" /\ p[2] \in plan /\ p[2].op = "delete"
      /\ p[1].size = b[p[2].rel].size
  BY PairFacts DEF SameKey
<1>3. /\ p[1].rel \in DOMAIN local \ DOMAIN b /\ p[1].size = local[p[1].rel].size
      /\ p[1].mtime = local[p[1].rel].mtime
      /\ p[2].rel \in DOMAIN b \ DOMAIN local
  BY <1>2, PushPlan
<1> QED
  BY <1>1, <1>2, <1>3

\* What a push plans, with moves or without.
Sought(b, moves) == IF moves THEN DetectMoves(PlanPush(local, b), b) ELSE PlanPush(local, b)

\* each item fits the local tree and the baseline
LEMMA SoughtFits ==
  ASSUME NEW b, NEW moves \in BOOLEAN, NEW it \in Sought(b, moves)
  PROVE  /\ it.op \in {"upload", "overwrite", "delete", "move"}
         /\ it.op # "move" => it \in PlanPush(local, b) /\ it.srcRel = it.rel
         /\ it.op \in {"upload", "move"} => it.rel \notin DOMAIN b
         /\ it.op = "upload" => it.remoteID = 0
         /\ it.op # "upload" => it.srcRel \in DOMAIN b /\ it.remoteID = b[it.srcRel].remoteID
         /\ it.op # "delete" => /\ it.rel \in DOMAIN local /\ it.size = local[it.rel].size
                                /\ it.mtime = local[it.rel].mtime
         /\ it.op \in {"delete", "move"} => it.srcRel \notin DOMAIN local
<1>1. CASE it \in PlanPush(local, b)
  BY <1>1, PushPlan
<1>2. CASE moves /\ it \in DetectMoves(PlanPush(local, b), b) /\ it.op = "move"
  <2>1. PICK p \in MovePairs(PlanPush(local, b), b) : it = MoveItem(p[1], p[2], b[p[2].rel])
    BY <1>2, Detected
  <2> QED
    BY <1>2, <2>1, MoveFacts
<1> QED
  BY <1>1, <1>2, Detected DEF Sought

\* No two items meet.
LEMMA SoughtApart ==
  ASSUME NEW b, NEW moves \in BOOLEAN, NEW it \in Sought(b, moves), NEW jt \in Sought(b, moves),
         Around(it) \cap Around(jt) # {}
  PROVE  it = jt
<1> DEFINE plan == PlanPush(local, b)
           pairs == MovePairs(plan, b)
<1>1. \A x, y \in plan : x.rel = y.rel => x = y
  BY PushPlan
<1>2. ASSUME NEW x \in Sought(b, moves), x.op = "move"
      PROVE  \E p \in pairs : x = MoveItem(p[1], p[2], b[p[2].rel])
  BY <1>2, Detected, SoughtFits, PushPlan DEF Sought
<1>3. ASSUME NEW x \in Sought(b, moves), NEW y \in Sought(b, moves), x.op # "move", y.op = "move",
             Around(x) \cap Around(y) # {}
      PROVE  FALSE
  <2>1. PICK p \in pairs : y = MoveItem(p[1], p[2], b[p[2].rel])
    BY <1>2, <1>3
  <2>2. y.rel = p[1].rel /\ y.srcRel = p[2].rel /\ p[1] \in plan /\ p[2] \in plan
    BY <2>1, MoveFacts, PairFacts
  <2>3. x \in plan /\ x.srcRel = x.rel
    BY <1>3, SoughtFits
  <2>4. x = p[1] \/ x = p[2]
    BY <1>1, <1>3, <2>2, <2>3 DEF Around
  <2>5. moves
    BY <1>3, PushPlan DEF Sought
  <2> QED
    BY <1>3, <2>4, <2>5, Detected DEF Sought
<1>4. CASE it.op # "move" /\ jt.op # "move"
  BY <1>1, <1>4, SoughtFits DEF Around
<1>5. CASE it.op = "move" /\ jt.op = "move"
  <2>1. PICK p \in pairs : it = MoveItem(p[1], p[2], b[p[2].rel])
    BY <1>2, <1>5
  <2>2. PICK q \in pairs : jt = MoveItem(q[1], q[2], b[q[2].rel])
    BY <1>2, <1>5
  <2>3. /\ it.rel = p[1].rel /\ it.srcRel = p[2].rel /\ p[1] \in plan /\ p[2] \in plan
        /\ p[1].op = "upload" /\ p[2].op = "delete"
    BY <2>1, MoveFacts, PairFacts
  <2>4. /\ jt.rel = q[1].rel /\ jt.srcRel = q[2].rel /\ q[1] \in plan /\ q[2] \in plan
        /\ q[1].op = "upload" /\ q[2].op = "delete"
    BY <2>2, MoveFacts, PairFacts
  <2>5. p[1] = q[1] \/ p[2] = q[2]
    BY <1>1, <2>3, <2>4 DEF Around
  <2>6. p = q
    BY <2>5, PairFacts
  <2> QED
    BY <2>1, <2>2, <2>6
<1> QED
  BY <1>3, <1>4, <1>5

\* The items a push carries out.
Pushed(b, moves) == {it \in PushItems(b, moves) : Feasible(it)}

\* They are those sought that are not in drift and can be made.
LEMMA PushedItems ==
  ASSUME NEW b, NEW moves \in BOOLEAN, NEW it
  PROVE  it \in Pushed(b, moves) <=> it \in Sought(b, moves) /\ ~InDrift(it, b) /\ Feasible(it)
  BY DEF Pushed, PushItems, Sought

\* A push can carry its items out.
LEMMA PushProper ==
  ASSUME Trees, NEW b, Good(b), NEW moves \in BOOLEAN
  PROVE  Proper(Pushed(b, moves), b)
<1>1. ASSUME NEW it \in Pushed(b, moves)
      PROVE  /\ it.op \in {"upload", "overwrite", "delete", "move"} /\ it.rel \in Rels
             /\ it.op # "move" => it.srcRel = it.rel
             /\ it.op = "upload" => it.rel \notin DOMAIN b /\ it.remoteID = 0
             /\ it.op # "upload" => it.srcRel \in DOMAIN b /\ it.remoteID = b[it.srcRel].remoteID
             /\ it.op \in {"overwrite", "move"} => WithId(it.remoteID) # {}
             /\ it.op = "move" => it.rel \notin DOMAIN b \cup DOMAIN remote
             /\ it.op # "delete" => it.size \in Nat /\ it.mtime \in Nat
  <2>1. it \in Sought(b, moves) /\ ~InDrift(it, b) /\ Feasible(it)
    BY PushedItems
  <2>2. it.rel \in DOMAIN local \cup DOMAIN b
    BY <2>1, SoughtFits
  <2>3. it.rel \in Rels
    BY <2>2 DEF Trees, Good
  <2>4. it.op # "delete" => it.size \in Nat /\ it.mtime \in Nat
    BY <2>1, SoughtFits DEF Trees, Stamp
  <2>5. it.op \in {"overwrite", "move"} => WithId(it.remoteID) # {}
    BY <2>1 DEF InDrift, Feasible
  <2>6. it.op = "move" => it.rel \notin DOMAIN remote
    BY <2>1 DEF Feasible
  <2> QED
    BY <2>1, <2>3, <2>4, <2>5, <2>6, SoughtFits
<1>2. \A it, jt \in Pushed(b, moves) : Around(it) \cap Around(jt) # {} => it = jt
  BY SoughtApart, PushedItems
<1> QED
  BY <1>1, <1>2 DEF Proper

-----------------------------------------------------------------------------
(* What a push leaves to do                                                  *)

\* WithId, InDrift and Feasible after the step
WithIdNext(id) == {r \in DOMAIN remote' : remote'[r].id = id}

InDriftNext(it, b) ==
  /\ it.op \in {"overwrite", "delete"}
  /\ \/ WithIdNext(it.remoteID) = {} /\ it.op = "overwrite"
     \/ \E r \in WithIdNext(it.remoteID) : RemoteTouched(remote'[r], b[it.rel])

FeasibleNext(it) ==
  it.op = "move" => WithIdNext(it.remoteID) # {} /\ it.rel \notin DOMAIN remote'

\* A path that two baselines do not tell apart has the same item in both plans.
LEMMA PlanLocal ==
  ASSUME NEW b, NEW f, NEW it \in PlanPush(local, b), it.rel \in DOMAIN f <=> it.rel \in DOMAIN b,
         it.rel \in DOMAIN b => f[it.rel] = b[it.rel]
  PROVE  it \in PlanPush(local, f)
<1> DEFINE r == it.rel
<1>1. CASE r \in DOMAIN local \ DOMAIN b /\ it = UploadItem(r, local[r])
  BY <1>1 DEF PlanPush
<1>2. CASE r \in DOMAIN local \cap DOMAIN b /\ Touched(local[r], b[r])
           /\ it = OverwriteItem(r, local[r], b[r])
  <2>1. it = OverwriteItem(r, local[r], f[r]) /\ Touched(local[r], f[r])
    BY <1>2
  <2> QED
    BY <1>2, <2>1 DEF PlanPush
<1>3. CASE r \in DOMAIN b \ DOMAIN local /\ it = DeleteItem(r, b[r])
  <2>1. it = DeleteItem(r, f[r])
    BY <1>3
  <2> QED
    BY <1>3, <2>1 DEF PlanPush
<1>4. \/ r \in DOMAIN local \ DOMAIN b /\ it = UploadItem(r, local[r])
      \/ r \in DOMAIN local \cap DOMAIN b /\ Touched(local[r], b[r])
         /\ it = OverwriteItem(r, local[r], b[r])
      \/ r \in DOMAIN b \ DOMAIN local /\ it = DeleteItem(r, b[r])
  BY DEF PlanPush, UploadItem, OverwriteItem, DeleteItem
<1> QED
  BY <1>1, <1>2, <1>3, <1>4

\* What is left to plan are the items nobody touched.
LeftRest(items, b, f) ==
  /\ \A it \in PlanPush(local, f) : it \in PlanPush(local, b) /\ Idle(items, it.rel)
  /\ \A it \in PlanPush(local, b) : Idle(items, it.rel) => it \in PlanPush(local, f)
  /\ \A r : Idle(items, r) => (r \in DOMAIN f <=> r \in DOMAIN b) /\ (r \in DOMAIN b => f[r] = b[r])

\* A push plans what is left of its own plan.
LEMMA Rest ==
  ASSUME Trees, NEW b, Good(b), NEW moves \in BOOLEAN,
         NEW items, items = Pushed(b, moves), NEW f, f = PushedManifest(b, items)
  PROVE  LeftRest(items, b, f)
<1>0. Proper(items, b)
  BY PushProper
<1>1. \A r : Idle(items, r) =>
              (r \in DOMAIN f <=> r \in DOMAIN b) /\ (r \in DOMAIN b => f[r] = b[r])
  BY <1>0, PushedManifestFacts
<1>2. ASSUME NEW jt \in items, NEW r \in Around(jt)
      PROVE  ~LocalChanged(local, f, r)
  <2>1. jt \in Sought(b, moves)
    BY PushedItems
  <2>2. CASE jt.op # "delete" /\ r = jt.rel
    <3>1. /\ r \in DOMAIN f
          /\ f[r] = [size |-> jt.size, localMtime |-> jt.mtime, remoteID |-> TargetId(jt),
                     remoteMtime |-> NewRemote(jt).mtime]
      BY <1>0, <2>2, PushedManifestFacts DEF Entry
    <3>2. f[r].size = jt.size /\ f[r].localMtime = jt.mtime
      BY <3>1
    <3>3. r \in DOMAIN local /\ jt.size = local[r].size /\ jt.mtime = local[r].mtime
      BY <2>1, <2>2, SoughtFits
    <3> QED
      BY <3>1, <3>2, <3>3 DEF LocalChanged, Touched
  <2>3. CASE jt.op \in {"delete", "move"} /\ r = jt.srcRel
    <3>1. r \notin DOMAIN f
      BY <1>0, <2>3, PushedManifestFacts
    <3>2. r \notin DOMAIN local
      BY <2>1, <2>3, SoughtFits
    <3> QED
      BY <3>1, <3>2 DEF LocalChanged
  <2> QED
    BY <1>2, <2>1, <2>2, <2>3, SoughtFits DEF Around
<1>3. ASSUME NEW it \in PlanPush(local, f)
      PROVE  it \in PlanPush(local, b) /\ Idle(items, it.rel)
  <2>1. LocalChanged(local, f, it.rel)
    BY PushPlan
  <2>2. Idle(items, it.rel)
    BY <1>2, <2>1 DEF Idle
  <2> QED
    BY <1>1, <2>2, PlanLocal
<1>4. ASSUME NEW it \in PlanPush(local, b), Idle(items, it.rel)
      PROVE  it \in PlanPush(local, f)
  BY <1>1, <1>4, PlanLocal
<1> QED
  BY <1>1, <1>3, <1>4 DEF LeftRest

\* What was in drift is in drift still, and a move that could not be made cannot be made now.
LEMMA StillLeft ==
  ASSUME Trees, NEW b, Good(b), NEW moves \in BOOLEAN, NEW items, items = Pushed(b, moves),
         clock' = clock + 1, remote' = PushedRemote(items), NEW f, f = PushedManifest(b, items),
         NEW it \in Sought(b, moves), Idle(items, it.rel), Idle(items, it.srcRel)
  PROVE  InDriftNext(it, f) \/ ~FeasibleNext(it)
<1>0. Proper(items, b)
  BY PushProper
<1>1. InDrift(it, b) \/ ~Feasible(it)
  <2>1. it \notin items
    BY DEF Idle, Around
  <2> QED
    BY <2>1, PushedItems
<1>2. ASSUME NEW r, Idle(items, r)
      PROVE  /\ r \in DOMAIN remote' <=> r \in DOMAIN remote
             /\ r \in DOMAIN remote => remote'[r] = remote[r]
             /\ r \in DOMAIN f <=> r \in DOMAIN b
             /\ r \in DOMAIN b => f[r] = b[r]
  BY <1>0, <1>2, PushedRemoteFacts, PushedManifestFacts
<1>3. GoodNext(f)
  BY <1>0, ManifestPushed
<1>4. ASSUME it.op # "upload"
      PROVE  /\ WithIdNext(it.remoteID) = WithId(it.remoteID)
             /\ WithId(it.remoteID) \subseteq {it.srcRel}
  <2> DEFINE s == it.srcRel
  <2>1. s \in DOMAIN b /\ it.remoteID = b[s].remoteID
    BY <1>4, SoughtFits
  <2>2. s \in DOMAIN f /\ f[s] = b[s]
    BY <1>2, <2>1
  <2>3. WithIdNext(it.remoteID) \subseteq {s}
    BY <1>3, <2>1, <2>2 DEF GoodNext, WithIdNext
  <2>4. WithId(it.remoteID) \subseteq {s}
    BY <2>1 DEF Good
  <2>5. s \in WithIdNext(it.remoteID) <=> s \in WithId(it.remoteID)
    BY <1>2 DEF WithId, WithIdNext
  <2> QED
    BY <2>3, <2>4, <2>5
<1>5. CASE InDrift(it, b)
  <2>1. it.op \in {"overwrite", "delete"} /\ it.srcRel = it.rel /\ it.rel \in DOMAIN b
    BY <1>5, SoughtFits DEF InDrift
  <2>2. f[it.rel] = b[it.rel] /\ \A r \in WithId(it.remoteID) : remote'[r] = remote[r]
    <3>1. \A r \in WithId(it.remoteID) : r = it.rel /\ r \in DOMAIN remote
      BY <1>4, <2>1 DEF WithId
    <3> QED
      BY <1>2, <2>1, <3>1
  <2> QED
    BY <1>4, <1>5, <2>1, <2>2 DEF InDrift, InDriftNext
<1>6. CASE ~Feasible(it)
  BY <1>2, <1>4, <1>6 DEF Feasible, FeasibleNext
<1> QED
  BY <1>1, <1>5, <1>6

\* A push without moves leaves what is in drift.
LEMMA PlainPushSettles ==
  ASSUME Trees, NEW b, Good(b), clock' = clock + 1, NEW items, items = Pushed(b, FALSE),
         remote' = PushedRemote(items), NEW f, f = PushedManifest(b, items),
         NEW it \in PlanPush(local, f)
  PROVE  InDriftNext(it, f)
<1>1. it \in PlanPush(local, b) /\ Idle(items, it.rel)
  BY Rest DEF LeftRest
<1>2. it \in Sought(b, FALSE) /\ it.srcRel = it.rel /\ it.op # "move"
  BY <1>1, PushPlan DEF Sought
<1> QED
  BY <1>1, <1>2, StillLeft DEF FeasibleNext

\* What is left to plan from f, when the items of a push with moves from b are done.
LeftOver(items, b, f) ==
  /\ \A it : it \in items <=> it \in Sought(b, TRUE) /\ ~InDrift(it, b) /\ Feasible(it)
  /\ LeftRest(items, b, f)

\* A pair whose move was not made is a pair again.
LEMMA PairsStay ==
  ASSUME NEW b, NEW items, NEW f, LeftOver(items, b, f),
         NEW p \in MovePairs(PlanPush(local, b), b),
         MoveItem(p[1], p[2], b[p[2].rel]) \notin items
  PROVE  /\ p \in MovePairs(PlanPush(local, f), f)
         /\ Idle(items, p[1].rel) /\ Idle(items, p[2].rel)
         /\ f[p[2].rel] = b[p[2].rel]
<1> DEFINE mv == MoveItem(p[1], p[2], b[p[2].rel])
<1>1. mv \in Sought(b, TRUE)
  BY Detected DEF Sought
<1>2. mv.rel = p[1].rel /\ mv.srcRel = p[2].rel /\ mv.srcRel \in DOMAIN b
  BY MoveFacts
<1>3. ASSUME NEW jt \in items PROVE Around(jt) \cap Around(mv) = {}
  <2>1. jt \in Sought(b, TRUE) /\ jt # mv
    BY <1>3 DEF LeftOver, LeftRest
  <2> QED
    BY <1>1, <2>1, SoughtApart
<1>4. Idle(items, p[1].rel) /\ Idle(items, p[2].rel)
  BY <1>2, <1>3 DEF Idle, Around
<1>5. /\ p[1] \in PlanPush(local, b) /\ p[1].op = "upload" /\ p[1].size # 0
      /\ p[2] \in PlanPush(local, b) /\ p[2].op = "delete" /\ b[p[2].rel].size # 0
      /\ p = <<p[1], p[2]>> /\ SameKey(p[1], p[2], b)
  BY PairFacts
<1>6. p[1] \in PlanPush(local, f) /\ p[2] \in PlanPush(local, f) /\ f[p[2].rel] = b[p[2].rel]
  BY <1>2, <1>4, <1>5 DEF LeftOver, LeftRest
<1>7. ASSUME NEW d \in PlanPush(local, f), d.op = "delete"
      PROVE  d \in PlanPush(local, b) /\ f[d.rel] = b[d.rel]
  <2>1. d \in PlanPush(local, b) /\ Idle(items, d.rel)
    BY DEF LeftOver, LeftRest
  <2>2. d.rel \in DOMAIN b
    BY <1>7, <2>1, PushPlan
  <2> QED
    BY <2>1, <2>2 DEF LeftOver, LeftRest
<1>8. ASSUME NEW u \in PlanPush(local, f), u.op = "upload", u.size # 0, SameKey(u, p[2], f)
      PROVE  u = p[1]
  <2>1. u \in PlanPush(local, b) /\ SameKey(u, p[2], b)
    BY <1>6, <1>8 DEF LeftOver, LeftRest, SameKey
  <2> QED
    BY <1>8, <2>1, PairFacts
<1>9. ASSUME NEW d \in PlanPush(local, f), d.op = "delete", f[d.rel].size # 0, SameKey(p[1], d, f)
      PROVE  d = p[2]
  <2>1. d \in PlanPush(local, b) /\ f[d.rel] = b[d.rel]
    BY <1>7, <1>9
  <2>2. SameKey(p[1], d, b) /\ b[d.rel].size # 0
    BY <1>9, <2>1 DEF SameKey
  <2> QED
    BY <1>9, <2>1, <2>2, PairFacts
<1>10. SameKey(p[1], p[2], f) /\ f[p[2].rel].size # 0
  BY <1>5, <1>6 DEF SameKey
<1>11. <<p[1], p[2]>> \in MovePairs(PlanPush(local, f), f)
  BY <1>5, <1>6, <1>8, <1>9, <1>10, IsPair
<1> QED
  BY <1>4, <1>5, <1>6, <1>11

\* What a run with moves would plan now it would have planned before, and has not done.
LEMMA MovesLeft ==
  ASSUME NEW b, NEW items, NEW f, LeftOver(items, b, f),
         NEW it \in DetectMoves(PlanPush(local, f), f)
  PROVE  it \in Sought(b, TRUE) /\ Idle(items, it.rel) /\ Idle(items, it.srcRel)
<1> DEFINE plan == PlanPush(local, b)
           rest == PlanPush(local, f)
<1>1. CASE it.op # "move"
  <2>1. it \in rest /\ \A p \in MovePairs(rest, f) : it # p[1] /\ it # p[2]
    BY <1>1, Detected
  <2>2. it \in plan /\ Idle(items, it.rel)
    BY <2>1 DEF LeftOver, LeftRest
  <2>3. it.srcRel = it.rel
    BY <2>2, PushPlan
  <2>4. ASSUME NEW p \in MovePairs(plan, b), it = p[1] \/ it = p[2]
        PROVE  FALSE
    <3> DEFINE mv == MoveItem(p[1], p[2], b[p[2].rel])
    <3>1. it.rel \in Around(mv)
      BY <2>4, MoveFacts DEF Around
    <3>2. mv \notin items
      BY <2>2, <3>1 DEF Idle
    <3>3. p \in MovePairs(rest, f)
      BY <3>2, PairsStay
    <3> QED
      BY <2>1, <2>4, <3>3
  <2>5. it \in Sought(b, TRUE)
    BY <2>2, <2>4, Detected DEF Sought
  <2> QED
    BY <2>2, <2>3, <2>5
<1>2. CASE it.op = "move"
  <2>1. PICK p \in MovePairs(rest, f) : it = MoveItem(p[1], p[2], f[p[2].rel])
    BY <1>2, Detected
  <2>2. p[1] \in rest /\ p[1].op = "upload"
    BY PairFacts
  <2>3. p[1] \in plan /\ Idle(items, p[1].rel)
    BY <2>2 DEF LeftOver, LeftRest
  <2>4. p[1] \notin Sought(b, TRUE)
    <3>1. p[1] \notin items
      BY <2>3 DEF Idle, Around
    <3> QED
      BY <2>2, <3>1 DEF LeftOver, LeftRest, InDrift, Feasible
  <2>5. PICK q \in MovePairs(plan, b) : p[1] = q[1] \/ p[1] = q[2]
    BY <2>3, <2>4, Detected DEF Sought
  <2>6. p[1] = q[1]
    BY <2>2, <2>5, PairFacts
  <2> DEFINE mv == MoveItem(q[1], q[2], b[q[2].rel])
  <2>7. mv.rel = p[1].rel /\ mv.srcRel = q[2].rel /\ mv \in Sought(b, TRUE)
    BY <2>6, MoveFacts, Detected DEF Sought
  <2>8. mv \notin items
    BY <2>3, <2>7 DEF Idle, Around
  <2>9. /\ q \in MovePairs(rest, f) /\ Idle(items, q[1].rel) /\ Idle(items, q[2].rel)
        /\ f[q[2].rel] = b[q[2].rel]
    BY <2>8, PairsStay
  <2>10. p = q
    BY <2>6, <2>9, PairFacts
  <2>11. it = mv
    BY <2>1, <2>9, <2>10
  <2> QED
    BY <2>6, <2>7, <2>9, <2>11
<1> QED
  BY <1>1, <1>2

\* A push with moves leaves what is in drift and the moves it could not make.
LEMMA MovingPushSettles ==
  ASSUME Trees, NEW b, Good(b), clock' = clock + 1, NEW items, items = Pushed(b, TRUE),
         remote' = PushedRemote(items), NEW f, f = PushedManifest(b, items),
         NEW it \in DetectMoves(PlanPush(local, f), f)
  PROVE  InDriftNext(it, f) \/ ~FeasibleNext(it)
<1>1. LeftOver(items, b, f)
  <2>1. \A jt : jt \in items <=> jt \in Sought(b, TRUE) /\ ~InDrift(jt, b) /\ Feasible(jt)
    BY PushedItems
  <2>2. LeftRest(items, b, f)
    BY Rest
  <2> QED
    BY <2>1, <2>2 DEF LeftOver
<1>2. it \in Sought(b, TRUE) /\ Idle(items, it.rel) /\ Idle(items, it.srcRel)
  BY <1>1, MovesLeft
<1> QED
  BY <1>2, StillLeft

\* A push replaces and removes no file that is not as its entry says.
LEMMA PushSpares ==
  ASSUME Trees, NEW b, Good(b), NEW moves \in BOOLEAN, NEW items, items = Pushed(b, moves),
         NEW f, f = PushedRemote(items),
         NEW r \in DOMAIN b, NEW q \in WithId(b[r].remoteID), RemoteTouched(remote[q], b[r])
  PROVE  \E p \in DOMAIN f : f[p] = remote[q]
<1>0. Proper(items, b)
  BY PushProper
<1>1. q = r /\ r \in DOMAIN remote /\ remote[r].id = b[r].remoteID
  BY DEF Good, WithId
<1>2. CASE Idle(items, r)
  BY <1>0, <1>1, <1>2, PushedRemoteFacts
<1>3. ASSUME NEW it \in items, r \in Around(it)
      PROVE  \E p \in DOMAIN f : f[p] = remote[q]
  <2>1. it \in Sought(b, moves) /\ ~InDrift(it, b)
    BY PushedItems
  <2>2. ~(it.op \in {"overwrite", "delete"})
    <3> SUFFICES ASSUME it.op \in {"overwrite", "delete"} PROVE FALSE
      OBVIOUS
    <3>1. it.rel = r /\ it.remoteID = b[r].remoteID
      BY <1>3, <2>1, SoughtFits DEF Around
    <3> QED
      BY <1>1, <2>1, <3>1 DEF InDrift, WithId
  <2>3. it.op = "move" /\ r = it.srcRel
    BY <1>3, <2>1, <2>2, SoughtFits DEF Around
  <2>4. it.rel \in DOMAIN f /\ f[it.rel] = NewRemote(it)
    BY <1>0, <2>3, PushedRemoteFacts
  <2>5. NewRemote(it) = remote[it.srcRel]
    BY <1>0, <2>3, Results
  <2> QED
    BY <1>1, <2>3, <2>4, <2>5
<1> QED
  BY <1>2, <1>3 DEF Idle

-----------------------------------------------------------------------------
(* Pushes                                                                    *)

\* The invariant after a step, from its parts.
LEMMA InvNext ==
  ASSUME clock \in Nat, clock' = clock + 1, RemoteNext, GoodNext(m'),
         DOMAIN local' \subseteq Rels, \A r \in DOMAIN local' : local'[r] \in Stamp
  PROVE  Inv'
<1>1. Top' = TopNext
  BY DEF Top, TopNext
<1>2. Trees'
  BY <1>1 DEF Trees, RemoteNext
<1>3. Good(m)'
  BY <1>1 DEF Good, GoodNext, WithId
<1> QED
  BY <1>2, <1>3 DEF Inv

\* A push keeps the invariant, leaves nothing to push, and spares what others have changed.
LEMMA PushStep ==
  ASSUME Inv, NEW moves \in BOOLEAN, Push(moves)
  PROVE  Inv' /\ RunsSettle' /\ TwoWayKeepsEdits /\ PushKeepsEdits
<1> DEFINE b == PushBase
           items == Pushed(b, moves)
<1>1. /\ Trees /\ Good(b) /\ clock \in Nat /\ clock' = clock + 1 /\ local' = local
      /\ last' = (IF moves THEN "push with moves" ELSE "push")
      /\ items = Pushed(b, moves)
      /\ remote' = PushedRemote(items) /\ m' = PushedManifest(b, items)
  BY BasesGood DEF Push, Tick, Pushed, Inv, Trees
<1> HIDE DEF b, items
<1>2. Proper(items, b)
  BY <1>1, PushProper
<1>3. RemoteNext /\ GoodNext(m')
  BY <1>1, <1>2, RemotePushed, ManifestPushed
<1>4. Inv'
  BY <1>1, <1>3, InvNext DEF Trees
<1>5. ASSUME moves = FALSE, NEW it, it \in PlanPush(local, m') PROVE InDriftNext(it, m')
  BY <1>1, <1>5, PlainPushSettles
<1>6. ASSUME moves = TRUE, NEW it, it \in DetectMoves(PlanPush(local, m'), m')
      PROVE  InDriftNext(it, m') \/ ~FeasibleNext(it)
  BY <1>1, <1>6, MovingPushSettles
<1>7. PushSettles'
  <2>1. ASSUME last' = "push" PROVE (PushItems(m, FALSE) = {})'
    <3>1. moves = FALSE
      BY <1>1, <2>1
    <3>2. \A it \in PlanPush(local, m') : InDriftNext(it, m')
      BY <1>5, <3>1
    <3> QED
      BY <1>1, <3>2 DEF PushItems, InDriftNext, InDrift, WithId, WithIdNext
  <2>2. ASSUME last' = "push with moves" PROVE (\A it \in PushItems(m, TRUE) : ~Feasible(it))'
    <3>1. moves = TRUE
      BY <1>1, <2>2
    <3>2. \A it \in DetectMoves(PlanPush(local, m'), m') :
             InDriftNext(it, m') \/ ~FeasibleNext(it)
      BY <1>6, <3>1
    <3> QED
      BY <1>1, <3>2
      DEF PushItems, InDriftNext, InDrift, WithId, WithIdNext, Feasible, FeasibleNext
  <2> QED
    BY <2>1, <2>2 DEF PushSettles
<1>8. RunsSettle'
  BY <1>1, <1>7 DEF RunsSettle, PullSettles, TwoWaySettles
<1>9. PushKeepsEdits
  <2> SUFFICES ASSUME m # [r \in {} |-> 0], NEW r \in DOMAIN m, NEW q \in WithId(m[r].remoteID),
                      RemoteTouched(remote[q], m[r])
               PROVE  \E p \in DOMAIN remote' : remote'[p] = remote[q]
    BY DEF PushKeepsEdits
  <2>1. b = m
    BY DEF b, PushBase
  <2>2. /\ Trees /\ Good(b) /\ items = Pushed(b, moves) /\ r \in DOMAIN b
        /\ q \in WithId(b[r].remoteID) /\ RemoteTouched(remote[q], b[r])
    BY <1>1, <2>1
  <2>3. \E p \in DOMAIN PushedRemote(items) : PushedRemote(items)[p] = remote[q]
    BY <2>2, PushSpares
  <2> QED
    BY <1>1, <2>3
<1> QED
  BY <1>1, <1>4, <1>8, <1>9 DEF TwoWayKeepsEdits

-----------------------------------------------------------------------------
(* Pulls                                                                     *)

\* The local tree and the manifest after a pull, path by path.
PullDone(b, items, f, g) ==
  /\ \A it \in items :
       /\ it.op = "download" =>
            /\ it.rel \in DOMAIN f /\ f[it.rel] = [size |-> it.size, mtime |-> clock + 1]
            /\ it.rel \in DOMAIN g
            /\ g[it.rel] = Entry(it.size, clock + 1, it.remoteID, it.remoteMtime)
       /\ it.op = "deleteLocal" => it.rel \notin DOMAIN f \cup DOMAIN g
  /\ \A r : (\A it \in items : it.rel # r) =>
       /\ r \in DOMAIN f <=> r \in DOMAIN local
       /\ r \in DOMAIN local => f[r] = local[r]
       /\ r \in DOMAIN g <=> r \in DOMAIN b
       /\ r \in DOMAIN b => g[r] = b[r]

\* A pull does what PullDone says.
LEMMA PulledFacts ==
  ASSUME NEW b, NEW items, items \subseteq PlanPull(remote, b),
         NEW f, f = PulledLocal(items), NEW g, g = PulledManifest(b, items)
  PROVE  PullDone(b, items, f, g)
<1> DEFINE fetched == {it.rel : it \in OfKind(items, "download")}
           gone    == {it.rel : it \in OfKind(items, "deleteLocal")}
           Record(it) == Entry(it.size, clock + 1, it.remoteID, it.remoteMtime)
<1>1. /\ DOMAIN f = (DOMAIN local \ gone) \cup fetched
      /\ \A r \in fetched : f[r] = [size |-> ItemAt(items, r).size, mtime |-> clock + 1]
      /\ \A r \in DOMAIN f \ fetched : f[r] = local[r]
  BY DEF PulledLocal
<1>2. /\ DOMAIN g = (DOMAIN b \ gone) \cup fetched
      /\ \A r \in fetched : g[r] = Record(ItemAt(items, r))
      /\ \A r \in DOMAIN g \ fetched : g[r] = b[r]
  BY DEF PulledManifest
<1>3. \A it, jt \in items : it.rel = jt.rel => it = jt
  BY PullPlan
<1>4. ASSUME NEW it \in items PROVE ItemAt(items, it.rel) = it
  BY <1>3 DEF ItemAt
<1>5. /\ \A r : r \in fetched <=> \E it \in items : it.op = "download" /\ it.rel = r
      /\ \A r : r \in gone <=> \E it \in items : it.op = "deleteLocal" /\ it.rel = r
  BY DEF OfKind
<1> HIDE DEF fetched, gone
<1>6. ASSUME NEW it \in items, it.op = "download"
      PROVE  /\ it.rel \in DOMAIN f /\ f[it.rel] = [size |-> it.size, mtime |-> clock + 1]
             /\ it.rel \in DOMAIN g
             /\ g[it.rel] = Entry(it.size, clock + 1, it.remoteID, it.remoteMtime)
  <2>1. it.rel \in fetched
    BY <1>5, <1>6
  <2> QED
    BY <1>1, <1>2, <1>4, <2>1
<1>7. ASSUME NEW it \in items, it.op = "deleteLocal"
      PROVE  it.rel \notin DOMAIN f \cup DOMAIN g
  <2>1. it.rel \in gone /\ it.rel \notin fetched
    BY <1>3, <1>5, <1>7
  <2> QED
    BY <1>1, <1>2, <2>1
<1>8. ASSUME NEW r, \A it \in items : it.rel # r
      PROVE  /\ r \in DOMAIN f <=> r \in DOMAIN local
             /\ r \in DOMAIN local => f[r] = local[r]
             /\ r \in DOMAIN g <=> r \in DOMAIN b
             /\ r \in DOMAIN b => g[r] = b[r]
  BY <1>1, <1>2, <1>5, <1>8
<1> QED
  BY <1>6, <1>7, <1>8 DEF PullDone

\* What a pull puts in the local tree is of the size that was planned.
LEMMA PulledStamps ==
  ASSUME Trees, NEW b, NEW items, items \subseteq PlanPull(remote, b), NEW f, f = PulledLocal(items)
  PROVE  DOMAIN f \subseteq Rels /\ \A r \in DOMAIN f : f[r] \in Stamp
<1> DEFINE g == PulledManifest(b, items)
<1>0. PullDone(b, items, f, g)
  BY PulledFacts
<1> HIDE DEF g
<1>1. ASSUME NEW r \in DOMAIN f PROVE r \in Rels /\ f[r] \in Stamp
  <2>1. CASE \A it \in items : it.rel # r
    BY <1>0, <2>1 DEF PullDone, Trees
  <2>2. ASSUME NEW it \in items, it.rel = r PROVE r \in Rels /\ f[r] \in Stamp
    <3>0. it.op = "download"
      <4>1. it.op # "deleteLocal"
        BY <1>0, <2>2 DEF PullDone
      <4> QED
        BY <4>1, PullPlan
    <3>1. it.op = "download" /\ f[r] = [size |-> it.size, mtime |-> clock + 1]
      BY <1>0, <2>2, <3>0 DEF PullDone
    <3>2. r \in DOMAIN remote /\ it.size = remote[r].size
      BY <2>2, <3>1, PullPlan
    <3> QED
      BY <3>1, <3>2 DEF Trees, RemoteStamp, Stamp
  <2> QED
    BY <2>1, <2>2
<1> QED
  BY <1>1

\* What a pull records is so of the remote folder it was planned with.
LEMMA PulledGood ==
  ASSUME Trees, NEW b, Good(b), NEW items, items \subseteq PlanPull(remote, b),
         NEW g, g = PulledManifest(b, items)
  PROVE  Good(g)
<1> DEFINE f == PulledLocal(items)
<1>0. PullDone(b, items, f, g)
  BY PulledFacts
<1> HIDE DEF f
<1>1. ASSUME NEW r \in DOMAIN g
      PROVE  /\ r \in Rels /\ g[r] \in ManifestEntry
             /\ g[r].remoteID < Top /\ g[r].remoteMtime <= clock
             /\ WithId(g[r].remoteID) \subseteq {r}
             /\ r \in DOMAIN remote /\ remote[r].mtime = g[r].remoteMtime
                  => remote[r].id = g[r].remoteID
  <2>1. CASE \A it \in items : it.rel # r
    <3>1. r \in DOMAIN b /\ g[r] = b[r]
      BY <1>0, <2>1 DEF PullDone
    <3> QED
      BY <3>1 DEF Good
  <2>2. ASSUME NEW it \in items, it.rel = r
        PROVE  /\ r \in Rels /\ g[r] \in ManifestEntry
               /\ g[r].remoteID < Top /\ g[r].remoteMtime <= clock
               /\ WithId(g[r].remoteID) \subseteq {r}
               /\ r \in DOMAIN remote /\ remote[r].mtime = g[r].remoteMtime
                    => remote[r].id = g[r].remoteID
    <3>1. it.op # "deleteLocal"
      BY <1>0, <2>2 DEF PullDone
    <3>2. /\ it.op = "download" /\ r \in DOMAIN remote /\ it.remoteID = remote[r].id
          /\ it.size = remote[r].size /\ it.remoteMtime = remote[r].mtime
      BY <2>2, <3>1, PullPlan
    <3>3. g[r] = [size |-> remote[r].size, localMtime |-> clock + 1, remoteID |-> remote[r].id,
                  remoteMtime |-> remote[r].mtime]
      BY <1>0, <2>2, <3>2 DEF PullDone, Entry
    <3>4. /\ r \in Rels /\ remote[r] \in RemoteStamp /\ clock \in Nat
          /\ remote[r].id < Top /\ remote[r].mtime <= clock
          /\ \A q \in DOMAIN remote : remote[q].id = remote[r].id => q = r
      BY <3>2 DEF Trees
    <3>5. g[r].remoteID = remote[r].id /\ g[r].remoteMtime = remote[r].mtime
      BY <3>3
    <3>6. g[r] \in ManifestEntry
      BY <3>3, <3>4 DEF RemoteStamp, ManifestEntry
    <3>7. WithId(remote[r].id) \subseteq {r}
      BY <3>4 DEF WithId
    <3> QED
      BY <3>4, <3>5, <3>6, <3>7
  <2> QED
    BY <2>1, <2>2
<1> QED
  BY <1>1 DEF Good

\* What was so of an unchanged remote folder is so after the step.
LEMMA GoodStays ==
  ASSUME Trees, NEW b, Good(b), remote' = remote, clock' = clock + 1
  PROVE  GoodNext(b) /\ RemoteNext
<1>1. clock \in Nat /\ clock' \in Nat /\ Top \in Nat /\ TopNext \in Nat /\ Top <= TopNext
  BY Ticks DEF Trees
<1>2. ASSUME NEW r \in DOMAIN b PROVE b[r].remoteID < TopNext /\ b[r].remoteMtime <= clock'
  BY <1>1 DEF Good, ManifestEntry
<1>3. ASSUME NEW r \in DOMAIN remote PROVE remote[r].id < TopNext /\ remote[r].mtime <= clock'
  BY <1>1 DEF Trees, RemoteStamp
<1>4. GoodNext(b)
  BY <1>2 DEF Good, GoodNext, WithId
<1>5. RemoteNext
  BY <1>3 DEF RemoteNext, Trees
<1> QED
  BY <1>4, <1>5

\* A pull leaves only what it refuses to replace.
LEMMA PullLeaves ==
  ASSUME NEW items, items = FilterDrift(PlanPull(remote, m), local, m),
         NEW f, NEW g, PullDone(m, items, f, g),
         NEW it \in PlanPull(remote, g)
  PROVE  /\ it.op = "download" /\ it.rel \in DOMAIN f
         /\ it.rel \notin DOMAIN g \/ Touched(f[it.rel], g[it.rel])
<1> DEFINE r == it.rel
<1>1. RemoteChanged(remote, g, r)
  BY PullPlan
<1>2. ASSUME NEW jt \in items, jt.rel = r PROVE FALSE
  <2>0. jt \in PlanPull(remote, m)
    BY DEF FilterDrift
  <2>1. CASE jt.op = "download"
    <3>1. r \in DOMAIN remote /\ jt.size = remote[r].size /\ jt.remoteMtime = remote[r].mtime
      BY <1>2, <2>0, <2>1, PullPlan
    <3>2. /\ r \in DOMAIN g
          /\ g[r] = [size |-> jt.size, localMtime |-> clock + 1, remoteID |-> jt.remoteID,
                     remoteMtime |-> jt.remoteMtime]
      BY <1>2, <2>1 DEF PullDone, Entry
    <3>3. g[r].size = jt.size /\ g[r].remoteMtime = jt.remoteMtime
      BY <3>2
    <3> QED
      BY <1>1, <3>1, <3>2, <3>3 DEF RemoteChanged, RemoteTouched
  <2>2. CASE jt.op = "deleteLocal"
    <3>1. r \notin DOMAIN remote
      BY <1>2, <2>0, <2>2, PullPlan
    <3>2. r \notin DOMAIN g
      BY <1>2, <2>2 DEF PullDone
    <3> QED
      BY <1>1, <3>1, <3>2 DEF RemoteChanged
  <2> QED
    BY <2>0, <2>1, <2>2, PullPlan
<1>3. /\ r \in DOMAIN f <=> r \in DOMAIN local
      /\ r \in DOMAIN local => f[r] = local[r]
      /\ r \in DOMAIN g <=> r \in DOMAIN m
      /\ r \in DOMAIN m => g[r] = m[r]
  BY <1>2 DEF PullDone
<1>4. RemoteChanged(remote, m, r)
  BY <1>1, <1>3 DEF RemoteChanged
<1>5. PICK jt \in PlanPull(remote, m) : jt.rel = r
  BY <1>4, PullPlan
<1>6. /\ jt.op = "download" /\ r \in DOMAIN local
      /\ r \notin DOMAIN m \/ Touched(local[r], m[r])
  BY <1>2, <1>5 DEF FilterDrift
<1>7. r \in DOMAIN remote
  BY <1>5, <1>6, PullPlan
<1>8. it.op = "download"
  BY <1>7, PullPlan
<1> QED
  BY <1>3, <1>6, <1>8

\* A pull keeps the invariant and leaves nothing to pull.
LEMMA PullStep ==
  ASSUME Inv, Pull
  PROVE  Inv' /\ RunsSettle' /\ TwoWayKeepsEdits /\ PushKeepsEdits
<1> DEFINE items == FilterDrift(PlanPull(remote, m), local, m)
<1>1. /\ Trees /\ Good(m) /\ clock \in Nat /\ clock' = clock + 1 /\ last' = "pull"
      /\ remote' = remote /\ local' = PulledLocal(items) /\ m' = PulledManifest(m, items)
      /\ items = FilterDrift(PlanPull(remote, m), local, m)
      /\ items \subseteq PlanPull(remote, m)
  BY DEF Pull, Tick, Inv, Trees, FilterDrift
<1> HIDE DEF items
<1>2. PullDone(m, items, local', m')
  BY <1>1, PulledFacts
<1>3. DOMAIN local' \subseteq Rels /\ \A r \in DOMAIN local' : local'[r] \in Stamp
  BY <1>1, PulledStamps
<1>4. Good(m')
  BY <1>1, PulledGood
<1>5. GoodNext(m') /\ RemoteNext
  BY <1>1, <1>4, GoodStays
<1>6. Inv'
  BY <1>1, <1>3, <1>5, InvNext
<1>7. \A it \in PlanPull(remote, m') :
         /\ it.op = "download" /\ it.rel \in DOMAIN local'
         /\ it.rel \notin DOMAIN m' \/ Touched(local'[it.rel], m'[it.rel])
  BY <1>1, <1>2, PullLeaves
<1>8. FilterDrift(PlanPull(remote', m'), local', m') = {}
  BY <1>1, <1>7 DEF FilterDrift
<1>9. RunsSettle'
  BY <1>1, <1>8 DEF RunsSettle, PushSettles, PullSettles, TwoWaySettles
<1> QED
  BY <1>1, <1>6, <1>9 DEF TwoWayKeepsEdits, PushKeepsEdits

-----------------------------------------------------------------------------
(* Two-way syncs                                                             *)

\* What a two-way plan takes from the plan of each side.
LEMMA TwoWayPlan ==
  ASSUME NEW f, NEW idx, NEW b, NEW it
  PROVE  /\ it \in PlanTwoWay(f, idx, b).push <=>
              it \in PlanPush(f, b) /\ ~RemoteChanged(idx, b, it.rel)
         /\ it \in PlanTwoWay(f, idx, b).pull <=>
              /\ it \in PlanPull(idx, b)
              /\ ~LocalChanged(f, b, it.rel) \/ it.rel \in BothGone(f, idx, b)
<1>1. it \in PlanPush(f, b) => LocalChanged(f, b, it.rel) /\ it.rel \in DOMAIN f \cup DOMAIN b
  BY PushPlan
<1>2. it \in PlanPull(idx, b) =>
         RemoteChanged(idx, b, it.rel) /\ it.rel \in DOMAIN idx \cup DOMAIN b
  BY PullPlan
<1> QED
  BY <1>1, <1>2 DEF PlanTwoWay

\* Nothing is planned where every path is the same on both sides, or has changed on both and is
\* there on one.
LEMMA NothingLeft ==
  ASSUME NEW f, NEW idx, NEW b,
         \A r : LocalChanged(f, b, r) <=> RemoteChanged(idx, b, r),
         BothGone(f, idx, b) = {}
  PROVE  PlanTwoWay(f, idx, b).push = {} /\ PlanTwoWay(f, idx, b).pull = {}
<1>1. \A it \in PlanPush(f, b) : LocalChanged(f, b, it.rel)
  BY PushPlan
<1>2. \A it \in PlanPull(idx, b) : RemoteChanged(idx, b, it.rel)
  BY PullPlan
<1> QED
  BY <1>1, <1>2, TwoWayPlan

\* The push half is carried out on the paths that the pull half leaves alone.
LEMMA HalvesApart ==
  ASSUME Trees, NEW b, Good(b), NEW ups, ups = PlanTwoWay(local, remote, b).push,
         NEW downs, downs = PlanTwoWay(local, remote, b).pull
  PROVE  /\ downs \subseteq PlanPull(remote, b)
         /\ \A it \in ups : \A jt \in downs : it.rel # jt.rel
         /\ \A r \in DOMAIN local : LocalChanged(local, b, r) => \A jt \in downs : jt.rel # r
         /\ \A it \in ups : it \in PlanPush(local, b) /\ ~RemoteChanged(remote, b, it.rel)
<1>1. \A it \in ups : it \in PlanPush(local, b) /\ ~RemoteChanged(remote, b, it.rel)
  BY TwoWayPlan
<1>2. \A jt \in downs : /\ jt \in PlanPull(remote, b)
                        /\ ~LocalChanged(local, b, jt.rel) \/ jt.rel \in BothGone(local, remote, b)
  BY TwoWayPlan
<1>3. \A it \in ups : LocalChanged(local, b, it.rel)
  BY <1>1, PushPlan
<1>4. \A jt \in downs : RemoteChanged(remote, b, jt.rel)
  BY <1>2, PullPlan
<1>5. \A it \in ups : \A jt \in downs : it.rel # jt.rel
  BY <1>1, <1>4
<1>6. \A r \in DOMAIN local : LocalChanged(local, b, r) => \A jt \in downs : jt.rel # r
  BY <1>2 DEF BothGone
<1> QED
  BY <1>1, <1>2, <1>5, <1>6

\* The push half can be carried out from what the pull half has recorded: it overwrites no file
\* that is gone, since a path it pushes has not changed remotely.
LEMMA PushHalfProper ==
  ASSUME Trees, NEW b, Good(b), NEW ups, ups = PlanTwoWay(local, remote, b).push,
         NEW downs, downs = PlanTwoWay(local, remote, b).pull,
         NEW f, NEW g, PullDone(b, downs, f, g)
  PROVE  Proper(ups, g)
<1>1. ASSUME NEW it \in ups
      PROVE  /\ it.op \in {"upload", "overwrite", "delete", "move"} /\ it.rel \in Rels
             /\ it.op # "move" => it.srcRel = it.rel
             /\ it.op = "upload" => it.rel \notin DOMAIN g /\ it.remoteID = 0
             /\ it.op # "upload" => it.srcRel \in DOMAIN g /\ it.remoteID = g[it.srcRel].remoteID
             /\ it.op \in {"overwrite", "move"} => WithId(it.remoteID) # {}
             /\ it.op = "move" => it.rel \notin DOMAIN g \cup DOMAIN remote
             /\ it.op # "delete" => it.size \in Nat /\ it.mtime \in Nat
  <2>1. /\ it \in PlanPush(local, b) /\ ~RemoteChanged(remote, b, it.rel)
        /\ \A jt \in downs : jt.rel # it.rel
    BY HalvesApart
  <2>2. /\ it.rel \in DOMAIN g <=> it.rel \in DOMAIN b
        /\ it.rel \in DOMAIN b => g[it.rel] = b[it.rel]
    BY <2>1 DEF PullDone
  <2>3. /\ it.srcRel = it.rel
        /\ \/ /\ it.op = "upload" /\ it.rel \in DOMAIN local \ DOMAIN b /\ it.remoteID = 0
              /\ it.size = local[it.rel].size /\ it.mtime = local[it.rel].mtime
           \/ /\ it.op = "overwrite" /\ it.rel \in DOMAIN local \cap DOMAIN b
              /\ it.remoteID = b[it.rel].remoteID
              /\ it.size = local[it.rel].size /\ it.mtime = local[it.rel].mtime
           \/ /\ it.op = "delete" /\ it.rel \in DOMAIN b \ DOMAIN local
              /\ it.remoteID = b[it.rel].remoteID
    BY <2>1, PushPlan
  <2>4. it.rel \in Rels
    BY <2>3 DEF Trees, Good
  <2>5. it.op # "delete" => it.size \in Nat /\ it.mtime \in Nat
    BY <2>3 DEF Trees, Stamp
  <2>6. ASSUME it.op = "overwrite" PROVE WithId(it.remoteID) # {}
    <3>1. it.rel \in DOMAIN remote /\ remote[it.rel].mtime = b[it.rel].remoteMtime
      BY <2>1, <2>3, <2>6 DEF RemoteChanged, RemoteTouched
    <3>2. it.rel \in WithId(it.remoteID)
      BY <2>3, <2>6, <3>1 DEF Good, WithId
    <3> QED
      BY <3>2
  <2> QED
    BY <2>2, <2>3, <2>4, <2>5, <2>6
<1>2. ASSUME NEW it \in ups, NEW jt \in ups, Around(it) \cap Around(jt) # {} PROVE it = jt
  <2>1. it \in PlanPush(local, b) /\ jt \in PlanPush(local, b)
    BY HalvesApart
  <2>2. it.rel = jt.rel
    BY <1>2, <2>1, PushPlan DEF Around
  <2> QED
    BY <2>1, <2>2, PushPlan
<1> QED
  BY <1>1, <1>2 DEF Proper

\* What a two-way sync leaves of a path.
LEMMA PathsAgree ==
  ASSUME Trees, NEW b, Good(b), NEW ups, ups = PlanTwoWay(local, remote, b).push,
         NEW downs, downs = PlanTwoWay(local, remote, b).pull,
         NEW f, NEW g, PullDone(b, downs, f, g), Good(g), Proper(ups, g),
         NEW idx, idx = PushedRemote(ups), NEW h, h = PushedManifest(g, ups), NEW r
  PROVE  /\ LocalChanged(f, h, r) <=> RemoteChanged(idx, h, r)
         /\ r \notin BothGone(f, idx, h)
<1>1. CASE Idle(ups, r) /\ \A jt \in downs : jt.rel # r
  <2>1. /\ r \in DOMAIN f <=> r \in DOMAIN local
        /\ r \in DOMAIN local => f[r] = local[r]
        /\ r \in DOMAIN g <=> r \in DOMAIN b
        /\ r \in DOMAIN b => g[r] = b[r]
    BY <1>1 DEF PullDone
  <2>2. /\ r \in DOMAIN idx <=> r \in DOMAIN remote
        /\ r \in DOMAIN remote => idx[r] = remote[r]
    BY <1>1, PushedRemoteFacts
  <2>3. /\ r \in DOMAIN h <=> r \in DOMAIN g
        /\ r \in DOMAIN g => h[r] = g[r]
    BY <1>1, PushedManifestFacts
  <2>4. LocalChanged(local, b, r) => RemoteChanged(remote, b, r)
    <3> SUFFICES ASSUME LocalChanged(local, b, r), ~RemoteChanged(remote, b, r) PROVE FALSE
      OBVIOUS
    <3>1. PICK it \in PlanPush(local, b) : it.rel = r
      BY PushPlan
    <3>2. it \in ups
      BY <3>1, TwoWayPlan
    <3> QED
      BY <1>1, <3>1, <3>2 DEF Idle, Around
  <2>5. RemoteChanged(remote, b, r) =>
           LocalChanged(local, b, r) /\ r \notin BothGone(local, remote, b)
    <3> SUFFICES ASSUME RemoteChanged(remote, b, r),
                        ~LocalChanged(local, b, r) \/ r \in BothGone(local, remote, b)
                 PROVE  FALSE
      OBVIOUS
    <3>1. PICK jt \in PlanPull(remote, b) : jt.rel = r
      BY PullPlan
    <3>2. jt \in downs
      BY <3>1, TwoWayPlan
    <3> QED
      BY <1>1, <3>1, <3>2
  <2>6. r \notin BothGone(local, remote, b)
    BY <2>5 DEF BothGone, RemoteChanged
  <2>7. LocalChanged(f, h, r) <=> LocalChanged(local, b, r)
    BY <2>1, <2>3 DEF LocalChanged
  <2>8. RemoteChanged(idx, h, r) <=> RemoteChanged(remote, b, r)
    BY <2>1, <2>2, <2>3 DEF RemoteChanged
  <2>9. r \notin BothGone(f, idx, h)
    BY <2>1, <2>2, <2>3, <2>6 DEF BothGone
  <2> QED
    BY <2>4, <2>5, <2>7, <2>8, <2>9
<1>2. ASSUME NEW it \in ups, r \in Around(it)
      PROVE  ~LocalChanged(f, h, r) /\ ~RemoteChanged(idx, h, r) /\ r \notin BothGone(f, idx, h)
  <2>1. /\ it \in PlanPush(local, b) /\ ~RemoteChanged(remote, b, it.rel)
        /\ \A jt \in downs : jt.rel # it.rel
    BY HalvesApart
  <2>2. r = it.rel /\ it.srcRel = it.rel
    BY <1>2, <2>1, PushPlan DEF Around
  <2>3. /\ r \in DOMAIN f <=> r \in DOMAIN local
        /\ r \in DOMAIN local => f[r] = local[r]
    BY <2>1, <2>2 DEF PullDone
  <2>4. CASE it.op \in {"upload", "overwrite"}
    <3>1. /\ r \in DOMAIN local /\ it.size = local[r].size /\ it.mtime = local[r].mtime
      BY <2>1, <2>2, <2>4, PushPlan
    <3>2. /\ r \in DOMAIN h
          /\ h[r] = [size |-> it.size, localMtime |-> it.mtime, remoteID |-> TargetId(it),
                     remoteMtime |-> NewRemote(it).mtime]
      BY <2>2, <2>4, PushedManifestFacts DEF Entry
    <3>3. r \in DOMAIN idx /\ idx[r] = NewRemote(it)
      BY <2>2, <2>4, PushedRemoteFacts
    <3>4. NewRemote(it) = [id |-> TargetId(it), size |-> it.size, mtime |-> clock + 1]
      BY <2>4, Results
    <3>5. idx[r].size = it.size /\ idx[r].mtime = NewRemote(it).mtime
      BY <3>3, <3>4
    <3>6. /\ h[r].size = it.size /\ h[r].localMtime = it.mtime
          /\ h[r].remoteMtime = NewRemote(it).mtime
      BY <3>2
    <3>7. ~LocalChanged(f, h, r)
      BY <2>3, <3>1, <3>2, <3>6 DEF LocalChanged, Touched
    <3>8. ~RemoteChanged(idx, h, r)
      BY <3>2, <3>3, <3>5, <3>6 DEF RemoteChanged, RemoteTouched
    <3> QED
      BY <2>3, <3>1, <3>7, <3>8 DEF BothGone
  <2>5. CASE it.op = "delete"
    <3>1. r \in DOMAIN b \ DOMAIN local /\ it.remoteID = b[r].remoteID
      BY <2>1, <2>2, <2>5, PushPlan
    <3>2. r \in DOMAIN remote /\ remote[r].mtime = b[r].remoteMtime
      BY <2>1, <2>2, <3>1 DEF RemoteChanged, RemoteTouched
    <3>3. r \in WithId(it.remoteID)
      BY <3>1, <3>2 DEF Good, WithId
    <3>4. r \notin DOMAIN idx
      BY <2>2, <2>5, <3>3, PushedRemoteFacts
    <3>5. r \notin DOMAIN h
      BY <2>2, <2>5, PushedManifestFacts
    <3> QED
      BY <2>3, <3>1, <3>4, <3>5 DEF LocalChanged, RemoteChanged, BothGone
  <2> QED
    BY <2>1, <2>4, <2>5, PushPlan
<1>3. ASSUME NEW jt \in downs, jt.rel = r
      PROVE  ~LocalChanged(f, h, r) /\ ~RemoteChanged(idx, h, r) /\ r \notin BothGone(f, idx, h)
  <2>1. jt \in PlanPull(remote, b) /\ \A it \in ups : it.rel # r
    BY <1>3, HalvesApart
  <2>2. Idle(ups, r)
    <3>1. \A it \in ups : it \in PlanPush(local, b)
      BY HalvesApart
    <3> QED
      BY <2>1, <3>1, PushPlan DEF Idle, Around
  <2>3. /\ r \in DOMAIN idx <=> r \in DOMAIN remote
        /\ r \in DOMAIN remote => idx[r] = remote[r]
    BY <2>2, PushedRemoteFacts
  <2>4. /\ r \in DOMAIN h <=> r \in DOMAIN g
        /\ r \in DOMAIN g => h[r] = g[r]
    BY <2>2, PushedManifestFacts
  <2>5. CASE jt.op = "download"
    <3>1. r \in DOMAIN remote /\ jt.size = remote[r].size /\ jt.remoteMtime = remote[r].mtime
      BY <1>3, <2>1, <2>5, PullPlan
    <3>2. /\ r \in DOMAIN f /\ f[r] = [size |-> jt.size, mtime |-> clock + 1]
          /\ r \in DOMAIN g
          /\ g[r] = [size |-> jt.size, localMtime |-> clock + 1, remoteID |-> jt.remoteID,
                     remoteMtime |-> jt.remoteMtime]
      BY <1>3, <2>5 DEF PullDone, Entry
    <3>3. /\ f[r].size = jt.size /\ f[r].mtime = clock + 1
          /\ g[r].size = jt.size /\ g[r].localMtime = clock + 1 /\ g[r].remoteMtime = jt.remoteMtime
      BY <3>2
    <3>4. ~LocalChanged(f, h, r)
      BY <2>4, <3>2, <3>3 DEF LocalChanged, Touched
    <3>5. ~RemoteChanged(idx, h, r)
      BY <2>3, <2>4, <3>1, <3>2, <3>3 DEF RemoteChanged, RemoteTouched
    <3> QED
      BY <3>2, <3>4, <3>5 DEF BothGone
  <2>6. CASE jt.op = "deleteLocal"
    <3>1. r \notin DOMAIN remote
      BY <1>3, <2>1, <2>6, PullPlan
    <3>2. r \notin DOMAIN f \cup DOMAIN g
      BY <1>3, <2>6 DEF PullDone
    <3> QED
      BY <2>3, <2>4, <3>1, <3>2 DEF LocalChanged, RemoteChanged, BothGone
  <2> QED
    BY <2>1, <2>5, <2>6, PullPlan
<1> QED
  BY <1>1, <1>2, <1>3 DEF Idle

\* A two-way sync keeps the invariant, leaves nothing to do, and replaces nothing that either
\* side has changed.
LEMMA TwoWayStep ==
  ASSUME Inv, TwoWay
  PROVE  Inv' /\ RunsSettle' /\ TwoWayKeepsEdits /\ PushKeepsEdits
<1> DEFINE b     == TwoWayBase
           ups   == PlanTwoWay(local, remote, b).push
           downs == PlanTwoWay(local, remote, b).pull
           g     == PulledManifest(b, downs)
<1>1. /\ Trees /\ Good(b) /\ clock \in Nat /\ clock' = clock + 1 /\ last' = "twoway"
      /\ ups = PlanTwoWay(local, remote, b).push /\ downs = PlanTwoWay(local, remote, b).pull
      /\ g = PulledManifest(b, downs)
      /\ remote' = PushedRemote(ups) /\ local' = PulledLocal(downs) /\ m' = PushedManifest(g, ups)
  BY BasesGood DEF TwoWay, Tick, Inv, Trees
<1>b. b = TwoWayBase
  OBVIOUS
<1> HIDE DEF ups, downs, g, b
<1>2. /\ downs \subseteq PlanPull(remote, b)
      /\ \A r \in DOMAIN local : LocalChanged(local, b, r) => \A jt \in downs : jt.rel # r
      /\ \A it \in ups : it \in PlanPush(local, b) /\ ~RemoteChanged(remote, b, it.rel)
  BY <1>1, HalvesApart
<1>3. PullDone(b, downs, local', g)
  BY <1>1, <1>2, PulledFacts
<1>4. DOMAIN local' \subseteq Rels /\ \A r \in DOMAIN local' : local'[r] \in Stamp
  BY <1>1, <1>2, PulledStamps
<1>5. Good(g)
  BY <1>1, <1>2, PulledGood
<1>6. Proper(ups, g)
  BY <1>1, <1>3, PushHalfProper
<1>7. RemoteNext /\ GoodNext(m')
  BY <1>1, <1>5, <1>6, RemotePushed, ManifestPushed
<1>8. Inv'
  BY <1>1, <1>4, <1>7, InvNext
<1>9. \A r : /\ LocalChanged(local', m', r) <=> RemoteChanged(remote', m', r)
             /\ r \notin BothGone(local', remote', m')
  BY <1>1, <1>3, <1>5, <1>6, PathsAgree
<1>10. /\ PlanTwoWay(local', remote', m').push = {}
       /\ PlanTwoWay(local', remote', m').pull = {}
  BY <1>9, NothingLeft
<1>11. RunsSettle'
  BY <1>1, <1>10 DEF RunsSettle, PushSettles, PullSettles, TwoWaySettles
<1>12. ASSUME NEW r \in DOMAIN local, LocalChanged(local, b, r)
       PROVE  r \in DOMAIN local' /\ local'[r] = local[r]
  BY <1>2, <1>3, <1>12 DEF PullDone
<1>13. ASSUME NEW r \in DOMAIN remote, RemoteChanged(remote, b, r)
       PROVE  r \in DOMAIN remote' /\ remote'[r] = remote[r]
  <2>1. Idle(ups, r)
    BY <1>2, <1>13, PushPlan DEF Idle, Around
  <2> QED
    BY <1>1, <1>5, <1>6, <2>1, PushedRemoteFacts
<1>14. TwoWayKeepsEdits
  BY <1>b, <1>12, <1>13 DEF TwoWayKeepsEdits
<1> QED
  BY <1>1, <1>8, <1>11, <1>14 DEF PushKeepsEdits

-----------------------------------------------------------------------------
(* Edits                                                                     *)

\* An edit of the local tree keeps the invariant, whatever it is.
LEMMA LocalEdit ==
  ASSUME Inv, clock' = clock + 1, last' = "edit", remote' = remote, m' = m,
         DOMAIN local' \subseteq Rels, \A r \in DOMAIN local' : local'[r] \in Stamp
  PROVE  Inv' /\ RunsSettle' /\ TwoWayKeepsEdits /\ PushKeepsEdits
<1>1. Trees /\ Good(m) /\ clock \in Nat
  BY DEF Inv, Trees
<1>2. GoodNext(m) /\ RemoteNext
  BY <1>1, GoodStays
<1>3. Inv'
  BY <1>1, <1>2, InvNext
<1> QED
  BY <1>3 DEF RunsSettle, PushSettles, PullSettles, TwoWaySettles, TwoWayKeepsEdits, PushKeepsEdits

\* One of the remote folder keeps it if it keeps its remote half.
LEMMA RemoteEdit ==
  ASSUME Inv, clock' = clock + 1, last' = "edit", local' = local, m' = m, RemoteNext, GoodNext(m)
  PROVE  Inv' /\ RunsSettle' /\ TwoWayKeepsEdits /\ PushKeepsEdits
<1>1. Trees /\ clock \in Nat
  BY DEF Inv, Trees
<1>2. DOMAIN local' \subseteq Rels /\ \A r \in DOMAIN local' : local'[r] \in Stamp
  BY DEF Inv, Trees
<1>3. Inv'
  BY <1>1, <1>2, InvNext
<1> QED
  BY <1>3 DEF RunsSettle, PushSettles, PullSettles, TwoWaySettles, TwoWayKeepsEdits, PushKeepsEdits

\* A removal by another client does.
LEMMA RemoteRemoveStep ==
  ASSUME Inv, NEW r \in Rels, RemoteRemove(r)
  PROVE  Inv' /\ RunsSettle' /\ TwoWayKeepsEdits /\ PushKeepsEdits
<1>1. /\ Trees /\ Good(m) /\ clock \in Nat /\ clock' = clock + 1 /\ last' = "edit"
      /\ local' = local /\ m' = m /\ remote' = Delete(remote, r)
  BY DEF RemoteRemove, Tick, Inv, Trees
<1>2. DOMAIN remote' = DOMAIN remote \ {r} /\ \A q \in DOMAIN remote' : remote'[q] = remote[q]
  BY <1>1 DEF Delete
<1>3. Top \in Nat /\ TopNext \in Nat /\ Top <= TopNext /\ clock' \in Nat
  BY <1>1, Ticks
<1>4. ASSUME NEW q \in DOMAIN remote'
      PROVE  remote'[q] \in RemoteStamp /\ remote'[q].id < TopNext /\ remote'[q].mtime <= clock'
  <2>1. remote[q] \in RemoteStamp /\ remote[q].id < Top /\ remote[q].mtime <= clock
    BY <1>1, <1>2 DEF Trees
  <2> QED
    BY <1>1, <1>2, <1>3, <2>1 DEF RemoteStamp
<1>5. RemoteNext
  BY <1>1, <1>2, <1>4 DEF RemoteNext, Trees
<1>6. ASSUME NEW q \in DOMAIN m PROVE m[q].remoteID < TopNext /\ m[q].remoteMtime <= clock'
  BY <1>1, <1>3 DEF Good, ManifestEntry
<1>7. GoodNext(m)
  BY <1>1, <1>2, <1>6 DEF Good, GoodNext, WithId
<1> QED
  BY <1>1, <1>5, <1>7, RemoteEdit

\* So does a file that another client has written: it has a new id, or the id and a later date
\* than any entry.
LEMMA RemoteWriteStep ==
  ASSUME Inv, NEW r \in Rels, RemoteWrite(r)
  PROVE  Inv' /\ RunsSettle' /\ TwoWayKeepsEdits /\ PushKeepsEdits
<1> DEFINE id == IF r \in DOMAIN remote THEN remote[r].id ELSE NewId(r, clock + 1)
<1>1. /\ Trees /\ Good(m) /\ clock \in Nat /\ clock' = clock + 1 /\ last' = "edit"
      /\ local' = local /\ m' = m
  BY DEF RemoteWrite, Tick, Inv, Trees
<1>2. PICK s \in Sizes : remote' = Set(remote, r, [id |-> id, size |-> s, mtime |-> clock + 1])
  BY <1>1 DEF RemoteWrite
<1>3. /\ DOMAIN remote' = DOMAIN remote \cup {r}
      /\ remote'[r] = [id |-> id, size |-> s, mtime |-> clock + 1]
      /\ \A q \in DOMAIN remote' \ {r} : remote'[q] = remote[q]
  BY <1>2 DEF Set
<1>4. /\ r \in DOMAIN remote => id = remote[r].id
      /\ r \notin DOMAIN remote => id = NewId(r, clock + 1)
  OBVIOUS
<1> HIDE DEF id
<1>5. remote'[r].id = id /\ remote'[r].mtime = clock + 1
  BY <1>3
<1>6. /\ Top \in Nat \ {0} /\ TopNext \in Nat /\ Top <= TopNext
      /\ NewId(r, clock + 1) \in Nat \ {0}
      /\ Top < NewId(r, clock + 1) /\ NewId(r, clock + 1) < TopNext
  BY <1>1, Ticks
<1>7. ASSUME NEW q \in DOMAIN remote
      PROVE  remote[q] \in RemoteStamp /\ remote[q].id < Top /\ remote[q].mtime <= clock
             /\ remote[q].id \in Nat \ {0} /\ remote[q].mtime \in Nat
  BY <1>1 DEF Trees, RemoteStamp
<1>8. id \in Nat \ {0} /\ id < TopNext
  BY <1>4, <1>6, <1>7
<1>9. \A q \in DOMAIN remote : remote[q].id = id => q = r
  BY <1>1, <1>4, <1>6, <1>7 DEF Trees
<1>10. ASSUME NEW q \in DOMAIN remote'
       PROVE  remote'[q] \in RemoteStamp /\ remote'[q].id < TopNext /\ remote'[q].mtime <= clock'
  <2>1. CASE q = r
    <3>1. s \in Nat
      BY IdealSyncAssumption
    <3> QED
      BY <1>1, <1>3, <1>5, <1>8, <2>1, <3>1 DEF RemoteStamp
  <2>2. CASE q # r
    BY <1>1, <1>3, <1>6, <1>7, <2>2
  <2> QED
    BY <2>1, <2>2
<1>11. \A p, q \in DOMAIN remote' : remote'[p].id = remote'[q].id => p = q
  BY <1>1, <1>3, <1>5, <1>9 DEF Trees
<1>12. RemoteNext
  BY <1>1, <1>3, <1>10, <1>11 DEF RemoteNext, Trees
<1>13. ASSUME NEW q \in DOMAIN m
       PROVE  /\ m[q] \in ManifestEntry
              /\ m[q].remoteID < TopNext /\ m[q].remoteMtime <= clock'
              /\ \A p \in DOMAIN remote' : remote'[p].id = m[q].remoteID => p = q
              /\ q \in DOMAIN remote' /\ remote'[q].mtime = m[q].remoteMtime
                   => remote'[q].id = m[q].remoteID
  <2>1. /\ m[q] \in ManifestEntry /\ m[q].remoteID \in Nat /\ m[q].remoteMtime \in Nat
        /\ m[q].remoteID < Top /\ m[q].remoteMtime <= clock
        /\ WithId(m[q].remoteID) \subseteq {q}
        /\ q \in DOMAIN remote /\ remote[q].mtime = m[q].remoteMtime
             => remote[q].id = m[q].remoteID
    BY <1>1 DEF Good, ManifestEntry
  <2>2. ASSUME NEW p \in DOMAIN remote', remote'[p].id = m[q].remoteID PROVE p = q
    <3>1. CASE p = r /\ p \notin DOMAIN remote
      BY <1>4, <1>5, <1>6, <2>1, <2>2, <3>1
    <3>2. CASE p \in DOMAIN remote
      <4>1. remote[p].id = m[q].remoteID
        BY <1>3, <1>4, <1>5, <2>2, <3>2
      <4> QED
        BY <2>1, <3>2, <4>1 DEF WithId
    <3> QED
      BY <1>3, <3>1, <3>2
  <2>3. ASSUME q \in DOMAIN remote', remote'[q].mtime = m[q].remoteMtime
        PROVE  remote'[q].id = m[q].remoteID
    <3>1. q # r
      BY <1>1, <1>5, <2>1, <2>3
    <3> QED
      BY <1>3, <2>1, <2>3, <3>1
  <2> QED
    BY <1>1, <1>6, <2>1, <2>2, <2>3
<1>14. GoodNext(m)
  BY <1>1, <1>13 DEF Good, GoodNext
<1> QED
  BY <1>1, <1>12, <1>14, RemoteEdit

\* The edits of the local tree: writing, removing, renaming and copying a file.
LEMMA LocalEditStep ==
  ASSUME Inv, NEW r \in Rels, NEW q \in Rels,
         LocalWrite(r) \/ LocalRemove(r) \/ LocalRename(r, q) \/ LocalCopy(r, q)
  PROVE  Inv' /\ RunsSettle' /\ TwoWayKeepsEdits /\ PushKeepsEdits
<1>1. /\ clock \in Nat /\ clock' = clock + 1 /\ last' = "edit" /\ remote' = remote /\ m' = m
      /\ DOMAIN local \subseteq Rels /\ \A p \in DOMAIN local : local[p] \in Stamp
  BY DEF LocalWrite, LocalRemove, LocalRename, LocalCopy, Tick, Inv, Trees
<1>2. DOMAIN local' \subseteq Rels /\ \A p \in DOMAIN local' : local'[p] \in Stamp
  <2>1. CASE LocalWrite(r)
    <3>1. PICK s \in Sizes : local' = Set(local, r, [size |-> s, mtime |-> clock + 1])
      BY <1>1, <2>1 DEF LocalWrite
    <3>2. [size |-> s, mtime |-> clock + 1] \in Stamp
      BY <1>1, IdealSyncAssumption DEF Stamp
    <3> QED
      BY <1>1, <3>1, <3>2 DEF Set
  <2>2. CASE LocalRemove(r)
    BY <1>1, <2>2 DEF LocalRemove, Delete
  <2>3. CASE LocalRename(r, q)
    <3>1. local' = Set(Delete(local, r), q, local[r]) /\ local[r] \in Stamp
      BY <1>1, <2>3 DEF LocalRename
    <3> QED
      BY <1>1, <3>1 DEF Set, Delete
  <2>4. CASE LocalCopy(r, q)
    <3>1. local' = Set(local, q, local[r]) /\ local[r] \in Stamp
      BY <1>1, <2>4 DEF LocalCopy
    <3> QED
      BY <1>1, <3>1 DEF Set
  <2> QED
    BY <2>1, <2>2, <2>3, <2>4
<1> QED
  BY <1>1, <1>2, LocalEdit

\* It holds at first.
LEMMA InitInv == Init => Inv /\ RunsSettle
<1> SUFFICES ASSUME Init PROVE Inv /\ RunsSettle
  OBVIOUS
<1>1. DOMAIN local = {} /\ DOMAIN remote = {} /\ DOMAIN m = {} /\ clock = 0 /\ last = "start"
  BY DEF Init
<1>2. Trees /\ Good(m)
  BY <1>1 DEF Trees, Good
<1> QED
  BY <1>1, <1>2 DEF Inv, RunsSettle, PushSettles, PullSettles, TwoWaySettles

\* Every step keeps it, and every run has its properties.
LEMMA StepInv == Inv /\ Next => Inv' /\ RunsSettle' /\ TwoWayKeepsEdits /\ PushKeepsEdits
<1> SUFFICES ASSUME Inv, Next PROVE Inv' /\ RunsSettle' /\ TwoWayKeepsEdits /\ PushKeepsEdits
  OBVIOUS
<1>1. CASE Edit
  <2>1. PICK r \in Rels : \/ LocalWrite(r) \/ LocalRemove(r)
                          \/ RemoteWrite(r) \/ RemoteRemove(r)
                          \/ \E q \in Rels : LocalRename(r, q) \/ LocalCopy(r, q)
    BY <1>1 DEF Edit
  <2> QED
    BY <2>1, LocalEditStep, RemoteWriteStep, RemoteRemoveStep
<1>2. CASE \E moves \in BOOLEAN : Push(moves)
  BY <1>2, PushStep
<1>3. CASE Pull
  BY <1>3, PullStep
<1>4. CASE TwoWay
  BY <1>4, TwoWayStep
<1> QED
  BY <1>1, <1>2, <1>3, <1>4 DEF Next

\* A step that changes nothing changes neither.
LEMMA StutterInv == (Inv /\ RunsSettle) /\ UNCHANGED vars => Inv' /\ RunsSettle'
<1> SUFFICES ASSUME Inv, RunsSettle, UNCHANGED vars PROVE Inv' /\ RunsSettle'
  OBVIOUS
<1>1. /\ local' = local /\ remote' = remote /\ m' = m /\ clock' = clock /\ last' = last
  BY DEF vars
<1>2. Inv'
  BY <1>1 DEF Inv, Trees, Good, WithId, Top
<1>3. PushItems(m, FALSE)' = PushItems(m, FALSE) /\ PushItems(m, TRUE)' = PushItems(m, TRUE)
  BY <1>1 DEF PushItems, InDrift, WithId
<1>4. \A it : Feasible(it)' <=> Feasible(it)
  BY <1>1 DEF Feasible, WithId
<1>5. PushSettles' <=> PushSettles
  BY <1>1, <1>3, <1>4 DEF PushSettles
<1>6. PullSettles' /\ TwoWaySettles'
  BY <1>1 DEF RunsSettle, PullSettles, TwoWaySettles
<1>7. RunsSettle'
  BY <1>5, <1>6 DEF RunsSettle
<1> QED
  BY <1>2, <1>7

\* The invariant, and what runs leave to do.
LEMMA InvAlways == Spec => [](Inv /\ RunsSettle)
<1>1. (Inv /\ RunsSettle) /\ [Next]_vars => (Inv /\ RunsSettle)'
  BY StepInv, StutterInv
<1> QED
  BY InitInv, <1>1, PTL DEF Spec

\* At all times each id is of one remote file, the file of an entry's id is at the entry's path
\* or nowhere, and a file with the date an entry recorded is the file the entry names: what the
\* planners (syncer/plan.go) compare by path, size and date they do not mistake.
THEOREM TreesStayConsistent == Spec => []Inv
  BY InvAlways, PTL

\* A run that meets no failure leaves nothing to do for the next one of its kind, but what the
\* drift guards skip, moves that had no room, and conflicts: PlanPush, DetectMoves, PlanPull and
\* PlanTwoWay plan nothing that they have just done.
THEOREM RunsSettleAlways == Spec => []RunsSettle
  BY InvAlways, PTL

\* No two-way sync replaces or removes a version that its baseline does not hold, on either side
\* (planTwoWay), and no push a tracked file that another client has changed (filterPushDrift).
THEOREM RunsKeepEditsAlways == Spec => RunsKeepEdits
<1>1. Inv /\ [Next]_vars => [TwoWayKeepsEdits /\ PushKeepsEdits]_vars
  BY StepInv
<1>2. Spec => [][TwoWayKeepsEdits /\ PushKeepsEdits]_vars
  BY InvAlways, <1>1, PTL DEF Spec
<1> QED
  BY <1>2 DEF RunsKeepEdits
=============================================================================
