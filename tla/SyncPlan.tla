------------------------------ MODULE SyncPlan ------------------------------
(***************************************************************************)
(* The pure planners of pkg/syncer: what a push, a pull and a two-way sync *)
(* decide to do, before anything is done.                                  *)
(*                                                                         *)
(* Data:                                                                   *)
(*   local  partial function rel -> [size, mtime]       (LocalFile)        *)
(*   idx    partial function rel -> [id, size, mtime]   (remoteindex.Entry)*)
(*   m      partial function rel -> manifest.Entry                         *)
(* Plans are sets of items: the planners give each rel at most one item,   *)
(* and nothing but the grouping by kind depends on the slice order.        *)
(* Item fields a kind does not use keep a fixed value, as Go's zero value. *)
(***************************************************************************)
EXTENDS Integers, FiniteSets

\* manifest.Entry
Entry(size, localMtime, remoteID, remoteMtime) ==
  [size |-> size, localMtime |-> localMtime, remoteID |-> remoteID,
   remoteMtime |-> remoteMtime]

\* m.Set, m.Delete
Set(m, rel, e) == [r \in DOMAIN m \cup {rel} |-> IF r = rel THEN e ELSE m[r]]

Delete(m, rel) == [r \in DOMAIN m \ {rel} |-> m[r]]

-----------------------------------------------------------------------------
(* Push                                                                    *)

UploadItem(rel, f) ==
  [op |-> "upload", rel |-> rel, remoteID |-> 0, size |-> f.size,
   mtime |-> f.mtime, srcRel |-> rel]

OverwriteItem(rel, f, e) ==
  [op |-> "overwrite", rel |-> rel, remoteID |-> e.remoteID, size |-> f.size,
   mtime |-> f.mtime, srcRel |-> rel]

DeleteItem(rel, e) ==
  [op |-> "delete", rel |-> rel, remoteID |-> e.remoteID, size |-> 0,
   mtime |-> 0, srcRel |-> rel]

MoveItem(up, del, e) ==
  [op |-> "move", rel |-> up.rel, remoteID |-> e.remoteID, size |-> e.size,
   mtime |-> up.mtime, srcRel |-> del.rel]

OfKind(items, op) == {it \in items : it.op = op}

\* a local file that is not what the manifest last recorded
Touched(f, e) == f.size # e.size \/ f.mtime # e.localMtime

PlanPush(local, m) ==
  {UploadItem(r, local[r]) : r \in DOMAIN local \ DOMAIN m}
  \cup {OverwriteItem(r, local[r], m[r]) :
          r \in {q \in DOMAIN local \cap DOMAIN m : Touched(local[q], m[q])}}
  \cup {DeleteItem(r, m[r]) : r \in DOMAIN m \ DOMAIN local}

\* An upload and a delete pair up when they are the only upload and the only
\* delete with their (size, mtime), and the size is not zero.
SameKey(up, del, m) ==
  up.size = m[del.rel].size /\ up.mtime = m[del.rel].localMtime

MovePairs(items, m) ==
  LET ups  == {it \in OfKind(items, "upload") : it.size # 0}
      dels == {it \in OfKind(items, "delete") : m[it.rel].size # 0}
  IN {p \in ups \X dels :
        /\ SameKey(p[1], p[2], m)
        /\ \A u \in ups : SameKey(u, p[2], m) => u = p[1]
        /\ \A d \in dels : SameKey(p[1], d, m) => d = p[2]}

DetectMoves(items, m) ==
  LET pairs == MovePairs(items, m)
  IN (items \ UNION {{p[1], p[2]} : p \in pairs})
     \cup {MoveItem(p[1], p[2], m[p[2].rel]) : p \in pairs}

DropDeletes(items) == {it \in items : it.op # "delete"}

\* A same-size file is taken for unchanged, another one for an overwrite.
Bootstrap(m, idx, local) ==
  [r \in DOMAIN m \cup (DOMAIN local \cap DOMAIN idx) |->
     IF r \in DOMAIN local \cap DOMAIN idx
     THEN Entry(idx[r].size, local[r].mtime, idx[r].id, idx[r].mtime)
     ELSE m[r]]

\* checkDeleteRatio: dels > threshold * baseline, the threshold in percent
DeletesAllowed(dels, baseline, percent, force) ==
  \/ force
  \/ baseline = 0
  \/ 100 * dels <= (IF percent = 0 THEN 20 ELSE percent) * baseline

-----------------------------------------------------------------------------
(* Pull                                                                    *)

DownloadItem(rel, r) ==
  [op |-> "download", rel |-> rel, remoteID |-> r.id, size |-> r.size,
   remoteMtime |-> r.mtime]

DeleteLocalItem(rel) ==
  [op |-> "deleteLocal", rel |-> rel, remoteID |-> 0, size |-> 0,
   remoteMtime |-> 0]

\* a remote file that is not what the manifest last recorded
RemoteTouched(r, e) == r.size # e.size \/ r.mtime # e.remoteMtime

PlanPull(idx, m) ==
  {DownloadItem(r, idx[r]) :
     r \in {q \in DOMAIN idx : q \notin DOMAIN m \/ RemoteTouched(idx[q], m[q])}}
  \cup {DeleteLocalItem(r) : r \in DOMAIN m \ DOMAIN idx}

\* Seeded defect: only the size of the local file is compared.
FilterDriftBySize(items, local, m) ==
  {it \in items :
     ~ /\ it.op = "download"
       /\ it.rel \in DOMAIN local
       /\ it.rel \notin DOMAIN m \/ local[it.rel].size # m[it.rel].size}

DropPullDeletes(items) == {it \in items : it.op # "deleteLocal"}

\* Downloads that would replace a local file the manifest does not account for.
FilterDrift(items, local, m) ==
  {it \in items :
     ~ /\ it.op = "download"
       /\ it.rel \in DOMAIN local
       /\ it.rel \notin DOMAIN m \/ Touched(local[it.rel], m[it.rel])}

-----------------------------------------------------------------------------
(* Two-way                                                                 *)

LocalChanged(local, m, r) ==
  \/ (r \in DOMAIN local) # (r \in DOMAIN m)
  \/ r \in DOMAIN local \cap DOMAIN m /\ Touched(local[r], m[r])

RemoteChanged(idx, m, r) ==
  \/ (r \in DOMAIN idx) # (r \in DOMAIN m)
  \/ r \in DOMAIN idx \cap DOMAIN m /\ RemoteTouched(idx[r], m[r])

\* gone on both sides: only the baseline is left to clean up
BothGone(local, idx, m) == DOMAIN m \ (DOMAIN local \cup DOMAIN idx)

\* Seeded defect: the local side wins where both sides changed.
PlanTwoWayLocalWins(local, idx, m) ==
  [push |-> PlanPush(local, m),
   pull |-> {it \in PlanPull(idx, m) : ~LocalChanged(local, m, it.rel)},
   conflicts |-> {}]

PlanTwoWay(local, idx, m) ==
  LET rels       == DOMAIN local \cup DOMAIN idx \cup DOMAIN m
      pushed     == {r \in rels : LocalChanged(local, m, r) /\ ~RemoteChanged(idx, m, r)}
      pulled     == {r \in rels : RemoteChanged(idx, m, r) /\ ~LocalChanged(local, m, r)}
      contested  == {r \in rels : LocalChanged(local, m, r) /\ RemoteChanged(idx, m, r)}
  IN [push |-> {it \in PlanPush(local, m) : it.rel \in pushed},
      pull |-> {it \in PlanPull(idx, m) :
                  it.rel \in pulled \cup BothGone(local, idx, m)},
      conflicts |-> contested \ BothGone(local, idx, m)]

\* the baseline of a first two-way run: only files of the same size
SeedSynced(m, idx, local) ==
  Bootstrap(m, [r \in {q \in DOMAIN idx \cap DOMAIN local : idx[q].size = local[q].size}
                |-> idx[r]], local)

-----------------------------------------------------------------------------
(* Verify: presence and size, with no look at any content *)

Verify(local, idx) ==
  [missingRemote |-> DOMAIN local \ DOMAIN idx,
   missingLocal  |-> DOMAIN idx \ DOMAIN local,
   sizeDiff      |-> {r \in DOMAIN local \cap DOMAIN idx : local[r].size # idx[r].size}]
=============================================================================
