----------------------------- MODULE IdealSync -----------------------------
(***************************************************************************)
(* What the planners are for: a local tree, a remote folder and a manifest *)
(* that are edited and then synchronised by an executor that never fails   *)
(* and is never interrupted, so that a whole run is one step.  The module  *)
(* checks the plans of SyncPlan; Push models a real run of one of them.    *)
(*                                                                         *)
(* A (size, mtime) pair stands for a version of a file, which is all the   *)
(* planners see.  Every edit is given a later mtime than any before it     *)
(* (clock), on both sides.  A plan is applied item by item, in any order:  *)
(* the result is the same because items of one plan have different rels.   *)
(***************************************************************************)
EXTENDS SyncPlan

CONSTANTS NumRels,    \* number of relative paths, named 1..NumRels
          Sizes,      \* file sizes, 0 among them
          MaxClock    \* bound: number of edits and runs

ASSUME IdealSyncAssumption ==
  /\ NumRels \in Nat
  /\ Sizes \subseteq Nat
  /\ MaxClock \in Nat

VARIABLES local,    \* rel -> [size, mtime]
          remote,   \* rel -> [id, size, mtime]
          m,        \* the manifest
          clock,    \* the last mtime given
          last      \* history: the kind of the last step

vars == <<local, remote, m, clock, last>>

Rels == 1..NumRels

LocalFiles  == [size : Sizes, mtime : 1..MaxClock]

\* a remote id nobody else has: one per path and instant
NewId(r, stamp) == stamp * (NumRels + 1) + r

RemoteFiles == [id : {NewId(r, t) : r \in Rels, t \in 1..MaxClock},
                size : Sizes, mtime : 1..MaxClock]

Entries == [size : Sizes, localMtime : 1..MaxClock,
            remoteID : {NewId(r, t) : r \in Rels, t \in 1..MaxClock},
            remoteMtime : 1..MaxClock]

Init == /\ local = [r \in {} |-> 0]
        /\ remote = [r \in {} |-> 0]
        /\ m = [r \in {} |-> 0]
        /\ clock = 0
        /\ last = "start"

-----------------------------------------------------------------------------
(* Edits *)

Tick(kind) == clock < MaxClock /\ clock' = clock + 1 /\ last' = kind

LocalWrite(r) ==
  /\ Tick("edit")
  /\ \E s \in Sizes : local' = Set(local, r, [size |-> s, mtime |-> clock'])
  /\ UNCHANGED <<remote, m>>

LocalRemove(r) ==
  /\ Tick("edit")
  /\ r \in DOMAIN local
  /\ local' = Delete(local, r)
  /\ UNCHANGED <<remote, m>>

\* mv keeps the size and the mtime, and so does cp -p
LocalCopy(r, q) ==
  /\ Tick("edit")
  /\ r \in DOMAIN local /\ q \notin DOMAIN local
  /\ local' = Set(local, q, local[r])
  /\ UNCHANGED <<remote, m>>

LocalRename(r, q) ==
  /\ Tick("edit")
  /\ r \in DOMAIN local /\ q \notin DOMAIN local
  /\ local' = Set(Delete(local, r), q, local[r])
  /\ UNCHANGED <<remote, m>>

\* a file created or rewritten by another client; a rewrite keeps the id
RemoteWrite(r) ==
  /\ Tick("edit")
  /\ \E s \in Sizes :
       remote' = Set(remote, r,
                     [id |-> IF r \in DOMAIN remote THEN remote[r].id ELSE NewId(r, clock'),
                      size |-> s, mtime |-> clock'])
  /\ UNCHANGED <<local, m>>

RemoteRemove(r) ==
  /\ Tick("edit")
  /\ r \in DOMAIN remote
  /\ remote' = Delete(remote, r)
  /\ UNCHANGED <<local, m>>

Edit == \E r \in Rels : \/ LocalWrite(r) \/ LocalRemove(r)
                        \/ RemoteWrite(r) \/ RemoteRemove(r)
                        \/ \E q \in Rels : LocalRename(r, q) \/ LocalCopy(r, q)
-----------------------------------------------------------------------------
(* What a plan does, all its items succeeding.  What a run writes is dated   *)
(* with the run; a move changes where a file is, not what it is.             *)

\* the paths of the remote file with an id (none if it is gone)
WithId(id) == {r \in DOMAIN remote : remote[r].id = id}

ItemAt(items, r) == CHOOSE it \in items : it.rel = r

\* an upload that meets a file of its name takes that file over (findChild)
TargetId(it) == IF it.op # "upload" THEN it.remoteID
                ELSE IF it.rel \in DOMAIN remote THEN remote[it.rel].id
                ELSE NewId(it.rel, clock + 1)

NewRemote(it) ==
  IF it.op = "move" THEN remote[CHOOSE r \in WithId(it.remoteID) : TRUE]
  ELSE [id |-> TargetId(it), size |-> it.size, mtime |-> clock + 1]

Kept(items) == {it \in items : it.op # "delete"}

PushedRemote(items) ==
  LET written == {it.rel : it \in Kept(items)}
      left    == UNION {WithId(it.remoteID) : it \in items}
  IN [r \in (DOMAIN remote \ left) \cup written |->
        IF r \in written THEN NewRemote(ItemAt(Kept(items), r)) ELSE remote[r]]

\* Seeded defect: m.Delete(SrcRel) is forgotten after a move.
PushedManifestKeepsSource(base, items) ==
  LET written == {it.rel : it \in Kept(items)}
      gone    == {it.rel : it \in OfKind(items, "delete")}
      Record(it) == Entry(it.size, it.mtime, TargetId(it), NewRemote(it).mtime)
  IN [r \in (DOMAIN base \ gone) \cup written |->
        IF r \in written THEN Record(ItemAt(Kept(items), r)) ELSE base[r]]

PushedManifest(base, items) ==
  LET written == {it.rel : it \in Kept(items)}
      gone    == {it.rel : it \in OfKind(items, "delete")}
                 \cup {it.srcRel : it \in OfKind(items, "move")}
      Record(it) == Entry(it.size, it.mtime, TargetId(it), NewRemote(it).mtime)
  IN [r \in (DOMAIN base \ gone) \cup written |->
        IF r \in written THEN Record(ItemAt(Kept(items), r)) ELSE base[r]]

\* a downloaded file is dated with the run
PulledLocal(items) ==
  LET fetched == {it.rel : it \in OfKind(items, "download")}
      gone    == {it.rel : it \in OfKind(items, "deleteLocal")}
  IN [r \in (DOMAIN local \ gone) \cup fetched |->
        IF r \in fetched
        THEN [size |-> ItemAt(items, r).size, mtime |-> clock + 1] ELSE local[r]]

PulledManifest(base, items) ==
  LET fetched == {it.rel : it \in OfKind(items, "download")}
      gone    == {it.rel : it \in OfKind(items, "deleteLocal")}
      Record(it) == Entry(it.size, clock + 1, it.remoteID, it.remoteMtime)
  IN [r \in (DOMAIN base \ gone) \cup fetched |->
        IF r \in fetched THEN Record(ItemAt(items, r)) ELSE base[r]]

-----------------------------------------------------------------------------
(* The runs *)

\* filterPushDrift: an overwrite or a delete whose remote file is not the one
\* the manifest recorded is skipped, and so is the overwrite of a file that is
\* gone; a delete of a file that is gone goes through.
InDrift(it, base) ==
  /\ it.op \in {"overwrite", "delete"}
  /\ \/ WithId(it.remoteID) = {} /\ it.op = "overwrite"
     \/ \E r \in WithId(it.remoteID) : RemoteTouched(remote[r], base[it.rel])

PushItems(base, moves) ==
  LET plan == PlanPush(local, base)
  IN {it \in (IF moves THEN DetectMoves(plan, base) ELSE plan) : ~InDrift(it, base)}

\* A move fails when its file is gone, or when its name is taken.
Feasible(it) ==
  it.op = "move" => WithId(it.remoteID) # {} /\ it.rel \notin DOMAIN remote

PushBase == IF DOMAIN m = {} THEN Bootstrap(m, remote, local) ELSE m

Push(moves) ==
  /\ Tick(IF moves THEN "push with moves" ELSE "push")
  /\ LET items == {it \in PushItems(PushBase, moves) : Feasible(it)}
     IN remote' = PushedRemote(items) /\ m' = PushedManifest(PushBase, items)
  /\ UNCHANGED local

Pull ==
  /\ Tick("pull")
  /\ LET items == FilterDrift(PlanPull(remote, m), local, m)
     IN local' = PulledLocal(items) /\ m' = PulledManifest(m, items)
  /\ UNCHANGED remote

TwoWayBase == IF DOMAIN m = {} THEN SeedSynced(m, remote, local) ELSE m

\* the pull half, then the push half
TwoWay ==
  /\ Tick("twoway")
  /\ LET plan == PlanTwoWay(local, remote, TwoWayBase)
     IN /\ local' = PulledLocal(plan.pull)
        /\ remote' = PushedRemote(plan.push)
        /\ m' = PushedManifest(PulledManifest(TwoWayBase, plan.pull), plan.push)

Next == Edit \/ (\E moves \in BOOLEAN : Push(moves)) \/ Pull \/ TwoWay

Spec == Init /\ [][Next]_vars
-----------------------------------------------------------------------------
(* Properties *)

\* A push that met no failure leaves nothing to push: what a second run would
\* still plan is only what the drift guard skips (or a move could not place).
PushSettles ==
  /\ last = "push" => PushItems(m, FALSE) = {}
  /\ last = "push with moves" => \A it \in PushItems(m, TRUE) : ~Feasible(it)

\* A pull that met no failure leaves nothing to pull, but for the local edits it
\* refuses to replace.
PullSettles == last = "pull" => FilterDrift(PlanPull(remote, m), local, m) = {}

\* After a two-way sync nothing is left to do but the conflicts it reported.
TwoWaySettles ==
  last = "twoway" => LET plan == PlanTwoWay(local, remote, m)
                     IN plan.push = {} /\ plan.pull = {}

\* A run that meets no failure leaves nothing to do for the next one of its kind.
RunsSettle == PushSettles /\ PullSettles /\ TwoWaySettles

\* "changed on both sides ... reported without being touched": a two-way sync
\* never replaces or removes a version that its baseline does not hold, on either
\* side.  And a push replaces or removes no tracked remote file that another client
\* has changed since it was recorded: the file is still there afterwards, under
\* its id, as that client left it (a move may have renamed it).
TwoWayKeepsEdits ==
  last' = "twoway" =>
    /\ \A r \in DOMAIN local : LocalChanged(local, TwoWayBase, r) =>
         r \in DOMAIN local' /\ local'[r] = local[r]
    /\ \A r \in DOMAIN remote : RemoteChanged(remote, TwoWayBase, r) =>
         r \in DOMAIN remote' /\ remote'[r] = remote[r]

PushKeepsEdits ==
  last' \in {"push", "push with moves"} /\ m # [r \in {} |-> 0] =>
    \A r \in DOMAIN m : \A q \in WithId(m[r].remoteID) :
       RemoteTouched(remote[q], m[r]) => \E p \in DOMAIN remote' : remote'[p] = remote[q]

RunsKeepEdits == [][TwoWayKeepsEdits /\ PushKeepsEdits]_vars
=============================================================================
