-------------------------------- MODULE Push --------------------------------
(***************************************************************************)
(* `kdrive sync push` from end to end: Push, filterPushDrift, RunPush and  *)
(* PushExecutor, over a local tree and a remote folder that other programs *)
(* and other clients change, an API whose calls can fail with or without   *)
(* effect, and a process that can be killed at any moment.                 *)
(*                                                                         *)
(* A run:  Begin (walk, load, bootstrap, plan)                             *)
(*      -> CheckDrift, one Stat per overwrite and delete                   *)
(*      -> Guard (delete ratio, dry run)                                   *)
(*      -> the items, on up to Jobs workers, one step per API call         *)
(*      -> Finish (save the manifest).                                     *)
(* The pool itself is RunPool; here it is what ItemRun promises, with the  *)
(* slice's order of kinds: uploads and overwrites, then deletes, then      *)
(* moves.  A context cancelled by Ctrl-C makes calls fail, which any call  *)
(* may do here.                                                            *)
(*                                                                         *)
(* Versions.  Every local write is given a later mtime (clock), so a local *)
(* version is identified by its mtime, and (size, mtime) tells versions    *)
(* apart, as the syncer assumes; mv keeps it.  A remote file holds the     *)
(* mtime of the local version it was made from (`data`), 0 for content     *)
(* another client wrote.  Its own mtime counts its writes: two writes of   *)
(* one remote file are never in the same second.  Moving or renaming a     *)
(* remote file leaves its mtime alone.                                     *)
(*                                                                         *)
(* Abstracted: folders exist as the first half of a path (the Resolver     *)
(* that creates them may fail, as any call); an upload whose local file    *)
(* has changed its size since the walk is refused, the request's length    *)
(* and hash disagreeing (so it is for the single-shot upload of files up   *)
(* to 16 MiB; a chunked one of a file that has grown sends its first       *)
(* part); the walk and the index are taken in one step.                    *)
(***************************************************************************)
EXTENDS SyncPlan

CONSTANTS Sizes,     \* file sizes
          Jobs,      \* pool size
          Interval,  \* checkpointInterval
          Settings   \* the worlds a behaviour can take place in: name -> Setting

Option == [force : BOOLEAN, noDelete : BOOLEAN, assumeNew : BOOLEAN,
           refresh : BOOLEAN, detectMoves : BOOLEAN, dryRun : BOOLEAN]

\* The world of the behaviour: one of the names of Settings, which never changes.
VARIABLE setting

Rels          == Settings[setting].rels           \* relative paths, as <<directory, name>>
StartTree     == Settings[setting].tree           \* the local files at the start
Synced        == Settings[setting].synced         \* an earlier run has pushed them
Options       == Settings[setting].options        \* the option records users run with
Percent       == Settings[setting].percent        \* DeleteThreshold, in percent
ReportsParent == Settings[setting].reportsParent  \* answers name the folder of a file
MayRename     == Settings[setting].mayRename      \* local renames, which keep the mtime
LocalInRun    == Settings[setting].localInRun     \* local edits during a run too
ForeignInRun  == Settings[setting].foreignInRun   \* and changes of other clients
MaxEdits      == Settings[setting].maxEdits       \* bound: local edits
MaxForeign    == Settings[setting].maxForeign     \* bound: changes by other clients
MaxRuns       == Settings[setting].maxRuns        \* bound: runs of push
MaxFaults     == Settings[setting].maxFaults      \* bound: failing calls and saves
MaxCrashes    == Settings[setting].maxCrashes     \* bound: kills

ASSUME PushAssumption ==
  /\ Sizes \subseteq Nat
  /\ Jobs \in Nat \ {0} /\ Interval \in Nat \ {0}
  /\ \A w \in DOMAIN Settings :
       LET s == Settings[w]
           N == Cardinality(DOMAIN s.tree)
       IN /\ \A r \in s.rels : r = <<r[1], r[2]>>
          /\ DOMAIN s.tree \subseteq s.rels /\ IsFiniteSet(DOMAIN s.tree)
          /\ s.tree \in [DOMAIN s.tree -> [size : Sizes, mtime : 1..N]]
          /\ \A r, q \in DOMAIN s.tree : s.tree[r].mtime = s.tree[q].mtime => r = q
          /\ {s.synced, s.reportsParent, s.mayRename, s.localInRun, s.foreignInRun}
               \subseteq BOOLEAN
          /\ s.options \subseteq Option
          /\ {s.percent, s.maxEdits, s.maxForeign, s.maxRuns, s.maxFaults, s.maxCrashes}
               \subseteq Nat

VARIABLES
  local,      \* the local tree: rel -> [size, mtime]
  remote,     \* the remote folder: id -> [path, size, mtime, data]
  nextId,     \* the next id the server gives
  disk,       \* the manifest file
  m,          \* the manifest in memory (equal to disk between runs)
  phase,      \* "idle", "drift", "run"
  opts,       \* the options of the run
  todo,       \* items whose remote file is still to be stat'ed
  waiting,    \* planned items no worker has taken
  work,       \* items in the workers' hands: item -> progress
  since,      \* successes since the last checkpoint
  failures,   \* res.Failed > 0
  skipped     \* rels the drift check dropped in this run

\* Counters that carry the bounds.
VARIABLES clock, foreign, runs, faults, crashes

\* History, read by the properties only.
VARIABLES
  unseen,     \* ids changed by another client since the index last saw them
  adopted,    \* rels whose entry comes from an index and not from a transfer
  dirty,      \* something was edited since the run began
  baseline,   \* m.Len() when the delete guard looked at it
  removed,    \* number of remote files this run has removed
  clean,      \* the last run ended with everything done, and nothing since
  astray      \* an upload took over a file on its way to another name, or a move
              \* ended half way (both of a file that changes its folder and its name)

run     == <<phase, opts, todo, waiting, work, since, failures, skipped>>
bounds  == <<clock, foreign, runs, faults, crashes>>
history == <<unseen, adopted, dirty, baseline, removed, clean, astray>>
vars    == <<setting, local, remote, nextId, disk, m, run, bounds, history>>

DirOf(rel)  == rel[1]
BaseOf(rel) == rel[2]

\* where a remote file can be, half way through a move as well
Paths == {<<DirOf(r), BaseOf(q)>> : r, q \in Rels}

Empty == [r \in {} |-> 0]

\* the value of opts between runs
NoRun == CHOOSE o \in Options : TRUE

\* the remote files at a path (never more than one, see OnePathPerFile)
At(path) == {i \in DOMAIN remote : remote[i].path = path}

\* remoteindex.Build
Index == [p \in {remote[i].path : i \in DOMAIN remote} |->
            LET i == CHOOSE j \in At(p) : TRUE
            IN [id |-> i, size |-> remote[i].size, mtime |-> remote[i].mtime]]

StartEntry(r) == Entry(StartTree[r].size, StartTree[r].mtime, StartTree[r].mtime, 1)

Init ==
  /\ setting \in DOMAIN Settings
  /\ LET tree == DOMAIN StartTree IN
     /\ local = StartTree
     /\ IF Synced
        THEN /\ remote = [i \in {StartTree[r].mtime : r \in tree} |->
                            LET r == CHOOSE q \in tree : StartTree[q].mtime = i
                            IN [path |-> r, size |-> StartTree[r].size, mtime |-> 1, data |-> i]]
             /\ disk = [r \in tree |-> StartEntry(r)]
        ELSE remote = Empty /\ disk = Empty
     /\ nextId = Cardinality(tree) + 1
     /\ m = disk
     /\ phase = "idle" /\ opts = NoRun
     /\ todo = {} /\ waiting = {} /\ work = Empty
     /\ since = 0 /\ failures = FALSE /\ skipped = {}
     /\ clock = Cardinality(tree)
     /\ foreign = 0 /\ runs = 0 /\ faults = 0 /\ crashes = 0
     /\ unseen = {} /\ adopted = {} /\ dirty = FALSE
     /\ baseline = 0 /\ removed = 0 /\ clean = FALSE /\ astray = FALSE
-----------------------------------------------------------------------------
(* Everyone else: edits of the local tree and of the remote folder *)

Edited == /\ dirty' = TRUE
          /\ clean' = FALSE
          /\ UNCHANGED <<setting, disk, m, run, runs, faults, crashes, adopted, baseline,
                         removed, astray>>

LocalEdit == /\ LocalInRun \/ phase = "idle"
             /\ clock < Cardinality(DOMAIN StartTree) + MaxEdits
             /\ clock' = clock + 1
             /\ Edited
             /\ UNCHANGED <<remote, nextId, foreign, unseen>>

LocalWrite(r) == /\ LocalEdit
                 /\ \E s \in Sizes :
                      local' = Set(local, r, [size |-> s, mtime |-> clock + 1])

LocalRemove(r) == /\ LocalEdit
                  /\ r \in DOMAIN local
                  /\ local' = Delete(local, r)

LocalRename(r, q) == /\ MayRename
                     /\ LocalEdit
                     /\ r \in DOMAIN local /\ q \notin DOMAIN local
                     /\ local' = Set(Delete(local, r), q, local[r])

ForeignEdit(i) == /\ ForeignInRun \/ phase = "idle"
                  /\ foreign < MaxForeign
                  /\ foreign' = foreign + 1
                  /\ unseen' = unseen \cup {i}
                  /\ Edited
                  /\ UNCHANGED <<local, clock>>

ForeignWrite(i) ==
  /\ ForeignEdit(i)
  /\ \E s \in Sizes :
       remote' = [remote EXCEPT ![i].size = s, ![i].mtime = @ + 1, ![i].data = 0]
  /\ UNCHANGED nextId

ForeignRemove(i) == ForeignEdit(i) /\ remote' = Delete(remote, i) /\ UNCHANGED nextId

ForeignCreate(path) ==
  /\ At(path) = {}
  /\ ForeignEdit(nextId)
  /\ \E s \in Sizes :
       remote' = Set(remote, nextId, [path |-> path, size |-> s, mtime |-> 1, data |-> 0])
  /\ nextId' = nextId + 1

Environment == \/ \E r \in Rels : \/ LocalWrite(r) \/ LocalRemove(r) \/ ForeignCreate(r)
                                  \/ \E q \in Rels : LocalRename(r, q)
               \/ \E i \in DOMAIN remote : ForeignWrite(i) \/ ForeignRemove(i)

-----------------------------------------------------------------------------
(* Push: planning *)

\* Push has returned without saving anything: the process is gone and so is
\* its manifest in memory.
Abandon == /\ phase' = "idle" /\ opts' = NoRun
           /\ todo' = {} /\ waiting' = {} /\ work' = Empty
           /\ since' = 0 /\ failures' = FALSE /\ skipped' = {}
           /\ baseline' = 0 /\ removed' = 0

MustIndex(o) == o.refresh \/ (DOMAIN disk = {} /\ ~o.assumeNew)

Planned(o, base) ==
  LET plan  == PlanPush(local, base)
      moved == IF o.detectMoves /\ ~o.noDelete THEN DetectMoves(plan, base) ELSE plan
  IN IF o.noDelete THEN DropDeletes(moved) ELSE moved

\* without --force, each overwrite and delete is stat'ed first
NeedsCheck(o, it) == ~o.force /\ it.op \in {"overwrite", "delete"}

Begin(o) ==
  LET base   == IF MustIndex(o) THEN Bootstrap(disk, Index, local) ELSE disk
      seeded == IF MustIndex(o) THEN DOMAIN local \cap DOMAIN Index ELSE {}
      items  == Planned(o, base)
  IN /\ phase = "idle"
     /\ runs < MaxRuns
     /\ runs' = runs + 1
     /\ opts' = o
     /\ m' = base
     /\ phase' = "drift"
     /\ todo' = {it \in items : NeedsCheck(o, it)}
     /\ waiting' = {it \in items : ~NeedsCheck(o, it)}
     /\ adopted' = adopted \cup seeded
     /\ unseen' = unseen \ {Index[r].id : r \in seeded}
     /\ dirty' = FALSE /\ clean' = FALSE /\ removed' = 0
     /\ UNCHANGED <<setting, local, remote, nextId, disk, work, since, failures, skipped,
                    clock, foreign, faults, crashes, baseline, astray>>

\* Seeded defect: only the size of the remote file is compared.
DriftedBySize(it) ==
  IF it.remoteID \notin DOMAIN remote THEN it.op = "overwrite"
  ELSE remote[it.remoteID].size # m[it.rel].size

\* the remote file is not the one the manifest recorded
Drifted(it) ==
  IF it.remoteID \notin DOMAIN remote THEN it.op = "overwrite"
  ELSE RemoteTouched(remote[it.remoteID], m[it.rel])

\* Seeded defect: the entry of a skipped file is brought up to date.
CheckDriftAdopts(it) ==
  /\ phase = "drift"
  /\ it \in todo
  /\ todo' = todo \ {it}
  /\ \/ /\ Drifted(it) /\ skipped' = skipped \cup {it.rel}
        /\ IF it.remoteID \in DOMAIN remote
           THEN m' = [m EXCEPT ![it.rel].size = remote[it.remoteID].size,
                               ![it.rel].remoteMtime = remote[it.remoteID].mtime]
           ELSE UNCHANGED m
        /\ UNCHANGED waiting
     \/ ~Drifted(it) /\ waiting' = waiting \cup {it} /\ UNCHANGED <<skipped, m>>
  /\ UNCHANGED <<setting, local, remote, nextId, disk, phase, opts, work, since, failures,
                 bounds, history>>

CheckDrift(it) ==
  /\ phase = "drift"
  /\ it \in todo
  /\ todo' = todo \ {it}
  /\ \/ Drifted(it) /\ skipped' = skipped \cup {it.rel} /\ UNCHANGED waiting
     \/ ~Drifted(it) /\ waiting' = waiting \cup {it} /\ UNCHANGED skipped
  /\ UNCHANGED <<setting, local, remote, nextId, disk, m, phase, opts, work, since, failures,
                 bounds, history>>

\* a Stat that fails otherwise ends the run
CheckDriftFails ==
  /\ phase = "drift"
  /\ todo # {}
  /\ faults < MaxFaults /\ faults' = faults + 1
  /\ Abandon
  /\ m' = disk
  /\ UNCHANGED <<setting, local, remote, nextId, disk, clock, foreign, runs, crashes, unseen,
                 adopted, dirty, clean, astray>>

\* Seeded defect: the ratio is taken of every file the run knows.
GuardOfAllFiles ==
  LET dels == Cardinality(OfKind(waiting, "delete"))
      size == Cardinality(DOMAIN m \cup DOMAIN local)
  IN /\ phase = "drift"
     /\ todo = {}
     /\ \/ /\ DeletesAllowed(dels, size, Percent, opts.force)
           /\ ~opts.dryRun
           /\ phase' = "run"
           /\ baseline' = Cardinality(DOMAIN m)
           /\ UNCHANGED <<m, opts, todo, waiting, work, since, failures, skipped, removed>>
        \/ /\ ~DeletesAllowed(dels, size, Percent, opts.force) \/ opts.dryRun
           /\ Abandon
           /\ m' = disk
     /\ UNCHANGED <<setting, local, remote, nextId, disk, bounds, unseen, adopted, dirty, clean,
                    astray>>

Guard ==
  LET dels == Cardinality(OfKind(waiting, "delete"))
      size == Cardinality(DOMAIN m)
  IN /\ phase = "drift"
     /\ todo = {}
     /\ \/ /\ DeletesAllowed(dels, size, Percent, opts.force)
           /\ ~opts.dryRun
           /\ phase' = "run"
           /\ baseline' = size
           /\ UNCHANGED <<m, opts, todo, waiting, work, since, failures, skipped, removed>>
        \/ /\ ~DeletesAllowed(dels, size, Percent, opts.force) \/ opts.dryRun
           /\ Abandon
           /\ m' = disk
     /\ UNCHANGED <<setting, local, remote, nextId, disk, bounds, unseen, adopted, dirty, clean,
                    astray>>

-----------------------------------------------------------------------------
(* PushExecutor: one step per API call *)

FirstCall == [upload |-> "create", overwrite |-> "replace", delete |-> "remove",
              move |-> "stat"]

Rank == [upload |-> 0, overwrite |-> 0, delete |-> 1, move |-> 2]

\* Items reach the workers kind by kind, as the planner lists them.
Take(it) ==
  /\ phase = "run"
  /\ it \in waiting
  /\ \A other \in waiting : Rank[it.op] <= Rank[other.op]
  /\ Cardinality(DOMAIN work) < Jobs
  /\ waiting' = waiting \ {it}
  /\ work' = [i \in DOMAIN work \cup {it} |->
                IF i = it THEN [at |-> FirstCall[it.op], id |-> it.remoteID, mtime |-> 0,
                                path |-> it.rel]
                ELSE work[i]]
  /\ UNCHANGED <<setting, local, remote, nextId, disk, m, phase, opts, todo, since, failures,
                 skipped, bounds, history>>

InCall(it, call) == it \in DOMAIN work /\ work[it].at = call

Proceed(it, call) == work' = [work EXCEPT ![it].at = call]

Done(it, id, mtime) ==
  work' = [work EXCEPT ![it].at = "done", ![it].id = id, ![it].mtime = mtime]

Faulty == faults < MaxFaults /\ faults' = faults + 1

NoFault == UNCHANGED faults

\* what a call of the executor leaves alone, and all but Find's history
Beside == UNCHANGED <<setting, local, disk, m, phase, opts, todo, waiting, since, failures,
                      skipped, clock, foreign, runs, crashes, adopted, dirty, baseline, clean>>

Elsewhere == Beside /\ UNCHANGED astray

\* the call fails, and the remote is as it was
CallFails(it) == /\ Proceed(it, "failed")
                 /\ UNCHANGED <<remote, nextId, unseen, removed>>
                 /\ Elsewhere

\* os.Open finds the file, and its size is the one the request announces
Readable(it) == it.rel \in DOMAIN local /\ local[it.rel].size = it.size

FromLocal(it, path, mtime) == [path |-> path, size |-> it.size, mtime |-> mtime,
                               data |-> local[it.rel].mtime]

\* writer.Upload with conflict=error.  When the answer of an upload that was
\* applied is lost, the client's own retry meets the file just created.
Create(it) ==
  /\ InCall(it, "create")
  /\ \/ ~Readable(it) /\ NoFault /\ CallFails(it)
     \/ Faulty /\ CallFails(it)
     \/ /\ Readable(it) /\ At(it.rel) # {}
        /\ Proceed(it, "find")
        /\ NoFault
        /\ UNCHANGED <<remote, nextId, unseen, removed>>
        /\ Elsewhere
     \/ /\ Readable(it) /\ At(it.rel) = {}
        /\ remote' = Set(remote, nextId, FromLocal(it, it.rel, 1))
        /\ nextId' = nextId + 1
        /\ \/ Done(it, nextId, 1) /\ NoFault
           \/ Proceed(it, "failed") /\ Faulty
           \/ Proceed(it, "find") /\ Faulty
        /\ UNCHANGED <<unseen, removed>>
        /\ Elsewhere

\* a move has the file in hand
Carried(i) == \E other \in OfKind(DOMAIN work, "move") : other.remoteID = i

\* findChild: the file of that name in the folder
Find(it) ==
  /\ InCall(it, "find")
  /\ \/ Faulty /\ CallFails(it)
     \/ At(it.rel) = {} /\ NoFault /\ CallFails(it)
     \/ /\ \E i \in At(it.rel) :
             /\ work' = [work EXCEPT ![it].at = "replace", ![it].id = i]
             /\ astray' = (astray \/ Carried(i))
        /\ NoFault
        /\ UNCHANGED <<remote, nextId, unseen, removed>>
        /\ Beside

\* writer.Upload with ExistingFileID
Replace(it) ==
  LET id == work[it].id IN
  /\ InCall(it, "replace")
  /\ \/ /\ ~Readable(it) \/ id \notin DOMAIN remote
        /\ NoFault /\ CallFails(it)
     \/ Faulty /\ CallFails(it)
     \/ /\ Readable(it) /\ id \in DOMAIN remote
        /\ remote' = [remote EXCEPT ![id] = FromLocal(it, @.path, @.mtime + 1)]
        /\ unseen' = unseen \ {id}
        /\ \/ Done(it, id, remote[id].mtime + 1) /\ NoFault
           \/ Proceed(it, "failed") /\ Faulty
        /\ UNCHANGED <<nextId, removed>>
        /\ Elsewhere

\* Delete: a file that is gone is as good as deleted
Remove(it) ==
  LET id == work[it].id IN
  /\ InCall(it, "remove")
  /\ \/ Faulty /\ CallFails(it)
     \/ /\ id \notin DOMAIN remote
        /\ Done(it, id, 0)
        /\ NoFault
        /\ UNCHANGED <<remote, nextId, unseen, removed>>
        /\ Elsewhere
     \/ /\ id \in DOMAIN remote
        /\ remote' = Delete(remote, id)
        /\ removed' = removed + 1
        /\ \/ Done(it, id, 0) /\ NoFault
           \/ Proceed(it, "failed") /\ Faulty
        /\ UNCHANGED <<nextId, unseen>>
        /\ Elsewhere

\* Seeded defect: a new folder is not noticed.
AfterStatByName(it, path) == IF BaseOf(path) # BaseOf(it.rel) THEN "rename" ELSE "done"

\* Move, first call: Stat decides which of the two calls are needed.  The folder
\* is the manifest's when the answer does not name it (parent_id absent).
LiveDir(it, path) == IF ReportsParent THEN DirOf(path) ELSE DirOf(it.srcRel)

AfterStat(it, path) == IF LiveDir(it, path) # DirOf(it.rel) THEN "move"
                       ELSE IF BaseOf(path) # BaseOf(it.rel) THEN "rename"
                       ELSE "done"

MoveStat(it) ==
  LET id == work[it].id IN
  /\ InCall(it, "stat")
  /\ \/ Faulty /\ CallFails(it)
     \/ id \notin DOMAIN remote /\ NoFault /\ CallFails(it)
     \/ /\ id \in DOMAIN remote
        /\ work' = [work EXCEPT ![it] =
                      [at |-> AfterStat(it, remote[id].path), id |-> id,
                       mtime |-> remote[id].mtime, path |-> remote[id].path]]
        /\ NoFault
        /\ UNCHANGED <<remote, nextId, unseen, removed>>
        /\ Elsewhere

\* the server changes a file's folder or its name, whichever the request names,
\* and leaves the other half of its path; not if it is gone or the path is taken
Relocate(it, To(_), Answer(_)) ==
  LET id == work[it].id IN
  \/ Faulty /\ CallFails(it)
  \/ /\ id \in DOMAIN remote => At(To(remote[id].path)) \ {id} # {}
     /\ NoFault /\ CallFails(it)
  \/ /\ id \in DOMAIN remote /\ At(To(remote[id].path)) \subseteq {id}
     /\ remote' = [remote EXCEPT ![id].path = To(@)]
     /\ \/ Answer(remote[id].mtime) /\ NoFault
        \/ Proceed(it, "failed") /\ Faulty
     /\ UNCHANGED <<nextId, unseen, removed>>
     /\ Elsewhere

MoveCall(it) ==
  /\ InCall(it, "move")
  /\ LET InFolder(path) == <<DirOf(it.rel), BaseOf(path)>>
         Further(mtime)  == Proceed(it, IF BaseOf(work[it].path) # BaseOf(it.rel)
                                        THEN "rename" ELSE "restat")
     IN Relocate(it, InFolder, Further)

\* Rename leaves the file in the folder it is in, and answers with the file, so
\* its mtime needs no further Stat.
RenameCall(it) ==
  /\ InCall(it, "rename")
  /\ LET Named(path)    == <<DirOf(path), BaseOf(it.rel)>>
         Renamed(mtime) == Done(it, work[it].id, mtime)
     IN Relocate(it, Named, Renamed)

MoveRestat(it) ==
  LET id == work[it].id IN
  /\ InCall(it, "restat")
  /\ \/ Faulty /\ CallFails(it)
     \/ id \notin DOMAIN remote /\ NoFault /\ CallFails(it)
     \/ /\ id \in DOMAIN remote
        /\ Done(it, id, remote[id].mtime)
        /\ NoFault
        /\ UNCHANGED <<remote, nextId, unseen, removed>>
        /\ Elsewhere

Call(it) == \/ Create(it) \/ Find(it) \/ Replace(it) \/ Remove(it)
            \/ MoveStat(it) \/ MoveCall(it) \/ RenameCall(it) \/ MoveRestat(it)

-----------------------------------------------------------------------------
(* The collector, the end of the run, and its loss *)

\* Seeded defect: the local mtime is read again after the transfer.
RecordedRestat(it) ==
  LET now == IF it.rel \in DOMAIN local THEN local[it.rel].mtime ELSE it.mtime
      e   == Entry(it.size, now, work[it].id, work[it].mtime)
  IN CASE it.op \in {"upload", "overwrite"} -> Set(m, it.rel, e)
       [] it.op = "delete"                  -> Delete(m, it.rel)
       [] it.op = "move"                    -> Set(Delete(m, it.srcRel), it.rel, e)

\* Seeded defect: a move does not delete the old entry.
RecordedKeepsSource(it) ==
  LET e == Entry(it.size, it.mtime, work[it].id, work[it].mtime)
  IN IF it.op = "delete" THEN Delete(m, it.rel) ELSE Set(m, it.rel, e)

\* the manifest with the item's result in it
Recorded(it) ==
  LET e == Entry(it.size, it.mtime, work[it].id, work[it].mtime)
  IN CASE it.op \in {"upload", "overwrite"} -> Set(m, it.rel, e)
       [] it.op = "delete"                  -> Delete(m, it.rel)
       [] it.op = "move"                    -> Set(Delete(m, it.srcRel), it.rel, e)

StillAdopted(it) ==
  IF it.op = "move" /\ it.srcRel \in adopted
  THEN (adopted \ {it.srcRel}) \cup {it.rel}
  ELSE adopted \ {it.rel, it.srcRel}

Drop(it) == work' = [i \in DOMAIN work \ {it} |-> work[i]]

\* `_ = m.Save(manifestPath)` every Interval successes
Collect(it) ==
  /\ InCall(it, "done")
  /\ m' = Recorded(it)
  /\ IF since + 1 < Interval
     THEN since' = since + 1 /\ NoFault /\ UNCHANGED disk
     ELSE since' = 0 /\ \/ disk' = m' /\ NoFault
                        \/ Faulty /\ UNCHANGED disk
  /\ adopted' = StillAdopted(it)
  /\ Drop(it)
  /\ UNCHANGED <<setting, local, remote, nextId, phase, opts, todo, waiting, failures, skipped,
                 clock, foreign, runs, crashes, unseen, dirty, baseline, removed, clean,
                 astray>>

\* a move that fails has taken its file from where it was
HalfWay(it) == /\ it.op = "move"
               /\ it.remoteID \in DOMAIN remote /\ remote[it.remoteID].path # it.srcRel

CollectFailure(it) ==
  /\ InCall(it, "failed")
  /\ failures' = TRUE
  /\ astray' = (astray \/ HalfWay(it))
  /\ Drop(it)
  /\ UNCHANGED <<setting, local, remote, nextId, disk, m, phase, opts, todo, waiting, since,
                 skipped, bounds, unseen, adopted, dirty, baseline, removed, clean>>

Finish ==
  /\ phase = "run" /\ waiting = {} /\ DOMAIN work = {}
  /\ Abandon
  /\ \/ /\ disk' = m
        /\ NoFault
        /\ clean' = (~failures /\ skipped = {} /\ ~opts.noDelete /\ ~dirty)
        /\ UNCHANGED m
     \/ /\ m' = disk
        /\ Faulty
        /\ UNCHANGED <<disk, clean>>
  /\ UNCHANGED <<setting, local, remote, nextId, clock, foreign, runs, crashes, unseen, adopted,
                 dirty, astray>>

\* The process is killed: what it asked of the server before stays done.
Crash ==
  /\ phase # "idle"
  /\ crashes < MaxCrashes
  /\ crashes' = crashes + 1
  /\ Abandon
  /\ m' = disk
  /\ UNCHANGED <<setting, local, remote, nextId, disk, clock, foreign, runs, faults, unseen,
                 adopted, dirty, clean, astray>>

Next == \/ Environment
        \/ \E o \in Options : Begin(o)
        \/ \E it \in todo : CheckDrift(it)
        \/ CheckDriftFails
        \/ Guard
        \/ \E it \in waiting : Take(it)
        \/ \E it \in DOMAIN work : Call(it) \/ Collect(it) \/ CollectFailure(it)
        \/ Finish
        \/ Crash

Spec == Init /\ [][Next]_vars
-----------------------------------------------------------------------------
(* Properties *)

\* Moves are not drift-checked, and a call that is applied and not recorded leaves
\* the manifest with what was there before.  What --detect-moves promises it
\* promises if no call failed, no run was killed, and no file was met or left on the
\* way from one name to another.
Undisturbed == faults = 0 /\ crashes = 0 /\ ~astray

Accountable == Undisturbed \/ \A o \in Options : ~o.detectMoves

\* What the syncer's "unchanged" is worth: where an entry agrees with the local
\* file and with the remote file it names, both have the same content, whatever
\* runs, failures and kills led there.  Entries taken from an index are exempt
\* (a file of equal size is adopted unseen) until the file is transferred.
Agrees(f, r) ==
  /\ r \in DOMAIN local /\ ~Touched(local[r], f[r])
  /\ f[r].remoteID \in DOMAIN remote
  /\ ~RemoteTouched(remote[f[r].remoteID], f[r])

ManifestSound ==
  Accountable => \A f \in {m, disk} : \A r \in DOMAIN f \ adopted :
     Agrees(f, r) => remote[f[r].remoteID].data = local[r].mtime

\* After a run that reported no failure, skipped nothing and kept its deletes,
\* and as long as nothing is edited, the remote folder mirrors the local tree:
\* each local file is there, with its content, under its path and under the id
\* the manifest holds, and nothing else is tracked.  Files that other clients
\* changed and content adopted from an index are not the run's doing.
CleanRunMirrors ==
  clean /\ Accountable =>
    /\ DOMAIN disk = DOMAIN local
    /\ \A r \in DOMAIN local :
         LET e == disk[r] IN
         /\ ~Touched(local[r], e)
         /\ e.remoteID \notin unseen =>
              /\ e.remoteID \in DOMAIN remote
              /\ remote[e.remoteID].path = r
              /\ r \notin adopted => remote[e.remoteID].data = local[r].mtime

\* Paths and files go one to one.  A folder never holds two files of one name:
\* pushes create with conflict=error, and moves and renames go only to free places.
\* And no two paths are baselined on one remote file, or deleting or overwriting one
\* by its id would destroy the other: the uploads that take over a file of their name
\* and the deletes of one plan never come to share an id, whatever fails, and with
\* --detect-moves its moves neither, while nothing does.
OnePathPerFile ==
  /\ \A i, j \in DOMAIN remote : remote[i].path = remote[j].path => i = j
  /\ Accountable =>
       \A f \in {m, disk} : \A r, q \in DOMAIN f : f[r].remoteID = f[q].remoteID => r = q

\* A push without --force never clobbers a remote change it has not seen: no overwrite or
\* delete of the plan lands on a file another client changed since it was recorded.
\* (An upload that meets a file of its name takes that file over: findChild.)
TakenOver == {work[it].id : it \in OfKind(DOMAIN work, "upload")}

NeverClobbers ==
  [][\A i \in (unseen \cap DOMAIN remote) \ TakenOver :
       foreign' = foreign /\ ~opts.force =>
         i \in DOMAIN remote' /\ ~(remote'[i].mtime # remote[i].mtime)]_vars

\* A change another client made stays visible to the drift check: a baseline
\* never comes to agree with a version nobody downloaded, indexed or wrote.
UnseenStaysUnseen ==
  \A f \in {m, disk} : \A r \in DOMAIN f :
     f[r].remoteID \in unseen \cap DOMAIN remote =>
        RemoteTouched(remote[f[r].remoteID], f[r])

\* "Push mirrors opts.LocalRoot onto the remote folder rootID": after a run that
\* reported no failure and skipped nothing each local file is there with its content,
\* if no call ever failed, nothing was killed and no other client was about.
PushMirrors ==
  clean /\ faults = 0 /\ crashes = 0 /\ foreign = 0 /\ adopted = {} =>
    \A r \in DOMAIN local :
      \E i \in At(r) : remote[i].data = local[r].mtime

\* A run without --force removes no more remote files than the threshold allows,
\* and --no-delete removes none.
RemovesWithinThreshold ==
  /\ ~opts.force => DeletesAllowed(removed, baseline, Percent, FALSE)
  /\ opts.noDelete /\ phase # "idle" => removed = 0
=============================================================================
