------------------------------- MODULE PullRun -------------------------------
(***************************************************************************)
(* `kdrive sync --pull` and `--two-way` from end to end: Pull, TwoWay,     *)
(* RunPull and PullExecutor, over a local tree and a remote folder that    *)
(* their users change meanwhile, with calls and disk operations that fail  *)
(* and a process that can be killed between any two steps.                 *)
(*                                                                         *)
(* A download is DownloadStream, os.Create of the file's name with .tmp    *)
(* appended, io.Copy, os.Rename over the file and os.Stat of it: a step    *)
(* each, so that a kill leaves the temporary file behind, two downloads    *)
(* overlap, and an edit comes between any two.  A push item of a two-way   *)
(* run is one step here, all its ways to end included; Push has its calls. *)
(* The pool is what ItemRun promises, over items in any order, as the      *)
(* planners range over maps.                                               *)
(*                                                                         *)
(* Versions.  `clock` dates every write on either side, so (size, mtime)   *)
(* tells the versions of a file apart, as the syncer assumes, and the      *)
(* content of a version (`data`) is named by the instant it was written    *)
(* at; a download keeps the content and dates the file with its own end.   *)
(* A file of which only a part has been written holds -data.               *)
(*                                                                         *)
(* Abstracted: a path is a name and the number of .tmp it ends with;       *)
(* directories exist.  The index is taken and the tree walked in one step: *)
(* a change on one side and a look at the other commute.                   *)
(***************************************************************************)
EXTENDS SyncPlan, Sequences

CONSTANTS Rels,          \* the paths users give files: <<name, number of .tmp>>
          Sizes,         \* file sizes
          Unwalked,      \* those of them in a directory WalkLocal prunes
          StartPaths,    \* sequence of the paths of the remote files at the start
          SyncedStarts,  \* TRUE: a run has pulled them before; FALSE: it has not
          Options,       \* the option records a user may run with
          Jobs,          \* pool size
          Interval,      \* checkpointInterval
          Percent,       \* DeleteThreshold, in percent
          LocalInRun,    \* local edits may come during a run too
          ForeignInRun,  \* and so may the changes of other clients
          MaxEdits,      \* bound: local edits
          MaxForeign,    \* bound: changes by other clients
          MaxRuns,       \* bound: runs
          MaxTroubles    \* bound: failing calls and disk operations, and kills

Option == [mode : {"pull", "twoWay"}, force : BOOLEAN, noDelete : BOOLEAN,
           dryRun : BOOLEAN]

ASSUME PullAssumption ==
  /\ Rels \subseteq STRING \X Nat /\ Unwalked \subseteq Rels
  /\ Sizes \subseteq Nat /\ 1 \in Sizes
  /\ StartPaths \in Seq(Rels)
  /\ \A i, j \in DOMAIN StartPaths : StartPaths[i] = StartPaths[j] => i = j
  /\ SyncedStarts \subseteq BOOLEAN
  /\ Options \subseteq Option
  /\ Jobs \in Nat \ {0} /\ Interval \in Nat \ {0}
  /\ {LocalInRun, ForeignInRun} \subseteq BOOLEAN
  /\ {Percent, MaxEdits, MaxForeign, MaxRuns, MaxTroubles} \subseteq Nat

VARIABLES
  local,      \* the local tree: rel -> [size, mtime, data]
  remote,     \* the remote folder: id -> [path, size, mtime, data]
  nextId,     \* the next id the server gives
  disk,       \* the manifest file
  m,          \* the manifest in memory (equal to disk between runs)
  phase,      \* "idle", "pull" or "push"
  opts,       \* the options of the run
  waiting,    \* pull items no worker has taken
  later,      \* push items of a two-way run, for when the pull half is done
  work,       \* items in the workers' hands: item -> progress
  since,      \* successes since the last checkpoint
  failures    \* res.Failed > 0

\* Counters that carry the bounds.
VARIABLES clock, edits, foreign, runs, troubles

\* History, read by the properties only.
VARIABLES
  late,        \* rels edited locally since the walk
  lateIds,     \* ids other clients changed since the index
  touched,     \* rels the user has edited since their last transfer
  adopted,     \* rels whose entry is seeded and not from a transfer
  restamped,   \* rels edited between their download's Rename and Stat
  unsaved,     \* rels transferred, with no such entry in the manifest file
  skipped,     \* rels the run left alone: drift or conflict
  clean        \* the mode of the last run if all was done, and nothing since

run     == <<phase, opts, waiting, later, work, since, failures>>
bounds  == <<clock, edits, foreign, runs, troubles>>
history == <<late, lateIds, touched, adopted, restamped, unsaved, skipped, clean>>
vars    == <<local, remote, nextId, disk, m, run, bounds, history>>

Empty == [r \in {} |-> 0]

NoRun == CHOOSE o \in Options : TRUE

\* Seeded defect: the content goes straight to its own name.
TmpIsTheFile(rel) == rel

\* dst + ".tmp"
TmpOf(rel) == <<rel[1], rel[2] + 1>>

At(path) == {i \in DOMAIN remote : remote[i].path = path}

\* remoteindex.Build
Index == [p \in {remote[i].path : i \in DOMAIN remote} |->
            LET i == CHOOSE j \in At(p) : TRUE
            IN [id |-> i, size |-> remote[i].size, mtime |-> remote[i].mtime]]

Init ==
  /\ remote = [i \in DOMAIN StartPaths |->
                 [path |-> StartPaths[i], size |-> 1, mtime |-> i, data |-> i]]
  /\ \E synced \in SyncedStarts :
       LET pulled == {i \in DOMAIN StartPaths : synced}
           Nth(r) == CHOOSE i \in pulled : StartPaths[i] = r
           paths  == {StartPaths[i] : i \in pulled}
       IN /\ local = [r \in paths |-> [size |-> 1, mtime |-> Nth(r), data |-> Nth(r)]]
          /\ disk = [r \in paths |-> Entry(1, Nth(r), Nth(r), Nth(r))]
  /\ nextId = Len(StartPaths) + 1
  /\ m = disk
  /\ phase = "idle" /\ opts = NoRun
  /\ waiting = {} /\ later = {} /\ work = Empty /\ since = 0 /\ failures = FALSE
  /\ clock = Len(StartPaths)
  /\ edits = 0 /\ foreign = 0 /\ runs = 0 /\ troubles = 0
  /\ late = {} /\ lateIds = {} /\ touched = {} /\ adopted = {} /\ restamped = {}
  /\ unsaved = {} /\ skipped = {} /\ clean = "no"

-----------------------------------------------------------------------------
(* Everyone else: edits of the local tree and of the remote folder *)

Tick == clock' = clock + 1

Written(s) == [size |-> s, mtime |-> clock + 1, data |-> clock + 1]

LocalEdit(r) ==
  /\ LocalInRun \/ phase = "idle"
  /\ edits < MaxEdits /\ edits' = edits + 1
  /\ Tick
  /\ late' = late \cup {r}
  /\ touched' = touched \cup {r}
  /\ clean' = "no"
  /\ UNCHANGED <<remote, nextId, disk, m, run, foreign, runs, troubles,
                 lateIds, adopted, restamped, unsaved, skipped>>

LocalWrite(r) == /\ LocalEdit(r)
                 /\ \E s \in Sizes : local' = Set(local, r, Written(s))

LocalRemove(r) == /\ LocalEdit(r)
                  /\ r \in DOMAIN local
                  /\ local' = Delete(local, r)

ForeignEdit(i) ==
  /\ ForeignInRun \/ phase = "idle"
  /\ foreign < MaxForeign /\ foreign' = foreign + 1
  /\ Tick
  /\ lateIds' = lateIds \cup {i}
  /\ clean' = "no"
  /\ UNCHANGED <<local, disk, m, run, edits, runs, troubles,
                 late, touched, adopted, restamped, unsaved, skipped>>

OnServer(r, f) == [path |-> r, size |-> f.size, mtime |-> f.mtime, data |-> f.data]

ForeignWrite(i) ==
  /\ ForeignEdit(i)
  /\ \E s \in Sizes : remote' = Set(remote, i, OnServer(remote[i].path, Written(s)))
  /\ UNCHANGED nextId

ForeignRemove(i) ==
  /\ ForeignEdit(i)
  /\ remote' = Delete(remote, i)
  /\ UNCHANGED nextId

ForeignCreate(r) ==
  /\ At(r) = {}
  /\ ForeignEdit(nextId)
  /\ \E s \in Sizes : remote' = Set(remote, nextId, OnServer(r, Written(s)))
  /\ nextId' = nextId + 1

Environment == \/ \E r \in Rels : LocalWrite(r) \/ LocalRemove(r) \/ ForeignCreate(r)
               \/ \E i \in DOMAIN remote : ForeignWrite(i) \/ ForeignRemove(i)

-----------------------------------------------------------------------------
(* Pull and TwoWay: the plan *)

\* WalkLocal
Walked == [r \in DOMAIN local \ Unwalked |-> local[r]]

\* a first two-way run takes files of the same size on both sides for synchronised
Base(o) == IF o.mode = "twoWay" /\ DOMAIN disk = {}
           THEN SeedSynced(disk, Index, Walked) ELSE disk

Plan(o) ==
  IF o.mode = "twoWay" THEN PlanTwoWay(Walked, Index, Base(o))
  ELSE LET all  == PlanPull(Index, disk)
           kept == IF o.force THEN all ELSE FilterDrift(all, Walked, disk)
       IN [push |-> {}, pull |-> kept, conflicts |-> {it.rel : it \in all \ kept}]

PullItems(o) == IF o.noDelete THEN DropPullDeletes(Plan(o).pull) ELSE Plan(o).pull

PushItems(o) == IF o.noDelete THEN DropDeletes(Plan(o).push) ELSE Plan(o).push

\* GuardDeletes, GuardPullDeletes
Allowed(o) ==
  LET size == Cardinality(DOMAIN Base(o))
      Within(dels) == DeletesAllowed(Cardinality(dels), size, Percent, o.force)
  IN /\ Within(OfKind(PullItems(o), "deleteLocal"))
     /\ Within(OfKind(PushItems(o), "delete"))

Begin(o) ==
  /\ phase = "idle"
  /\ runs < MaxRuns /\ runs' = runs + 1
  /\ ~o.dryRun /\ Allowed(o)
  /\ phase' = "pull"
  /\ opts' = o
  /\ m' = Base(o)
  /\ waiting' = PullItems(o)
  /\ later' = PushItems(o)
  /\ adopted' = adopted \cup (DOMAIN Base(o) \ DOMAIN disk)
  /\ late' = {} /\ lateIds' = {}
  /\ skipped' = Plan(o).conflicts
  /\ clean' = "no"
  /\ UNCHANGED <<local, remote, nextId, disk, work, since, failures, clock, edits,
                 foreign, troubles, touched, restamped, unsaved>>

\* The guard refuses, or the plan is only printed.
BeginStops(o) ==
  /\ phase = "idle"
  /\ runs < MaxRuns /\ runs' = runs + 1
  /\ o.dryRun \/ ~Allowed(o)
  /\ UNCHANGED <<local, remote, nextId, disk, m, run, clock, edits, foreign, troubles,
                 history>>

-----------------------------------------------------------------------------
(* PullExecutor: one step per remote call or disk operation *)

Take(it) ==
  /\ phase = "pull"
  /\ it \in waiting
  /\ Cardinality(DOMAIN work) < Jobs
  /\ waiting' = waiting \ {it}
  /\ work' = [i \in DOMAIN work \cup {it} |->
                IF i # it THEN work[i]
                ELSE [at |-> IF it.op = "download" THEN "open" ELSE "remove",
                      size |-> 0, mtime |-> 0, data |-> 0]]
  /\ UNCHANGED <<local, remote, nextId, disk, m, phase, opts, later, since, failures,
                 bounds, history>>

InStep(it, step) == it \in DOMAIN work /\ work[it].at = step

Proceed(it, step) == work' = [work EXCEPT ![it].at = step]

Faulty  == troubles < MaxTroubles /\ troubles' = troubles + 1

NoFault == UNCHANGED troubles

\* what the executor leaves alone
Elsewhere == UNCHANGED <<remote, nextId, disk, m, phase, opts, waiting, later, since,
                         failures, edits, foreign, runs, late, lateIds, adopted,
                         skipped, clean>>

Kept == UNCHANGED <<clock, touched, restamped, unsaved>>

StepFails(it) == Proceed(it, "failed") /\ Kept /\ Elsewhere

\* DownloadStream: the content the file has now is what is going to come
OpenStream(it) ==
  /\ InStep(it, "open")
  /\ UNCHANGED local
  /\ \/ Faulty /\ StepFails(it)
     \/ it.remoteID \notin DOMAIN remote /\ NoFault /\ StepFails(it)
     \/ /\ it.remoteID \in DOMAIN remote
        /\ work' = [work EXCEPT ![it].at = "create", ![it].size = remote[it.remoteID].size,
                                ![it].data = remote[it.remoteID].data]
        /\ NoFault /\ Kept /\ Elsewhere

\* os.Create, which empties a file of that name
CreateTmp(it) ==
  /\ InStep(it, "create")
  /\ \/ Faulty /\ StepFails(it) /\ UNCHANGED local
     \/ /\ local' = Set(local, TmpOf(it.rel),
                        [size |-> 0, mtime |-> clock, data |-> -work[it].data])
        /\ Proceed(it, "copy")
        /\ NoFault /\ Kept /\ Elsewhere

\* io.Copy into the opened file, which may have lost its name by then
Filled(it) ==
  LET tmp == TmpOf(it.rel) IN
  IF tmp \in DOMAIN local /\ local[tmp].data = -work[it].data
  THEN Set(local, tmp, [size |-> work[it].size, mtime |-> clock + 1,
                        data |-> work[it].data])
  ELSE local

Copy(it) ==
  /\ InStep(it, "copy")
  /\ \/ Faulty /\ StepFails(it) /\ local' = Delete(local, TmpOf(it.rel))
     \/ /\ local' = Filled(it)
        /\ Proceed(it, "rename")
        /\ Tick
        /\ NoFault /\ UNCHANGED <<touched, restamped, unsaved>> /\ Elsewhere

Rename(it) ==
  LET tmp == TmpOf(it.rel) IN
  /\ InStep(it, "rename")
  /\ \/ Faulty /\ StepFails(it) /\ local' = Delete(local, tmp)
     \/ tmp \notin DOMAIN local /\ NoFault /\ StepFails(it) /\ UNCHANGED local
     \/ /\ tmp \in DOMAIN local
        /\ local' = Set(Delete(local, tmp), it.rel, local[tmp])
        /\ Proceed(it, "stat")
        /\ touched' = touched \ {it.rel}
        /\ unsaved' = unsaved \cup {it.rel}
        /\ NoFault /\ UNCHANGED <<clock, restamped>> /\ Elsewhere

\* os.Stat by name: the file may be another one by now
Stat(it) ==
  /\ InStep(it, "stat")
  /\ UNCHANGED local
  /\ \/ Faulty /\ StepFails(it)
     \/ it.rel \notin DOMAIN local /\ NoFault /\ StepFails(it)
     \/ /\ it.rel \in DOMAIN local
        /\ work' = [work EXCEPT ![it].at = "done", ![it].mtime = local[it.rel].mtime]
        /\ restamped' = IF it.rel \in touched THEN restamped \cup {it.rel}
                        ELSE restamped \ {it.rel}
        /\ NoFault /\ UNCHANGED <<clock, touched, unsaved>> /\ Elsewhere

\* DeleteLocal: a file that is gone is as good as removed
RemoveLocal(it) ==
  /\ InStep(it, "remove")
  /\ \/ Faulty /\ StepFails(it) /\ UNCHANGED local
     \/ /\ local' = Delete(local, it.rel)
        /\ Proceed(it, "done")
        /\ touched' = touched \ {it.rel}
        /\ NoFault /\ UNCHANGED <<clock, restamped, unsaved>> /\ Elsewhere

Step(it) == \/ OpenStream(it) \/ CreateTmp(it) \/ Copy(it) \/ Rename(it) \/ Stat(it)
            \/ RemoveLocal(it)

-----------------------------------------------------------------------------
(* The collector, the push half of a two-way run, and the end of the run *)

\* Seeded defect: the remote mtime is asked for after the download.
RecordedAsOfNow(it) ==
  IF it.op = "deleteLocal" THEN Delete(m, it.rel)
  ELSE Set(m, it.rel, Entry(work[it].size, work[it].mtime, it.remoteID,
                            IF it.remoteID \in DOMAIN remote THEN remote[it.remoteID].mtime
                            ELSE it.remoteMtime))

\* Seeded defect: a local delete leaves the entry.
RecordedKeepsDeleted(it) ==
  IF it.op = "deleteLocal" THEN m
  ELSE Set(m, it.rel, Entry(work[it].size, work[it].mtime, it.remoteID, it.remoteMtime))

\* Seeded defect: the local file is taken to have the remote file's mtime.
RecordedRemoteTime(it) ==
  IF it.op = "deleteLocal" THEN Delete(m, it.rel)
  ELSE Set(m, it.rel, Entry(work[it].size, it.remoteMtime, it.remoteID, it.remoteMtime))

Recorded(it) ==
  IF it.op = "deleteLocal" THEN Delete(m, it.rel)
  ELSE Set(m, it.rel, Entry(work[it].size, work[it].mtime, it.remoteID, it.remoteMtime))

\* those of rels whose entry does not change when f is saved
NotIn(f, rels) == {r \in rels : /\ r \in DOMAIN f <=> r \in DOMAIN disk
                                /\ r \in DOMAIN f => f[r] = disk[r]}

\* `_ = m.Save(manifestPath)` every Interval successes, rel's the latest; m' is
\* already known
Checkpoint(rel) ==
  \/ /\ since + 1 < Interval
     /\ since' = since + 1
     /\ unsaved' = unsaved \cup {rel}
     /\ NoFault /\ UNCHANGED disk
  \/ /\ since + 1 >= Interval
     /\ since' = 0
     /\ \/ disk' = m' /\ unsaved' = NotIn(m', unsaved \cup {rel}) /\ NoFault
        \/ Faulty /\ unsaved' = unsaved \cup {rel} /\ UNCHANGED disk

Drop(it) == work' = [i \in DOMAIN work \ {it} |-> work[i]]

Collect(it) ==
  /\ InStep(it, "done")
  /\ m' = Recorded(it)
  /\ Checkpoint(it.rel)
  /\ Drop(it)
  /\ adopted' = adopted \ {it.rel}
  /\ UNCHANGED <<local, remote, nextId, phase, opts, waiting, later, failures, clock,
                 edits, foreign, runs, late, lateIds, touched, restamped, skipped, clean>>

CollectFailure(it) ==
  /\ InStep(it, "failed")
  /\ failures' = TRUE
  /\ Drop(it)
  /\ UNCHANGED <<local, remote, nextId, disk, m, phase, opts, waiting, later, since,
                 bounds, history>>

PullHalfDone ==
  /\ phase = "pull" /\ waiting = {} /\ DOMAIN work = {}
  /\ phase' = "push"
  /\ since' = 0
  /\ UNCHANGED <<local, remote, nextId, disk, m, opts, waiting, later, work, failures,
                 bounds, history>>

\* what a push item does to the remote folder, and the file it does it to;
\* an upload takes over a file of its name
TargetOf(it) == IF it.op # "upload" THEN it.remoteID
                ELSE IF At(it.rel) # {} THEN CHOOSE i \in At(it.rel) : TRUE
                ELSE nextId

Feasible(it) ==
  \/ it.op = "delete"
  \/ /\ it.rel \in DOMAIN local /\ local[it.rel].size = it.size
     /\ it.op = "overwrite" => it.remoteID \in DOMAIN remote

Pushed(it) ==
  IF it.op = "delete" THEN Delete(remote, it.remoteID)
  ELSE Set(remote, TargetOf(it),
           [path |-> IF TargetOf(it) \in DOMAIN remote THEN remote[TargetOf(it)].path
                     ELSE it.rel,
            size |-> it.size, mtime |-> clock + 1, data |-> local[it.rel].data])

PushRecorded(it) ==
  IF it.op = "delete" THEN Delete(m, it.rel)
  ELSE Set(m, it.rel, Entry(it.size, it.mtime, TargetOf(it), clock + 1))

PushItem(it) ==
  /\ phase = "push" /\ it \in later
  /\ later' = later \ {it}
  /\ \/ /\ Feasible(it)
        /\ remote' = Pushed(it)
        /\ nextId' = IF TargetOf(it) = nextId THEN nextId + 1 ELSE nextId
        /\ Tick
        /\ \/ /\ m' = PushRecorded(it)
              /\ Checkpoint(it.rel)
              /\ touched' = IF it.rel \in late THEN touched ELSE touched \ {it.rel}
              /\ adopted' = adopted \ {it.rel}
              /\ UNCHANGED failures
           \/ /\ failures' = TRUE /\ Faulty
              /\ UNCHANGED <<m, disk, since, touched, adopted, unsaved>>
     \/ /\ \/ ~Feasible(it) /\ NoFault
           \/ Faulty
        /\ failures' = TRUE
        /\ UNCHANGED <<remote, nextId, clock, m, disk, since, touched, adopted, unsaved>>
  /\ UNCHANGED <<local, phase, opts, waiting, work, edits, foreign, runs, late, lateIds,
                 restamped, skipped, clean>>

Abandon == /\ phase' = "idle" /\ opts' = NoRun
           /\ waiting' = {} /\ later' = {} /\ work' = Empty
           /\ since' = 0 /\ failures' = FALSE /\ skipped' = {}

Finish ==
  /\ phase = "push" /\ later = {}
  /\ Abandon
  /\ \/ /\ disk' = m
        /\ unsaved' = NotIn(m, unsaved)
        /\ clean' = IF /\ ~failures /\ late = {} /\ lateIds = {} /\ skipped = {}
                       /\ ~opts.noDelete
                    THEN opts.mode ELSE "no"
        /\ NoFault /\ UNCHANGED m
     \/ /\ m' = disk
        /\ Faulty /\ UNCHANGED <<disk, unsaved, clean>>
  /\ UNCHANGED <<local, remote, nextId, clock, edits, foreign, runs, late, lateIds,
                 touched, adopted, restamped>>

Crash ==
  /\ phase # "idle"
  /\ troubles < MaxTroubles /\ troubles' = troubles + 1
  /\ Abandon
  /\ m' = disk
  /\ UNCHANGED <<local, remote, nextId, disk, clock, edits, foreign, runs,
                 late, lateIds, touched, adopted, restamped, unsaved, clean>>

Next == \/ Environment
        \/ \E o \in Options : Begin(o) \/ BeginStops(o)
        \/ \E it \in waiting : Take(it)
        \/ \E it \in DOMAIN work : Step(it) \/ Collect(it) \/ CollectFailure(it)
        \/ PullHalfDone
        \/ \E it \in later : PushItem(it)
        \/ Finish
        \/ Crash

Spec == Init /\ [][Next]_vars
-----------------------------------------------------------------------------
(* Properties *)

\* What "unchanged" is worth after pulls and two-way runs: where an entry agrees
\* with the local file and with the remote file it names, both have the same
\* content, though the entry is put together from the index (remote mtime), the
\* stream (size) and a Stat after the rename (local mtime).  Exempt are seeded
\* entries, and a file edited between the Rename of its download and the Stat.
PulledEntriesSound ==
  \A f \in {m, disk} : \A r \in (DOMAIN f \cap DOMAIN local) \ (adopted \cup restamped) :
     LET id == f[r].remoteID IN
     ~Touched(local[r], f[r]) /\ id \in DOMAIN remote /\ ~RemoteTouched(remote[id], f[r])
       => remote[id].data = local[r].data

\* "A download that would overwrite a locally-modified file ... is skipped": no step
\* of a run replaces or removes a local version that the manifest does not hold, if
\* it was there when the tree was walked.  With --force it may, and a plain pull
\* removes it with its remote file.  A two-way run spares remote versions likewise.
Unpushed(r) == r \notin DOMAIN m \/ Touched(local[r], m[r])

Unpulled(i) == LET r == remote[i].path
               IN r \notin DOMAIN m \/ RemoteTouched(remote[i], m[r])

MayLose(r) ==
  opts.mode = "pull" /\ (opts.force \/ DeleteLocalItem(r) \in DOMAIN work)

KeepsUnseenEdits ==
  [][edits' = edits /\ foreign' = foreign =>
       /\ \A r \in (Rels \cap DOMAIN local) \ late :
            Unpushed(r) /\ ~MayLose(r) => r \in DOMAIN local' /\ local'[r] = local[r]
       /\ \A i \in DOMAIN remote \ lateIds :
            Unpulled(i) => i \in DOMAIN remote' /\ remote'[i] = remote[i]]_vars

\* Downloads are atomic: no part of a file is ever found under a name users use,
\* here or, carried there by a later two-way run, in the remote folder.
NothingInParts ==
  /\ \A r \in Rels \cap DOMAIN local : local[r].data > 0
  /\ \A i \in DOMAIN remote : remote[i].path \in Rels => remote[i].data > 0

\* After a pull that reported no failure and skipped nothing, and as long as nothing
\* is edited, the tree mirrors the folder: every remote file is tracked, as it is
\* now, and there with its content, but for what the user did to it; Verify finds
\* nothing else.  After such a two-way run Verify finds nothing at all.
CleanPullMirrors ==
  clean # "no" =>
    LET v == Verify(Walked, Index) IN
    /\ DOMAIN disk = DOMAIN Index
    /\ \A r \in DOMAIN Index :
         /\ disk[r].remoteID = Index[r].id /\ ~RemoteTouched(Index[r], disk[r])
         /\ r \notin touched \cup adopted => /\ r \in DOMAIN local
                                            /\ local[r].data = remote[Index[r].id].data
    /\ v.missingLocal \cup v.sizeDiff \subseteq touched
    /\ clean = "twoWay" => v.missingRemote \cup v.missingLocal \cup v.sizeDiff = {}

\* A pull takes for a local edit of a user's file only what is one, or what a run
\* downloaded and could not save: files that failed in any other way are retried.
SkipsOnlyEdits ==
  opts.mode = "pull" => skipped \cap Rels \subseteq touched \cup unsaved
=============================================================================
