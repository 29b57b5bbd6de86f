# A TLA+ model of kdrive-fuse

kdrive-fuse is a Go client of the kDrive cloud storage: a FUSE mount
(`cmd/kdrive-fuse`) and a command line (`cmd/kdrive`) with a one-way and a two-
way syncer. This directory models the parts of it whose correctness depends on
the order of events: the syncer and its worker pool, its manifest, the remote
index and the folders it makes, the write and read handles of the mount, the two
caches behind it, and uploads. TLC checks the models on small instances; TLAPS
proves what the pool, the planners, push, pulls, the write handles, both caches and
uploads promise, for all of them.

All paths below are under `src/pkg/`.

## The system

| part | state | operations | what is hard about it |
|---|---|---|---|
| planners `syncer/plan*.go`, `guard.go`, `verify.go` | none: three maps (local, remote, manifest) to items | PlanPush, DetectMoves, Bootstrap, PlanPull, PlanTwoWay, seedSynced, checkDeleteRatio, Verify | sequences of runs of different kinds that share one manifest; edges of the ratio |
| run pool `syncer/run.go`, `run_pull.go` | two channels, a WaitGroup, the result, the manifest in memory | feed, execute, collect, checkpoint, return | goroutines that wait for each other, cancellation, kills between checkpoints |
| push `syncer/push.go`, `executor.go` | local tree, remote folder, manifest on disk and in memory | plan, drift check, guard, upload, overwrite, delete, move, record, save | the tree and the remote change while it runs; calls that fail after they were applied; kills; retries by later runs |
| pull and two-way `syncer/pull.go`, `run_pull.go`, `twoway.go` | the same, and temporary files | plan, drift filter, guard, download, delete, record, save | a download is six steps, and edits, failures and kills come between any two |
| manifest `infrastructure/manifest` | the file | Load, Save (temporary file and rename), Set, Delete | kills inside a Save, two processes, names that look like the format |
| remote index, resolver `infrastructure/remoteindex` | map from path to entry; folder ids | Build, Resolve, ResolveDir | listings come in pages while the tree changes; several workers want one missing folder |
| write handles `presentation/fuse/file.go` | node info, active handle, working file and flags of each handle | Create, Open, Setattr, Write, Flush, Release | the kernel sends truncates and flushes in several orders; handles overlap |
| read handles, content cache `file.go`, `infrastructure/contentcache` | files on disk, a lock per file, evictMu | Open, download, rename, evict | an eviction works on files that others are making; kills |
| directories, listing cache `presentation/fuse/dir.go`, `usecase`, `infrastructure/listingcache` | listings with an expiry | Lookup, Readdir, Unlink, Rmdir, Rename, Mkdir, commit, touch | a listing is read, used and dropped by different requests at different times |
| API client `infrastructure/kdriveapi` | retry counters; server side sessions | single request, upload session, retries, pages | repeated requests, parallel chunks, errors in the middle |
| the rest | - | shares, trash, search, xattr, metrics, configuration, CLI | stateless, or one request each; not modelled |

How they interact: a run (Push, Pull or TwoWay) loads the manifest, has Build
index the remote folder and WalkLocal list the local tree, plans with the
planners and runs the items in the run pool. Each item calls the API client, an
upload asks the Resolver for its folder first, and the collector of the pool
alone writes the manifest. The mount's directory handlers list through the
listing cache; a write handle commits through `CommitWrite`, which uploads and
drops the parent's listing; a read handle opens a file of the content cache
under the mtime its node was given by a listing.

## Modules

| module | of | correspondence |
|---|---|---|
| `ItemRun` | what RunPush and RunPull promise | items waiting, taken, settled, reported; no channel, no goroutine |
| `RunPool` | `run.go`, `run_pull.go` | feeder, workers, closing goroutine and collector with a program counter each; an unbuffered send is one step of both sides |
| `RunPoolProofs` | theorems about `RunPool` | see Proofs |
| `SyncPlan` | the planners, `Verify` | operators on finite functions from paths; no state |
| `IdealSync` | Push, Pull, TwoWay as a whole | one step per run that nothing disturbs, edits on both sides between the runs |
| `IdealSyncProofs` | theorems about `IdealSync` and the planners | see Proofs |
| `Push`, `MCPush` | `push.go`, `executor.go`, `run.go` | one step per remote call; edits, other clients, failures and kills between any two |
| `PushProofs` | theorems about `Push` | see Proofs |
| `PullRun`, `MCPullRun` | `pull.go`, `run_pull.go`, `twoway.go`, `walk.go` | one step per remote call or disk operation of a download; a push item of a two-way run is one step, its calls being those of `Push` |
| `PullRunProofs` | theorems about `PullRun` | see Proofs |
| `ManifestFile`, `MCManifestFile` | `manifest/store.go` | files are inodes with names; Save is create, writes, rename; Load is an operator on the text |
| `Drive` | `FilesService.List`, the folder tree, other clients | one step per page; a page is what it holds when it is asked for |
| `Resolver` | `remoteindex/resolver.go`, `Mkdir` with doRaw's attempts | the recursion is a walk down from the longest cached prefix; one step per request |
| `IndexBuild` | `remoteindex/index.go` | one goroutine per folder, the semaphore, the error group |
| `RemoteTree`, `MCRemoteTree` | `Resolver` and `IndexBuild` on one `Drive` | interleaving of both with other clients |
| `WriteHandle`, `MCWriteHandle` | `file.go` from Open to Release | one step per stretch of code under one lock; Open, Setattr and Release, which let go of it, take several |
| `WriteHandleProofs` | theorems about `WriteHandle` | see Proofs |
| `Upload` | `FilesService.Upload` | one step per request (with its lost answer, or its retry); chunks each with a state of their own |
| `UploadProofs` | theorems about `Upload` | see Proofs |
| `ContentCache` | `disk.go`, `readHandle` | one step per system call that others can see; eviction removes one name per step |
| `ContentCacheProofs` | theorems about `ContentCache` | see Proofs |
| `DirCache`, `MCDirCache` | `dir.go`, `usecase`, `memory.go` | one thread per request; cache reads, fetches, stores, calls, invalidations are steps |
| `DirCacheProofs` | theorems about `DirCache` | see Proofs |

`RunPool` implements `ItemRun` (`ImplementsItemRun`, an INSTANCE with the
refinement mapping at the end of `RunPool`), and `Push` and `PullRun` take items
the way `ItemRun` allows, so that they need not contain the channels.
`IdealSync`, `Push` and `PullRun` extend `SyncPlan`. Definitions whose comment
begins "Seeded defect" are variants of the definition after them with a
plausible mistake in it: they are not part of the model, and each property was
seen to fail with one of them in place.

Where one run is to show several worlds (which flags, which faults, which edits,
at which bounds), the module has a constant `Settings`, a record for each world,
and a variable `setting` that names the one a behaviour is in and never changes.
The bounds are then operators over `Settings[setting]`.

Data are reduced to what the properties tell apart. A local version is its
mtime, a remote one the mtime of the local version it was made from (`data`); a
written cell is the number of the write; a file on the server is the sequence of
the versions of its chunks; an entry of the content cache is the number of the
version in it. Paths are pairs of a folder and a name, in `PullRun` of a name and
the number of `.tmp` appended to it, in `Drive` sequences of names. In `PullRun`
a file of which a part has been written holds the negative of its content.

## Runs

`tlc -config X.cfg M`. `PROJECT.json` lists the properties of each.

| cfg | module | bounds | states | shows |
|---|---|---|---|---|
| RunPool | RunPool | 6 items, 2 workers, checkpoint every 2 | 0.4 M | no send on a closed channel; each item gets one verdict; nothing starts after cancellation; a kill undoes at most an interval of operations and one per worker; the run returns; it implements ItemRun |
| IdealSync | IdealSync | 3 paths, 2 sizes, 6 edits | 4.9 M | after a run of any kind nothing is left to do for it; no version that the baseline does not hold is replaced |
| Push | MCPush | `faults`: 2 files, 3 edits (also during runs), 1 foreign change, 3 runs, 2 faults, 1 kill. `renames`: 3 paths in 2 folders, one on the way from the second to the third, 3 edits and renames, 3 runs with or without --detect-moves, 1 fault. `flags`: no flag, --force, --no-delete, --dry-run, --refresh, from an empty manifest, 2 runs | 3.9 M | the manifest vouches for no content that was not transferred; a clean run mirrors the tree; paths and files go one to one; other clients' changes stay visible and are not replaced; deletions stay within the threshold |
| PullRun | MCPullRun | 2 files, pulled before or not; 2 runs of pull or two-way with no flag, --force, --no-delete or --dry-run; 1 edit and 1 foreign change at any moment; 1 failing operation or kill; 2 workers | 4.0 M | no part of a file under its name; no unseen version replaced; entries are worth what they say; a clean run mirrors the folder, as Verify sees it; pulls skip only edits and unsaved downloads |
| Write | MCWriteHandle | `edits`: an existing or a created file, 3 handles one after another, 3 writes, 2 truncates, 1 fault. `dups`: the same with duplicated descriptors, so that flushes come between writes. `shared`: 3 handles at once, with races | 5.5 M | what is uploaded is the file as an ordinary file system would have it; a handle makes at most one remote file; a release leaves no write behind that came before the upload; the node knows the handle opened last |
| Upload | Upload | 3 chunks, 2 in parallel or one by one, 1 retry, 2 calls, 2 faults, 1 edit, cancellation | 0.5 M | success means stored; retries make no second file; workers and sessions end; Upload returns |
| ContentCache | ContentCache | 2 readers, 2 files, budget 2, sizes 1 and 2, 1 change, 1 broken download, 1 kill | 0.2 M | entries are what their name says; the budget; why a read may fail; reads return |
| DirCache | MCDirCache | 2 requests at a time, 2 directories, 2 names, 2 requests that change something, 1 change by others or failed call | 0.8 M | cached listings are true; requests act on what they were told |
| RemoteTree | MCRemoteTree | pages of 2; `asks`: 2 workers, 3 Resolves of 2 paths, 1 foreign change, 1 fault; `walk`: a Build of 2 goroutines at a time, 2 foreign changes, 1 fault; `both`: one of each | 0.3 M | no folder is made twice; the index holds what stayed where it was; both return |
| ManifestFile | MCManifestFile | 2 processes, 2 Saves of 4 manifests in any number of writes, 1 fault, 1 kill; names with a tab, a newline, a trailing carriage return | 1.6 M | Load finds what the last Save saved |
| PushCrossing | MCPush | 1 file, 1 rename and 1 new file, 1 run | small | expected to fail, see Findings |
| WriteDup | MCWriteHandle | 1 handle, 2 writes | small | expected to fail, see Findings |

Why the bounds suffice: each hazard in `PROJECT.json` needs two actors and one
or two mishaps, and every instance has them. Two workers and six items give a worker
that waits while another reports, and items for two checkpoints with a failure
between them; the bound on what a kill undoes is met with equality. Three paths
allow a chain of renames, and three runs a fault, the run that meets its
consequence and the run after. Two pulls are the run that leaves something
behind and the one that finds it. Pages of two entries are full with the two
that each folder of the tree holds, so that there is an empty last page, an
entry can slip to a page already read, and a new one opens another. Two Saves
are the one that is kept and the one that breaks off. Three handles give one
that is opened between the other two. Three chunks with a parallelism of two
give one that must queue. Two readers on the same file queue for its lock, on
two files they evict each other's. Two requests at a time suffice for a lookup
to be overtaken. Each bound is a guard of the action it limits and is named
where it is declared.

Deadlock is not checked where the bounds, or the end of the work, stop the
system; RunPool checks it, with the finished run stuttering.

### Fairness

- RunPool: weak fairness of each goroutine. The Go scheduler runs whoever can
  run, and an executor's call ends, because the HTTP client has a timeout.
  Every send and receive has its partner waiting sooner or later, so this is
  enough for `RunReturns`. Cancellation is not assumed to come.
- Upload: weak fairness of every client step, and none of edits, calls or
  cancellation. Requests end by the server or the transport.
- ContentCache: strong fairness of each reader's own steps. A lock is free
  again and again, and sync.Mutex hands itself to a waiter that has starved for
  a millisecond. Other readers, changes and kills may never come.
- RemoteTree: weak fairness of each worker inside Resolve and of the goroutines
  of Build. Calls are bounded, so the mutex is free for good at last and weak
  fairness is enough for whoever waits. Other clients and further calls may
  never come.

Push, PullRun, ManifestFile, WriteHandle and DirCache make no liveness claim:
what they promise is conditional on what the user and the kernel do next, and
the runs of the first two end because those of the pool do.

## Properties worth knowing

- `ManifestSound` (Push), `PulledEntriesSound` (PullRun): wherever an entry
  agrees with the local file and with the remote file it names, both have the
  same content. This is the premise of every later "unchanged". It has to
  survive an edit between the walk and the read, a lost answer, a kill between a
  call and its record, and an entry put together from an index, a stream and a
  Stat at three different moments.
- `CleanRunMirrors`, `CleanPullMirrors`: a run that reported no failure and
  skipped nothing has made one side the mirror of the other.
- `KeepsUnseenEdits` (PullRun): no step of a pull or a two-way run replaces a
  version that the manifest does not hold and that was there when it looked.
- `SkipsOnlyEdits` (PullRun): the drift filter of a plain pull is not set off by
  what the program itself did, but for a download that it could not save.
- `OneFolderPerPath`, `IndexIsTrue` (RemoteTree): what several requests in a row
  can say of a tree that others change between them.
- `LoadsTheLastSave` (ManifestFile): atomicity of Save and fidelity of the text,
  at once: any moment is a moment at which a run may start.
- `UploadsTheFile` (WriteHandle): the working file starts empty, is seeded late
  and truncated from outside; still each upload is the whole file.
- `OneFile`, `SessionsEnd`, `NothingLeftRunning` (Upload) relate what the client
  gives back to what it leaves on the server and in its goroutines, counted
  against the answers that were lost.
- `EntriesHoldTheirKey`, `FailsForAReason` (ContentCache): eviction takes names
  without their locks. It can make an open fail, but never lets a part of a file,
  or an old version, be taken for what was asked.
- `CachedListingsAreTrue`, `ActsOnWhatWasNamed` (DirCache): see below for what
  they exempt.

## Proofs

`tlapm M.tla` checks a module's proofs. Each theorem is one about every value of
the constants under the module's assumption on them (RunPoolAssumption,
IdealSyncAssumption, PushAssumption, PullAssumption, WriteHandleAssumption,
UploadAssumption, CacheAssumption, DirAssumption): any number of items, paths, files, handles, chunks, readers and
requests, and any bound on edits, faults and kills, so that the bounds of the
runs play no part. A bound limits how often something happens, and the theorems
hold however often that is.

Each proof module begins with the types (`TypesAlways`, in `RunPoolProofs`
TypeCorrect), which say more than the domains of the variables: where the flow of
control can be, and how far an item or a request can have come. Then come the
parts of the inductive invariant, each with a lemma per action or group of
actions that can disturb it, and the theorems at the end of their part.

### The run pool (`RunPoolProofs`)

| theorem | states | by the invariant |
|---|---|---|
| TypeCorrect | `Spec => []TypeOK` | `TInv`: TypeOK, and `since` is below the interval but while the collector checkpoints; what is held or recorded is an item |
| ClosedInOrder | `Spec => []ChannelsClosedInOrder` | `Order`: the input is closed only with the last item fed, workers leave only after that, the output is closed only with all workers gone |
| SettledOnce | `Spec => []EveryItemSettledOnce` | `Placed`: each item is in one place: not fed yet, with one worker, with the collector, or settled |
| Rework | `Spec => []ReworkBounded` | `Lag`: what is applied and not saved is counted by `since`; and `AtWorkBound`: each worker has at most one item in hand, and the collector one only while `since` is below the interval |
| NoWorkStarted | `Spec => NoWorkAfterCancel` | a step property, from the types |
| PoolImplementsItemRun | `Spec => ImplementsItemRun` | initial states map to initial states; receiving maps to Take, recording to Settle, returning to Report, the rest to stuttering |

None of the properties is inductive. That no item is lost says nothing about
where it was on the way, and the interval bounds the loss only because `since`
counts exactly the unsaved successes. `RoomForOne` is where the pool size
enters: a worker that is free leaves room for an item, since items held are an
injective image of busy workers.

### Plans (`IdealSyncProofs`)

| theorem | states | by the invariant |
|---|---|---|
| TreesStayConsistent | `[]Inv` | `Trees`: ids and dates there have been, one file per id. `Good`: the file of an entry's id is at the entry's path or nowhere, and a file with the date of the entry is the file that the entry names |
| RunsSettleAlways | `[]RunsSettle` | the same |
| RunsKeepEditsAlways | `RunsKeepEdits` | the same |

The planners compare paths, sizes and dates, and an executor goes by ids. `Good` is
what ties the two together, also for the manifests that first runs seed
(`BasesGood`), and for the one a two-way sync has between its halves
(`PushHalfProper`). PushedRemoteFacts, PushedManifestFacts and PulledFacts turn the
operators that apply a plan into what happens at each path. With moves it is not
enough to look at one path: an item is left over where a pair was, and new pairs
could form among what is left. They do not, because a pair is the only upload and
the only delete of its size and date, in the rest of a plan as in the whole of it
(`PairsStay`, `MovesLeft`).

### Push (`PushProofs`)

The eight calls of the executor come to ten outcomes (`Comes`: it fails, an
upload meets a file, replaces it, a move looks, ...), and `Outcomes` proves that
once; whatever is said of a call later is said of the outcomes.

| theorem | states | by the invariant |
|---|---|---|
| Threshold | `[]RemovesWithinThreshold` | `Rationed`: the files removed and the deletes that may still remove one are together within the ratio, and there are finitely many |
| UnseenChanges | `[]UnseenStaysUnseen` | `Known`: ids in entries, items and results are ids the server has given. `Behind`: an entry, or a result waiting for the collector, has an mtime its file has had, and an earlier one once another client has changed the file |
| Unclobbered | `NeverClobbers` | `Checked`: what waits or is at work is about a file nobody has changed since it was recorded, because its check compared the two and `Behind` makes an unseen change visible to it |
| OneToOne | `[]OnePathPerFile` | `OneFilePerPath`: calls make a file only at a free path. `Planning`: no two items of a run have a path in common, and each agrees with the manifest entry it came from until it is recorded. `Placed`: each entry's file is at its path unless a move has it in hand, a move's file is at the stop that its next call expects, and the file an upload was given or took over is nobody else's |
| SoundManifest | `[]ManifestSound` | `Vouched`, below |
| CleanRunsMirror | `[]CleanRunMirrors` | `Held`: the file of an entry of the manifest, in memory or saved, or of a result that waits, is there and has the content of the recorded version, unless the entry was adopted, that version is gone from the local tree, or the file is another client's by now. `OnCourse`: while a run is calm, each path that is not as the manifest says is that of an item, and the items still fit the local tree. `CleanSettled`: at the end there are no items |

ManifestSound is the deepest of them, and it needs all the others. `Vouched` says
of each entry, but for adopted ones, that its file, while it has the recorded
mtime, has the recorded content, or that no local file is of the recorded version
any more (`Worth`). Worth is kept because remote files only age (`Contents`: the
same mtime, the same content), because a baseline is never of a later version than
its file (`Behind`), and because a version that is gone does not come back
(`Dated`: local mtimes identify versions, and an item's version is at its path or
nowhere). A result is worth something when its call returns: an upload sends what
is at its path now, and if that is not the version it was planned with, the planned
one is gone; a move takes the file as it is, which is what its entry says it is
while nobody interferes (`Exactly`). What makes it hard is the saved manifest, which
may lag behind by a checkpoint interval and be the one that the next run reads: it
still has the entry an item started from (`Saved`), and once that item's path has
left the adopted ones, this old entry has to be vouched for too. It is of a file
that was written or removed meanwhile and so can agree with nothing
(`WrittenSince`), or of one a move took away, whose version is nowhere else and
which only a fault could bring back (`Superseded`).

CleanRunMirrors speaks of the end of a run, and of files whatever their mtime is: an
overwrite that was applied and not recorded leaves an entry that agrees with
nothing, and no later run may take it for clean. None does, since the local version
of such an entry is gone (`Held`, by `Saved`, `Dated` and `Surpassing`: the item in
hand is of a later version than the entry it replaces), and with it the path is not
as the manifest says, so that a run has an item for it, or is not calm. Where the
file is, and that no other path has it, comes from `Placed` and `OneFilePerPath`.

Four theorems have a premise, and each is one without which a run shows the
opposite (see Where the properties stop). `NoBlindMoves`: where other clients
change the folder nobody uses --detect-moves, since moves are not drift-checked.
`NoneInRun`: they do not change it between the drift check and the overwrite.
`NoRenameInRun`: the user renames files between runs only. `CalmRenames`, of
CleanRunsMirror alone: users who rename files meet no failing call and no kill,
since a rename can bring a version back that was thought gone. ManifestSound, and the
second half of OnePathPerFile, are under --detect-moves about histories in which no
call failed and nothing went astray (`Accountable`).

### Pulls and two-way runs (`PullRunProofs`)

| theorem | states | by the invariant |
|---|---|---|
| TypesAlways | `[]Types` | `Types`: what is where in each phase, one item per path, what each step of a download has |
| RemoteKnownAlways | `[]RemoteKnown` | ids and dates are given once: an entry or an item names the one file that had its path and its date |
| LocalKnownAlways | `NoTwins: []LocalKnown` | `LocalDates` (local dates tell versions apart), `Stages` (how far each download has got, and what that has put in the tree), `Vouched` (what an entry that agrees with both sides says) |
| PulledEntriesSoundAlways | `NoTwins: []PulledEntriesSound` | LocalKnown |
| NothingInPartsAlways | `NoTwins: []NothingInParts` | `Whole`: what is streamed, renamed and pushed is whole; only a temporary name has a part |
| KeepsUnseenEditsAlways | `NoTwins: KeepsUnseenEdits` | `Unseen`: no item reaches a version that no run has seen, but one that came too late to be seen |
| NoTwinsAlways | `[]NoTwins` | `OwnPaths`: all but temporary files have the paths users gave |
| SkipsOnlyEditsAlways | `NoTwins: []SkipsOnlyEdits` | `FilesKnown`: each file of a user is edited, entered as it is, in a worker's hands, or transferred and not saved |
| CleanPullMirrorsAlways | `NoTwins: []CleanPullMirrors` | `Timely` (an entry of the folder's version is of the local file), `OnCourse` (while a run is calm, every path is settled or has an item that will settle it), `CleanSaid` |

The invariants are listed in the order in which they rest on each other. What
makes `Vouched` hold is an order in time: a download's entry is made of an index
that is older than the stream, a stream older than the rename, and a rename older
than the Stat, and each of the four may be overtaken. `Stages` follows them, and
`RemoteKnown` turns "the same date" into "the same version". `OnCourse` is an
invariant of the middle of a run for a property of its end: a run is calm while
nothing is edited and nothing has failed, was skipped or was in conflict, and what
is settled stays so until somebody edits it.

`NoTwins` is a premise and not a lemma: the temporary name of a download under
way (`.tmp` appended, `syncer/run_pull.go`) is no path that users, entries or
other items use. The code does not see to it. NoTwinsAlways proves it of every run
where no file has the temporary name of another, for pulls whatever fails and
whenever they are killed, and for two-way runs while nothing fails and nothing is
killed. A two-way run after that is where it ends (see Where the properties stop).
KeepsUnseenEditsAlways and CleanPullMirrorsAlways also assume `Unwalked = {}`: no
path is in a directory that the walk prunes, without which a run shows the
opposite of both. Nothing is assumed of sizes, options, the pool, the checkpoint
interval, or of the number of edits, failures and kills.

### Write handles (`WriteHandleProofs`)

| theorem | states | by the invariant |
|---|---|---|
| LatestHandleIsActive | `[]LatestIsActive` | `Active`: the node's handle is one that was published and is not gone, and the latest while it is open |
| HandlesMakeOneFile | `[]OneFilePerHandle` | `Once`: no more files than the one there was, a fault each, and one for each handle that made its file and has uploaded it; `uploaded` is never taken back |
| PlainEditsUploadTheFile | `UploadsTheFile` | `PlainEdit`: `Turns` (one handle in use, a truncate under way is one that reaches it), `AtRest` (nobody edits: the file is what the mount shows), `Opening` (what an Open has read still holds), `Editing` (the buffer is the file, or is empty and still to be seeded from a remote that is the file), `OneRemote` |
| ReleaseCommits | `ReleaseKeepsWrites` | the same |

The last two assume `PlainWhenAlone`: each world either has the plain way of
editing, with or without duplicated descriptors, or lets handles overlap
(`"share"`, `"race"`), which both properties exempt. The worlds it leaves out are
those of the table below (truncates to other sizes, a torn seed): there the
properties fail. ReleaseKeepsWrites speaks of the handles that were not written
after their upload. Of every handle it is ReleaseLosesNothing, which the code
does not keep: the run WriteDup finds it violated.

### Uploads (`UploadProofs`)

| theorem | states | by the invariant |
|---|---|---|
| NoWorkerOutlivesItsCall | `[]NothingLeftRunning` | `Workers`: chunks are sent only while Upload waits for them, one at a time in the loop, never more than Parallelism |
| OkIsTrue | `[]OkMeansStored` | `Kept`: a session found finished by a repeated finish is the one that made the last file |
| SessionsDoEnd | `[]SessionsEnd` | `Accounted`: each open session that is not the call's own is one whose start was not answered or whose cancelling request was lost; an inequality between a cardinality and two counters |
| OneFileOnly | `[]OneFile` | `Copies`: every file but one is one whose answer was lost, or made for a caller that went away |
| CalmUploadsSucceed | `[]CalmUploadSucceeds` | `Arrived` (what was acknowledged is in the session in its place), `AllIn` (finish comes when all were), `Smooth` (nothing fails while all is calm) |

### The content cache (`ContentCacheProofs`)

EntriesAreTrue and FailuresHaveAReason (`[]EntriesHoldTheirKey`,
`[]FailsForAReason`) come from one invariant `Inv`: mtimes of a file do not go
back (`Grows`), a reader asks for a version there was (`Asked`) and has the lock
of its file while it fills the cache (`Locked`), what it downloads is no older
than what it asked for (`Young`), the temporary file it is about to rename, if
there is still one, is the whole of what it downloaded (`Whole`), entries are
what their name says (`EntriesTrue`), and a name that its maker does not find was
evicted from under it (`Missing`). The lock is what keeps two downloads from one
temporary name, and eviction, which takes no lock, is why `Whole` and `Missing`
speak of names that may be gone.

### The listing cache (`DirCacheProofs`)

ListingsAreTrue and NamedEntriesAreActedOn (`[]CachedListingsAreTrue`,
`[]ActsOnWhatWasNamed`) come from `Inv`: a cached listing, and one a request is
about to store, is the directory unless it is in doubt or a request is about to
drop it (`CacheTells`, `SetTells`, both by `Tells`), no two requests have one
directory to themselves (`Apart`), and ids come up only once (`Born`). `Tells` has
two halves, since a request that adds an entry leaves an old listing's entries
right, and one that removes or renames holds the directory meanwhile.

### What is only model-checked

- Liveness (`RunReturns`, `UploadReturns`, `ReadsReturn`, `CallsReturn`): the
  prover has neither fairness nor ENABLED.
- `WithinBudget` (ContentCache): the budget is a sum over the entries, and what a
  sum is after a step is an induction over the set, which the prover cannot do.
- The fidelity of the manifest's text in `LoadsTheLastSave` and what Build makes
  of a tree, for the same reason: both are recursive over data.
- Everything about Resolver, IndexBuild and ManifestFile: no theorem, see Plan.

## Findings

Two statements of the code's comments do not hold, and a run shows each.

1. `PushCrossing`. `syncer/push.go:51`: "Push mirrors opts.LocalRoot onto the remote
   folder rootID". With --detect-moves, a file renamed from `e/a` to `d/b` goes through
   `d/a` (Move, then Rename). If a new `d/a` is uploaded by another worker just then,
   the upload meets the file on its way, takes it for a leftover of an interrupted
   run and replaces its content. The run reports success; both paths are recorded
   with the one remote file, and `d/b` has no copy. No fault, no kill and no other
   client is needed, and every later push finds nothing to do.
2. `WriteDup`. `presentation/fuse/file.go:363-364`: "Release commits content
   written but not yet flushed (writes after the last Flush)". After a Flush has
   uploaded, `uploaded` stays set; a write that follows, through a descriptor
   that was duplicated before, is never uploaded.

### Where the properties stop

Some properties hold only with a restriction, which is the code's and not the
model's. Each is a switch of the module, and setting it makes TLC show the
behaviour.

| switch | what happens |
|---|---|
| Push `foreignInRun = TRUE` | NeverClobbers: a change between the drift Stat and the overwrite or delete is lost |
| Push with --detect-moves, `mayRename`, a foreign change | NeverClobbers: a move is not drift-checked and records the mtime it finds; the next overwrite replaces the other client's version, which `syncer/push.go:98` says it never does |
| Push with --detect-moves and a kill, without the premise Accountable | CleanRunMirrors: a move that was applied and not recorded; the file is renamed back, and the manifest agrees with a remote that does not. ManifestSound: after a takeover that was not recorded the next move takes the file for the one it was |
| Push, without `~astray` in Undisturbed | OnePathPerFile, CleanRunMirrors: as in PushCrossing; or a move meets another on its way, is refused its new name and is left half way, and the next upload to that path takes its file over |
| Push with `mayRename` and `localInRun` | ManifestSound: a file is renamed away, another is written in its place and uploaded, and the first is renamed back: the entry has its mtime and the remote file the other's content. CleanRunMirrors: the next run finds nothing to do and is clean |
| Push with `mayRename` and a kill, no flag | CleanRunMirrors: a delete that was applied and not recorded; the file is renamed back with its old mtime and is never uploaded again |
| Push, a lost answer (`maxFaults` at 1 is enough) | `syncer/run.go:51-52`: "A failed action leaves its manifest entry untouched so a re-run retries it". If an overwrite is applied and its answer is lost, the remote mtime has changed and the entry has not: every later push without --force takes its own write for another client's and skips the file, so that `foreign = 0 => skipped = {}` does not hold |
| PullRun `Rels <- TwinRels`, `StartPaths <- Twins` | PulledEntriesSound: where a tree has a file `x.tmp` beside `x`, the downloads of both go through one name, and one may end up with the content of the other |
| PullRun `Unwalked <- Hidden` | KeepsUnseenEdits: a local edit in a directory the walk prunes (`syncer/walk.go:10`) is replaced by the next pull, which `syncer/pull.go:39-41` says is skipped. CleanPullMirrors: Verify, and with it the next push or two-way run, takes what the pull put there for removed locally; that run removes it from the remote folder |
| PullRun, two-way runs after a kill, without the premise NoTwins | a temporary file `x.tmp` that a kill left behind is walked like any other (`syncer/walk.go:10` knows no `.tmp`), pushed, and pulled by others: from then on it is a twin of `x`, with what the row above says. CleanPullMirrors: the next download of `x` takes the tracked `x.tmp` away, the run is clean, and Verify of that run misses it. Of such a file SkipsOnlyEdits says nothing: it is not in `Rels` |
| PullRun, without the exemption `unsaved` | SkipsOnlyEdits: a download that was renamed into place and not recorded (its Stat failed, the process was killed, the manifest could not be saved) is skipped as a local edit by every later pull, although `syncer/run_pull.go:46-47` says that a re-run retries it |
| PullRun, without the exemption `restamped` | PulledEntriesSound: an edit between the rename of a download and its Stat is recorded as the downloaded version, and no later run pushes it |
| PullRun, without the exemption `late` or `lateIds` | KeepsUnseenEdits: what is edited after the walk or the index is replaced; the push half of a two-way run makes no drift Stat (`syncer/twoway.go:84`) |
| PullRun, `adopted` | a first two-way run takes files of one size for the same, and so does Verify (`syncer/verify.go:26-28` calls them content-correct) |
| Resolver, without `faults = 0` or `foreign = 0` in FoldersMadeOnce | where the server lets a name be taken twice, a Mkdir that is repeated after a lost answer, or that comes after another client's, makes a twin folder (`remoteindex/resolver.go:51-52`: never created twice). With twins two remote files share one path, of which the index shows one |
| IndexBuild, without `shrunk` | IndexIsTrue: an entry that leaves a folder of more than a page while it is listed hides another one from the index; a pull then removes the local file of that one |
| ManifestFile, without `~overlap` | LoadsTheLastSave: of two processes that save one manifest at once, one may rename what the other has only begun to write |
| ManifestFile, without Clean | LoadsTheLastSave: a path with a newline makes every later Load fail, or comes back as another path; a carriage return at its end is lost |
| WriteHandle, `"race"` in UploadsTheFile | a truncate that comes between Open's reading of the size and its publishing of the handle is lost |
| WriteHandle `"truncateTo"`, `"truncateNew"` | UploadsTheFile: truncates to a size other than zero, and of a file that is being created, do not reach the buffer as an ordinary file system would have it |
| WriteHandle `"tornSeed"` | UploadsTheFile: the second attempt to seed writes after what the first one left |
| WriteHandle, without `~late` in ReleaseKeepsWrites | as in WriteDup: what is written after the upload of its handle is lost |
| ContentCache, WithinBudget | `contentcache/disk.go` speaks of a cache that is capped at maxBytes. Room is made before a download, for the size the node knows, so downloads under way at once can overrun the cap by a file each: the property bounds the overrun, not the cache |
| ContentCache, `faults = 0` in FailsForAReason | after a download has broken the property says nothing more, of whichever reader |

The two properties of DirCache exempt a listing that is in doubt. It is, after a
change the mount knows nothing of (another client; a call that was done and whose
answer was lost), and in three cases that are the mount's own:

- an invalidation overtakes a fetch: the listing was asked for before the change
  and is stored after it was dropped (`usecase/list_dir.go:24-28`);
- a rename to another directory moves the file and is then refused the new name,
  as it is when that name exists: the error returns before either listing is
  dropped (`usecase/rename_entry.go:30-34`), and the file stays in the new
  directory under its old name;
- a handle's commit drops the listing of the directory the file was in when it
  was opened (`presentation/fuse/file.go:142`), though it may have been renamed.

With the doubt removed from any of the three TLC finds a stale listing with no
fault and no other client.

## Not modelled

- Errors of the local disk other than those of a download, of DeleteLocal and of
  Save; rates and lengths of downloads; durations. Expiry of a listing may come
  at any time, its latest time is not stated.
- Encodings, validation, hashes (equal iff the contents are), the version in the
  manifest's header, `PathFor`.
- How the server answers a taken name in Move and Rename: it refuses. Whether
  Mkdir is refused one is left open in `Drive`. What duplicates a repeated upload
  leaves: the conflict parameter decides, as the upload code expects.
- In `Push` and `PullRun` folders exist, the walk and the index are one step, and
  the index is exact; `RemoteTree` is where they are made and read.
- Every run makes the remote root it is given if it is missing, --dry-run too
  (`presentation/cli/sync.go:229`); a root that was removed is then an empty
  folder to push to.
- `ResolveDir`: a read-only lookup that makes one listing per segment.
- Shares, trash, search, extended attributes, metrics, configuration, dependency
  wiring, the command line: no state, or one request per operation.

## Plan

The pool, the planners, push, pull, two-way, the manifest, the remote tree, write
handles, uploads and both caches are modelled, and all of them but the manifest file
and the remote tree have proofs. What could come next is proofs of these two:

1. `Resolver`: only the holder of the mutex is past Lock, and from it that every
   cached prefix of a cached path is cached, by its parent's id.
2. `ManifestFile`: without overlap, the inode of the manifest is never written
   again, and with it the half of `LoadsTheLastSave` that is not about the text.
