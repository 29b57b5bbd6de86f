--------------------------- MODULE PullRunProofs ---------------------------
(***************************************************************************)
(* Pulls and two-way runs of any folder: any paths, sizes, options, pool   *)
(* size and checkpoint interval, and any number of edits, changes by other *)
(* clients, runs, failing operations and kills.                            *)
(*                                                                         *)
(* The invariants, each resting on those before it:                        *)
(*   Types        what is where in the phases of a run; one item per path; *)
(*   RemoteKnown  ids and dates tell the remote files and their versions,  *)
(*                and entries and items never mistake one for another;     *)
(*   LocalKnown   how far each download has got, and what that has put in  *)
(*                the tree; what an entry that agrees with both sides says;*)
(*   Whole        only whole files are streamed, renamed and pushed;       *)
(*   Unseen       items reach no version that no run has seen;             *)
(*   FilesKnown   every file of a user is edited, entered, or transferred  *)
(*                and not saved yet;                                       *)
(*   Timely       an entry of the folder's version is of the local file;   *)
(*   OnCourse     while a run is calm, every path is settled or has an     *)
(*                item that will settle it.                                *)
(*                                                                         *)
(* The premise NoTwins: the temporary name of a download that is under way *)
(* is no name that users, entries or other items use.  The code does not   *)
(* see to it, and a two-way run after a kill can break it: it takes the    *)
(* temporary file that was left behind for one of the user's and pushes    *)
(* it.  NoTwinsAlways says where it always holds.                          *)
(***************************************************************************)
EXTENDS PullRun, TLAPS

-----------------------------------------------------------------------------
(* Types                                                                    *)

Path == STRING \X Nat

LocalFile == [size : Nat, mtime : Nat, data : Int]

RemoteFile == [path : Path, size : Nat, mtime : Nat, data : Int]

FileEntry == [size : Nat, localMtime : Nat, remoteID : Nat, remoteMtime : Nat]

IndexEntry == [id : Nat, size : Nat, mtime : Nat]

PullJob == [op : {"download", "deleteLocal"}, rel : Path, remoteID : Nat, size : Nat,
            remoteMtime : Nat]

PushJob == [op : {"upload", "overwrite", "delete"}, rel : Path, remoteID : Nat,
            size : Nat, mtime : Nat, srcRel : Path]

Progress == [at : {"open", "create", "copy", "rename", "stat", "remove", "done", "failed"},
             size : Nat, mtime : Nat, data : Int]

\* a table: paths to what
Table(f, S) == f \in [DOMAIN f -> S] /\ DOMAIN f \subseteq Path

TreesTyped ==
  /\ Table(local, LocalFile)
  /\ remote \in [DOMAIN remote -> RemoteFile]
  /\ nextId \in Nat /\ DOMAIN remote \subseteq 0..(nextId - 1)
  /\ Table(m, FileEntry) /\ Table(disk, FileEntry)
  /\ clock \in Nat

RunTyped ==
  /\ waiting \subseteq PullJob /\ later \subseteq PushJob
  /\ DOMAIN work \subseteq PullJob /\ work \in [DOMAIN work -> Progress]
  /\ phase \in {"idle", "pull", "push"}
  /\ phase # "idle" => opts \in Options
  /\ since \in Nat

\* how far an item can be, by its kind
Fits(it, at) == IF it.op = "download" THEN at # "remove" ELSE at \in {"remove", "done", "failed"}

\* Where items are in the phases of a run.
Phases ==
  /\ phase = "idle" => waiting = {} /\ later = {} /\ DOMAIN work = {} /\ m = disk
  /\ phase = "push" => waiting = {} /\ DOMAIN work = {}
  /\ phase # "idle" /\ opts.mode = "pull" => later = {}
  /\ \A it \in DOMAIN work : Fits(it, work[it].at)

\* the pull items that are not settled
Pulls == waiting \cup DOMAIN work

\* No two items of a run have one path.
OneItemPerPath ==
  /\ waiting \cap DOMAIN work = {}
  /\ \A it, other \in Pulls : it.rel = other.rel => it = other
  /\ \A it, other \in later : it.rel = other.rel => it = other
  /\ \A it \in Pulls, other \in later : it.rel # other.rel

Types == TreesTyped /\ RunTyped /\ Phases /\ OneItemPerPath

\* What m.Set makes of a table.
LEMMA SetFacts ==
  ASSUME NEW f, NEW r, NEW e
  PROVE  /\ DOMAIN Set(f, r, e) = DOMAIN f \cup {r}
         /\ Set(f, r, e)[r] = e
         /\ \A q \in DOMAIN f \ {r} : Set(f, r, e)[q] = f[q]
  BY DEF Set

\* What m.Delete leaves of a table.
LEMMA DeleteFacts ==
  ASSUME NEW f, NEW r
  PROVE  /\ DOMAIN Delete(f, r) = DOMAIN f \ {r}
         /\ \A q \in DOMAIN f \ {r} : Delete(f, r)[q] = f[q]
  BY DEF Delete

\* Both keep tables typed.
LEMMA SetTable ==
  ASSUME NEW S, NEW f, Table(f, S), NEW r \in Path, NEW e \in S
  PROVE  Table(Set(f, r, e), S)
  BY DEF Set, Table

\* Taking a path out of a table leaves a table.
LEMMA DeleteTable ==
  ASSUME NEW S, NEW f, Table(f, S), NEW r
  PROVE  Table(Delete(f, r), S)
  BY DEF Delete, Table

\* The paths and temporary names of items are paths, and temporary names tell them apart.
LEMMA TmpFacts ==
  ASSUME NEW r \in Path
  PROVE  /\ TmpOf(r) \in Path
         /\ TmpOf(r) # r
         /\ \A q \in Path : TmpOf(q) = TmpOf(r) => q = r
  BY DEF TmpOf, Path

\* An entry of the index is that of the remote file at its path.
LEMMA IndexFacts ==
  ASSUME TreesTyped
  PROVE  /\ DOMAIN Index = {remote[i].path : i \in DOMAIN remote}
         /\ DOMAIN Index \subseteq Path
         /\ \A r \in DOMAIN Index :
              /\ Index[r] \in IndexEntry
              /\ Index[r].id \in DOMAIN remote /\ remote[Index[r].id].path = r
              /\ Index[r].size = remote[Index[r].id].size
              /\ Index[r].mtime = remote[Index[r].id].mtime
<1>1. DOMAIN Index = {remote[i].path : i \in DOMAIN remote}
  BY DEF Index
<1>2. ASSUME NEW r \in DOMAIN Index
      PROVE  /\ Index[r] \in IndexEntry
             /\ Index[r].id \in DOMAIN remote /\ remote[Index[r].id].path = r
             /\ Index[r].size = remote[Index[r].id].size
             /\ Index[r].mtime = remote[Index[r].id].mtime
  <2> DEFINE i == CHOOSE j \in At(r) : TRUE
  <2>1. i \in At(r)
    BY <1>1 DEF At
  <2>2. Index[r] = [id |-> i, size |-> remote[i].size, mtime |-> remote[i].mtime]
    BY <1>1 DEF Index
  <2> HIDE DEF i
  <2>3. i \in DOMAIN remote /\ remote[i].path = r /\ remote[i] \in RemoteFile /\ i \in Nat
    BY <2>1 DEF At, TreesTyped
  <2> QED
    BY <2>2, <2>3 DEF IndexEntry, RemoteFile
<1>3. DOMAIN Index \subseteq Path
  BY <1>1 DEF TreesTyped, RemoteFile
<1> QED
  BY <1>1, <1>2, <1>3

\* What the walk lists.
LEMMA WalkedFacts ==
  ASSUME TreesTyped
  PROVE  /\ Table(Walked, LocalFile)
         /\ DOMAIN Walked = DOMAIN local \ Unwalked
         /\ \A r \in DOMAIN Walked : Walked[r] = local[r]
  BY DEF Walked, TreesTyped, Table

\* What a run starts from: the manifest on disk, or, where there is none, an entry for
\* each file of the same size on both sides.
LEMMA BaseFacts ==
  ASSUME TreesTyped, NEW o
  PROVE  /\ Table(Base(o), FileEntry)
         /\ DOMAIN disk # {} \/ o.mode # "twoWay" => Base(o) = disk
         /\ DOMAIN disk = {} /\ o.mode = "twoWay" =>
              DOMAIN Base(o) = {r \in DOMAIN Index \cap DOMAIN Walked :
                                  Index[r].size = local[r].size}
         /\ \A r \in DOMAIN Base(o) \ DOMAIN disk :
              /\ r \in DOMAIN Index /\ r \in DOMAIN Walked
              /\ Index[r].size = local[r].size
              /\ Base(o)[r] = Entry(Index[r].size, local[r].mtime, Index[r].id, Index[r].mtime)
<1>1. CASE DOMAIN disk # {} \/ o.mode # "twoWay"
  BY <1>1 DEF Base, TreesTyped
<1>2. CASE DOMAIN disk = {} /\ o.mode = "twoWay"
  <2> DEFINE same == {q \in DOMAIN Index \cap DOMAIN Walked : Index[q].size = Walked[q].size}
             idx  == [r \in same |-> Index[r]]
  <2>1. Base(o) = Bootstrap(disk, idx, Walked)
    BY <1>2 DEF Base, SeedSynced
  <2>2. DOMAIN Base(o) = same
    BY <2>1, <1>2 DEF Bootstrap
  <2>3. \A r \in same : Base(o)[r] = Entry(Index[r].size, local[r].mtime, Index[r].id,
                                           Index[r].mtime)
    BY <2>1, <2>2, <1>2, WalkedFacts DEF Bootstrap
  <2>4. \A r \in same : Walked[r] = local[r] /\ local[r] \in LocalFile /\ Index[r] \in IndexEntry
    BY WalkedFacts, IndexFacts DEF TreesTyped, Table
  <2>5. ASSUME NEW r \in same PROVE Base(o)[r] \in FileEntry
    <3>1. local[r].mtime \in Nat /\ Index[r].size \in Nat /\ Index[r].id \in Nat
          /\ Index[r].mtime \in Nat
      BY <2>4 DEF LocalFile, IndexEntry
    <3>2. Base(o)[r] = Entry(Index[r].size, local[r].mtime, Index[r].id, Index[r].mtime)
      BY <2>3
    <3> QED
      BY <3>1, <3>2 DEF Entry, FileEntry
  <2>6. Base(o) = [r \in DOMAIN Base(o) |-> Base(o)[r]]
    BY <2>1 DEF Bootstrap
  <2> QED
    BY <2>2, <2>3, <2>4, <2>5, <2>6, <1>2, WalkedFacts DEF Table
<1> QED
  BY <1>1, <1>2

\* The items of a pull: a download of each remote file that the baseline does not hold
\* and a removal of each local file that the folder has no more.
LEMMA PullPlan ==
  ASSUME NEW idx, NEW b, NEW it \in PlanPull(idx, b)
  PROVE  \/ /\ it.rel \in DOMAIN idx
            /\ it = DownloadItem(it.rel, idx[it.rel])
            /\ it.rel \notin DOMAIN b \/ RemoteTouched(idx[it.rel], b[it.rel])
         \/ /\ it.rel \in DOMAIN b \ DOMAIN idx
            /\ it = DeleteLocalItem(it.rel)
  BY DEF PlanPull, DownloadItem, DeleteLocalItem

\* The items of a push.
LEMMA PushPlan ==
  ASSUME NEW tree, NEW b, NEW it \in PlanPush(tree, b)
  PROVE  \/ it.rel \in DOMAIN tree \ DOMAIN b /\ it = UploadItem(it.rel, tree[it.rel])
         \/ /\ it.rel \in DOMAIN tree \cap DOMAIN b /\ Touched(tree[it.rel], b[it.rel])
            /\ it = OverwriteItem(it.rel, tree[it.rel], b[it.rel])
         \/ it.rel \in DOMAIN b \ DOMAIN tree /\ it = DeleteItem(it.rel, b[it.rel])
  BY DEF PlanPush, UploadItem, OverwriteItem, DeleteItem

\* What the pull half is given to do.
LEMMA PullItemFacts ==
  ASSUME TreesTyped, NEW o \in Option, NEW it \in PullItems(o)
  PROVE  /\ \/ /\ it.rel \in DOMAIN Index
               /\ it = DownloadItem(it.rel, Index[it.rel])
               /\ it.rel \notin DOMAIN Base(o) \/ RemoteTouched(Index[it.rel], Base(o)[it.rel])
            \/ /\ it.rel \in DOMAIN Base(o) \ DOMAIN Index
               /\ it = DeleteLocalItem(it.rel)
         /\ o.mode = "twoWay" =>
              \/ ~LocalChanged(Walked, Base(o), it.rel)
              \/ it.rel \notin DOMAIN Walked
         /\ o.mode = "pull" /\ ~o.force /\ it.op = "download" /\ it.rel \in DOMAIN Walked =>
              it.rel \in DOMAIN Base(o) /\ ~Touched(local[it.rel], Base(o)[it.rel])
<1>1. it \in Plan(o).pull
  BY DEF PullItems, DropPullDeletes
<1>2. CASE o.mode = "twoWay"
  <2>1. it \in PlanTwoWay(Walked, Index, Base(o)).pull
    BY <1>1, <1>2 DEF Plan
  <2>2. /\ it \in PlanPull(Index, Base(o))
        /\ ~LocalChanged(Walked, Base(o), it.rel) \/ it.rel \in BothGone(Walked, Index, Base(o))
    BY <2>1 DEF PlanTwoWay
  <2>3. it.rel \notin DOMAIN Walked \/ ~LocalChanged(Walked, Base(o), it.rel)
    BY <2>2 DEF BothGone
  <2> QED
    BY <2>2, <2>3, <1>2, PullPlan
<1>3. CASE o.mode # "twoWay"
  <2>0. Base(o) = disk
    BY <1>3, BaseFacts
  <2>1. it \in IF o.force THEN PlanPull(Index, disk)
               ELSE FilterDrift(PlanPull(Index, disk), Walked, disk)
    BY <1>1, <1>3 DEF Plan
  <2>2. it \in PlanPull(Index, disk)
    BY <2>1 DEF FilterDrift
  <2>3. ~o.force /\ it.op = "download" /\ it.rel \in DOMAIN Walked =>
          it.rel \in DOMAIN disk /\ ~Touched(Walked[it.rel], disk[it.rel])
    BY <2>1 DEF FilterDrift
  <2> QED
    BY <2>0, <2>2, <2>3, <1>3, PullPlan, WalkedFacts
<1> QED
  BY <1>2, <1>3

\* What the push half is given to do.
LEMMA PushItemFacts ==
  ASSUME TreesTyped, NEW o \in Option, NEW it \in PushItems(o)
  PROVE  /\ o.mode = "twoWay"
         /\ LocalChanged(Walked, Base(o), it.rel) /\ ~RemoteChanged(Index, Base(o), it.rel)
         /\ \/ it.rel \in DOMAIN Walked \ DOMAIN Base(o) /\ it = UploadItem(it.rel, local[it.rel])
            \/ /\ it.rel \in DOMAIN Walked \cap DOMAIN Base(o)
               /\ it = OverwriteItem(it.rel, local[it.rel], Base(o)[it.rel])
            \/ /\ it.rel \in DOMAIN Base(o) \ DOMAIN Walked
               /\ it = DeleteItem(it.rel, Base(o)[it.rel])
<1>1. it \in Plan(o).push
  BY DEF PushItems, DropDeletes
<1>2. o.mode = "twoWay"
  BY <1>1 DEF Plan
<1>3. it \in PlanTwoWay(Walked, Index, Base(o)).push
  BY <1>1, <1>2 DEF Plan
<1>4. /\ it \in PlanPush(Walked, Base(o))
      /\ LocalChanged(Walked, Base(o), it.rel) /\ ~RemoteChanged(Index, Base(o), it.rel)
  BY <1>3 DEF PlanTwoWay
<1> QED
  BY <1>2, <1>4, PushPlan, WalkedFacts

\* A path is not given to both halves.
LEMMA OneHalf ==
  ASSUME TreesTyped, NEW o \in Option, NEW it \in PullItems(o), NEW other \in PushItems(o)
  PROVE  it.rel # other.rel
<1>1. SUFFICES ASSUME it.rel = other.rel PROVE FALSE
  OBVIOUS
<1>2. /\ LocalChanged(Walked, Base(o), it.rel) /\ ~RemoteChanged(Index, Base(o), it.rel)
      /\ o.mode = "twoWay"
  BY <1>1, PushItemFacts
<1>3. /\ it.rel \in DOMAIN Index \/ it.rel \in DOMAIN Base(o)
      /\ it.rel \in DOMAIN Index => it.rel \notin DOMAIN Base(o)
                                    \/ RemoteTouched(Index[it.rel], Base(o)[it.rel])
  BY PullItemFacts
<1> QED
  BY <1>2, <1>3 DEF RemoteChanged

-----------------------------------------------------------------------------
(* One lemma per action: the types                                          *)

\* What a step of an executor leaves alone, whichever it is.
OnlyProgress(it) ==
  /\ work' = [other \in DOMAIN work |-> work'[other]]
  /\ \A other \in DOMAIN work \ {it} : work'[other] = work[other]
  /\ UNCHANGED <<remote, nextId, disk, m, phase, opts, waiting, later, since, failures,
                 edits, foreign, runs, late, lateIds, adopted, skipped, clean>>
  /\ clock' \in {clock, clock + 1}

\* the item goes on to a step, with nothing else noted of it
Goes(it, step) ==
  work'[it] = [at |-> step, size |-> work[it].size, mtime |-> work[it].mtime,
               data |-> work[it].data]

\* An item that proceeds goes one stage on, and no other item moves.
LEMMA ProceedFacts ==
  ASSUME Types, NEW it \in DOMAIN work, NEW step, Proceed(it, step)
  PROVE  /\ work' = [other \in DOMAIN work |-> work'[other]]
         /\ \A other \in DOMAIN work \ {it} : work'[other] = work[other]
         /\ Goes(it, step)
  BY DEF Proceed, Goes, Types, RunTyped, Progress

\* A step that fails leaves all but the item's progress and the local tree alone.
LEMMA FailFacts ==
  ASSUME Types, NEW it \in DOMAIN work, StepFails(it)
  PROVE  /\ OnlyProgress(it) /\ Goes(it, "failed")
         /\ UNCHANGED <<clock, touched, restamped, unsaved>>
  BY ProceedFacts DEF StepFails, Kept, Elsewhere, OnlyProgress

\* DownloadStream fails, or what it found is noted.
LEMMA OpenStreamFacts ==
  ASSUME Types, NEW it \in DOMAIN work, OpenStream(it)
  PROVE  /\ OnlyProgress(it) /\ UNCHANGED <<local, clock, touched, restamped, unsaved>>
         /\ work[it].at = "open"
         /\ \/ Goes(it, "failed")
            \/ /\ it.remoteID \in DOMAIN remote
               /\ work'[it] = [at |-> "create", size |-> remote[it.remoteID].size,
                               mtime |-> work[it].mtime, data |-> remote[it.remoteID].data]
<1>1. CASE StepFails(it)
  BY <1>1, FailFacts DEF OpenStream, InStep
<1>2. CASE /\ it.remoteID \in DOMAIN remote
           /\ work' = [work EXCEPT ![it].at = "create",
                                   ![it].size = remote[it.remoteID].size,
                                   ![it].data = remote[it.remoteID].data]
           /\ Kept /\ Elsewhere
  <2>1. /\ work' = [other \in DOMAIN work |-> work'[other]]
        /\ \A other \in DOMAIN work \ {it} : work'[other] = work[other]
    BY <1>2 DEF Types, RunTyped
  <2>2. work'[it] = [at |-> "create", size |-> remote[it.remoteID].size,
                     mtime |-> work[it].mtime, data |-> remote[it.remoteID].data]
    BY <1>2 DEF Types, RunTyped, Progress
  <2> QED
    BY <1>2, <2>1, <2>2 DEF OpenStream, InStep, OnlyProgress, Kept, Elsewhere
<1> QED
  BY <1>1, <1>2 DEF OpenStream

\* os.Create fails, or there is an empty temporary file.
LEMMA CreateTmpFacts ==
  ASSUME Types, NEW it \in DOMAIN work, CreateTmp(it)
  PROVE  /\ OnlyProgress(it) /\ UNCHANGED <<clock, touched, restamped, unsaved>>
         /\ work[it].at = "create"
         /\ \/ Goes(it, "failed") /\ UNCHANGED local
            \/ /\ Goes(it, "copy")
               /\ local' = Set(local, TmpOf(it.rel), [size |-> 0, mtime |-> clock,
                                                      data |-> -work[it].data])
<1>1. CASE StepFails(it) /\ UNCHANGED local
  BY <1>1, FailFacts DEF CreateTmp, InStep
<1>2. CASE /\ local' = Set(local, TmpOf(it.rel), [size |-> 0, mtime |-> clock,
                                                    data |-> -work[it].data])
           /\ Proceed(it, "copy") /\ Kept /\ Elsewhere
  BY <1>2, ProceedFacts DEF CreateTmp, InStep, Kept, Elsewhere, OnlyProgress
<1> QED
  BY <1>1, <1>2 DEF CreateTmp

\* io.Copy fails, and the temporary file is removed; or it is filled, if it is there.
LEMMA CopyFacts ==
  ASSUME Types, NEW it \in DOMAIN work, Copy(it)
  PROVE  /\ OnlyProgress(it) /\ UNCHANGED <<touched, restamped, unsaved>>
         /\ work[it].at = "copy"
         /\ \/ Goes(it, "failed") /\ local' = Delete(local, TmpOf(it.rel)) /\ UNCHANGED clock
            \/ Goes(it, "rename") /\ local' = Filled(it) /\ clock' = clock + 1
<1>1. CASE StepFails(it) /\ local' = Delete(local, TmpOf(it.rel))
  BY <1>1, FailFacts DEF Copy, InStep
<1>2. CASE /\ local' = Filled(it) /\ Proceed(it, "rename") /\ Tick
           /\ UNCHANGED <<touched, restamped, unsaved>> /\ Elsewhere
  BY <1>2, ProceedFacts DEF Copy, InStep, Tick, Elsewhere, OnlyProgress
<1> QED
  BY <1>1, <1>2 DEF Copy

\* os.Rename fails, and the temporary file is removed if it is there; or it takes the
\* place of the file.
LEMMA RenameFacts ==
  ASSUME Types, NEW it \in DOMAIN work, Rename(it)
  PROVE  /\ OnlyProgress(it) /\ UNCHANGED <<clock, restamped>>
         /\ work[it].at = "rename"
         /\ \/ /\ Goes(it, "failed") /\ UNCHANGED <<touched, unsaved>>
               /\ \/ local' = Delete(local, TmpOf(it.rel))
                  \/ TmpOf(it.rel) \notin DOMAIN local /\ UNCHANGED local
            \/ /\ Goes(it, "stat")
               /\ TmpOf(it.rel) \in DOMAIN local
               /\ local' = Set(Delete(local, TmpOf(it.rel)), it.rel, local[TmpOf(it.rel)])
               /\ touched' = touched \ {it.rel}
               /\ unsaved' = unsaved \cup {it.rel}
<1>1. CASE StepFails(it) /\ \/ local' = Delete(local, TmpOf(it.rel))
                            \/ TmpOf(it.rel) \notin DOMAIN local /\ UNCHANGED local
  BY <1>1, FailFacts DEF Rename, InStep
<1>2. CASE /\ TmpOf(it.rel) \in DOMAIN local
           /\ local' = Set(Delete(local, TmpOf(it.rel)), it.rel, local[TmpOf(it.rel)])
           /\ Proceed(it, "stat")
           /\ touched' = touched \ {it.rel}
           /\ unsaved' = unsaved \cup {it.rel}
           /\ UNCHANGED <<clock, restamped>> /\ Elsewhere
  BY <1>2, ProceedFacts DEF Rename, InStep, Elsewhere, OnlyProgress
<1> QED
  BY <1>1, <1>2 DEF Rename

\* os.Stat fails, or the mtime of what is at the path is noted.
LEMMA StatFacts ==
  ASSUME Types, NEW it \in DOMAIN work, Stat(it)
  PROVE  /\ OnlyProgress(it) /\ UNCHANGED <<local, clock, touched, unsaved>>
         /\ work[it].at = "stat"
         /\ \/ Goes(it, "failed") /\ UNCHANGED restamped
            \/ /\ it.rel \in DOMAIN local
               /\ work'[it] = [at |-> "done", size |-> work[it].size,
                               mtime |-> local[it.rel].mtime, data |-> work[it].data]
               /\ restamped' = IF it.rel \in touched THEN restamped \cup {it.rel}
                               ELSE restamped \ {it.rel}
<1>1. CASE StepFails(it)
  BY <1>1, FailFacts DEF Stat, InStep
<1>2. CASE /\ it.rel \in DOMAIN local
           /\ work' = [work EXCEPT ![it].at = "done", ![it].mtime = local[it.rel].mtime]
           /\ restamped' = IF it.rel \in touched THEN restamped \cup {it.rel}
                           ELSE restamped \ {it.rel}
           /\ UNCHANGED <<clock, touched, unsaved>> /\ Elsewhere
  <2>1. /\ work' = [other \in DOMAIN work |-> work'[other]]
        /\ \A other \in DOMAIN work \ {it} : work'[other] = work[other]
    BY <1>2 DEF Types, RunTyped
  <2>2. work'[it] = [at |-> "done", size |-> work[it].size, mtime |-> local[it.rel].mtime,
                     data |-> work[it].data]
    BY <1>2 DEF Types, RunTyped, Progress
  <2> QED
    BY <1>2, <2>1, <2>2 DEF Stat, InStep, OnlyProgress, Elsewhere
<1> QED
  BY <1>1, <1>2 DEF Stat

\* DeleteLocal fails, or the file is gone.
LEMMA RemoveLocalFacts ==
  ASSUME Types, NEW it \in DOMAIN work, RemoveLocal(it)
  PROVE  /\ OnlyProgress(it) /\ UNCHANGED <<clock, restamped, unsaved>>
         /\ work[it].at = "remove"
         /\ \/ Goes(it, "failed") /\ UNCHANGED <<local, touched>>
            \/ /\ Goes(it, "done")
               /\ local' = Delete(local, it.rel)
               /\ touched' = touched \ {it.rel}
<1>1. CASE StepFails(it) /\ UNCHANGED local
  BY <1>1, FailFacts DEF RemoveLocal, InStep
<1>2. CASE /\ local' = Delete(local, it.rel)
           /\ Proceed(it, "done")
           /\ touched' = touched \ {it.rel}
           /\ UNCHANGED <<clock, restamped, unsaved>> /\ Elsewhere
  BY <1>2, ProceedFacts DEF RemoveLocal, InStep, Elsewhere, OnlyProgress
<1> QED
  BY <1>1, <1>2 DEF RemoveLocal

\* What an executor step keeps typed, given what it makes of its item and of the tree.
LEMMA StepKeepsTypes ==
  ASSUME Types, NEW it \in DOMAIN work, OnlyProgress(it), Table(local', LocalFile),
         work'[it] \in Progress, Fits(it, work'[it].at)
  PROVE  Types'
<1>1. TreesTyped'
  BY DEF Types, TreesTyped, OnlyProgress, Table
<1>2. /\ DOMAIN work' = DOMAIN work
      /\ \A other \in DOMAIN work : work'[other] \in Progress
  BY DEF Types, RunTyped, OnlyProgress
<1>3. RunTyped'
  BY <1>2 DEF Types, RunTyped, OnlyProgress
<1>4. phase # "idle"
  BY DEF Types, Phases
<1>5. Phases'
  BY <1>2, <1>4 DEF Types, Phases, OnlyProgress
<1>6. OneItemPerPath'
  BY <1>2 DEF Types, OneItemPerPath, Pulls, OnlyProgress
<1> QED
  BY <1>1, <1>3, <1>5, <1>6 DEF Types

\* Filling a temporary file leaves a tree.
LEMMA FilledFacts ==
  ASSUME Types, NEW it \in DOMAIN work
  PROVE  /\ Table(Filled(it), LocalFile) /\ DOMAIN Filled(it) = DOMAIN local
         /\ \A r \in DOMAIN local \ {TmpOf(it.rel)} : Filled(it)[r] = local[r]
         /\ IF TmpOf(it.rel) \in DOMAIN local /\ local[TmpOf(it.rel)].data = -work[it].data
            THEN Filled(it)[TmpOf(it.rel)] = [size |-> work[it].size, mtime |-> clock + 1,
                                              data |-> work[it].data]
            ELSE Filled(it) = local
<1> DEFINE full == [size |-> work[it].size, mtime |-> clock + 1, data |-> work[it].data]
<1>1. TmpOf(it.rel) \in Path
  BY TmpFacts DEF Types, RunTyped, PullJob
<1>2. work[it] \in Progress /\ clock \in Nat
  BY DEF Types, RunTyped, TreesTyped
<1>3. full \in LocalFile
  BY <1>2 DEF LocalFile, Progress
<1>4. Table(local, LocalFile)
  BY DEF Types, TreesTyped
<1>5. Table(Set(local, TmpOf(it.rel), full), LocalFile)
  BY <1>1, <1>3, <1>4, SetTable
<1> DEFINE there == TmpOf(it.rel) \in DOMAIN local /\ local[TmpOf(it.rel)].data = -work[it].data
<1>6. there => Filled(it) = Set(local, TmpOf(it.rel), full)
  BY DEF Filled
<1>7. ~there => Filled(it) = local
  BY DEF Filled
<1> HIDE DEF full
<1>8. /\ DOMAIN Set(local, TmpOf(it.rel), full) = DOMAIN local \cup {TmpOf(it.rel)}
      /\ Set(local, TmpOf(it.rel), full)[TmpOf(it.rel)] = full
      /\ \A r \in DOMAIN local \ {TmpOf(it.rel)} : Set(local, TmpOf(it.rel), full)[r] = local[r]
  BY DEF Set
<1>9. CASE there
  BY <1>5, <1>6, <1>8, <1>9 DEF full
<1>10. CASE ~there
  BY <1>4, <1>7, <1>10
<1> QED
  BY <1>9, <1>10

\* An executor step keeps the types.
LEMMA StepTypes ==
  ASSUME Types, NEW it \in DOMAIN work, Step(it)
  PROVE  Types'
<1>0. /\ it \in PullJob /\ work[it] \in Progress /\ Table(local, LocalFile)
      /\ TmpOf(it.rel) \in Path /\ it.rel \in Path /\ clock \in Nat
      /\ remote \in [DOMAIN remote -> RemoteFile] /\ Fits(it, work[it].at)
  BY TmpFacts DEF Types, RunTyped, TreesTyped, PullJob, Phases
<1>1. /\ Fits(it, "failed")
      /\ work[it].at = "remove" => Fits(it, "done")
      /\ work[it].at \notin {"remove", "done", "failed"} =>
           \A at : at # "remove" => Fits(it, at)
  BY <1>0 DEF Fits, PullJob
<1>2. ASSUME NEW at \in {"create", "copy", "rename", "stat", "done", "failed"}
      PROVE  /\ Goes(it, at) => work'[it] \in Progress /\ work'[it].at = at
             /\ \A s, t \in Nat, d \in Int :
                  [at |-> at, size |-> s, mtime |-> t, data |-> d] \in Progress
  BY <1>0 DEF Goes, Progress
<1>3. CASE OpenStream(it)
  <2>1. it.remoteID \in DOMAIN remote =>
          remote[it.remoteID].size \in Nat /\ remote[it.remoteID].data \in Int
    BY <1>0 DEF RemoteFile
  <2>2. work[it].mtime \in Nat
    BY <1>0 DEF Progress
  <2>3. CASE Goes(it, "failed")
    BY <1>0, <1>1, <1>2, <1>3, <2>3, OpenStreamFacts, StepKeepsTypes
  <2>4. CASE /\ it.remoteID \in DOMAIN remote
             /\ work'[it] = [at |-> "create", size |-> remote[it.remoteID].size,
                             mtime |-> work[it].mtime, data |-> remote[it.remoteID].data]
    <3>1. work'[it].at = "create" /\ Fits(it, "create")
      BY <1>1, <1>3, <2>4, OpenStreamFacts
    <3>2. work'[it] \in Progress
      BY <1>2, <2>1, <2>2, <2>4
    <3> QED
      BY <1>0, <1>3, <3>1, <3>2, OpenStreamFacts, StepKeepsTypes
  <2> QED
    BY <1>3, <2>3, <2>4, OpenStreamFacts
<1>4. CASE CreateTmp(it)
  <2>1. [size |-> 0, mtime |-> clock, data |-> -work[it].data] \in LocalFile
    BY <1>0 DEF LocalFile, Progress
  <2>2. Table(local', LocalFile)
    BY <1>0, <1>4, <2>1, CreateTmpFacts, SetTable
  <2>3. work'[it] \in Progress /\ Fits(it, work'[it].at)
    BY <1>1, <1>2, <1>4, CreateTmpFacts
  <2> QED
    BY <1>4, <2>2, <2>3, CreateTmpFacts, StepKeepsTypes
<1>5. CASE Copy(it)
  <2>1. Table(local', LocalFile)
    BY <1>0, <1>5, CopyFacts, FilledFacts, DeleteTable
  <2>2. work'[it] \in Progress /\ Fits(it, work'[it].at)
    BY <1>1, <1>2, <1>5, CopyFacts
  <2> QED
    BY <1>5, <2>1, <2>2, CopyFacts, StepKeepsTypes
<1>6. CASE Rename(it)
  <2>1. Table(Delete(local, TmpOf(it.rel)), LocalFile)
    BY <1>0, DeleteTable
  <2>2. TmpOf(it.rel) \in DOMAIN local => local[TmpOf(it.rel)] \in LocalFile
    BY <1>0 DEF Table
  <2>3. Table(local', LocalFile)
    BY <1>0, <1>6, <2>1, <2>2, RenameFacts, SetTable
  <2>4. work'[it] \in Progress /\ Fits(it, work'[it].at)
    BY <1>1, <1>2, <1>6, RenameFacts
  <2> QED
    BY <1>6, <2>3, <2>4, RenameFacts, StepKeepsTypes
<1>7. CASE Stat(it)
  <2>1. it.rel \in DOMAIN local => local[it.rel].mtime \in Nat
    BY <1>0 DEF LocalFile, Table
  <2>2. work[it].size \in Nat /\ work[it].data \in Int
    BY <1>0 DEF Progress
  <2>3. CASE Goes(it, "failed")
    BY <1>0, <1>1, <1>2, <1>7, <2>3, StatFacts, StepKeepsTypes
  <2>4. CASE /\ it.rel \in DOMAIN local
             /\ work'[it] = [at |-> "done", size |-> work[it].size,
                             mtime |-> local[it.rel].mtime, data |-> work[it].data]
    <3>1. work'[it].at = "done" /\ Fits(it, "done")
      BY <1>1, <1>7, <2>4, StatFacts
    <3>2. work'[it] \in Progress
      BY <1>2, <2>1, <2>2, <2>4
    <3> QED
      BY <1>0, <1>7, <3>1, <3>2, StatFacts, StepKeepsTypes
  <2> QED
    BY <1>7, <2>3, <2>4, StatFacts
<1>8. CASE RemoveLocal(it)
  <2>1. Table(local', LocalFile)
    BY <1>0, <1>8, RemoveLocalFacts, DeleteTable
  <2>2. work'[it] \in Progress /\ Fits(it, work'[it].at)
    BY <1>1, <1>2, <1>8, RemoveLocalFacts
  <2> QED
    BY <1>8, <2>1, <2>2, RemoveLocalFacts, StepKeepsTypes
<1> QED
  BY <1>3, <1>4, <1>5, <1>6, <1>7, <1>8 DEF Step

\* What others do leaves the run and the manifest alone.
LEMMA OutsideTypes ==
  ASSUME Types, UNCHANGED <<run, m, disk>>, TreesTyped'
  PROVE  Types'
  BY DEF Types, RunTyped, Phases, OneItemPerPath, Pulls, run

\* An edit of the local tree, and what it leaves alone.
LEMMA LocalEditFacts ==
  ASSUME NEW r \in Rels, LocalWrite(r) \/ LocalRemove(r)
  PROVE  /\ UNCHANGED <<remote, nextId, disk, m, run, foreign, runs, troubles, lateIds,
                        adopted, restamped, unsaved, skipped>>
         /\ clock' = clock + 1 /\ edits' = edits + 1 /\ clean' = "no"
         /\ late' = late \cup {r} /\ touched' = touched \cup {r}
         /\ \/ \E s \in Sizes : local' = Set(local, r, Written(s))
            \/ r \in DOMAIN local /\ local' = Delete(local, r)
  BY DEF LocalWrite, LocalRemove, LocalEdit, Tick

\* A change of the remote folder by another client: of a file, or a new one.
LEMMA ForeignFacts ==
  ASSUME Types, NEW r, NEW i,
         \/ r \in Rels /\ ForeignCreate(r) /\ i = nextId
         \/ i \in DOMAIN remote /\ (ForeignWrite(i) \/ ForeignRemove(i))
  PROVE  /\ UNCHANGED <<local, disk, m, run, edits, runs, troubles, late, touched,
                        adopted, restamped, unsaved, skipped>>
         /\ clock' = clock + 1 /\ foreign' = foreign + 1 /\ clean' = "no"
         /\ lateIds' = lateIds \cup {i}
         /\ \/ /\ r \in Rels /\ i = nextId /\ nextId' = nextId + 1 /\ At(r) = {}
               /\ \E s \in Sizes : remote' = Set(remote, i, OnServer(r, Written(s)))
            \/ /\ i \in DOMAIN remote /\ nextId' = nextId
               /\ \E s \in Sizes : remote' = Set(remote, i, OnServer(remote[i].path, Written(s)))
            \/ i \in DOMAIN remote /\ nextId' = nextId /\ remote' = Delete(remote, i)
  BY DEF ForeignCreate, ForeignWrite, ForeignRemove, ForeignEdit, Tick

\* What a user or another client writes is dated with the next instant.
LEMMA WrittenFacts ==
  ASSUME Types, NEW s \in Sizes
  PROVE  /\ Written(s) \in LocalFile
         /\ \A r \in Path : OnServer(r, Written(s)) \in RemoteFile
         /\ \A r \in Path : OnServer(r, Written(s)).mtime = clock + 1
                            /\ OnServer(r, Written(s)).path = r
         /\ Written(s).mtime = clock + 1
  BY PullAssumption DEF Types, TreesTyped, Written, LocalFile, RemoteFile, OnServer

\* So do the edits of users and other clients.
LEMMA EnvironmentTypes ==
  ASSUME Types, Environment
  PROVE  Types'
<1>0. Rels \subseteq Path
  BY PullAssumption DEF Path
<1>1. ASSUME NEW r \in Rels, LocalWrite(r) \/ LocalRemove(r) PROVE Types'
  <2>1. Table(local', LocalFile)
    BY <1>0, <1>1, LocalEditFacts, WrittenFacts, SetTable, DeleteTable DEF Types, TreesTyped
  <2>2. TreesTyped'
    BY <1>1, <2>1, LocalEditFacts DEF Types, TreesTyped, Table
  <2> QED
    BY <1>1, <2>2, LocalEditFacts, OutsideTypes
<1>2. ASSUME NEW r, NEW i,
             \/ r \in Rels /\ ForeignCreate(r) /\ i = nextId
             \/ i \in DOMAIN remote /\ (ForeignWrite(i) \/ ForeignRemove(i))
      PROVE  Types'
  <2>1. /\ remote' \in [DOMAIN remote' -> RemoteFile]
        /\ nextId' \in Nat /\ DOMAIN remote' \subseteq 0..(nextId' - 1)
    <3>0. /\ remote \in [DOMAIN remote -> RemoteFile] /\ nextId \in Nat
          /\ DOMAIN remote \subseteq 0..(nextId - 1)
          /\ i \in DOMAIN remote => remote[i].path \in Path
      BY DEF Types, TreesTyped, RemoteFile
    <3>1. CASE /\ r \in Rels /\ i = nextId /\ nextId' = nextId + 1
               /\ \E s \in Sizes : remote' = Set(remote, i, OnServer(r, Written(s)))
      <4>1. PICK s \in Sizes : remote' = Set(remote, i, OnServer(r, Written(s)))
        BY <3>1
      <4>2. OnServer(r, Written(s)) \in RemoteFile
        BY <1>0, <3>1, WrittenFacts
      <4> QED
        BY <3>0, <3>1, <4>1, <4>2 DEF Set
    <3>2. CASE /\ i \in DOMAIN remote /\ nextId' = nextId
               /\ \E s \in Sizes : remote' = Set(remote, i, OnServer(remote[i].path, Written(s)))
      <4>1. PICK s \in Sizes : remote' = Set(remote, i, OnServer(remote[i].path, Written(s)))
        BY <3>2
      <4>2. OnServer(remote[i].path, Written(s)) \in RemoteFile
        BY <3>0, <3>2, WrittenFacts
      <4> QED
        BY <3>0, <3>2, <4>1, <4>2 DEF Set
    <3>3. CASE i \in DOMAIN remote /\ nextId' = nextId /\ remote' = Delete(remote, i)
      BY <3>0, <3>3 DEF Delete
    <3> QED
      BY <1>2, <3>1, <3>2, <3>3, ForeignFacts
  <2>2. TreesTyped'
    <3>1. UNCHANGED <<local, m, disk>> /\ clock' = clock + 1
      BY <1>2, ForeignFacts
    <3> QED
      BY <2>1, <3>1 DEF Types, TreesTyped, Table
  <2> QED
    BY <1>2, <2>2, ForeignFacts, OutsideTypes
<1> QED
  BY <1>1, <1>2 DEF Environment

\* The items of both halves are well formed, and no two have one path.
LEMMA ItemTypes ==
  ASSUME TreesTyped, NEW o \in Options
  PROVE  /\ PullItems(o) \subseteq PullJob /\ PushItems(o) \subseteq PushJob
         /\ \A it, other \in PullItems(o) : it.rel = other.rel => it = other
         /\ \A it, other \in PushItems(o) : it.rel = other.rel => it = other
         /\ \A it \in PullItems(o), other \in PushItems(o) : it.rel # other.rel
<1>0. o \in Option
  BY PullAssumption
<1>1. ASSUME NEW it \in PullItems(o) PROVE it \in PullJob
  <2>1. CASE it.rel \in DOMAIN Index /\ it = DownloadItem(it.rel, Index[it.rel])
    <3>1. Index[it.rel] \in IndexEntry /\ it.rel \in Path
      BY <2>1, IndexFacts
    <3>2. /\ Index[it.rel].id \in Nat /\ Index[it.rel].size \in Nat
          /\ Index[it.rel].mtime \in Nat
      BY <3>1 DEF IndexEntry
    <3> HIDE DEF Index
    <3> QED
      BY <2>1, <3>1, <3>2 DEF DownloadItem, PullJob
  <2>2. CASE it.rel \in DOMAIN Base(o) /\ it = DeleteLocalItem(it.rel)
    <3>1. it.rel \in Path
      BY <2>2, BaseFacts DEF Table
    <3> QED
      BY <2>2, <3>1 DEF DeleteLocalItem, PullJob
  <2> QED
    BY <1>0, <2>1, <2>2, PullItemFacts
<1>2. ASSUME NEW it \in PushItems(o) PROVE it \in PushJob
  <2>0. \A r \in DOMAIN Walked : r \in Path /\ local[r].size \in Nat /\ local[r].mtime \in Nat
    BY WalkedFacts DEF Table, LocalFile
  <2>00. \A r \in DOMAIN Base(o) : r \in Path /\ Base(o)[r].remoteID \in Nat
    BY BaseFacts DEF Table, FileEntry
  <2>1. CASE it.rel \in DOMAIN Walked /\ it = UploadItem(it.rel, local[it.rel])
    BY <2>0, <2>1 DEF UploadItem, PushJob
  <2>2. CASE /\ it.rel \in DOMAIN Walked \cap DOMAIN Base(o)
             /\ it = OverwriteItem(it.rel, local[it.rel], Base(o)[it.rel])
    BY <2>0, <2>00, <2>2 DEF OverwriteItem, PushJob
  <2>3. CASE it.rel \in DOMAIN Base(o) /\ it = DeleteItem(it.rel, Base(o)[it.rel])
    BY <2>00, <2>3 DEF DeleteItem, PushJob
  <2> QED
    BY <1>0, <2>1, <2>2, <2>3, PushItemFacts
<1>3. ASSUME NEW it \in PullItems(o), NEW other \in PullItems(o), it.rel = other.rel
      PROVE  it = other
  <2>1. /\ \/ it.rel \in DOMAIN Index /\ it = DownloadItem(it.rel, Index[it.rel])
           \/ it.rel \notin DOMAIN Index /\ it = DeleteLocalItem(it.rel)
        /\ \/ other.rel \in DOMAIN Index /\ other = DownloadItem(other.rel, Index[other.rel])
           \/ other.rel \notin DOMAIN Index /\ other = DeleteLocalItem(other.rel)
    BY <1>0, PullItemFacts
  <2> QED
    BY <1>3, <2>1
<1>4. ASSUME NEW it \in PushItems(o), NEW other \in PushItems(o), it.rel = other.rel
      PROVE  it = other
  <2> DEFINE Is(i) ==
        \/ i.rel \in DOMAIN Walked \ DOMAIN Base(o) /\ i = UploadItem(i.rel, local[i.rel])
        \/ /\ i.rel \in DOMAIN Walked \cap DOMAIN Base(o)
           /\ i = OverwriteItem(i.rel, local[i.rel], Base(o)[i.rel])
        \/ i.rel \in DOMAIN Base(o) \ DOMAIN Walked /\ i = DeleteItem(i.rel, Base(o)[i.rel])
  <2>1. Is(it) /\ Is(other)
    BY <1>0, PushItemFacts
  <2> QED
    BY <1>4, <2>1
<1>5. \A it \in PullItems(o), other \in PushItems(o) : it.rel # other.rel
  BY <1>0, OneHalf
<1> QED
  BY <1>1, <1>2, <1>3, <1>4, <1>5

\* The start is typed.
LEMMA InitTypes ==
  ASSUME Init
  PROVE  Types
<1> DEFINE n == Len(StartPaths)
<1>1. /\ StartPaths \in [1..n -> Rels] /\ n \in Nat /\ DOMAIN StartPaths = 1..n
      /\ Rels \subseteq Path
  BY PullAssumption DEF Path
<1>2. remote = [i \in 1..n |-> [path |-> StartPaths[i], size |-> 1, mtime |-> i, data |-> i]]
  BY <1>1 DEF Init
<1>3. remote \in [DOMAIN remote -> RemoteFile] /\ DOMAIN remote = 1..n
  BY <1>1, <1>2 DEF RemoteFile
<1>4. nextId = n + 1 /\ clock = n /\ m = disk
  BY DEF Init
<1>5. PICK synced \in SyncedStarts :
        LET pulled == {i \in DOMAIN StartPaths : synced}
            Nth(r) == CHOOSE i \in pulled : StartPaths[i] = r
            paths  == {StartPaths[i] : i \in pulled}
        IN /\ local = [r \in paths |-> [size |-> 1, mtime |-> Nth(r), data |-> Nth(r)]]
           /\ disk = [r \in paths |-> Entry(1, Nth(r), Nth(r), Nth(r))]
  BY DEF Init
<1> DEFINE pulled == {i \in 1..n : synced}
           Nth(r) == CHOOSE i \in pulled : StartPaths[i] = r
           paths  == {StartPaths[i] : i \in pulled}
<1>6. /\ local = [r \in paths |-> [size |-> 1, mtime |-> Nth(r), data |-> Nth(r)]]
      /\ disk = [r \in paths |-> Entry(1, Nth(r), Nth(r), Nth(r))]
  BY <1>1, <1>5
<1>7. ASSUME NEW r \in paths PROVE Nth(r) \in Nat /\ r \in Path
  <2>1. \E i \in pulled : StartPaths[i] = r
    OBVIOUS
  <2>2. Nth(r) \in pulled
    BY <2>1
  <2>3. r \in Path
    BY <1>1
  <2> QED
    BY <1>1, <2>2, <2>3
<1> HIDE DEF Nth, paths
<1>8. Table(local, LocalFile) /\ Table(disk, FileEntry)
  BY <1>6, <1>7 DEF Table, LocalFile, FileEntry, Entry
<1>9. TreesTyped
  BY <1>1, <1>3, <1>4, <1>8 DEF TreesTyped
<1>10. /\ waiting = {} /\ later = {} /\ work = [r \in {} |-> 0] /\ phase = "idle" /\ since = 0
  BY DEF Init, Empty
<1>11. RunTyped /\ Phases /\ OneItemPerPath
  BY <1>4, <1>10 DEF RunTyped, Phases, OneItemPerPath, Pulls
<1> QED
  BY <1>9, <1>11 DEF Types

\* The plan of a run is typed, and gives each path one item.
LEMMA BeginTypes ==
  ASSUME Types, NEW o \in Options, Begin(o)
  PROVE  Types'
<1>1. TreesTyped' /\ TreesTyped
  <2>1. Table(m', FileEntry)
    BY BaseFacts DEF Begin, Types
  <2> QED
    BY <2>1 DEF Begin, Types, TreesTyped, Table
<1>2. waiting' = PullItems(o) /\ later' = PushItems(o) /\ phase' = "pull" /\ opts' = o
      /\ work' = work /\ since' = since /\ DOMAIN work = {}
  BY DEF Begin, Types, Phases
<1>3. RunTyped'
  BY <1>1, <1>2, ItemTypes DEF Types, RunTyped
<1>4. Phases'
  <2>1. o.mode = "pull" => PushItems(o) = {}
    BY <1>1, PushItemFacts, PullAssumption
  <2> QED
    BY <1>2, <2>1 DEF Phases
<1>5. OneItemPerPath'
  BY <1>1, <1>2, ItemTypes DEF OneItemPerPath, Pulls
<1> QED
  BY <1>1, <1>3, <1>4, <1>5 DEF Types

\* What a worker does when it takes an item.
LEMMA TakeFacts ==
  ASSUME Types, NEW it \in waiting, Take(it)
  PROVE  /\ UNCHANGED <<local, remote, nextId, disk, m, phase, opts, later, since, failures,
                        bounds, history>>
         /\ waiting' = waiting \ {it} /\ DOMAIN work' = DOMAIN work \cup {it}
         /\ work' = [other \in DOMAIN work' |-> work'[other]]
         /\ \A other \in DOMAIN work : work'[other] = work[other]
         /\ work'[it] = [at |-> IF it.op = "download" THEN "open" ELSE "remove",
                         size |-> 0, mtime |-> 0, data |-> 0]
         /\ phase = "pull"
  BY DEF Take, Types, OneItemPerPath

\* An item changes hands, and no path gets a second one.
LEMMA TakeTypes ==
  ASSUME Types, NEW it \in waiting, Take(it)
  PROVE  Types'
<1>1. TreesTyped'
  BY TakeFacts DEF Types, TreesTyped, Table, bounds
<1>2. work'[it] \in Progress /\ Fits(it, work'[it].at) /\ it \in PullJob
  <2>1. it \in PullJob /\ it.op \in {"download", "deleteLocal"}
    BY DEF Types, RunTyped, PullJob
  <2> DEFINE at == IF it.op = "download" THEN "open" ELSE "remove"
  <2>2. work'[it] = [at |-> at, size |-> 0, mtime |-> 0, data |-> 0]
    BY TakeFacts
  <2>3. work'[it] \in Progress /\ work'[it].at = at
    BY <2>2 DEF Progress
  <2> QED
    BY <2>1, <2>2, <2>3 DEF Fits
<1>3. RunTyped'
  BY <1>2, TakeFacts DEF Types, RunTyped
<1>4. Phases'
  BY <1>2, TakeFacts DEF Types, Phases
<1>5. OneItemPerPath'
  <2>1. Pulls' = Pulls /\ later' = later
    BY TakeFacts DEF Pulls
  <2>2. waiting' \cap DOMAIN work' = {}
    BY TakeFacts DEF Types, OneItemPerPath
  <2> QED
    BY <2>1, <2>2 DEF Types, OneItemPerPath
<1> QED
  BY <1>1, <1>3, <1>4, <1>5 DEF Types

\* A finished item leaves the hands of its worker.
LEMMA DropFacts ==
  ASSUME Types, NEW it \in DOMAIN work, Drop(it)
  PROVE  /\ DOMAIN work' = DOMAIN work \ {it}
         /\ work' = [other \in DOMAIN work' |-> work'[other]]
         /\ \A other \in DOMAIN work \ {it} : work'[other] = work[other]
  BY DEF Drop

\* What the manifest file is after a success was counted.
LEMMA CheckpointFacts ==
  ASSUME NEW rel, Checkpoint(rel)
  PROVE  /\ disk' \in {disk, m'}
         /\ \/ disk' = disk /\ unsaved' = unsaved \cup {rel}
            \/ disk' = m' /\ unsaved' = NotIn(m', unsaved \cup {rel})
         /\ since \in Nat => since' \in Nat
  BY DEF Checkpoint

\* What the collector records of an item is a manifest again.
LEMMA RecordedTable ==
  ASSUME Types, NEW it \in DOMAIN work
  PROVE  /\ Table(Recorded(it), FileEntry)
         /\ IF it.op = "deleteLocal" THEN Recorded(it) = Delete(m, it.rel)
            ELSE Recorded(it) = Set(m, it.rel, Entry(work[it].size, work[it].mtime,
                                                     it.remoteID, it.remoteMtime))
         /\ Table(m, FileEntry)
<1>1. it \in PullJob /\ work[it] \in Progress /\ Table(m, FileEntry)
  BY DEF Types, RunTyped, TreesTyped
<1>2. it.rel \in Path /\ it.remoteID \in Nat /\ it.remoteMtime \in Nat
      /\ work[it].size \in Nat /\ work[it].mtime \in Nat
  BY <1>1 DEF PullJob, Progress
<1>3. Entry(work[it].size, work[it].mtime, it.remoteID, it.remoteMtime) \in FileEntry
  BY <1>2 DEF Entry, FileEntry
<1>4. Table(Delete(m, it.rel), FileEntry)
  BY <1>1, DeleteTable
<1>5. Table(Set(m, it.rel, Entry(work[it].size, work[it].mtime, it.remoteID,
                                 it.remoteMtime)), FileEntry)
  BY <1>1, <1>2, <1>3, SetTable
<1> QED
  BY <1>1, <1>4, <1>5 DEF Recorded

\* An item that is settled leaves the others as they are.
LEMMA DropTypes ==
  ASSUME Types, NEW it \in DOMAIN work, Drop(it),
         UNCHANGED <<phase, opts, waiting, later>>, TreesTyped', since' \in Nat
  PROVE  Types'
<1>1. RunTyped'
  BY DropFacts DEF Types, RunTyped
<1>2. phase # "idle"
  BY DEF Types, Phases
<1>3. Phases'
  BY <1>2, DropFacts DEF Types, Phases
<1>4. OneItemPerPath'
  BY DropFacts DEF Types, OneItemPerPath, Pulls
<1> QED
  BY <1>1, <1>3, <1>4 DEF Types

\* Collecting keeps the types.
LEMMA CollectTypes ==
  ASSUME Types, NEW it \in DOMAIN work, Collect(it) \/ CollectFailure(it)
  PROVE  Types'
<1>1. CASE Collect(it)
  <2>1. Table(m', FileEntry)
    BY <1>1, RecordedTable DEF Collect
  <2>2. disk' \in {disk, m'} /\ since' \in Nat
    BY <1>1, CheckpointFacts DEF Collect, Types, RunTyped
  <2>3. TreesTyped'
    BY <1>1, <2>1, <2>2 DEF Collect, Types, TreesTyped, Table
  <2> QED
    BY <1>1, <2>2, <2>3, DropTypes DEF Collect
<1>2. CASE CollectFailure(it)
  <2>1. TreesTyped' /\ since' \in Nat
    BY <1>2 DEF CollectFailure, Types, TreesTyped, Table, bounds, RunTyped
  <2> QED
    BY <1>2, <2>1, DropTypes DEF CollectFailure
<1> QED
  BY <1>1, <1>2

\* The file a feasible push item is done to: one there is, or, for an upload to a path
\* that has none, a new one.
LEMMA TargetFacts ==
  ASSUME Types, NEW it \in later, Feasible(it), it.op # "delete"
  PROVE  /\ it.rel \in DOMAIN local /\ local[it.rel].size = it.size
         /\ it.op = "overwrite" => TargetOf(it) = it.remoteID /\ TargetOf(it) \in DOMAIN remote
         /\ it.op = "upload" => \/ TargetOf(it) \in At(it.rel) /\ TargetOf(it) \in DOMAIN remote
                                \/ At(it.rel) = {} /\ TargetOf(it) = nextId
         /\ \/ TargetOf(it) \in DOMAIN remote /\ TargetOf(it) # nextId
            \/ it.op = "upload" /\ At(it.rel) = {} /\ TargetOf(it) = nextId
         /\ TargetOf(it) \in Nat
<1>1. /\ it.op \in {"upload", "overwrite", "delete"} /\ it.rel \in Path
      /\ nextId \in Nat /\ DOMAIN remote \subseteq 0..(nextId - 1)
  BY DEF Types, RunTyped, PushJob, TreesTyped
<1>2. CASE it.op = "overwrite"
  BY <1>1, <1>2 DEF TargetOf, Feasible
<1>3. CASE it.op = "upload" /\ At(it.rel) # {}
  <2>1. TargetOf(it) \in At(it.rel)
    BY <1>3 DEF TargetOf
  <2> QED
    BY <1>1, <1>3, <2>1 DEF Feasible, At
<1>4. CASE it.op = "upload" /\ At(it.rel) = {}
  BY <1>1, <1>4 DEF TargetOf, Feasible
<1> QED
  BY <1>1, <1>2, <1>3, <1>4

\* What a feasible push item makes of the remote folder.
LEMMA PushedFacts ==
  ASSUME Types, NEW it \in later, Feasible(it)
  PROVE  /\ it.op = "delete" => Pushed(it) = Delete(remote, it.remoteID)
         /\ it.op # "delete" =>
              \E f \in RemoteFile :
                /\ Pushed(it) = Set(remote, TargetOf(it), f)
                /\ f.path = IF TargetOf(it) \in DOMAIN remote THEN remote[TargetOf(it)].path
                            ELSE it.rel
                /\ f.size = it.size /\ f.mtime = clock + 1 /\ f.data = local[it.rel].data
<1>1. it.op = "delete" => Pushed(it) = Delete(remote, it.remoteID)
  BY DEF Pushed
<1>2. ASSUME it.op # "delete"
      PROVE  \E f \in RemoteFile :
                /\ Pushed(it) = Set(remote, TargetOf(it), f)
                /\ f.path = IF TargetOf(it) \in DOMAIN remote THEN remote[TargetOf(it)].path
                            ELSE it.rel
                /\ f.size = it.size /\ f.mtime = clock + 1 /\ f.data = local[it.rel].data
  <2> DEFINE p == IF TargetOf(it) \in DOMAIN remote THEN remote[TargetOf(it)].path ELSE it.rel
             f == [path |-> p, size |-> it.size, mtime |-> clock + 1, data |-> local[it.rel].data]
  <2>1. Pushed(it) = Set(remote, TargetOf(it), f)
    BY <1>2 DEF Pushed
  <2>2. /\ it.rel \in DOMAIN local /\ it.rel \in Path /\ it.size \in Nat /\ clock \in Nat
        /\ local[it.rel].data \in Int
    BY <1>2, TargetFacts DEF Types, TreesTyped, Table, LocalFile, RunTyped, PushJob
  <2>3. p \in Path
    BY <2>2 DEF Types, TreesTyped, RemoteFile
  <2>4. f \in RemoteFile
    BY <2>2, <2>3 DEF RemoteFile
  <2>5. f.path = p /\ f.size = it.size /\ f.mtime = clock + 1 /\ f.data = local[it.rel].data
    OBVIOUS
  <2> HIDE DEF f
  <2> QED
    BY <2>1, <2>4, <2>5
<1> QED
  BY <1>1, <1>2

\* A push item that has not failed halfway: done and noted, done and not noted, or not
\* done.
LEMMA PushItemShape ==
  ASSUME Types, NEW it \in later, PushItem(it)
  PROVE  /\ UNCHANGED <<local, phase, opts, waiting, work, edits, foreign, runs, late,
                        lateIds, restamped, skipped, clean>>
         /\ phase = "push" /\ later' = later \ {it}
         /\ since' \in Nat /\ disk' \in {disk, m'}
         /\ \/ /\ Feasible(it) /\ remote' = Pushed(it) /\ clock' = clock + 1
               /\ nextId' = IF TargetOf(it) = nextId THEN nextId + 1 ELSE nextId
               /\ \/ /\ m' = PushRecorded(it) /\ adopted' = adopted \ {it.rel}
                     /\ touched' = IF it.rel \in late THEN touched ELSE touched \ {it.rel}
                     /\ \/ disk' = disk /\ unsaved' = unsaved \cup {it.rel}
                        \/ disk' = m' /\ unsaved' = NotIn(m', unsaved \cup {it.rel})
                     /\ UNCHANGED failures
                  \/ UNCHANGED <<m, disk, touched, adopted, unsaved>> /\ failures' = TRUE
            \/ /\ UNCHANGED <<remote, nextId, clock, m, disk, touched, adopted, unsaved>>
               /\ failures' = TRUE
<1>0. since \in Nat
  BY DEF Types, RunTyped
<1>1. CASE /\ Feasible(it) /\ remote' = Pushed(it)
           /\ nextId' = IF TargetOf(it) = nextId THEN nextId + 1 ELSE nextId
           /\ Tick
           /\ m' = PushRecorded(it) /\ Checkpoint(it.rel)
           /\ touched' = IF it.rel \in late THEN touched ELSE touched \ {it.rel}
           /\ adopted' = adopted \ {it.rel}
           /\ UNCHANGED failures
  BY <1>0, <1>1, CheckpointFacts DEF PushItem, Tick
<1>2. CASE /\ Feasible(it) /\ remote' = Pushed(it)
           /\ nextId' = IF TargetOf(it) = nextId THEN nextId + 1 ELSE nextId
           /\ Tick
           /\ failures' = TRUE
           /\ UNCHANGED <<m, disk, since, touched, adopted, unsaved>>
  BY <1>0, <1>2 DEF PushItem, Tick
<1>3. CASE /\ failures' = TRUE
           /\ UNCHANGED <<remote, nextId, clock, m, disk, since, touched, adopted, unsaved>>
  BY <1>0, <1>3 DEF PushItem
<1> QED
  BY <1>1, <1>2, <1>3 DEF PushItem

\* A push item keeps the types.
LEMMA PushTypes ==
  ASSUME Types, NEW it \in later, PushItem(it)
  PROVE  Types'
<1>1. /\ it \in PushJob /\ clock \in Nat /\ nextId \in Nat
      /\ remote \in [DOMAIN remote -> RemoteFile] /\ DOMAIN remote \subseteq 0..(nextId - 1)
      /\ Table(m, FileEntry) /\ Table(disk, FileEntry)
      /\ it.rel \in Path /\ it.size \in Nat /\ it.mtime \in Nat
  BY DEF Types, TreesTyped, RunTyped, PushJob
<1>2. /\ remote' \in [DOMAIN remote' -> RemoteFile] /\ nextId' \in Nat
      /\ DOMAIN remote' \subseteq 0..(nextId' - 1) /\ clock' \in Nat
  <2>1. CASE UNCHANGED <<remote, nextId, clock>>
    BY <1>1, <2>1
  <2>2. CASE /\ Feasible(it) /\ remote' = Pushed(it) /\ clock' = clock + 1 /\ it.op = "delete"
             /\ nextId' = IF TargetOf(it) = nextId THEN nextId + 1 ELSE nextId
    <3>1. remote' = Delete(remote, it.remoteID)
      BY <2>2, PushedFacts
    <3> QED
      BY <1>1, <2>2, <3>1 DEF Delete
  <2>3. CASE /\ Feasible(it) /\ remote' = Pushed(it) /\ clock' = clock + 1 /\ it.op # "delete"
             /\ nextId' = IF TargetOf(it) = nextId THEN nextId + 1 ELSE nextId
    <3>1. PICK f \in RemoteFile : remote' = Set(remote, TargetOf(it), f)
      BY <2>3, PushedFacts
    <3>2. TargetOf(it) \in DOMAIN remote \/ TargetOf(it) = nextId
      BY <2>3, TargetFacts
    <3>3. DOMAIN remote' = DOMAIN remote \cup {TargetOf(it)}
      BY <3>1, SetFacts
    <3>4. remote' \in [DOMAIN remote' -> RemoteFile]
      BY <1>1, <3>1 DEF Set
    <3> QED
      BY <1>1, <2>3, <3>2, <3>3, <3>4
  <2> QED
    BY <2>1, <2>2, <2>3, PushItemShape
<1>3. Table(m', FileEntry)
  <2>1. CASE m' = m
    BY <1>1, <2>1
  <2>2. CASE m' = PushRecorded(it) /\ Feasible(it) /\ it.op = "delete"
    BY <1>1, <2>2, DeleteTable DEF PushRecorded
  <2>3. CASE m' = PushRecorded(it) /\ Feasible(it) /\ it.op # "delete"
    <3>1. TargetOf(it) \in Nat
      BY <2>3, TargetFacts
    <3>2. Entry(it.size, it.mtime, TargetOf(it), clock + 1) \in FileEntry
      BY <1>1, <3>1 DEF Entry, FileEntry
    <3> QED
      BY <1>1, <2>3, <3>2, SetTable DEF PushRecorded
  <2> QED
    BY <2>1, <2>2, <2>3, PushItemShape
<1>4. TreesTyped'
  BY <1>1, <1>2, <1>3, PushItemShape DEF Types, TreesTyped, Table
<1>5. RunTyped'
  BY PushItemShape DEF Types, RunTyped
<1>6. Phases'
  BY PushItemShape DEF Types, Phases
<1>7. OneItemPerPath'
  BY PushItemShape DEF Types, OneItemPerPath, Pulls
<1> QED
  BY <1>4, <1>5, <1>6, <1>7 DEF Types

\* The end of a run, however it comes, leaves no item.
LEMMA AbandonTypes ==
  ASSUME Types, Abandon, UNCHANGED <<local, remote, nextId, clock>>, m' = disk',
         disk' \in {disk, m}
  PROVE  Types'
<1>1. TreesTyped'
  BY DEF Types, TreesTyped, Table
<1>2. /\ waiting' = {} /\ later' = {} /\ DOMAIN work' = {} /\ phase' = "idle" /\ since' = 0
      /\ work' = [r \in {} |-> 0]
  BY DEF Abandon, Empty
<1>3. RunTyped' /\ Phases' /\ OneItemPerPath'
  BY <1>2 DEF RunTyped, Phases, OneItemPerPath, Pulls
<1> QED
  BY <1>1, <1>3 DEF Types

\* Nothing is done.
LEMMA StutterTypes ==
  ASSUME Types, UNCHANGED <<local, remote, nextId, disk, m, run, clock>>
  PROVE  Types'
  BY DEF Types, TreesTyped, Table, RunTyped, Phases, OneItemPerPath, Pulls, run

\* The push half begins when no pull item is left.
LEMMA HalfTypes ==
  ASSUME Types, PullHalfDone
  PROVE  Types'
<1>1. TreesTyped'
  BY DEF PullHalfDone, Types, TreesTyped, Table, bounds
<1>2. RunTyped' /\ Phases' /\ OneItemPerPath'
  BY DEF PullHalfDone, Types, RunTyped, Phases, OneItemPerPath, Pulls
<1> QED
  BY <1>1, <1>2 DEF Types

\* Every step keeps the types.
LEMMA NextTypes ==
  ASSUME Types, [Next]_vars
  PROVE  Types'
<1>1. CASE Environment
  BY <1>1, EnvironmentTypes
<1>2. CASE \E o \in Options : Begin(o) \/ BeginStops(o)
  BY <1>2, BeginTypes, StutterTypes DEF BeginStops
<1>3. CASE \E it \in waiting : Take(it)
  BY <1>3, TakeTypes
<1>4. CASE \E it \in DOMAIN work : Step(it) \/ Collect(it) \/ CollectFailure(it)
  BY <1>4, StepTypes, CollectTypes
<1>5. CASE PullHalfDone
  BY <1>5, HalfTypes
<1>6. CASE \E it \in later : PushItem(it)
  BY <1>6, PushTypes
<1>7. CASE Finish
  BY <1>7, AbandonTypes DEF Finish
<1>8. CASE Crash
  BY <1>8, AbandonTypes DEF Crash
<1>9. CASE UNCHANGED vars
  BY <1>9, StutterTypes DEF vars, bounds
<1> QED
  BY <1>1, <1>2, <1>3, <1>4, <1>5, <1>6, <1>7, <1>8, <1>9 DEF Next

\* Trees, manifest, items and progress are of their types in every reachable state, the
\* items are where the phase of the run says, and no two of them have one path.
THEOREM TypesAlways == Spec => []Types
<1>1. Init => Types
  BY InitTypes
<1>2. Types /\ [Next]_vars => Types'
  BY NextTypes
<1> QED
  BY <1>1, <1>2, PTL DEF Spec

-----------------------------------------------------------------------------
(* The remote folder, and what entries and items know of it                 *)

\* id is, or was, the file at path r
Of(id, r) == id < nextId /\ (id \in DOMAIN remote => remote[id].path = r)

\* the version of date t is one of the file id, and not a later one than it has
Dates(id, t) == /\ t <= clock
                /\ id \in DOMAIN remote => t <= remote[id].mtime
                /\ \A j \in DOMAIN remote : remote[j].mtime = t => j = id

\* both after the step
OfNext(id, r) == id < nextId' /\ (id \in DOMAIN remote' => remote'[id].path = r)

DatesNext(id, t) == /\ t <= clock'
                    /\ id \in DOMAIN remote' => t <= remote'[id].mtime
                    /\ \A j \in DOMAIN remote' : remote'[j].mtime = t => j = id

\* what the entries of a manifest say of the remote folder
Entries(f) == \A r \in DOMAIN f : /\ Of(f[r].remoteID, r)
                                  /\ Dates(f[r].remoteID, f[r].remoteMtime)

\* Remote files have paths and dates of their own, and no entry or item takes one file
\* for another.
RemoteKnown ==
  /\ \A i, j \in DOMAIN remote : remote[i].path = remote[j].path => i = j
  /\ \A i, j \in DOMAIN remote : remote[i].mtime = remote[j].mtime => i = j
  /\ \A i \in DOMAIN remote : remote[i].mtime <= clock
  /\ Entries(m) /\ Entries(disk)
  /\ \A it \in Pulls : it.op = "download" =>
       Of(it.remoteID, it.rel) /\ Dates(it.remoteID, it.remoteMtime)
  /\ \A it \in later : it.op # "upload" => Of(it.remoteID, it.rel)

\* A change of the remote folder: one file gets a version of its own date, is made, or goes.
RemoteStep(i) ==
  /\ clock' = clock + 1 /\ nextId' \in {nextId, nextId + 1}
  /\ \A j \in DOMAIN remote' \ {i} : j \in DOMAIN remote /\ remote'[j] = remote[j]
  /\ i \in DOMAIN remote' =>
       /\ remote'[i].mtime = clock + 1
       /\ \/ i \in DOMAIN remote /\ remote'[i].path = remote[i].path
          \/ i = nextId /\ nextId' = nextId + 1 /\ At(remote'[i].path) = {}

RemoteMoves == \/ UNCHANGED <<remote, nextId>> /\ clock' \in {clock, clock + 1}
               \/ \E i : RemoteStep(i)

\* Nothing new is entered or planned.
Quiet ==
  /\ \A r \in DOMAIN m' : \/ r \in DOMAIN m /\ m'[r] = m[r]
                          \/ r \in DOMAIN disk /\ m'[r] = disk[r]
  /\ \A r \in DOMAIN disk' : \/ r \in DOMAIN m /\ disk'[r] = m[r]
                             \/ r \in DOMAIN disk /\ disk'[r] = disk[r]
  /\ Pulls' \subseteq Pulls /\ later' \subseteq later

\* The types, field by field.
LEMMA RemoteBasics ==
  ASSUME Types
  PROVE  /\ clock \in Nat /\ nextId \in Nat
         /\ \A i \in DOMAIN remote : i \in Nat /\ i < nextId /\ remote[i].mtime \in Nat
                                     /\ remote[i].path \in Path /\ remote[i].size \in Nat
                                     /\ remote[i].data \in Int
         /\ \A r \in DOMAIN m : m[r].remoteID \in Nat /\ m[r].remoteMtime \in Nat
                                /\ m[r].size \in Nat /\ m[r].localMtime \in Nat /\ r \in Path
         /\ \A r \in DOMAIN disk : disk[r].remoteID \in Nat /\ disk[r].remoteMtime \in Nat
                                   /\ disk[r].size \in Nat /\ disk[r].localMtime \in Nat
                                   /\ r \in Path
         /\ \A r \in DOMAIN local : r \in Path /\ local[r].size \in Nat /\ local[r].mtime \in Nat
                                    /\ local[r].data \in Int
         /\ \A it \in Pulls : it.remoteID \in Nat /\ it.remoteMtime \in Nat /\ it.rel \in Path
                              /\ it.op \in {"download", "deleteLocal"} /\ it.size \in Nat
         /\ \A it \in later : it.remoteID \in Nat /\ it.rel \in Path /\ it.mtime \in Nat
                              /\ it.size \in Nat /\ it.op \in {"upload", "overwrite", "delete"}
         /\ \A it \in DOMAIN work : work[it].size \in Nat /\ work[it].mtime \in Nat
                                    /\ work[it].data \in Int
<1>1. /\ \A f \in FileEntry : f.remoteID \in Nat /\ f.remoteMtime \in Nat /\ f.size \in Nat
                              /\ f.localMtime \in Nat
      /\ \A f \in RemoteFile : f.mtime \in Nat /\ f.path \in Path /\ f.size \in Nat /\ f.data \in Int
      /\ \A f \in LocalFile : f.size \in Nat /\ f.mtime \in Nat /\ f.data \in Int
      /\ \A w \in Progress : w.size \in Nat /\ w.mtime \in Nat /\ w.data \in Int
      /\ \A it \in PullJob : it.remoteID \in Nat /\ it.remoteMtime \in Nat /\ it.rel \in Path
                             /\ it.op \in {"download", "deleteLocal"} /\ it.size \in Nat
      /\ \A it \in PushJob : it.remoteID \in Nat /\ it.rel \in Path /\ it.mtime \in Nat
                             /\ it.size \in Nat /\ it.op \in {"upload", "overwrite", "delete"}
  BY DEF FileEntry, RemoteFile, LocalFile, Progress, PullJob, PushJob
<1>2. \A i \in DOMAIN remote : i \in Nat /\ i < nextId /\ remote[i] \in RemoteFile
  BY DEF Types, TreesTyped
<1>3. /\ \A r \in DOMAIN m : m[r] \in FileEntry /\ r \in Path
      /\ \A r \in DOMAIN disk : disk[r] \in FileEntry /\ r \in Path
      /\ \A r \in DOMAIN local : local[r] \in LocalFile /\ r \in Path
  BY DEF Types, TreesTyped, Table
<1>4. /\ Pulls \subseteq PullJob /\ later \subseteq PushJob
      /\ \A it \in DOMAIN work : work[it] \in Progress
  BY DEF Types, RunTyped, Pulls
<1> QED
  BY <1>1, <1>2, <1>3, <1>4 DEF Types, TreesTyped

\* What was known of a file stays known.
LEMMA KnowledgeKept ==
  ASSUME Types, Types', RemoteMoves, NEW id \in Nat, NEW t \in Nat
  PROVE  /\ \A r : Of(id, r) => OfNext(id, r)
         /\ Dates(id, t) => DatesNext(id, t)
<1>1. CASE UNCHANGED <<remote, nextId>> /\ clock' \in {clock, clock + 1}
  BY <1>1, RemoteBasics DEF Of, Dates, OfNext, DatesNext
<1>2. ASSUME NEW i, RemoteStep(i)
      PROVE  /\ \A r : Of(id, r) => OfNext(id, r)
             /\ Dates(id, t) => DatesNext(id, t)
  <2>1. ASSUME NEW r, Of(id, r) PROVE OfNext(id, r)
    BY <1>2, <2>1, RemoteBasics DEF Of, OfNext, RemoteStep
  <2>2. ASSUME Dates(id, t) PROVE DatesNext(id, t)
    <3>1. /\ t <= clock' /\ clock' = clock + 1 /\ t <= clock
          /\ \A j \in DOMAIN remote' \ {i} : j \in DOMAIN remote /\ remote'[j] = remote[j]
          /\ i \in DOMAIN remote' => remote'[i].mtime = clock + 1
      BY <1>2, <2>2, RemoteBasics DEF Dates, RemoteStep
    <3>2. id \in DOMAIN remote' => t <= remote'[id].mtime
      BY <2>2, <3>1, RemoteBasics DEF Dates
    <3>3. \A j \in DOMAIN remote' : remote'[j].mtime = t => j = id
      BY <2>2, <3>1, RemoteBasics DEF Dates
    <3> QED
      BY <3>1, <3>2, <3>3 DEF DatesNext
  <2> QED
    BY <2>1, <2>2
<1> QED
  BY <1>1, <1>2 DEF RemoteMoves

\* Remote files keep paths and dates of their own.
LEMMA FolderKept ==
  ASSUME Types, Types', RemoteKnown, RemoteMoves
  PROVE  /\ \A i, j \in DOMAIN remote' : remote'[i].path = remote'[j].path => i = j
         /\ \A i, j \in DOMAIN remote' : remote'[i].mtime = remote'[j].mtime => i = j
         /\ \A i \in DOMAIN remote' : remote'[i].mtime <= clock'
<1>1. CASE UNCHANGED <<remote, nextId>> /\ clock' \in {clock, clock + 1}
  BY <1>1, RemoteBasics DEF RemoteKnown
<1>2. ASSUME NEW i, RemoteStep(i)
      PROVE  /\ \A a, b \in DOMAIN remote' : remote'[a].path = remote'[b].path => a = b
             /\ \A a, b \in DOMAIN remote' : remote'[a].mtime = remote'[b].mtime => a = b
             /\ \A a \in DOMAIN remote' : remote'[a].mtime <= clock'
  <2>1. /\ clock' = clock + 1
        /\ \A j \in DOMAIN remote' \ {i} : j \in DOMAIN remote /\ remote'[j] = remote[j]
        /\ i \in DOMAIN remote' => remote'[i].mtime = clock + 1
        /\ i \in DOMAIN remote' => \/ i \in DOMAIN remote /\ remote'[i].path = remote[i].path
                                   \/ \A j \in DOMAIN remote : remote[j].path # remote'[i].path
    BY <1>2 DEF RemoteStep, At
  <2>2. \A a \in DOMAIN remote : remote[a].mtime <= clock
    BY DEF RemoteKnown
  <2>3. \A a \in DOMAIN remote' : remote'[a].mtime <= clock'
    BY <2>1, <2>2, RemoteBasics
  <2>4. \A a, b \in DOMAIN remote' : remote'[a].mtime = remote'[b].mtime => a = b
    BY <2>1, <2>2, RemoteBasics DEF RemoteKnown
  <2>5. \A a, b \in DOMAIN remote' : remote'[a].path = remote'[b].path => a = b
    BY <2>1 DEF RemoteKnown
  <2> QED
    BY <2>3, <2>4, <2>5
<1> QED
  BY <1>1, <1>2 DEF RemoteMoves

\* Entries that were known of stay so.
LEMMA EntriesKept ==
  ASSUME Types, Types', RemoteKnown, RemoteMoves
  PROVE  /\ \A r \in DOMAIN m : /\ OfNext(m[r].remoteID, r)
                                /\ DatesNext(m[r].remoteID, m[r].remoteMtime)
         /\ \A r \in DOMAIN disk : /\ OfNext(disk[r].remoteID, r)
                                   /\ DatesNext(disk[r].remoteID, disk[r].remoteMtime)
         /\ \A it \in Pulls : it.op = "download" =>
              OfNext(it.remoteID, it.rel) /\ DatesNext(it.remoteID, it.remoteMtime)
         /\ \A it \in later : it.op # "upload" => OfNext(it.remoteID, it.rel)
  BY RemoteBasics, KnowledgeKept DEF RemoteKnown, Entries

\* What a step enters and plans is to be known of, the rest is.
LEMMA KnownAfter ==
  ASSUME Types, Types', RemoteKnown, RemoteMoves,
         \A r \in DOMAIN m' : /\ OfNext(m'[r].remoteID, r)
                              /\ DatesNext(m'[r].remoteID, m'[r].remoteMtime),
         \A r \in DOMAIN disk' : /\ OfNext(disk'[r].remoteID, r)
                                 /\ DatesNext(disk'[r].remoteID, disk'[r].remoteMtime),
         \A it \in Pulls' : it.op = "download" =>
           OfNext(it.remoteID, it.rel) /\ DatesNext(it.remoteID, it.remoteMtime),
         \A it \in later' : it.op # "upload" => OfNext(it.remoteID, it.rel)
  PROVE  RemoteKnown'
  BY FolderKept DEF RemoteKnown, Entries, Of, Dates, OfNext, DatesNext

\* A step that enters and plans nothing new leaves what is known as it was.
LEMMA QuietKept ==
  ASSUME Types, Types', RemoteKnown, RemoteMoves, Quiet
  PROVE  RemoteKnown'
<1>1. \A r \in DOMAIN m' : /\ OfNext(m'[r].remoteID, r)
                           /\ DatesNext(m'[r].remoteID, m'[r].remoteMtime)
  BY EntriesKept DEF Quiet
<1>2. \A r \in DOMAIN disk' : /\ OfNext(disk'[r].remoteID, r)
                              /\ DatesNext(disk'[r].remoteID, disk'[r].remoteMtime)
  BY EntriesKept DEF Quiet
<1>3. /\ \A it \in Pulls' : it.op = "download" =>
           OfNext(it.remoteID, it.rel) /\ DatesNext(it.remoteID, it.remoteMtime)
      /\ \A it \in later' : it.op # "upload" => OfNext(it.remoteID, it.rel)
  BY EntriesKept DEF Quiet
<1> QED
  BY <1>1, <1>2, <1>3, KnownAfter

\* The start: a pull has entered the remote files, or nothing is entered.
LEMMA InitKnown ==
  ASSUME Init
  PROVE  RemoteKnown
<1> DEFINE n == Len(StartPaths)
<1>1. /\ StartPaths \in [1..n -> Rels] /\ n \in Nat /\ DOMAIN StartPaths = 1..n
      /\ \A i, j \in 1..n : StartPaths[i] = StartPaths[j] => i = j
  BY PullAssumption
<1>2. remote = [i \in 1..n |-> [path |-> StartPaths[i], size |-> 1, mtime |-> i, data |-> i]]
  BY <1>1 DEF Init
<1>3. nextId = n + 1 /\ clock = n /\ m = disk
  BY DEF Init
<1>4. PICK synced \in SyncedStarts :
        LET pulled == {i \in DOMAIN StartPaths : synced}
            Nth(r) == CHOOSE i \in pulled : StartPaths[i] = r
            paths  == {StartPaths[i] : i \in pulled}
        IN disk = [r \in paths |-> Entry(1, Nth(r), Nth(r), Nth(r))]
  BY DEF Init
<1> DEFINE pulled == {i \in 1..n : synced}
           Nth(r) == CHOOSE i \in pulled : StartPaths[i] = r
           paths  == {StartPaths[i] : i \in pulled}
<1>5. disk = [r \in paths |-> Entry(1, Nth(r), Nth(r), Nth(r))]
  BY <1>1, <1>4
<1>6. ASSUME NEW r \in paths
      PROVE  Nth(r) \in 1..n /\ StartPaths[Nth(r)] = r /\ r \in Rels
  <2>1. \E i \in pulled : StartPaths[i] = r
    OBVIOUS
  <2>2. Nth(r) \in pulled /\ StartPaths[Nth(r)] = r
    BY <2>1
  <2> QED
    BY <1>1, <2>2
<1> HIDE DEF Nth, paths
<1>7. ASSUME NEW r \in DOMAIN disk
      PROVE  Of(disk[r].remoteID, r) /\ Dates(disk[r].remoteID, disk[r].remoteMtime)
  <2>1. disk[r].remoteID = Nth(r) /\ disk[r].remoteMtime = Nth(r) /\ r \in paths
    BY <1>5, <1>7 DEF Entry
  <2>2. Nth(r) \in 1..n /\ StartPaths[Nth(r)] = r
    BY <1>6, <2>1
  <2> QED
    BY <1>1, <1>2, <1>3, <2>1, <2>2 DEF Of, Dates
<1>8. Pulls = {} /\ later = {}
  BY DEF Init, Pulls, Empty
<1>9. /\ \A i, j \in DOMAIN remote : remote[i].path = remote[j].path => i = j
      /\ \A i, j \in DOMAIN remote : remote[i].mtime = remote[j].mtime => i = j
      /\ \A i \in DOMAIN remote : remote[i].mtime <= clock
  BY <1>1, <1>2, <1>3
<1> QED
  BY <1>3, <1>7, <1>8, <1>9 DEF RemoteKnown, Entries

\* Steps that neither enter nor plan anything.
LEMMA EnvironmentMoves ==
  ASSUME Types, Environment
  PROVE  RemoteMoves /\ Quiet /\ UNCHANGED <<m, disk, run>>
<1>1. ASSUME NEW r \in Rels, LocalWrite(r) \/ LocalRemove(r)
      PROVE  RemoteMoves /\ UNCHANGED <<m, disk, run>>
  BY <1>1, LocalEditFacts DEF RemoteMoves
<1>2. ASSUME NEW r, NEW i,
             \/ r \in Rels /\ ForeignCreate(r) /\ i = nextId
             \/ i \in DOMAIN remote /\ (ForeignWrite(i) \/ ForeignRemove(i))
      PROVE  RemoteMoves /\ UNCHANGED <<m, disk, run>>
  <2>0. /\ \A q \in Rels : q \in Path
        /\ i \in DOMAIN remote => remote[i].path \in Path
    BY PullAssumption, RemoteBasics DEF Path
  <2>1. CASE /\ r \in Rels /\ i = nextId /\ nextId' = nextId + 1 /\ At(r) = {}
             /\ \E s \in Sizes : remote' = Set(remote, i, OnServer(r, Written(s)))
    <3>1. PICK s \in Sizes : remote' = Set(remote, i, OnServer(r, Written(s)))
      BY <2>1
    <3>2. OnServer(r, Written(s)).mtime = clock + 1 /\ OnServer(r, Written(s)).path = r
      BY <2>0, <2>1, WrittenFacts
    <3>3. /\ \A j \in DOMAIN remote' \ {i} : j \in DOMAIN remote /\ remote'[j] = remote[j]
          /\ remote'[i] = OnServer(r, Written(s))
      BY <3>1 DEF Set
    <3> QED
      BY <1>2, <2>1, <3>2, <3>3, ForeignFacts DEF RemoteMoves, RemoteStep
  <2>2. CASE /\ i \in DOMAIN remote /\ nextId' = nextId
             /\ \E s \in Sizes : remote' = Set(remote, i, OnServer(remote[i].path, Written(s)))
    <3>1. PICK s \in Sizes : remote' = Set(remote, i, OnServer(remote[i].path, Written(s)))
      BY <2>2
    <3>2. /\ OnServer(remote[i].path, Written(s)).mtime = clock + 1
          /\ OnServer(remote[i].path, Written(s)).path = remote[i].path
      BY <2>0, <2>2, WrittenFacts
    <3>3. /\ \A j \in DOMAIN remote' \ {i} : j \in DOMAIN remote /\ remote'[j] = remote[j]
          /\ remote'[i] = OnServer(remote[i].path, Written(s))
      BY <3>1 DEF Set
    <3> QED
      BY <1>2, <2>2, <3>2, <3>3, ForeignFacts DEF RemoteMoves, RemoteStep
  <2>3. CASE i \in DOMAIN remote /\ nextId' = nextId /\ remote' = Delete(remote, i)
    <3>1. /\ \A j \in DOMAIN remote' \ {i} : j \in DOMAIN remote /\ remote'[j] = remote[j]
          /\ i \notin DOMAIN remote'
      BY <2>3 DEF Delete
    <3> QED
      BY <1>2, <2>3, <3>1, ForeignFacts DEF RemoteMoves, RemoteStep
  <2> QED
    BY <1>2, <2>1, <2>2, <2>3, ForeignFacts
<1>3. RemoteMoves /\ UNCHANGED <<m, disk, run>>
  BY <1>1, <1>2 DEF Environment
<1> QED
  BY <1>3 DEF Quiet, Pulls, run

\* A step of an executor is one of these two.
LEMMA StepShape ==
  ASSUME Types, NEW it \in DOMAIN work, Step(it)
  PROVE  /\ OnlyProgress(it)
         /\ DOMAIN work' = DOMAIN work
         /\ RemoteMoves /\ Quiet
<1>1. OnlyProgress(it)
  BY OpenStreamFacts, CreateTmpFacts, CopyFacts, RenameFacts, StatFacts, RemoveLocalFacts
     DEF Step
<1>2. DOMAIN work' = DOMAIN work
  BY <1>1 DEF OnlyProgress
<1> QED
  BY <1>1, <1>2 DEF OnlyProgress, RemoteMoves, Quiet, Pulls

\* What enters the manifest after a pull item.
LEMMA RecordedFacts ==
  ASSUME Types, NEW it \in DOMAIN work
  PROVE  \A r \in DOMAIN Recorded(it) :
           \/ r \in DOMAIN m /\ Recorded(it)[r] = m[r] /\ r # it.rel
           \/ /\ r = it.rel /\ it.op = "download"
              /\ Recorded(it)[r] = Entry(work[it].size, work[it].mtime, it.remoteID,
                                         it.remoteMtime)
<1>1. it.op \in {"download", "deleteLocal"}
  BY RemoteBasics DEF Pulls
<1>2. CASE it.op = "deleteLocal"
  BY <1>2 DEF Recorded, Delete
<1>3. CASE it.op = "download"
  BY <1>1, <1>3 DEF Recorded, Set
<1> QED
  BY <1>1, <1>2, <1>3

\* Collecting is no change of the remote folder.
LEMMA CollectMoves ==
  ASSUME Types, NEW it \in DOMAIN work, Collect(it)
  PROVE  /\ UNCHANGED <<remote, nextId, clock, later>> /\ RemoteMoves
         /\ Pulls' \subseteq Pulls
  BY DropFacts DEF Collect, RemoteMoves, Pulls

\* A collected download is entered with the id and date of its plan.
LEMMA CollectKnown ==
  ASSUME Types, Types', RemoteKnown, NEW it \in DOMAIN work, Collect(it)
  PROVE  RemoteKnown'
<1>1. \A r \in DOMAIN m' : /\ OfNext(m'[r].remoteID, r)
                           /\ DatesNext(m'[r].remoteID, m'[r].remoteMtime)
  <2>1. m' = Recorded(it)
    BY DEF Collect
  <2> SUFFICES ASSUME NEW r \in DOMAIN m'
               PROVE  /\ OfNext(m'[r].remoteID, r)
                      /\ DatesNext(m'[r].remoteID, m'[r].remoteMtime)
    OBVIOUS
  <2>2. CASE r \in DOMAIN m /\ m'[r] = m[r]
    BY <2>2, EntriesKept, CollectMoves
  <2>3. CASE /\ r = it.rel /\ it.op = "download"
             /\ m'[r] = Entry(work[it].size, work[it].mtime, it.remoteID, it.remoteMtime)
    <3>1. m'[r].remoteID = it.remoteID /\ m'[r].remoteMtime = it.remoteMtime
      BY <2>3 DEF Entry
    <3>2. it \in Pulls
      BY DEF Pulls
    <3> QED
      BY <2>3, <3>1, <3>2, EntriesKept, CollectMoves
  <2> QED
    BY <2>1, <2>2, <2>3, RecordedFacts
<1>2. \A r \in DOMAIN disk' : /\ OfNext(disk'[r].remoteID, r)
                              /\ DatesNext(disk'[r].remoteID, disk'[r].remoteMtime)
  <2>1. disk' \in {disk, m'}
    BY CheckpointFacts DEF Collect
  <2> QED
    BY <1>1, <2>1, EntriesKept, CollectMoves
<1>3. /\ \A i \in Pulls' : i.op = "download" =>
           OfNext(i.remoteID, i.rel) /\ DatesNext(i.remoteID, i.remoteMtime)
      /\ \A i \in later' : i.op # "upload" => OfNext(i.remoteID, i.rel)
  BY EntriesKept, CollectMoves
<1> QED
  BY <1>1, <1>2, <1>3, KnownAfter, CollectMoves

\* A push item changes one remote file, or none.
LEMMA PushMoves ==
  ASSUME Types, RemoteKnown, NEW it \in later, PushItem(it)
  PROVE  /\ RemoteMoves
         /\ Feasible(it) /\ it.op # "delete" /\ remote' = Pushed(it) =>
              /\ DOMAIN remote' = DOMAIN remote \cup {TargetOf(it)}
              /\ \A j \in DOMAIN remote \ {TargetOf(it)} : remote'[j] = remote[j]
              /\ remote'[TargetOf(it)].path = it.rel
              /\ remote'[TargetOf(it)].size = it.size
              /\ remote'[TargetOf(it)].mtime = clock + 1
              /\ remote'[TargetOf(it)].data = local[it.rel].data
<1>0. it.op = "overwrite" => Of(it.remoteID, it.rel)
  BY DEF RemoteKnown
<1>1. CASE UNCHANGED <<remote, nextId, clock>> /\ ~(remote' = Pushed(it) /\ Feasible(it))
  BY <1>1 DEF RemoteMoves
<1>2. CASE /\ Feasible(it) /\ remote' = Pushed(it) /\ clock' = clock + 1 /\ it.op = "delete"
           /\ nextId' = IF TargetOf(it) = nextId THEN nextId + 1 ELSE nextId
  <2>1. remote' = Delete(remote, it.remoteID)
    BY <1>2, PushedFacts
  <2>2. RemoteStep(it.remoteID)
    BY <1>2, <2>1 DEF RemoteStep, Delete
  <2> QED
    BY <1>2, <2>2 DEF RemoteMoves
<1>3. ASSUME Feasible(it), remote' = Pushed(it), it.op # "delete"
      PROVE  /\ DOMAIN remote' = DOMAIN remote \cup {TargetOf(it)}
             /\ \A j \in DOMAIN remote \ {TargetOf(it)} : remote'[j] = remote[j]
             /\ remote'[TargetOf(it)].path = it.rel
             /\ remote'[TargetOf(it)].path = IF TargetOf(it) \in DOMAIN remote
                                             THEN remote[TargetOf(it)].path ELSE it.rel
             /\ remote'[TargetOf(it)].size = it.size
             /\ remote'[TargetOf(it)].mtime = clock + 1
             /\ remote'[TargetOf(it)].data = local[it.rel].data
  <2>1. PICK f \in RemoteFile :
                /\ Pushed(it) = Set(remote, TargetOf(it), f)
                /\ f.path = IF TargetOf(it) \in DOMAIN remote THEN remote[TargetOf(it)].path
                            ELSE it.rel
                /\ f.size = it.size /\ f.mtime = clock + 1 /\ f.data = local[it.rel].data
    BY <1>3, PushedFacts
  <2>2. /\ DOMAIN remote' = DOMAIN remote \cup {TargetOf(it)}
        /\ \A j \in DOMAIN remote \ {TargetOf(it)} : remote'[j] = remote[j]
        /\ remote'[TargetOf(it)] = f
    BY <1>3, <2>1 DEF Set
  <2>3. TargetOf(it) \in DOMAIN remote => remote[TargetOf(it)].path = it.rel
    BY <1>0, <1>3, TargetFacts, RemoteBasics DEF Of, At
  <2> QED
    BY <2>1, <2>2, <2>3
<1>4. CASE /\ Feasible(it) /\ remote' = Pushed(it) /\ clock' = clock + 1 /\ it.op # "delete"
           /\ nextId' = IF TargetOf(it) = nextId THEN nextId + 1 ELSE nextId
  <2> DEFINE t == TargetOf(it)
  <2>1. \/ t \in DOMAIN remote /\ t # nextId
        \/ At(it.rel) = {} /\ t = nextId /\ t \notin DOMAIN remote
    BY <1>4, TargetFacts, RemoteBasics
  <2>2. /\ \A j \in DOMAIN remote' \ {t} : j \in DOMAIN remote /\ remote'[j] = remote[j]
        /\ remote'[t].mtime = clock + 1 /\ remote'[t].path = it.rel
        /\ t \in DOMAIN remote => remote'[t].path = remote[t].path
    BY <1>3, <1>4
  <2> HIDE DEF t
  <2>3. nextId' = IF t = nextId THEN nextId + 1 ELSE nextId
    BY <1>4 DEF t
  <2>4. RemoteStep(t)
    BY <1>4, <2>1, <2>2, <2>3, RemoteBasics DEF RemoteStep
  <2> QED
    BY <1>3, <1>4, <2>4 DEF RemoteMoves
<1>5. CASE UNCHANGED <<remote, nextId, clock>>
  BY <1>3, <1>5 DEF RemoteMoves
<1> QED
  BY <1>2, <1>4, <1>5, PushItemShape

\* What enters the manifest after a push item.
LEMMA PushRecordedFacts ==
  ASSUME Types, NEW it \in later
  PROVE  \A r \in DOMAIN PushRecorded(it) :
           \/ r \in DOMAIN m /\ PushRecorded(it)[r] = m[r] /\ r # it.rel
           \/ /\ r = it.rel /\ it.op # "delete"
              /\ PushRecorded(it)[r] = Entry(it.size, it.mtime, TargetOf(it), clock + 1)
<1>1. CASE it.op = "delete"
  BY <1>1 DEF PushRecorded, Delete
<1>2. CASE it.op # "delete"
  BY <1>2 DEF PushRecorded, Set
<1> QED
  BY <1>1, <1>2

\* A pushed file is entered with the id and date it got.
LEMMA PushKnown ==
  ASSUME Types, Types', RemoteKnown, NEW it \in later, PushItem(it)
  PROVE  RemoteKnown'
<1>0. RemoteMoves /\ Pulls' = Pulls /\ later' \subseteq later
  BY PushMoves, PushItemShape DEF Pulls
<1>1. \A r \in DOMAIN m' : /\ OfNext(m'[r].remoteID, r)
                           /\ DatesNext(m'[r].remoteID, m'[r].remoteMtime)
  <2> SUFFICES ASSUME NEW r \in DOMAIN m'
               PROVE  /\ OfNext(m'[r].remoteID, r)
                      /\ DatesNext(m'[r].remoteID, m'[r].remoteMtime)
    OBVIOUS
  <2>1. CASE r \in DOMAIN m /\ m'[r] = m[r]
    BY <1>0, <2>1, EntriesKept
  <2>2. CASE /\ r = it.rel /\ it.op # "delete" /\ Feasible(it) /\ remote' = Pushed(it)
             /\ clock' = clock + 1
             /\ nextId' = IF TargetOf(it) = nextId THEN nextId + 1 ELSE nextId
             /\ m'[r] = Entry(it.size, it.mtime, TargetOf(it), clock + 1)
    <3> DEFINE t == TargetOf(it)
    <3>1. m'[r].remoteID = t /\ m'[r].remoteMtime = clock + 1
      BY <2>2 DEF Entry
    <3>2. /\ t \in DOMAIN remote' /\ remote'[t].path = r /\ remote'[t].mtime = clock + 1
          /\ \A j \in DOMAIN remote' \ {t} : j \in DOMAIN remote /\ remote'[j] = remote[j]
      BY <2>2, PushMoves
    <3>3. \A j \in DOMAIN remote : remote[j].mtime <= clock /\ remote[j].mtime \in Nat
      BY RemoteBasics DEF RemoteKnown
    <3>4. t < nextId'
      BY <2>2, TargetFacts, RemoteBasics
    <3> HIDE DEF t
    <3>5. OfNext(t, r) /\ DatesNext(t, clock + 1)
      BY <2>2, <3>2, <3>3, <3>4, RemoteBasics DEF OfNext, DatesNext
    <3> QED
      BY <3>1, <3>5
  <2> QED
    BY <2>1, <2>2, PushItemShape, PushRecordedFacts
<1>2. \A r \in DOMAIN disk' : /\ OfNext(disk'[r].remoteID, r)
                              /\ DatesNext(disk'[r].remoteID, disk'[r].remoteMtime)
  <2>1. disk' \in {disk, m'}
    BY PushItemShape
  <2> QED
    BY <1>0, <1>1, <2>1, EntriesKept
<1>3. /\ \A i \in Pulls' : i.op = "download" =>
           OfNext(i.remoteID, i.rel) /\ DatesNext(i.remoteID, i.remoteMtime)
      /\ \A i \in later' : i.op # "upload" => OfNext(i.remoteID, i.rel)
  BY <1>0, EntriesKept
<1> QED
  BY <1>0, <1>1, <1>2, <1>3, KnownAfter

\* What a run starts with.
LEMMA BeginFacts ==
  ASSUME Types, NEW o \in Options, Begin(o)
  PROVE  /\ UNCHANGED <<local, remote, nextId, disk, work, since, failures, clock, edits,
                        foreign, troubles, touched, restamped, unsaved>>
         /\ phase = "idle" /\ phase' = "pull" /\ opts' = o /\ m = disk /\ m' = Base(o)
         /\ waiting' = PullItems(o) /\ later' = PushItems(o)
         /\ DOMAIN work = {} /\ Pulls' = PullItems(o) /\ Pulls = {} /\ later = {}
         /\ adopted' = adopted \cup (DOMAIN Base(o) \ DOMAIN disk)
         /\ late' = {} /\ lateIds' = {} /\ clean' = "no" /\ skipped' = Plan(o).conflicts
         /\ o \in Option /\ TreesTyped
<1>1. DOMAIN work = {} /\ waiting = {} /\ later = {} /\ m = disk
  BY DEF Begin, Types, Phases
<1> QED
  BY <1>1, PullAssumption DEF Begin, Pulls, Types

\* An entry of the index is known.
LEMMA IndexKnown ==
  ASSUME Types, RemoteKnown, NEW r \in DOMAIN Index
  PROVE  Of(Index[r].id, r) /\ Dates(Index[r].id, Index[r].mtime)
<1>1. /\ Index[r].id \in DOMAIN remote /\ remote[Index[r].id].path = r
      /\ Index[r].mtime = remote[Index[r].id].mtime
  BY IndexFacts DEF Types
<1> QED
  BY <1>1, RemoteBasics DEF Of, Dates, RemoteKnown

\* Items name the files of the index.
LEMMA BeginKnown ==
  ASSUME Types, Types', RemoteKnown, NEW o \in Options, Begin(o)
  PROVE  RemoteKnown'
<1>0. /\ RemoteMoves
      /\ \A id, r : Of(id, r) => OfNext(id, r)
      /\ \A id, t : Dates(id, t) => DatesNext(id, t)
  BY BeginFacts DEF RemoteMoves, Of, OfNext, Dates, DatesNext
<1>1. ASSUME NEW r \in DOMAIN m'
      PROVE  /\ OfNext(m'[r].remoteID, r)
             /\ DatesNext(m'[r].remoteID, m'[r].remoteMtime)
  <2>0. m' = Base(o) /\ TreesTyped
    BY BeginFacts
  <2>1. CASE r \in DOMAIN disk
    <3>1. m' = disk
      BY <2>0, <2>1, BaseFacts
    <3> QED
      BY <1>0, <2>1, <3>1 DEF RemoteKnown, Entries
  <2>2. CASE r \notin DOMAIN disk
    <3>1. /\ r \in DOMAIN Index
          /\ m'[r] = Entry(Index[r].size, local[r].mtime, Index[r].id, Index[r].mtime)
      BY <1>1, <2>0, <2>2, BaseFacts
    <3>2. m'[r].remoteID = Index[r].id /\ m'[r].remoteMtime = Index[r].mtime
      BY <3>1 DEF Entry
    <3> QED
      BY <1>0, <3>1, <3>2, IndexKnown
  <2> QED
    BY <2>1, <2>2
<1>2. \A r \in DOMAIN disk' : /\ OfNext(disk'[r].remoteID, r)
                              /\ DatesNext(disk'[r].remoteID, disk'[r].remoteMtime)
  BY <1>0, BeginFacts, EntriesKept
<1>3. ASSUME NEW it \in Pulls', it.op = "download"
      PROVE  OfNext(it.remoteID, it.rel) /\ DatesNext(it.remoteID, it.remoteMtime)
  <2>1. it \in PullItems(o)
    BY BeginFacts
  <2>2. it.rel \in DOMAIN Index /\ it = DownloadItem(it.rel, Index[it.rel])
    BY <1>3, <2>1, BeginFacts, PullItemFacts DEF DeleteLocalItem
  <2>3. it.remoteID = Index[it.rel].id /\ it.remoteMtime = Index[it.rel].mtime
    BY <2>2 DEF DownloadItem
  <2> QED
    BY <1>0, <2>2, <2>3, IndexKnown
<1>4. ASSUME NEW it \in later', it.op # "upload"
      PROVE  OfNext(it.remoteID, it.rel)
  <2>1. it \in PushItems(o)
    BY BeginFacts
  <2>2. it.rel \in DOMAIN Base(o) /\ it.remoteID = Base(o)[it.rel].remoteID
    BY <1>4, <2>1, BeginFacts, PushItemFacts DEF UploadItem, OverwriteItem, DeleteItem
  <2> QED
    BY <1>1, <2>2, BeginFacts
<1> QED
  BY <1>0, <1>1, <1>2, <1>3, <1>4, KnownAfter

\* The steps that neither enter nor plan anything.
LEMMA OtherMoves ==
  ASSUME Types,
         \/ Environment
         \/ \E o \in Options : BeginStops(o)
         \/ \E it \in waiting : Take(it)
         \/ \E it \in DOMAIN work : Step(it) \/ CollectFailure(it)
         \/ PullHalfDone \/ Finish \/ Crash \/ UNCHANGED vars
  PROVE  RemoteMoves /\ Quiet
<1>1. CASE Environment
  BY <1>1, EnvironmentMoves
<1>2. CASE (\E o \in Options : BeginStops(o)) \/ UNCHANGED vars
  BY <1>2 DEF BeginStops, RemoteMoves, Quiet, Pulls, run, vars, bounds
<1>3. CASE \E it \in waiting : Take(it)
  BY <1>3, TakeFacts DEF RemoteMoves, Quiet, Pulls, bounds
<1>4. CASE \E it \in DOMAIN work : Step(it)
  BY <1>4, StepShape
<1>5. CASE \E it \in DOMAIN work : CollectFailure(it)
  BY <1>5, DropFacts DEF CollectFailure, RemoteMoves, Quiet, Pulls, bounds
<1>6. CASE PullHalfDone
  BY <1>6 DEF PullHalfDone, RemoteMoves, Quiet, Pulls, bounds
<1>7. CASE Finish \/ Crash
  BY <1>7 DEF Finish, Crash, Abandon, Empty, RemoteMoves, Quiet, Pulls
<1> QED
  BY <1>1, <1>2, <1>3, <1>4, <1>5, <1>6, <1>7

\* No step changes more than one remote file, and a change has a date of its own.
LEMMA NextMoves ==
  ASSUME Types, RemoteKnown, [Next]_vars
  PROVE  RemoteMoves
<1>1. ASSUME NEW o \in Options, Begin(o) PROVE RemoteMoves
  BY <1>1, BeginFacts DEF RemoteMoves
<1>2. ASSUME NEW it \in DOMAIN work, Collect(it) PROVE RemoteMoves
  BY <1>2, CollectMoves
<1>3. ASSUME NEW it \in later, PushItem(it) PROVE RemoteMoves
  BY <1>3, PushMoves
<1> QED
  BY <1>1, <1>2, <1>3, OtherMoves DEF Next

\* In every reachable state remote files have a path and a date of their own, and an
\* entry or an item names the one file that had its path and its date.
THEOREM RemoteKnownAlways == Spec => []RemoteKnown
<1>1. Init => RemoteKnown
  BY InitKnown
<1>2. Types /\ Types' /\ RemoteKnown /\ [Next]_vars => RemoteKnown'
  BY BeginKnown, CollectKnown, PushKnown, OtherMoves, QuietKept DEF Next
<1> QED
  BY <1>1, <1>2, TypesAlways, PTL DEF Spec

-----------------------------------------------------------------------------
(* Downloads and the entries they leave                                     *)

NoTwins ==
  \A it \in DOMAIN work : it.op = "download" =>
     TmpOf(it.rel) \notin Rels \cup DOMAIN m \cup DOMAIN disk
                          \cup {other.rel : other \in DOMAIN work}

\* t is later than any entry of r
Newer(r, t) == /\ r \in DOMAIN m => m[r].localMtime < t
               /\ r \in DOMAIN disk => disk[r].localMtime < t

NewerNext(r, t) == /\ r \in DOMAIN m' => m'[r].localMtime < t
                   /\ r \in DOMAIN disk' => disk'[r].localMtime < t

\* An entry is not of a later date than the file it is of.
AgedAt(r) ==
  /\ r \in DOMAIN local => local[r].mtime <= clock
  /\ r \in DOMAIN m => /\ m[r].localMtime <= clock
                       /\ r \in DOMAIN local => m[r].localMtime <= local[r].mtime
  /\ r \in DOMAIN disk => /\ disk[r].localMtime <= clock
                          /\ r \in DOMAIN local => disk[r].localMtime <= local[r].mtime

LocalDates ==
  /\ \A r \in Path : AgedAt(r)
  /\ \A it \in later : it.op # "delete" =>
       /\ it.mtime <= clock
       /\ it.rel \in DOMAIN local => it.mtime <= local[it.rel].mtime

\* while remote has the version planned, it is what was streamed
Streamed(it) ==
  LET id == it.remoteID IN
  id \in DOMAIN remote /\ remote[id].mtime = it.remoteMtime =>
     remote[id].data = work[it].data /\ remote[id].size = work[it].size

\* what the temporary file of a download holds
InTmp(it) ==
  LET tmp == TmpOf(it.rel) IN
  /\ work[it].at = "copy" => tmp \in DOMAIN local /\ local[tmp].data = -work[it].data
  /\ work[it].at = "rename" =>
       /\ tmp \in DOMAIN local
       /\ local[tmp].data = work[it].data /\ local[tmp].size = work[it].size
       /\ Newer(it.rel, local[tmp].mtime)

Holds(r, w) == r \in DOMAIN local /\ local[r].data = w.data /\ local[r].size = w.size

\* what is at the path of a download, or of a removal, that is through
InPlace(it) ==
  LET r == it.rel
      w == work[it]
  IN /\ w.at \in {"stat", "done"} =>
          /\ r \in DOMAIN local => Newer(r, local[r].mtime)
          /\ r \in touched => r \in late
     /\ it.op = "download" /\ w.at = "stat" /\ r \notin touched => Holds(r, w)
     /\ it.op = "download" /\ w.at = "done" =>
          /\ w.mtime <= clock
          /\ r \in DOMAIN local => w.mtime <= local[r].mtime
          /\ r \notin touched => Holds(r, w) /\ local[r].mtime = w.mtime
          /\ r \notin restamped /\ r \in DOMAIN local /\ local[r].mtime = w.mtime => Holds(r, w)

Staged(it) ==
  /\ it.op = "download" /\ work[it].at \in {"create", "copy", "rename", "stat", "done"} =>
       Streamed(it)
  /\ it.op = "download" => InTmp(it)
  /\ InPlace(it)

Stages == \A it \in DOMAIN work : Staged(it)

\* A planned removal of a remote file is of the one the entry names.
Deletes ==
  \A it \in later : it.op = "delete" =>
    /\ it.rel \in DOMAIN m => m[it.rel].remoteID = it.remoteID
    /\ it.rel \in DOMAIN disk => disk[it.rel].remoteID = it.remoteID

\* The entry e of r, unless it is exempt, vouches for the content.
Backs(e, r) ==
  /\ r \in DOMAIN local /\ r \notin adopted \cup (restamped \cap touched)
  /\ ~Touched(local[r], e)
  /\ e.remoteID \in DOMAIN remote /\ ~RemoteTouched(remote[e.remoteID], e)
  => remote[e.remoteID].data = local[r].data

Vouched == /\ \A r \in DOMAIN m : Backs(m[r], r)
           /\ \A r \in DOMAIN disk : Backs(disk[r], r)

LocalKnown == LocalDates /\ Stages /\ Deletes /\ Vouched

\* the same after the step
BacksNext(e, r) ==
  /\ r \in DOMAIN local' /\ r \notin adopted' \cup (restamped' \cap touched')
  /\ ~Touched(local'[r], e)
  /\ e.remoteID \in DOMAIN remote' /\ ~RemoteTouched(remote'[e.remoteID], e)
  => remote'[e.remoteID].data = local'[r].data

\* the file at r is left alone
SameFile(r) == /\ r \in DOMAIN local' <=> r \in DOMAIN local
               /\ r \in DOMAIN local => local'[r] = local[r]

\* no entry of r is new
OldAt(r) == /\ r \in DOMAIN m' => \/ r \in DOMAIN m /\ m'[r] = m[r]
                                  \/ r \in DOMAIN disk /\ m'[r] = disk[r]
            /\ r \in DOMAIN disk' => \/ r \in DOMAIN m /\ disk'[r] = m[r]
                                     \/ r \in DOMAIN disk /\ disk'[r] = disk[r]

\* the date of the file at r is not set back
AgesAt(r) ==
  r \in DOMAIN local' =>
    \/ r \in DOMAIN local /\ local'[r] = local[r]
    \/ local'[r].mtime \in {clock, clock'}
    \/ Newer(r, local'[r].mtime) /\ local'[r].mtime <= clock

\* Local versions and entries are not from the future, nor an entry older than its file.
LEMMA AgedKept ==
  ASSUME Types, Types', RemoteMoves, NEW r \in Path, AgedAt(r), OldAt(r), AgesAt(r)
  PROVE  AgedAt(r)'
<1>1. clock \in Nat /\ clock' \in {clock, clock + 1}
  BY RemoteBasics DEF RemoteMoves, RemoteStep
<1>2. /\ r \in DOMAIN m => m[r].localMtime \in Nat
      /\ r \in DOMAIN disk => disk[r].localMtime \in Nat
      /\ r \in DOMAIN local => local[r].mtime \in Nat
      /\ r \in DOMAIN local' => local'[r].mtime \in Nat
  BY RemoteBasics DEF Types, TreesTyped, Table, LocalFile
<1>3. r \in DOMAIN local' => local'[r].mtime <= clock'
  BY <1>1, <1>2 DEF AgedAt, AgesAt
<1>4. ASSUME NEW e, \/ r \in DOMAIN m /\ e = m[r]
                    \/ r \in DOMAIN disk /\ e = disk[r]
      PROVE  /\ e.localMtime <= clock'
             /\ r \in DOMAIN local' => e.localMtime <= local'[r].mtime
  <2>1. e.localMtime \in Nat /\ e.localMtime <= clock
        /\ (r \in DOMAIN local => e.localMtime <= local[r].mtime)
        /\ \A t \in Nat : Newer(r, t) => e.localMtime < t
    BY <1>2, <1>4 DEF AgedAt, Newer
  <2> QED
    BY <1>1, <1>2, <2>1 DEF AgesAt
<1> QED
  BY <1>3, <1>4 DEF AgedAt, OldAt

\* An entry goes on vouching for a file that is left alone.
LEMMA BacksKept ==
  ASSUME Types, Types', RemoteMoves, NEW r, NEW e, e.remoteMtime \in Nat, e.remoteID \in Nat,
         Backs(e, r), Dates(e.remoteID, e.remoteMtime),
         r \in DOMAIN local' => r \in DOMAIN local /\ local'[r] = local[r],
         r \in adopted \cup (restamped \cap touched) =>
           r \in adopted' \cup (restamped' \cap touched')
  PROVE  BacksNext(e, r)
<1> SUFFICES ASSUME r \in DOMAIN local', r \notin adopted' \cup (restamped' \cap touched'),
                    ~Touched(local'[r], e), e.remoteID \in DOMAIN remote',
                    ~RemoteTouched(remote'[e.remoteID], e)
             PROVE  remote'[e.remoteID].data = local'[r].data
  BY DEF BacksNext
<1>1. remote'[e.remoteID].mtime = e.remoteMtime
  BY DEF RemoteTouched
<1>2. e.remoteID \in DOMAIN remote /\ remote'[e.remoteID] = remote[e.remoteID]
  BY <1>1, RemoteBasics DEF RemoteMoves, RemoteStep, Dates
<1> QED
  BY <1>2 DEF Backs

\* An entry vouches for nothing where the file is of another date, or is gone.
LEMMA BacksNothing ==
  ASSUME NEW r, NEW e, r \in DOMAIN local' => local'[r].mtime # e.localMtime
  PROVE  BacksNext(e, r)
  BY DEF BacksNext, Touched

\* An item that a step leaves alone stays at its stage, with its files as they were.
LEMMA StageKept ==
  ASSUME Types, Types', RemoteKnown, RemoteMoves, NEW it \in DOMAIN work, Staged(it),
         it \in DOMAIN work', work'[it] = work[it],
         SameFile(it.rel), it.op = "download" => SameFile(TmpOf(it.rel)), OldAt(it.rel),
         it.rel \in touched' <=> it.rel \in touched,
         it.rel \in restamped' <=> it.rel \in restamped,
         it.rel \in late => it.rel \in late'
  PROVE  Staged(it)'
<1>0. /\ clock \in Nat /\ clock' \in {clock, clock + 1}
      /\ it \in Pulls /\ it.remoteID \in Nat /\ it.remoteMtime \in Nat
      /\ work[it].mtime \in Nat
  BY RemoteBasics DEF RemoteMoves, RemoteStep, Pulls
<1>1. \A t : Newer(it.rel, t) => NewerNext(it.rel, t)
  BY DEF OldAt, Newer, NewerNext
<1>2. ASSUME it.op = "download", work[it].at \in {"create", "copy", "rename", "stat", "done"}
      PROVE  Streamed(it)'
  <2> SUFFICES ASSUME it.remoteID \in DOMAIN remote', remote'[it.remoteID].mtime = it.remoteMtime
               PROVE  /\ remote'[it.remoteID].data = work'[it].data
                      /\ remote'[it.remoteID].size = work'[it].size
    BY DEF Streamed
  <2>1. Dates(it.remoteID, it.remoteMtime) /\ Streamed(it)
    BY <1>0, <1>2 DEF RemoteKnown, Staged
  <2>2. it.remoteID \in DOMAIN remote /\ remote'[it.remoteID] = remote[it.remoteID]
    BY <1>0, <2>1, RemoteBasics DEF RemoteMoves, RemoteStep, Dates
  <2> QED
    BY <2>1, <2>2 DEF Streamed
<1>3. it.op = "download" => InTmp(it)'
  <2>1. ASSUME it.op = "download" PROVE InTmp(it)'
    <3>1. InTmp(it) /\ SameFile(TmpOf(it.rel))
      BY <2>1 DEF Staged
    <3> QED
      BY <1>1, <3>1 DEF InTmp, SameFile, Newer, NewerNext
  <2> QED
    BY <2>1
<1>4. InPlace(it)'
  <2>1. InPlace(it) /\ SameFile(it.rel)
    BY DEF Staged
  <2>3. work'[it].at \in {"stat", "done"} =>
          /\ it.rel \in DOMAIN local' => NewerNext(it.rel, local'[it.rel].mtime)
          /\ it.rel \in touched' => it.rel \in late'
    BY <1>1, <2>1 DEF InPlace, SameFile
  <2>4. it.op = "download" /\ work'[it].at = "stat" /\ it.rel \notin touched' =>
          Holds(it.rel, work[it])
    BY <2>1 DEF InPlace
  <2>5. it.op = "download" /\ work'[it].at = "done" =>
          /\ work[it].mtime <= clock'
          /\ it.rel \in DOMAIN local' => work[it].mtime <= local'[it.rel].mtime
          /\ it.rel \notin touched' => Holds(it.rel, work[it]) /\ local'[it.rel].mtime = work[it].mtime
          /\ it.rel \notin restamped' /\ it.rel \in DOMAIN local'
             /\ local'[it.rel].mtime = work[it].mtime => Holds(it.rel, work[it])
    BY <1>0, <2>1 DEF InPlace, SameFile, Holds
  <2> QED
    BY <2>1, <2>3, <2>4, <2>5 DEF InPlace, SameFile, Holds, Newer, NewerNext
<1> QED
  BY <1>2, <1>3, <1>4 DEF Staged

\* A step that enters nothing new leaves entries that were there before.
LEMMA QuietOld ==
  ASSUME Quiet
  PROVE  \A r : OldAt(r)
  BY DEF Quiet, OldAt

\* Entries that are kept vouch on, if nothing happens to their file and its exemption.
LEMMA OldBacks ==
  ASSUME Types, Types', RemoteKnown, RemoteMoves, Vouched, NEW r, OldAt(r),
         r \in DOMAIN local' => r \in DOMAIN local /\ local'[r] = local[r],
         r \in adopted \cup (restamped \cap touched) =>
           r \in adopted' \cup (restamped' \cap touched')
  PROVE  /\ r \in DOMAIN m' => BacksNext(m'[r], r)
         /\ r \in DOMAIN disk' => BacksNext(disk'[r], r)
<1>1. ASSUME NEW e, \/ r \in DOMAIN m /\ e = m[r]
                    \/ r \in DOMAIN disk /\ e = disk[r]
      PROVE  BacksNext(e, r)
  <2>1. e.remoteMtime \in Nat /\ e.remoteID \in Nat
    BY <1>1, RemoteBasics
  <2>2. Dates(e.remoteID, e.remoteMtime)
    BY <1>1 DEF RemoteKnown, Entries
  <2>3. Backs(e, r)
    BY <1>1 DEF Vouched
  <2> QED
    BY <2>1, <2>2, <2>3, BacksKept
<1> QED
  BY <1>1 DEF OldAt

\* Vouched, entry by entry.
LEMMA VouchedAfter ==
  ASSUME \A r \in DOMAIN m' : BacksNext(m'[r], r),
         \A r \in DOMAIN disk' : BacksNext(disk'[r], r)
  PROVE  Vouched'
  BY DEF Vouched, Backs, BacksNext

\* Entries that were there before keep what the push deletes rest on.
LEMMA OldDeletes ==
  ASSUME Types, Deletes, later' \subseteq later, \A it \in later' : OldAt(it.rel)
  PROVE  Deletes'
<1> SUFFICES ASSUME NEW it \in later', it.op = "delete"
             PROVE  /\ it.rel \in DOMAIN m' => m'[it.rel].remoteID = it.remoteID
                    /\ it.rel \in DOMAIN disk' => disk'[it.rel].remoteID = it.remoteID
  BY DEF Deletes
<1>1. /\ it \in later
      /\ it.rel \in DOMAIN m => m[it.rel].remoteID = it.remoteID
      /\ it.rel \in DOMAIN disk => disk[it.rel].remoteID = it.remoteID
  BY DEF Deletes
<1> QED
  BY <1>1 DEF OldAt

\* Entries and items that are kept stay older than their files.
LEMMA OldDates ==
  ASSUME Types, Types', RemoteMoves, LocalDates, later' \subseteq later,
         \A r \in Path : OldAt(r) /\ AgesAt(r),
         \A it \in later' : it.rel \in DOMAIN local' =>
            \/ it.rel \in DOMAIN local /\ local'[it.rel] = local[it.rel]
            \/ local'[it.rel].mtime \in {clock, clock'}
  PROVE  LocalDates'
<1>1. \A r \in Path : AgedAt(r)'
  BY AgedKept DEF LocalDates
<1>2. clock \in Nat /\ clock' \in {clock, clock + 1}
  BY RemoteBasics DEF RemoteMoves, RemoteStep
<1>3. ASSUME NEW it \in later', it.op # "delete"
      PROVE  /\ it.mtime <= clock'
             /\ it.rel \in DOMAIN local' => it.mtime <= local'[it.rel].mtime
  <2>1. /\ it.mtime \in Nat /\ it.mtime <= clock
        /\ it.rel \in DOMAIN local => it.mtime <= local[it.rel].mtime
    BY <1>3, RemoteBasics DEF LocalDates
  <2> QED
    BY <1>2, <2>1
<1> QED
  BY <1>1, <1>3 DEF LocalDates

\* What leaves the tree, the entries and what is noted of the files alone.
LEMMA IdleKept ==
  ASSUME Types, Types', RemoteKnown, RemoteMoves, LocalKnown, Quiet,
         UNCHANGED <<local, touched, restamped, adopted>>, late \subseteq late',
         \A it \in DOMAIN work' : \/ it \in DOMAIN work /\ work'[it] = work[it]
                                  \/ work'[it].at \in {"open", "remove", "failed"}
  PROVE  LocalKnown'
<1>1. \A r : OldAt(r) /\ SameFile(r) /\ AgesAt(r)
  BY QuietOld DEF SameFile, AgesAt
<1>2. later' \subseteq later
  BY DEF Quiet
<1>3. LocalDates'
  BY <1>1, <1>2, OldDates DEF LocalKnown
<1>4. Deletes'
  BY <1>1, <1>2, OldDeletes DEF LocalKnown
<1>5. Vouched'
  BY <1>1, OldBacks, VouchedAfter DEF LocalKnown
<1>6. ASSUME NEW it \in DOMAIN work' PROVE Staged(it)'
  <2>1. CASE it \in DOMAIN work /\ work'[it] = work[it]
    BY <1>1, <2>1, StageKept DEF LocalKnown, Stages
  <2>2. CASE work'[it].at \in {"open", "remove", "failed"}
    BY <2>2 DEF Staged, InTmp, InPlace
  <2> QED
    BY <2>1, <2>2
<1>7. Stages'
  BY <1>6 DEF Stages
<1> QED
  BY <1>3, <1>4, <1>5, <1>7 DEF LocalKnown

\* A user's edit dates the file anew, or removes it.
LEMMA EditFacts ==
  ASSUME Types, NEW r \in Rels, LocalWrite(r) \/ LocalRemove(r)
  PROVE  /\ r \in Path /\ clock' = clock + 1
         /\ \A q : q # r => SameFile(q)
         /\ r \in DOMAIN local' => local'[r].mtime = clock + 1 /\ local'[r].data = clock + 1
         /\ touched' = touched \cup {r} /\ late' = late \cup {r}
         /\ UNCHANGED <<work, later, m, disk, restamped, adopted, remote, nextId, unsaved>>
<1>1. r \in Path
  BY PullAssumption DEF Path
<1>2. CASE \E s \in Sizes : local' = Set(local, r, Written(s))
  <2>1. PICK s \in Sizes : local' = Set(local, r, Written(s))
    BY <1>2
  <2>2. /\ \A q : q # r => SameFile(q)
        /\ local'[r] = Written(s)
    BY <2>1 DEF Set, SameFile
  <2> QED
    BY <1>1, <2>2, LocalEditFacts DEF Written, run
<1>3. CASE local' = Delete(local, r)
  BY <1>1, <1>3, LocalEditFacts DEF Delete, SameFile, run
<1> QED
  BY <1>2, <1>3, LocalEditFacts

\* A local edit makes a version of its own, that no entry vouches for.
LEMMA EditKept ==
  ASSUME Types, Types', RemoteKnown, LocalKnown, NoTwins, NEW r \in Rels,
         LocalWrite(r) \/ LocalRemove(r)
  PROVE  LocalKnown'
<1>0. /\ RemoteMoves /\ Quiet /\ \A q : OldAt(q)
      /\ r \in Path /\ clock' = clock + 1 /\ clock \in Nat /\ later' = later
  <2>1. Environment
    BY DEF Environment
  <2> QED
    BY <2>1, EnvironmentMoves, QuietOld, EditFacts, RemoteBasics
<1>1. \A q \in Path : AgesAt(q)
  BY <1>0, EditFacts DEF AgesAt, SameFile
<1>2. LocalDates'
  <2>1. \A it \in later' : it.rel \in DOMAIN local' =>
            \/ it.rel \in DOMAIN local /\ local'[it.rel] = local[it.rel]
            \/ local'[it.rel].mtime \in {clock, clock'}
    BY <1>0, EditFacts DEF SameFile
  <2> QED
    BY <1>0, <1>1, <2>1, OldDates DEF LocalKnown
<1>3. Deletes'
  BY <1>0, OldDeletes DEF LocalKnown
<1>4. Vouched'
  <2>1. ASSUME NEW q, q # r
        PROVE  /\ q \in DOMAIN m' => BacksNext(m'[q], q)
               /\ q \in DOMAIN disk' => BacksNext(disk'[q], q)
    <3>1. SameFile(q)
      BY <2>1, EditFacts
    <3>2. q \in adopted \cup (restamped \cap touched) =>
             q \in adopted' \cup (restamped' \cap touched')
      BY EditFacts
    <3> QED
      BY <1>0, <3>1, <3>2, OldBacks DEF LocalKnown, SameFile
  <2>2. /\ r \in DOMAIN m' => BacksNext(m'[r], r)
        /\ r \in DOMAIN disk' => BacksNext(disk'[r], r)
    <3>1. /\ r \in DOMAIN m' => m'[r].localMtime <= clock /\ m'[r].localMtime \in Nat
          /\ r \in DOMAIN disk' => disk'[r].localMtime <= clock /\ disk'[r].localMtime \in Nat
      BY <1>0, EditFacts, RemoteBasics DEF LocalKnown, LocalDates, AgedAt
    <3>2. r \in DOMAIN local' => local'[r].mtime = clock + 1
      BY EditFacts
    <3>3. clock + 1 > clock
      BY <1>0
    <3>4. \A n \in Nat : n <= clock => n # clock + 1
      BY <1>0
    <3> QED
      BY <3>1, <3>2, <3>4, BacksNothing
  <2> QED
    BY <2>1, <2>2, VouchedAfter
<1>5. ASSUME NEW it \in DOMAIN work' PROVE Staged(it)'
  <2>0. /\ it \in DOMAIN work /\ work' = work /\ Staged(it)
        /\ it.op = "download" => TmpOf(it.rel) # r
        /\ it.op = "download" => SameFile(TmpOf(it.rel))
        /\ touched' = touched \cup {r} /\ restamped' = restamped /\ late' = late \cup {r}
    BY <1>5, EditFacts DEF NoTwins, LocalKnown, Stages
  <2>1. CASE it.rel # r
    <3>1. SameFile(it.rel)
      BY <2>1, EditFacts
    <3> QED
      BY <1>0, <2>0, <2>1, <3>1, StageKept
  <2>2. CASE it.rel = r
    <3>0. /\ work[it].at = "done" /\ it.op = "download" => work[it].mtime <= clock
          /\ work[it].mtime \in Nat
      BY <2>0, RemoteBasics DEF Staged, InPlace
    <3>1. it.op = "download" /\ work[it].at \in {"create", "copy", "rename", "stat", "done"} =>
            Streamed(it)'
      BY <2>0, EditFacts DEF Staged, Streamed
    <3>2. it.op = "download" => InTmp(it)'
      <4>1. SUFFICES ASSUME it.op = "download" PROVE InTmp(it)'
        OBVIOUS
      <4>2. InTmp(it) /\ SameFile(TmpOf(it.rel)) /\ m' = m /\ disk' = disk /\ work' = work
        BY <2>0, <4>1, EditFacts DEF Staged
      <4> QED
        BY <4>2 DEF InTmp, SameFile, Newer
    <3>3. InPlace(it)'
      <4>1. r \in DOMAIN local' => NewerNext(r, local'[r].mtime)
        <5>1. /\ r \in DOMAIN m' => m'[r].localMtime <= clock /\ m'[r].localMtime \in Nat
              /\ r \in DOMAIN disk' => disk'[r].localMtime <= clock /\ disk'[r].localMtime \in Nat
          BY <1>0, EditFacts, RemoteBasics DEF LocalKnown, LocalDates, AgedAt
        <5> QED
          BY <1>0, <5>1, EditFacts DEF NewerNext
      <4>2. r \in touched' /\ r \in late'
        BY <2>0
      <4>4. it.op = "download" /\ work[it].at = "done" => work[it].mtime <= clock'
        BY <1>0, <3>0
      <4>5. it.op = "download" /\ work[it].at = "done" /\ r \in DOMAIN local' =>
                   work[it].mtime <= local'[r].mtime /\ local'[r].mtime # work[it].mtime
        BY <1>0, <3>0, EditFacts
      <4> QED
        BY <2>0, <2>2, <4>1, <4>2, <4>4, <4>5 DEF InPlace, Newer, NewerNext
    <3> QED
      BY <2>0, <3>1, <3>2, <3>3 DEF Staged
  <2> QED
    BY <2>1, <2>2
<1>6. Stages'
  BY <1>5 DEF Stages
<1> QED
  BY <1>2, <1>3, <1>4, <1>6 DEF LocalKnown

\* The fields of an item that goes a stage on.
LEMMA GoesFields ==
  ASSUME NEW it, NEW step, Goes(it, step)
  PROVE  /\ work'[it].at = step /\ work'[it].size = work[it].size
         /\ work'[it].mtime = work[it].mtime /\ work'[it].data = work[it].data
  BY DEF Goes

\* The steps of a download, and the one of a removal.
LEMMA StepKind ==
  ASSUME Types, NEW it \in DOMAIN work, Step(it)
  PROVE  /\ it.op = "download" \/ RemoveLocal(it)
         /\ it.op = "download" => ~RemoveLocal(it)
         /\ it.op \in {"download", "deleteLocal"}
<1>1. it.op \in {"download", "deleteLocal"} /\ Fits(it, work[it].at)
  BY RemoteBasics DEF Pulls, Types, Phases
<1>2. RemoveLocal(it) => work[it].at = "remove"
  BY RemoveLocalFacts
<1>3. ~RemoveLocal(it) => work[it].at \in {"open", "create", "copy", "rename", "stat"}
  BY OpenStreamFacts, CreateTmpFacts, CopyFacts, RenameFacts, StatFacts DEF Step
<1> QED
  BY <1>1, <1>2, <1>3 DEF Fits

\* Where in the tree a step of an executor writes, and what is noted of the files.
LEMMA StepTree ==
  ASSUME Types, NEW it \in DOMAIN work, Step(it)
  PROVE  /\ \A r : r # it.rel /\ (it.op = "download" => r # TmpOf(it.rel)) => SameFile(r)
         /\ \A r : r # it.rel => /\ r \in touched' <=> r \in touched
                                 /\ r \in restamped' <=> r \in restamped
                                 /\ r \in unsaved' <=> r \in unsaved
         /\ it.rel \in Path /\ TmpOf(it.rel) \in Path /\ TmpOf(it.rel) # it.rel
         /\ UNCHANGED <<m, disk, later, adopted, late>>
<1>0. it.rel \in Path /\ TmpOf(it.rel) \in Path /\ TmpOf(it.rel) # it.rel
  BY TmpFacts, RemoteBasics DEF Pulls
<1>1. UNCHANGED <<m, disk, later, adopted, late>>
  BY StepShape DEF OnlyProgress
<1>2. CASE OpenStream(it) \/ Stat(it)
  BY <1>0, <1>1, <1>2, OpenStreamFacts, StatFacts DEF SameFile
<1>3. CASE CreateTmp(it)
  <2>1. it.op = "download"
    BY <1>3, StepKind, CreateTmpFacts, RemoveLocalFacts
  <2>2. \A r : r # TmpOf(it.rel) => SameFile(r)
    BY <1>3, CreateTmpFacts DEF SameFile, Set
  <2> QED
    BY <1>0, <1>1, <1>3, <2>1, <2>2, CreateTmpFacts
<1>4. CASE Copy(it)
  <2>1. it.op = "download"
    BY <1>4, StepKind, CopyFacts, RemoveLocalFacts
  <2>2. \A r : r # TmpOf(it.rel) => SameFile(r)
    <3>1. CASE local' = Delete(local, TmpOf(it.rel))
      BY <3>1 DEF SameFile, Delete
    <3>2. CASE local' = Filled(it)
      BY <3>2, FilledFacts DEF SameFile
    <3> QED
      BY <1>4, <3>1, <3>2, CopyFacts
  <2> QED
    BY <1>0, <1>1, <1>4, <2>1, <2>2, CopyFacts
<1>5. CASE Rename(it)
  <2>1. it.op = "download"
    BY <1>5, StepKind, RenameFacts, RemoveLocalFacts
  <2>2. \A r : r # TmpOf(it.rel) /\ r # it.rel => SameFile(r)
    <3>1. CASE local' = Delete(local, TmpOf(it.rel)) \/ UNCHANGED local
      BY <3>1 DEF SameFile, Delete
    <3>2. CASE local' = Set(Delete(local, TmpOf(it.rel)), it.rel, local[TmpOf(it.rel)])
      BY <3>2 DEF SameFile, Delete, Set
    <3> QED
      BY <1>5, <3>1, <3>2, RenameFacts
  <2>3. \A r : r # it.rel => /\ r \in touched' <=> r \in touched
                             /\ r \in restamped' <=> r \in restamped
                             /\ r \in unsaved' <=> r \in unsaved
    BY <1>5, RenameFacts
  <2> QED
    BY <1>0, <1>1, <2>1, <2>2, <2>3
<1>6. CASE RemoveLocal(it)
  <2>1. \A r : r # it.rel => SameFile(r)
    BY <1>6, RemoveLocalFacts DEF SameFile, Delete
  <2> QED
    BY <1>0, <1>1, <1>6, <2>1, RemoveLocalFacts
<1> QED
  BY <1>2, <1>3, <1>4, <1>5, <1>6 DEF Step

\* What a rename puts in place.
LEMMA Renamed ==
  ASSUME Types, NEW it \in DOMAIN work,
         TmpOf(it.rel) \in DOMAIN local,
         local' = Set(Delete(local, TmpOf(it.rel)), it.rel, local[TmpOf(it.rel)])
  PROVE  /\ it.rel \in DOMAIN local' /\ local'[it.rel] = local[TmpOf(it.rel)]
         /\ TmpOf(it.rel) \notin DOMAIN local'
<1>1. TmpOf(it.rel) # it.rel
  BY TmpFacts, RemoteBasics DEF Pulls
<1> QED
  BY <1>1 DEF Set, Delete

\* The item a step is of goes to its next stage as it should.
LEMMA OwnStage ==
  ASSUME Types, Types', RemoteKnown, LocalKnown, NoTwins, NEW it \in DOMAIN work, Step(it)
  PROVE  Staged(it)'
<1>0. /\ UNCHANGED <<m, disk, later, adopted, late, remote>> /\ it \in DOMAIN work'
      /\ it.rel \in Path /\ TmpOf(it.rel) \in Path /\ TmpOf(it.rel) # it.rel
      /\ Staged(it) /\ clock \in Nat
      /\ work[it].size \in Nat /\ work[it].mtime \in Nat /\ work[it].data \in Int
  BY StepShape, StepTree, RemoteBasics DEF OnlyProgress, LocalKnown, Stages
<1>1. CASE Goes(it, "failed")
  <2>1. work'[it].at = "failed"
    BY <1>1, GoesFields
  <2> QED
    BY <2>1 DEF Staged, InTmp, InPlace
<1>2. CASE OpenStream(it) /\ ~Goes(it, "failed")
  <2>1. /\ work'[it].at = "create" /\ work'[it].size = remote[it.remoteID].size
        /\ work'[it].data = remote[it.remoteID].data
    <3>1. work'[it] = [at |-> "create", size |-> remote[it.remoteID].size,
                       mtime |-> work[it].mtime, data |-> remote[it.remoteID].data]
      BY <1>2, OpenStreamFacts
    <3> QED
      BY <3>1
  <2>2. Streamed(it)'
    BY <1>0, <2>1 DEF Streamed
  <2> QED
    BY <2>1, <2>2 DEF Staged, InTmp, InPlace
<1>3. CASE CreateTmp(it) /\ ~Goes(it, "failed")
  <2> DEFINE tmp == TmpOf(it.rel)
  <2>1. /\ work'[it].at = "copy" /\ work'[it].size = work[it].size
        /\ work'[it].data = work[it].data /\ work[it].at = "create"
        /\ local' = Set(local, tmp, [size |-> 0, mtime |-> clock, data |-> -work[it].data])
    <3>1. /\ Goes(it, "copy") /\ work[it].at = "create"
          /\ local' = Set(local, tmp, [size |-> 0, mtime |-> clock, data |-> -work[it].data])
      BY <1>3, CreateTmpFacts
    <3> QED
      BY <3>1, GoesFields
  <2>2. tmp \in DOMAIN local' /\ local'[tmp].data = -work[it].data
    BY <2>1 DEF Set
  <2>3. it.op = "download" => Streamed(it)'
    BY <1>0, <2>1 DEF Staged, Streamed
  <2> QED
    BY <2>1, <2>2, <2>3 DEF Staged, InTmp, InPlace
<1>4. CASE Copy(it) /\ ~Goes(it, "failed")
  <2> DEFINE tmp == TmpOf(it.rel)
  <2>1. /\ work'[it].at = "rename" /\ work'[it].size = work[it].size
        /\ work'[it].data = work[it].data /\ work[it].at = "copy"
        /\ local' = Filled(it) /\ it.op = "download"
    <3>1. it.op = "download"
      BY <1>4, StepKind, CopyFacts, RemoveLocalFacts
    <3>2. Goes(it, "rename") /\ work[it].at = "copy" /\ local' = Filled(it)
      BY <1>4, CopyFacts
    <3> QED
      BY <3>1, <3>2, GoesFields
  <2>2. tmp \in DOMAIN local /\ local[tmp].data = -work[it].data
    BY <1>0, <2>1 DEF Staged, InTmp
  <2>3. /\ tmp \in DOMAIN local' /\ local'[tmp].data = work[it].data
        /\ local'[tmp].size = work[it].size /\ local'[tmp].mtime = clock + 1
    <3>1. Filled(it)[tmp] = [size |-> work[it].size, mtime |-> clock + 1,
                             data |-> work[it].data]
      BY <2>2, FilledFacts
    <3>2. tmp \in DOMAIN Filled(it)
      BY <2>2, FilledFacts
    <3> QED
      BY <2>1, <3>1, <3>2
  <2>4. NewerNext(it.rel, clock + 1)
    BY <1>0, RemoteBasics DEF LocalKnown, LocalDates, AgedAt, NewerNext
  <2>5. Streamed(it)'
    BY <1>0, <2>1 DEF Staged, Streamed
  <2>6. InTmp(it)'
    BY <2>1, <2>3, <2>4 DEF InTmp, Newer, NewerNext
  <2> QED
    BY <2>1, <2>5, <2>6 DEF Staged, InPlace
<1>5. CASE Rename(it) /\ ~Goes(it, "failed")
  <2> DEFINE tmp == TmpOf(it.rel)
  <2>1. /\ work'[it].at = "stat" /\ work'[it].size = work[it].size
        /\ work'[it].data = work[it].data /\ work[it].at = "rename" /\ it.op = "download"
        /\ tmp \in DOMAIN local /\ touched' = touched \ {it.rel}
        /\ local' = Set(Delete(local, tmp), it.rel, local[tmp])
    <3>1. it.op = "download"
      BY <1>5, StepKind, RenameFacts, RemoveLocalFacts
    <3>2. /\ Goes(it, "stat") /\ work[it].at = "rename" /\ tmp \in DOMAIN local
          /\ touched' = touched \ {it.rel}
          /\ local' = Set(Delete(local, tmp), it.rel, local[tmp])
      BY <1>5, RenameFacts
    <3> QED
      BY <3>1, <3>2, GoesFields
  <2>2. it.rel \in DOMAIN local' /\ local'[it.rel] = local[tmp]
    BY <2>1, Renamed
  <2>3. /\ local[tmp].data = work[it].data /\ local[tmp].size = work[it].size
        /\ Newer(it.rel, local[tmp].mtime)
    BY <1>0, <2>1 DEF Staged, InTmp
  <2>4. Streamed(it)'
    BY <1>0, <2>1 DEF Staged, Streamed
  <2>5. NewerNext(it.rel, local'[it.rel].mtime)
    BY <1>0, <2>2, <2>3 DEF Newer, NewerNext
  <2>6. InPlace(it)'
    BY <2>1, <2>2, <2>3, <2>5 DEF InPlace, Holds, Newer, NewerNext
  <2> QED
    BY <2>1, <2>4, <2>6 DEF Staged, InTmp
<1>6. CASE Stat(it) /\ ~Goes(it, "failed")
  <2>1. /\ work'[it].at = "done" /\ work'[it].size = work[it].size
        /\ work'[it].data = work[it].data /\ work[it].at = "stat" /\ it.op = "download"
        /\ work'[it].mtime = local[it.rel].mtime /\ it.rel \in DOMAIN local
        /\ UNCHANGED <<local, clock, touched>>
        /\ restamped' = IF it.rel \in touched THEN restamped \cup {it.rel}
                        ELSE restamped \ {it.rel}
    <3>1. it.op = "download"
      BY <1>6, StepKind, StatFacts, RemoveLocalFacts
    <3>2. /\ it.rel \in DOMAIN local /\ work[it].at = "stat"
          /\ work'[it] = [at |-> "done", size |-> work[it].size,
                          mtime |-> local[it.rel].mtime, data |-> work[it].data]
          /\ UNCHANGED <<local, clock, touched>>
          /\ restamped' = IF it.rel \in touched THEN restamped \cup {it.rel}
                          ELSE restamped \ {it.rel}
      BY <1>6, StatFacts
    <3>3. /\ work'[it].at = "done" /\ work'[it].size = work[it].size
          /\ work'[it].mtime = local[it.rel].mtime /\ work'[it].data = work[it].data
      BY <3>2
    <3> QED
      BY <3>1, <3>2, <3>3
  <2>2. /\ Newer(it.rel, local[it.rel].mtime)
        /\ it.rel \in touched => it.rel \in late
        /\ it.rel \notin touched => Holds(it.rel, work[it])
    BY <1>0, <2>1 DEF Staged, InPlace
  <2>3. local[it.rel].mtime <= clock /\ local[it.rel].mtime \in Nat
    BY <1>0, <2>1, RemoteBasics DEF LocalKnown, LocalDates, AgedAt
  <2>4. Streamed(it)'
    BY <1>0, <2>1 DEF Staged, Streamed
  <2>5. InPlace(it)'
    <3>1. NewerNext(it.rel, local'[it.rel].mtime)
      BY <1>0, <2>1, <2>2 DEF Newer, NewerNext
    <3>2. /\ work'[it].mtime <= clock' /\ work'[it].mtime <= local'[it.rel].mtime
          /\ local'[it.rel].mtime = work'[it].mtime
      BY <2>1, <2>3
    <3>3. it.rel \notin touched => local'[it.rel].data = work'[it].data
                                  /\ local'[it.rel].size = work'[it].size
      BY <2>1, <2>2 DEF Holds
    <3>4. it.rel \notin restamped' => it.rel \notin touched
      BY <2>1
    <3> QED
      BY <1>0, <2>1, <2>2, <3>1, <3>2, <3>3, <3>4 DEF InPlace, Holds, Newer, NewerNext
  <2> QED
    BY <2>1, <2>4, <2>5 DEF Staged, InTmp
<1>7. CASE RemoveLocal(it) /\ ~Goes(it, "failed")
  <2>1. /\ work'[it].at = "done" /\ local' = Delete(local, it.rel) /\ it.op # "download"
        /\ touched' = touched \ {it.rel}
    <3>1. /\ Goes(it, "done") /\ local' = Delete(local, it.rel)
          /\ touched' = touched \ {it.rel}
      BY <1>7, RemoveLocalFacts
    <3>2. it.op # "download"
      BY <1>7, StepKind
    <3> QED
      BY <3>1, <3>2, GoesFields
  <2>2. it.rel \notin DOMAIN local'
    BY <2>1 DEF Delete
  <2> QED
    BY <2>1, <2>2 DEF Staged, InTmp, InPlace
<1> QED
  BY <1>1, <1>2, <1>3, <1>4, <1>5, <1>6, <1>7 DEF Step

\* An executor step.
LEMMA StepKept ==
  ASSUME Types, Types', RemoteKnown, LocalKnown, NoTwins, NEW it \in DOMAIN work, Step(it)
  PROVE  LocalKnown'
<1>0. /\ RemoteMoves /\ Quiet /\ \A q : OldAt(q)
      /\ UNCHANGED <<m, disk, later, adopted, late>> /\ DOMAIN work' = DOMAIN work
      /\ it.rel \in Path /\ TmpOf(it.rel) \in Path /\ TmpOf(it.rel) # it.rel
      /\ Staged(it) /\ clock \in Nat
  BY StepShape, StepTree, QuietOld, RemoteBasics DEF LocalKnown, Stages
<1>1. \A r : r # it.rel /\ (it.op = "download" => r # TmpOf(it.rel)) => SameFile(r)
  BY StepTree
<1>2. \A other \in DOMAIN work \ {it} : work'[other] = work[other]
  BY StepShape DEF OnlyProgress
\* the two places it writes at
<1>3. /\ it.rel \in DOMAIN local' =>
           \/ it.rel \in DOMAIN local /\ local'[it.rel] = local[it.rel]
           \/ NewerNext(it.rel, local'[it.rel].mtime) /\ local'[it.rel].mtime <= clock
      /\ TmpOf(it.rel) \in DOMAIN local' =>
           \/ TmpOf(it.rel) \in DOMAIN local /\ local'[TmpOf(it.rel)] = local[TmpOf(it.rel)]
           \/ local'[TmpOf(it.rel)].mtime \in {clock, clock'}
  <2>1. CASE UNCHANGED local
    BY <2>1
  <2>2. CASE local' = Delete(local, TmpOf(it.rel)) \/ local' = Delete(local, it.rel)
    BY <2>2 DEF Delete
  <2>3. CASE local' = Set(local, TmpOf(it.rel), [size |-> 0, mtime |-> clock,
                                                 data |-> -work[it].data])
    BY <1>0, <2>3 DEF Set
  <2>4. CASE local' = Filled(it) /\ clock' = clock + 1
    <3> DEFINE tmp == TmpOf(it.rel)
    <3>1. \A r \in DOMAIN local \ {tmp} : local'[r] = local[r]
      BY <2>4, FilledFacts
    <3>2. DOMAIN local' = DOMAIN local
      BY <2>4, FilledFacts
    <3>3. tmp \in DOMAIN local' => local'[tmp] = local[tmp] \/ local'[tmp].mtime = clock'
      <4>1. CASE tmp \in DOMAIN local /\ local[tmp].data = -work[it].data
        <5>1. Filled(it)[tmp] = [size |-> work[it].size, mtime |-> clock + 1,
                                 data |-> work[it].data]
          BY <4>1, FilledFacts
        <5> QED
          BY <2>4, <5>1
      <4>2. CASE ~(tmp \in DOMAIN local /\ local[tmp].data = -work[it].data)
        BY <2>4, <4>2, FilledFacts
      <4> QED
        BY <4>1, <4>2
    <3> QED
      BY <1>0, <3>1, <3>2, <3>3
  <2>5. CASE /\ TmpOf(it.rel) \in DOMAIN local /\ work[it].at = "rename" /\ it.op = "download"
             /\ local' = Set(Delete(local, TmpOf(it.rel)), it.rel, local[TmpOf(it.rel)])
    <3>1. /\ local'[it.rel] = local[TmpOf(it.rel)] /\ TmpOf(it.rel) \notin DOMAIN local'
      BY <2>5, Renamed
    <3>2. Newer(it.rel, local[TmpOf(it.rel)].mtime)
      BY <1>0, <2>5 DEF Staged, InTmp
    <3>3. local[TmpOf(it.rel)].mtime <= clock
      BY <1>0, <2>5 DEF LocalKnown, LocalDates, AgedAt
    <3> QED
      BY <1>0, <3>1, <3>2, <3>3 DEF Newer, NewerNext
  <2>6. Rename(it) => it.op = "download"
    BY StepKind, RenameFacts, RemoveLocalFacts
  <2> QED
    BY <2>1, <2>2, <2>3, <2>4, <2>5, <2>6, OpenStreamFacts, CreateTmpFacts, CopyFacts,
       RenameFacts, StatFacts, RemoveLocalFacts DEF Step
<1>4. LocalDates'
  <2>1. \A r \in Path : AgesAt(r)
    BY <1>0, <1>1, <1>3 DEF AgesAt, SameFile, Newer, NewerNext
  <2>2. \A i \in later' : i.rel \in DOMAIN local' =>
            \/ i.rel \in DOMAIN local /\ local'[i.rel] = local[i.rel]
            \/ local'[i.rel].mtime \in {clock, clock'}
    <3>1. \A i \in later : i.rel # it.rel
      BY DEF Types, OneItemPerPath, Pulls
    <3> QED
      BY <1>0, <1>1, <1>3, <3>1 DEF SameFile
  <2> QED
    BY <1>0, <2>1, <2>2, OldDates DEF LocalKnown
<1>5. Deletes'
  BY <1>0, OldDeletes DEF LocalKnown
<1>6. Vouched'
  <2>1. ASSUME NEW r, r \in DOMAIN m' \cup DOMAIN disk'
        PROVE  /\ r \in DOMAIN m' => BacksNext(m'[r], r)
               /\ r \in DOMAIN disk' => BacksNext(disk'[r], r)
    <3>1. it.op = "download" => r # TmpOf(it.rel)
      BY <1>0, <2>1 DEF NoTwins
    <3>2. CASE r # it.rel
      <4>1. SameFile(r)
        BY <1>1, <3>1, <3>2
      <4>2. r \in adopted \cup (restamped \cap touched) =>
               r \in adopted' \cup (restamped' \cap touched')
        BY <1>0, <3>2, StepTree
      <4> QED
        BY <1>0, <4>1, <4>2, OldBacks DEF LocalKnown, SameFile
    <3>3. CASE r = it.rel /\ r \in DOMAIN local' /\ NewerNext(it.rel, local'[it.rel].mtime)
      <4>1. /\ r \in DOMAIN m' => m'[r].localMtime \in Nat /\ m'[r].localMtime < local'[r].mtime
            /\ r \in DOMAIN disk' => disk'[r].localMtime \in Nat
                                     /\ disk'[r].localMtime < local'[r].mtime
            /\ local'[r].mtime \in Nat
        BY <1>0, <3>3, RemoteBasics DEF NewerNext, Types, TreesTyped, Table, LocalFile
      <4>2. \A a, b \in Nat : a < b => b # a
        OBVIOUS
      <4> QED
        BY <4>1, <4>2, BacksNothing
    <3>4. CASE r \notin DOMAIN local'
      BY <3>4, BacksNothing
    <3>5. CASE r = it.rel /\ r \in DOMAIN local /\ r \in DOMAIN local' /\ local'[r] = local[r]
               /\ ~NewerNext(it.rel, local'[it.rel].mtime)
      <4>1. touched' = touched
        <5>1. ~(Rename(it) /\ ~Goes(it, "failed"))
          <6>1. SUFFICES ASSUME Rename(it), ~Goes(it, "failed") PROVE FALSE
            OBVIOUS
          <6>2. Staged(it)' /\ work'[it].at = "stat"
            <7>1. Goes(it, "stat")
              BY <6>1, RenameFacts
            <7> QED
              BY <7>1, OwnStage, GoesFields
          <6> QED
            BY <3>5, <6>2 DEF Staged, InPlace, Newer, NewerNext
        <5>2. ~(RemoveLocal(it) /\ ~Goes(it, "failed"))
          BY <3>5, RemoveLocalFacts DEF Delete
        <5>3. Rename(it) => touched' = touched
          BY <5>1, RenameFacts, GoesFields
        <5>4. RemoveLocal(it) => touched' = touched
          BY <5>2, RemoveLocalFacts, GoesFields
        <5>5. OpenStream(it) \/ CreateTmp(it) \/ Copy(it) \/ Stat(it) => touched' = touched
          BY OpenStreamFacts, CreateTmpFacts, CopyFacts, StatFacts
        <5> QED
          BY <5>3, <5>4, <5>5 DEF Step
      <4>2. r \in touched /\ r \in restamped => r \in restamped'
        BY <3>5, OpenStreamFacts, CreateTmpFacts, CopyFacts, RenameFacts, StatFacts,
           RemoveLocalFacts DEF Step
      <4> QED
        BY <1>0, <3>5, <4>1, <4>2, OldBacks DEF LocalKnown
    <3> QED
      BY <1>3, <3>2, <3>3, <3>4, <3>5
  <2> QED
    BY <2>1, VouchedAfter
<1>7. ASSUME NEW other \in DOMAIN work' PROVE Staged(other)'
  <2>1. CASE other = it
    BY <2>1, OwnStage
  <2>2. CASE other # it
    <3>1. other \in DOMAIN work /\ other.rel # it.rel /\ other.rel \in Path /\ Staged(other)
      BY <1>0, <2>2, RemoteBasics DEF Types, OneItemPerPath, Pulls, LocalKnown, Stages
    <3>2. it.op = "download" => other.rel # TmpOf(it.rel)
      BY <3>1 DEF NoTwins
    <3>3. SameFile(other.rel)
      BY <1>1, <3>1, <3>2
    <3>4. other.op = "download" => SameFile(TmpOf(other.rel))
      <4>1. other.op = "download" => TmpOf(other.rel) # it.rel
        BY <3>1 DEF NoTwins
      <4>2. TmpOf(other.rel) # TmpOf(it.rel)
        BY <1>0, <3>1, TmpFacts
      <4> QED
        BY <1>1, <4>1, <4>2
    <3>5. /\ other.rel \in touched' <=> other.rel \in touched
          /\ other.rel \in restamped' <=> other.rel \in restamped
          /\ other.rel \in late => other.rel \in late'
      BY <1>0, <3>1, StepTree
    <3> QED
      BY <1>0, <1>2, <2>2, <3>1, <3>3, <3>4, <3>5, StageKept
  <2> QED
    BY <2>1, <2>2
<1>8. Stages'
  BY <1>7 DEF Stages
<1> QED
  BY <1>4, <1>5, <1>6, <1>8 DEF LocalKnown

\* What collecting an item leaves alone, and what it enters.
LEMMA CollectFacts ==
  ASSUME Types, NEW it \in DOMAIN work, Collect(it)
  PROVE  /\ work[it].at = "done" /\ it \in Pulls /\ it.rel \in Path
         /\ UNCHANGED <<local, remote, nextId, clock, later, late, touched, restamped, failures,
                        lateIds, opts, phase, skipped, clean, waiting>>
         /\ RemoteMoves /\ adopted' = adopted \ {it.rel}
         /\ DOMAIN work' = DOMAIN work \ {it}
         /\ \A other \in DOMAIN work \ {it} : work'[other] = work[other]
         /\ \A r : r # it.rel => OldAt(r)
         /\ it.rel \in DOMAIN m' =>
              /\ it.op = "download"
              /\ m'[it.rel] = Entry(work[it].size, work[it].mtime, it.remoteID, it.remoteMtime)
         /\ it.op = "download" => it.rel \in DOMAIN m'
         /\ \/ disk' = disk /\ unsaved' = unsaved \cup {it.rel}
            \/ disk' = m' /\ unsaved' = NotIn(m', unsaved \cup {it.rel})
<1>1. m' = Recorded(it)
  BY DEF Collect
<1>2. /\ \/ disk' = disk /\ unsaved' = unsaved \cup {it.rel}
         \/ disk' = m' /\ unsaved' = NotIn(m', unsaved \cup {it.rel})
  BY CheckpointFacts DEF Collect
<1>3. \A r : r # it.rel => OldAt(r)
  BY <1>1, <1>2, RecordedFacts DEF OldAt
<1>4. /\ it.rel \in DOMAIN m' =>
              /\ it.op = "download"
              /\ m'[it.rel] = Entry(work[it].size, work[it].mtime, it.remoteID, it.remoteMtime)
  BY <1>1, RecordedFacts
<1>5. it.op = "download" => it.rel \in DOMAIN m'
  BY <1>1 DEF Recorded, Set
<1>6. it.rel \in Path /\ it \in Pulls
  BY RemoteBasics DEF Pulls
<1> QED
  BY <1>2, <1>3, <1>4, <1>5, <1>6, DropFacts, CollectMoves DEF Collect, InStep

\* A download is entered with what was streamed and with the date of what is there.
LEMMA CollectKept ==
  ASSUME Types, Types', RemoteKnown, LocalKnown, NEW it \in DOMAIN work, Collect(it)
  PROVE  LocalKnown'
<1>0. /\ RemoteMoves /\ UNCHANGED <<local, remote, clock, later, late, touched, restamped>>
      /\ it.rel \in Path /\ \A r : r # it.rel => OldAt(r)
      /\ adopted' = adopted \ {it.rel}
      /\ it.rel \in DOMAIN disk' => \/ it.rel \in DOMAIN disk /\ disk'[it.rel] = disk[it.rel]
                                    \/ it.rel \in DOMAIN m' /\ disk'[it.rel] = m'[it.rel]
  BY CollectFacts
<1>1. /\ work[it].at = "done" /\ Staged(it) /\ InPlace(it)
      /\ work[it].mtime \in Nat /\ work[it].size \in Nat /\ clock \in Nat
  BY CollectFacts, RemoteBasics DEF LocalKnown, Stages, Staged
<1>2. it.rel \in DOMAIN m' =>
        /\ it.op = "download"
        /\ m'[it.rel].size = work[it].size /\ m'[it.rel].localMtime = work[it].mtime
        /\ m'[it.rel].remoteID = it.remoteID /\ m'[it.rel].remoteMtime = it.remoteMtime
  <2>1. SUFFICES ASSUME it.rel \in DOMAIN m'
                 PROVE  /\ it.op = "download"
                        /\ m'[it.rel].size = work[it].size /\ m'[it.rel].localMtime = work[it].mtime
                        /\ m'[it.rel].remoteID = it.remoteID
                        /\ m'[it.rel].remoteMtime = it.remoteMtime
    OBVIOUS
  <2>2. /\ it.op = "download"
        /\ m'[it.rel] = Entry(work[it].size, work[it].mtime, it.remoteID, it.remoteMtime)
    BY <2>1, CollectFacts
  <2> QED
    BY <2>2 DEF Entry
<1>3. LocalDates'
  <2>1. ASSUME NEW r \in Path PROVE AgedAt(r)'
    <3>0. AgedAt(r)
      BY DEF LocalKnown, LocalDates
    <3>1. CASE r # it.rel
      BY <1>0, <3>0, <3>1, AgedKept DEF AgesAt
    <3>2. CASE r = it.rel
      <4>1. r \in DOMAIN m' => /\ m'[r].localMtime <= clock
                               /\ r \in DOMAIN local => m'[r].localMtime <= local[r].mtime
        BY <1>1, <1>2, <3>2 DEF InPlace
      <4> QED
        BY <1>0, <3>0, <3>2, <4>1 DEF AgedAt
    <3> QED
      BY <3>1, <3>2
  <2> QED
    BY <1>0, <2>1 DEF LocalKnown, LocalDates
<1>4. Deletes'
  <2>1. \A i \in later' : OldAt(i.rel)
    BY <1>0 DEF Types, OneItemPerPath, Pulls
  <2> QED
    BY <1>0, <2>1, OldDeletes DEF LocalKnown
<1>5. Vouched'
  <2>1. ASSUME NEW r, r # it.rel
        PROVE  /\ r \in DOMAIN m' => BacksNext(m'[r], r)
               /\ r \in DOMAIN disk' => BacksNext(disk'[r], r)
    BY <1>0, <2>1, OldBacks DEF LocalKnown
  <2>2. it.rel \in DOMAIN m' => BacksNext(m'[it.rel], it.rel)
    <3> SUFFICES ASSUME it.rel \in DOMAIN m',
                        it.rel \in DOMAIN local', it.rel \notin restamped' \cap touched',
                        ~Touched(local'[it.rel], m'[it.rel]),
                        m'[it.rel].remoteID \in DOMAIN remote',
                        ~RemoteTouched(remote'[m'[it.rel].remoteID], m'[it.rel])
                 PROVE  remote'[m'[it.rel].remoteID].data = local'[it.rel].data
      BY DEF BacksNext
    <3>1. local[it.rel].mtime = work[it].mtime /\ it.op = "download"
      BY <1>0, <1>2 DEF Touched
    <3>2. Holds(it.rel, work[it])
      BY <1>0, <1>1, <3>1 DEF InPlace
    <3>3. /\ it.remoteID \in DOMAIN remote /\ remote[it.remoteID].mtime = it.remoteMtime
      BY <1>0, <1>2 DEF RemoteTouched
    <3>4. remote[it.remoteID].data = work[it].data
      BY <1>1, <3>1, <3>3 DEF Staged, Streamed
    <3> QED
      BY <1>0, <1>2, <3>2, <3>4 DEF Holds
  <2>3. it.rel \in DOMAIN disk' => BacksNext(disk'[it.rel], it.rel)
    <3>1. CASE it.rel \in DOMAIN m' /\ disk'[it.rel] = m'[it.rel]
      BY <2>2, <3>1
    <3>2. CASE it.rel \in DOMAIN disk /\ disk'[it.rel] = disk[it.rel]
      <4>1. it.rel \in DOMAIN local => disk[it.rel].localMtime < local[it.rel].mtime
        BY <1>1, <3>2 DEF InPlace, Newer
      <4>2. it.rel \in DOMAIN local' => local'[it.rel].mtime # disk'[it.rel].localMtime
        BY <1>0, <3>2, <4>1, RemoteBasics
      <4> QED
        BY <4>2, BacksNothing
    <3> QED
      BY <1>0, <3>1, <3>2
  <2> QED
    BY <2>1, <2>2, <2>3, VouchedAfter
<1>6. ASSUME NEW other \in DOMAIN work' PROVE Staged(other)'
  <2>1. /\ other \in DOMAIN work /\ other # it /\ work'[other] = work[other]
        /\ other.rel # it.rel /\ Staged(other)
    <3>1. other \in DOMAIN work \ {it} /\ work'[other] = work[other]
      BY <1>6, CollectFacts
    <3>2. other.rel # it.rel
      BY <3>1 DEF Types, OneItemPerPath, Pulls
    <3> QED
      BY <3>1, <3>2 DEF LocalKnown, Stages
  <2> QED
    BY <1>0, <2>1, StageKept DEF SameFile
<1>7. Stages'
  BY <1>6 DEF Stages
<1> QED
  BY <1>3, <1>4, <1>5, <1>7 DEF LocalKnown

\* What a push item leaves alone, and what it enters.
LEMMA PushFacts ==
  ASSUME Types, RemoteKnown, NEW it \in later, PushItem(it)
  PROVE  /\ RemoteMoves /\ it.rel \in Path /\ DOMAIN work = {} /\ DOMAIN work' = {}
         /\ \A r : r # it.rel => OldAt(r)
         /\ \/ Quiet /\ UNCHANGED <<touched, adopted, unsaved>>
            \/ /\ Feasible(it) /\ remote' = Pushed(it) /\ clock' = clock + 1
               /\ adopted' = adopted \ {it.rel}
               /\ touched' = IF it.rel \in late THEN touched ELSE touched \ {it.rel}
               /\ it.op = "delete" => it.rel \notin DOMAIN m'
               /\ it.op # "delete" =>
                    /\ it.rel \in DOMAIN m'
                    /\ m'[it.rel] = Entry(it.size, it.mtime, TargetOf(it), clock + 1)
               /\ \/ disk' = disk /\ unsaved' = unsaved \cup {it.rel}
                  \/ disk' = m' /\ unsaved' = NotIn(m', unsaved \cup {it.rel})
         /\ later' = later \ {it}
         /\ UNCHANGED <<local, late, lateIds, restamped, opts, phase, skipped, clean, waiting>>
<1>1. RemoteMoves /\ it.rel \in Path /\ DOMAIN work = {} /\ DOMAIN work' = {}
      /\ Pulls' = Pulls /\ later' = later \ {it}
  BY PushMoves, PushItemShape, RemoteBasics DEF Types, Phases, Pulls
<1>2. CASE UNCHANGED <<m, disk, touched, adopted, unsaved>>
  BY <1>1, <1>2, PushItemShape DEF Quiet, OldAt
<1>3. CASE /\ Feasible(it) /\ remote' = Pushed(it) /\ clock' = clock + 1
           /\ m' = PushRecorded(it) /\ adopted' = adopted \ {it.rel}
           /\ touched' = IF it.rel \in late THEN touched ELSE touched \ {it.rel}
           /\ \/ disk' = disk /\ unsaved' = unsaved \cup {it.rel}
              \/ disk' = m' /\ unsaved' = NotIn(m', unsaved \cup {it.rel})
  <2>1. \A r : r # it.rel => OldAt(r)
    BY <1>3, PushRecordedFacts DEF OldAt
  <2>2. /\ it.op = "delete" => it.rel \notin DOMAIN m'
        /\ it.op # "delete" =>
              /\ it.rel \in DOMAIN m'
              /\ m'[it.rel] = Entry(it.size, it.mtime, TargetOf(it), clock + 1)
    BY <1>3 DEF PushRecorded, Set, Delete
  <2> QED
    BY <1>1, <1>3, <2>1, <2>2, PushItemShape
<1> QED
  BY <1>2, <1>3, PushItemShape

\* A push enters what it has sent.
LEMMA PushKept ==
  ASSUME Types, Types', RemoteKnown, LocalKnown, NEW it \in later, PushItem(it)
  PROVE  LocalKnown'
<1>1. CASE Quiet /\ UNCHANGED <<touched, adopted>>
  BY <1>1, PushFacts, IdleKept
<1>2. CASE /\ Feasible(it) /\ remote' = Pushed(it) /\ clock' = clock + 1
           /\ adopted' = adopted \ {it.rel}
           /\ touched' = IF it.rel \in late THEN touched ELSE touched \ {it.rel}
           /\ it.op = "delete" => it.rel \notin DOMAIN m'
           /\ it.op # "delete" =>
                /\ it.rel \in DOMAIN m'
                /\ m'[it.rel] = Entry(it.size, it.mtime, TargetOf(it), clock + 1)
           /\ disk' = disk \/ disk' = m'
  <2>0. /\ RemoteMoves /\ it.rel \in Path /\ DOMAIN work' = {} /\ later' = later \ {it}
        /\ \A r : r # it.rel => OldAt(r)
        /\ UNCHANGED <<local, late, restamped>> /\ clock \in Nat
        /\ it.op \in {"upload", "overwrite", "delete"} /\ it.mtime \in Nat /\ it.size \in Nat
    BY PushFacts, RemoteBasics
  <2>1. it.op # "delete" =>
          /\ it.rel \in DOMAIN m' /\ m'[it.rel].size = it.size /\ m'[it.rel].localMtime = it.mtime
          /\ m'[it.rel].remoteID = TargetOf(it) /\ m'[it.rel].remoteMtime = clock + 1
    BY <1>2 DEF Entry
  <2>2. LocalDates'
    <3>1. ASSUME NEW r \in Path PROVE AgedAt(r)'
      <4>0. AgedAt(r)
        BY DEF LocalKnown, LocalDates
      <4>1. CASE r # it.rel
        BY <2>0, <4>0, <4>1, AgedKept DEF AgesAt
      <4>2. CASE r = it.rel
        <5>1. r \in DOMAIN m' => /\ m'[r].localMtime <= clock
                                 /\ r \in DOMAIN local => m'[r].localMtime <= local[r].mtime
          BY <1>2, <2>1, <4>2 DEF LocalKnown, LocalDates
        <5>2. /\ r \in DOMAIN m' => m'[r].localMtime \in Nat
              /\ r \in DOMAIN disk => disk[r].localMtime \in Nat
              /\ r \in DOMAIN local => local[r].mtime \in Nat
          BY <1>2, <2>0, <2>1, <4>2, RemoteBasics
        <5> QED
          BY <1>2, <2>0, <4>0, <4>2, <5>1, <5>2 DEF AgedAt
      <4> QED
        BY <4>1, <4>2
    <3>2. ASSUME NEW i \in later', i.op # "delete"
          PROVE  /\ i.mtime <= clock'
                 /\ i.rel \in DOMAIN local' => i.mtime <= local'[i.rel].mtime
      BY <1>2, <2>0, <3>2, RemoteBasics DEF LocalKnown, LocalDates
    <3> QED
      BY <3>1, <3>2 DEF LocalDates
  <2>3. Deletes'
    <3>1. \A i \in later' : OldAt(i.rel)
      BY <2>0 DEF Types, OneItemPerPath
    <3> QED
      BY <2>0, <3>1, OldDeletes DEF LocalKnown
  <2>4. Vouched'
    <3>1. ASSUME NEW r, r # it.rel
          PROVE  /\ r \in DOMAIN m' => BacksNext(m'[r], r)
                 /\ r \in DOMAIN disk' => BacksNext(disk'[r], r)
      <4>1. r \in adopted \cup (restamped \cap touched) =>
              r \in adopted' \cup (restamped' \cap touched')
        BY <1>2, <2>0, <3>1
      <4> QED
        BY <2>0, <3>1, <4>1, OldBacks DEF LocalKnown
    <3>2. it.op # "delete" => BacksNext(m'[it.rel], it.rel)
      <4>1. SUFFICES ASSUME it.op # "delete" PROVE BacksNext(m'[it.rel], it.rel)
        OBVIOUS
      <4>2. remote'[TargetOf(it)].data = local[it.rel].data
        BY <1>2, <4>1, PushMoves
      <4> QED
        BY <2>0, <2>1, <4>1, <4>2 DEF BacksNext
    <3>3. it.rel \in DOMAIN disk => BacksNext(disk[it.rel], it.rel)
      <4>1. SUFFICES ASSUME it.rel \in DOMAIN disk,
                            disk[it.rel].remoteID \in DOMAIN remote',
                            ~RemoteTouched(remote'[disk[it.rel].remoteID], disk[it.rel])
                     PROVE  FALSE
        BY DEF BacksNext
      <4> DEFINE id == disk[it.rel].remoteID
      <4>2. CASE it.op = "delete"
        <5>1. id = it.remoteID
          BY <4>1, <4>2 DEF LocalKnown, Deletes
        <5>2. remote' = Delete(remote, it.remoteID)
          BY <1>2, <4>2, PushedFacts
        <5> QED
          BY <4>1, <5>1, <5>2 DEF Delete
      <4>3. CASE it.op # "delete"
        <5>1. /\ remote'[TargetOf(it)].path = it.rel /\ TargetOf(it) \in DOMAIN remote'
              /\ remote'[TargetOf(it)].mtime = clock + 1
              /\ \A j \in DOMAIN remote' \ {TargetOf(it)} :
                   j \in DOMAIN remote /\ remote'[j] = remote[j]
          BY <1>2, <4>3, PushMoves
        <5>2. OfNext(id, it.rel)
          BY <2>0, <4>1, EntriesKept
        <5>3. id = TargetOf(it)
          BY <2>0, <4>1, <5>1, <5>2, FolderKept DEF OfNext
        <5>4. disk[it.rel].remoteMtime <= clock /\ disk[it.rel].remoteMtime \in Nat
          BY <4>1, RemoteBasics DEF RemoteKnown, Entries, Dates
        <5> QED
          BY <2>0, <4>1, <5>1, <5>3, <5>4 DEF RemoteTouched
      <4> QED
        BY <4>2, <4>3
    <3>4. /\ it.rel \in DOMAIN m' => BacksNext(m'[it.rel], it.rel)
          /\ it.rel \in DOMAIN disk' => BacksNext(disk'[it.rel], it.rel)
      BY <1>2, <3>2, <3>3
    <3> QED
      BY <3>1, <3>4, VouchedAfter
  <2>5. Stages'
    BY <2>0 DEF Stages
  <2> QED
    BY <2>2, <2>3, <2>4, <2>5 DEF LocalKnown
<1> QED
  BY <1>1, <1>2, PushFacts

\* A run begins: seeded entries are exempt, and no item has got anywhere.
LEMMA BeginKept ==
  ASSUME Types, Types', RemoteKnown, LocalKnown, NEW o \in Options, Begin(o)
  PROVE  LocalKnown'
<1>0. /\ UNCHANGED <<local, remote, nextId, disk, work, clock, touched, restamped>>
      /\ m = disk /\ m' = Base(o) /\ later' = PushItems(o) /\ DOMAIN work = {}
      /\ adopted' = adopted \cup (DOMAIN m' \ DOMAIN disk) /\ RemoteMoves
      /\ TreesTyped /\ o \in Option /\ clock \in Nat
  BY BeginFacts, RemoteBasics DEF RemoteMoves
<1>1. /\ DOMAIN disk # {} => m' = disk
      /\ \A r \in DOMAIN m' \ DOMAIN disk :
           r \in DOMAIN local /\ m'[r].localMtime = local[r].mtime
  <2>1. \A r \in DOMAIN m' \ DOMAIN disk :
          /\ r \in DOMAIN Walked
          /\ m'[r] = Entry(Index[r].size, local[r].mtime, Index[r].id, Index[r].mtime)
    BY <1>0, BaseFacts
  <2>2. DOMAIN disk # {} => m' = disk
    BY <1>0, BaseFacts
  <2>3. ASSUME NEW r \in DOMAIN m' \ DOMAIN disk
        PROVE  r \in DOMAIN local /\ m'[r].localMtime = local[r].mtime
    <3>1. m'[r] = Entry(Index[r].size, local[r].mtime, Index[r].id, Index[r].mtime)
      BY <2>1
    <3>2. m'[r].localMtime = local[r].mtime
      BY <3>1 DEF Entry
    <3>3. r \in DOMAIN local
      BY <1>0, <2>1, WalkedFacts
    <3> QED
      BY <3>2, <3>3
  <2> QED
    BY <2>2, <2>3
<1>2. \A r \in DOMAIN m' : r \in DOMAIN disk => m'[r] = disk[r]
  BY <1>1
<1>3. LocalDates'
  <2>1. \A r \in Path : AgedAt(r)'
    BY <1>0, <1>1, <1>2, RemoteBasics DEF LocalKnown, LocalDates, AgedAt
  <2>2. ASSUME NEW it \in later', it.op # "delete"
        PROVE  /\ it.mtime <= clock'
               /\ it.rel \in DOMAIN local' => it.mtime <= local'[it.rel].mtime
    <3>1. it.rel \in DOMAIN local /\ it.mtime = local[it.rel].mtime
      BY <1>0, <2>2, PushItemFacts, WalkedFacts DEF UploadItem, OverwriteItem, DeleteItem
    <3>2. it.rel \in Path /\ local[it.rel].mtime \in Nat
      BY <3>1, RemoteBasics
    <3> QED
      BY <1>0, <3>1, <3>2 DEF LocalKnown, LocalDates, AgedAt
  <2> QED
    BY <2>1, <2>2 DEF LocalDates
<1>4. Deletes'
  <2>1. ASSUME NEW it \in later', it.op = "delete"
        PROVE  it.rel \in DOMAIN m' /\ m'[it.rel].remoteID = it.remoteID
    BY <1>0, <2>1, PushItemFacts DEF UploadItem, OverwriteItem, DeleteItem
  <2> QED
    BY <1>0, <1>2, <2>1 DEF Deletes
<1>5. Vouched'
  BY <1>0, <1>2 DEF LocalKnown, Vouched, Backs
<1>6. Stages'
  BY <1>0 DEF Stages
<1> QED
  BY <1>3, <1>4, <1>5, <1>6 DEF LocalKnown

\* The steps that neither transfer nor edit.
LEMMA OtherKept ==
  ASSUME Types, Types', RemoteKnown, LocalKnown,
         \/ \E r \in Rels : ForeignCreate(r)
         \/ \E i \in DOMAIN remote : ForeignWrite(i) \/ ForeignRemove(i)
         \/ \E o \in Options : BeginStops(o)
         \/ \E it \in waiting : Take(it)
         \/ \E it \in DOMAIN work : CollectFailure(it)
         \/ PullHalfDone \/ Finish \/ Crash \/ UNCHANGED vars
  PROVE  LocalKnown'
<1>0. RemoteMoves /\ Quiet
  BY OtherMoves DEF Environment
<1>1. CASE \/ \E r \in Rels : ForeignCreate(r)
           \/ \E i \in DOMAIN remote : ForeignWrite(i) \/ ForeignRemove(i)
  BY <1>0, <1>1, IdleKept, ForeignFacts DEF run
<1>2. CASE (\E o \in Options : BeginStops(o)) \/ UNCHANGED vars
  BY <1>0, <1>2, IdleKept DEF BeginStops, run, vars, history
<1>3. CASE \E it \in waiting : Take(it)
  <2>1. PICK it \in waiting : Take(it)
    BY <1>3
  <2>2. work'[it].at \in {"open", "remove"}
    <3> DEFINE at == IF it.op = "download" THEN "open" ELSE "remove"
    <3>1. work'[it] = [at |-> at, size |-> 0, mtime |-> 0, data |-> 0]
      BY <2>1, TakeFacts
    <3>2. work'[it].at = at
      BY <3>1
    <3> QED
      BY <3>2
  <2> QED
    BY <1>0, <2>1, <2>2, IdleKept, TakeFacts DEF history
<1>4. CASE \E it \in DOMAIN work : CollectFailure(it)
  BY <1>0, <1>4, IdleKept, DropFacts DEF CollectFailure, history
<1>5. CASE PullHalfDone
  BY <1>0, <1>5, IdleKept DEF PullHalfDone, history
<1>6. CASE Finish \/ Crash
  BY <1>0, <1>6, IdleKept DEF Finish, Crash, Abandon, Empty
<1> QED
  BY <1>1, <1>2, <1>3, <1>4, <1>5, <1>6

\* The start: a pull has entered what it has put there.
LEMMA InitLocalKnown ==
  ASSUME Init
  PROVE  LocalKnown
<1> DEFINE n == Len(StartPaths)
<1>1. /\ StartPaths \in [1..n -> Rels] /\ n \in Nat /\ DOMAIN StartPaths = 1..n
  BY PullAssumption
<1>2. remote = [i \in 1..n |-> [path |-> StartPaths[i], size |-> 1, mtime |-> i, data |-> i]]
  BY <1>1 DEF Init
<1>3. clock = n /\ m = disk /\ later = {} /\ DOMAIN work = {}
  BY DEF Init, Empty
<1>4. PICK synced \in SyncedStarts :
        LET pulled == {i \in DOMAIN StartPaths : synced}
            Nth(r) == CHOOSE i \in pulled : StartPaths[i] = r
            paths  == {StartPaths[i] : i \in pulled}
        IN /\ local = [r \in paths |-> [size |-> 1, mtime |-> Nth(r), data |-> Nth(r)]]
           /\ disk = [r \in paths |-> Entry(1, Nth(r), Nth(r), Nth(r))]
  BY DEF Init
<1> DEFINE pulled == {i \in 1..n : synced}
           Nth(r) == CHOOSE i \in pulled : StartPaths[i] = r
           paths  == {StartPaths[i] : i \in pulled}
<1>5. /\ local = [r \in paths |-> [size |-> 1, mtime |-> Nth(r), data |-> Nth(r)]]
      /\ disk = [r \in paths |-> Entry(1, Nth(r), Nth(r), Nth(r))]
  BY <1>1, <1>4
<1>6. ASSUME NEW r \in paths PROVE Nth(r) \in 1..n
  <2>1. \E i \in pulled : StartPaths[i] = r
    OBVIOUS
  <2> QED
    BY <2>1
<1> HIDE DEF Nth, paths
<1>7. \A r \in DOMAIN local : /\ r \in paths /\ local[r].mtime = Nth(r) /\ local[r].data = Nth(r)
                              /\ Nth(r) \in 1..n
  BY <1>5, <1>6
<1>8. \A r \in DOMAIN disk : /\ r \in paths /\ disk[r].localMtime = Nth(r) /\ Nth(r) \in 1..n
                             /\ disk[r].remoteID = Nth(r)
  BY <1>5, <1>6 DEF Entry
<1>9. LocalDates
  BY <1>1, <1>3, <1>7, <1>8 DEF LocalDates, AgedAt
<1>10. Vouched
  BY <1>2, <1>3, <1>7, <1>8 DEF Vouched, Backs
<1> QED
  BY <1>3, <1>9, <1>10 DEF LocalKnown, Stages, Deletes

\* Every step keeps what is known of the local tree.
LEMMA LocalKnownNext ==
  ASSUME Types, Types', RemoteKnown, NoTwins, LocalKnown, [Next]_vars
  PROVE  LocalKnown'
<1>1. ASSUME NEW r \in Rels, LocalWrite(r) \/ LocalRemove(r) PROVE LocalKnown'
  BY <1>1, EditKept
<1>2. ASSUME NEW it \in DOMAIN work, Step(it) PROVE LocalKnown'
  BY <1>2, StepKept
<1>3. ASSUME NEW it \in DOMAIN work, Collect(it) PROVE LocalKnown'
  BY <1>3, CollectKept
<1>4. ASSUME NEW it \in later, PushItem(it) PROVE LocalKnown'
  BY <1>4, PushKept
<1>5. ASSUME NEW o \in Options, Begin(o) PROVE LocalKnown'
  BY <1>5, BeginKept
<1> QED
  BY <1>1, <1>2, <1>3, <1>4, <1>5, OtherKept DEF Next, Environment

\* In every reachable state a download that is under way has what it says it has, where it
\* says, and an entry that agrees with both sides vouches for the same content on both.
THEOREM LocalKnownAlways == Spec /\ []NoTwins => []LocalKnown
<1>1. Init => LocalKnown
  BY InitLocalKnown
<1>2. Types /\ Types' /\ RemoteKnown /\ NoTwins /\ LocalKnown /\ [Next]_vars => LocalKnown'
  BY LocalKnownNext
<1> QED
  BY <1>1, <1>2, TypesAlways, RemoteKnownAlways, PTL DEF Spec

\* Where an entry agrees with both sides, both have the same content: however downloads,
\* edits, changes by other clients, failures, checkpoints and kills come between each other.
THEOREM PulledEntriesSoundAlways == Spec /\ []NoTwins => []PulledEntriesSound
<1>1. LocalKnown => PulledEntriesSound
  BY DEF LocalKnown, Vouched, Backs, PulledEntriesSound
<1> QED
  BY <1>1, LocalKnownAlways, PTL

-----------------------------------------------------------------------------
(* Nothing in parts                                                          *)

\* The content on its way to a user's file is whole.
WholeStreams ==
  \A it \in DOMAIN work :
    it.op = "download" /\ it.rel \in Rels /\ work[it].at \in {"create", "copy", "rename"} =>
      work[it].data > 0

Whole == NothingInParts /\ WholeStreams

\* What neither streams nor writes.
LEMMA WholeKept ==
  ASSUME Whole, UNCHANGED <<local, remote>>,
         \A it \in DOMAIN work' : \/ it \in DOMAIN work /\ work'[it] = work[it]
                                  \/ work'[it].at \notin {"create", "copy", "rename"}
  PROVE  Whole'
<1>1. NothingInParts'
  BY DEF Whole, NothingInParts
<1>2. WholeStreams'
  BY DEF Whole, WholeStreams
<1> QED
  BY <1>1, <1>2 DEF Whole

\* What a user or another client writes is whole.
LEMMA WholeEdit ==
  ASSUME Types, Types', Whole, Environment
  PROVE  Whole'
<1>0. clock \in Nat
  BY RemoteBasics
<1>1. ASSUME NEW r \in Rels, LocalWrite(r) \/ LocalRemove(r) PROVE Whole'
  <2>1. /\ \A q \in DOMAIN local' : q # r => q \in DOMAIN local /\ local'[q] = local[q]
        /\ r \in DOMAIN local' => local'[r].data = clock + 1
        /\ UNCHANGED <<work, remote>>
    BY <1>1, EditFacts DEF SameFile
  <2>2. NothingInParts'
    BY <1>0, <2>1 DEF Whole, NothingInParts
  <2> QED
    BY <2>1, <2>2 DEF Whole, WholeStreams
<1>2. ASSUME NEW r, NEW i,
             \/ r \in Rels /\ ForeignCreate(r) /\ i = nextId
             \/ i \in DOMAIN remote /\ (ForeignWrite(i) \/ ForeignRemove(i))
      PROVE  Whole'
  <2>1. UNCHANGED <<local, work>>
    BY <1>2, ForeignFacts DEF run
  <2>2. \A j \in DOMAIN remote' : \/ j \in DOMAIN remote /\ remote'[j] = remote[j]
                                  \/ remote'[j].data > 0
    <3>1. \A q, s : OnServer(q, Written(s)).data = clock + 1
      BY DEF OnServer, Written
    <3>2. CASE \E s \in Sizes : remote' = Set(remote, i, OnServer(r, Written(s)))
      <4>1. PICK s \in Sizes : remote' = Set(remote, i, OnServer(r, Written(s)))
        BY <3>2
      <4>2. /\ \A j \in DOMAIN remote' \ {i} : j \in DOMAIN remote /\ remote'[j] = remote[j]
            /\ remote'[i] = OnServer(r, Written(s))
        BY <4>1 DEF Set
      <4> QED
        BY <1>0, <3>1, <4>2
    <3>3. CASE \E s \in Sizes : remote' = Set(remote, i, OnServer(remote[i].path, Written(s)))
      <4>1. PICK s \in Sizes : remote' = Set(remote, i, OnServer(remote[i].path, Written(s)))
        BY <3>3
      <4>2. /\ \A j \in DOMAIN remote' \ {i} : j \in DOMAIN remote /\ remote'[j] = remote[j]
            /\ remote'[i] = OnServer(remote[i].path, Written(s))
        BY <4>1 DEF Set
      <4> QED
        BY <1>0, <3>1, <4>2
    <3>4. CASE remote' = Delete(remote, i)
      BY <3>4 DEF Delete
    <3> QED
      BY <1>2, <3>2, <3>3, <3>4, ForeignFacts
  <2>3. NothingInParts'
    BY <2>1, <2>2 DEF Whole, NothingInParts
  <2> QED
    BY <2>1, <2>3 DEF Whole, WholeStreams
<1> QED
  BY <1>1, <1>2 DEF Environment

\* A step leaves the file at its item's path alone, or puts one in its place, or removes it.
LEMMA OwnPath ==
  ASSUME Types, NEW it \in DOMAIN work, Step(it)
  PROVE  \/ SameFile(it.rel)
         \/ Rename(it) /\ ~Goes(it, "failed")
         \/ RemoveLocal(it) /\ it.rel \notin DOMAIN local'
<1>0. TmpOf(it.rel) # it.rel
  BY StepTree
<1>1. CASE UNCHANGED local \/ local' = Delete(local, TmpOf(it.rel))
  BY <1>0, <1>1 DEF SameFile, Delete
<1>2. CASE local' = Set(local, TmpOf(it.rel), [size |-> 0, mtime |-> clock,
                                               data |-> -work[it].data])
  BY <1>0, <1>2 DEF SameFile, Set
<1>3. CASE local' = Filled(it)
  BY <1>0, <1>3, FilledFacts DEF SameFile
<1>4. CASE RemoveLocal(it) /\ local' = Delete(local, it.rel)
  BY <1>4 DEF Delete
<1>5. Rename(it) /\ Goes(it, "failed") =>
        UNCHANGED local \/ local' = Delete(local, TmpOf(it.rel))
  BY RenameFacts, GoesFields
<1> QED
  BY <1>1, <1>2, <1>3, <1>4, <1>5, OpenStreamFacts, CreateTmpFacts, CopyFacts, StatFacts,
     RemoveLocalFacts DEF Step

\* An executor step puts nothing under a user's name but what is whole.
LEMMA WholeStep ==
  ASSUME Types, Types', RemoteKnown, LocalKnown, NoTwins, Whole, NEW it \in DOMAIN work, Step(it)
  PROVE  Whole'
<1>0. /\ UNCHANGED remote /\ DOMAIN work' = DOMAIN work
      /\ \A other \in DOMAIN work \ {it} : work'[other] = work[other]
      /\ \A r : r # it.rel /\ (it.op = "download" => r # TmpOf(it.rel)) => SameFile(r)
      /\ it.op = "download" => TmpOf(it.rel) \notin Rels
  BY StepShape, StepTree DEF OnlyProgress, NoTwins
<1>1. it.op = "download" /\ it.rel \in Rels /\ work'[it].at \in {"create", "copy", "rename"} =>
        work'[it].data > 0
  <2>1. CASE OpenStream(it) /\ ~Goes(it, "failed") /\ it.op = "download" /\ it.rel \in Rels
    <3>1. /\ it.remoteID \in DOMAIN remote
          /\ work'[it] = [at |-> "create", size |-> remote[it.remoteID].size,
                          mtime |-> work[it].mtime, data |-> remote[it.remoteID].data]
      BY <2>1, OpenStreamFacts
    <3>2. remote[it.remoteID].path = it.rel
      BY <2>1, <3>1 DEF RemoteKnown, Pulls, Of
    <3>3. remote[it.remoteID].data > 0
      BY <2>1, <3>1, <3>2 DEF Whole, NothingInParts
    <3> QED
      BY <3>1, <3>3
  <2>2. CASE Goes(it, "failed") \/ Goes(it, "stat") \/ Goes(it, "done")
    BY <2>2, GoesFields
  <2>3. CASE Goes(it, "copy") /\ work[it].at = "create"
    BY <2>3, GoesFields DEF Whole, WholeStreams
  <2>4. CASE Goes(it, "rename") /\ work[it].at = "copy"
    BY <2>4, GoesFields DEF Whole, WholeStreams
  <2>5. CASE Stat(it) /\ ~Goes(it, "failed")
    <3>1. work'[it] = [at |-> "done", size |-> work[it].size,
                       mtime |-> local[it.rel].mtime, data |-> work[it].data]
      BY <2>5, StatFacts
    <3> QED
      BY <3>1
  <2> QED
    BY <2>1, <2>2, <2>3, <2>4, <2>5, CreateTmpFacts, CopyFacts, RenameFacts, RemoveLocalFacts
       DEF Step
<1>2. WholeStreams'
  BY <1>0, <1>1 DEF Whole, WholeStreams
<1>3. it.rel \in Rels /\ it.rel \in DOMAIN local' => local'[it.rel].data > 0
  <2>1. CASE SameFile(it.rel)
    BY <2>1 DEF Whole, NothingInParts, SameFile
  <2>2. CASE Rename(it) /\ ~Goes(it, "failed") /\ it.rel \in Rels
    <3>1. /\ TmpOf(it.rel) \in DOMAIN local /\ work[it].at = "rename"
          /\ local' = Set(Delete(local, TmpOf(it.rel)), it.rel, local[TmpOf(it.rel)])
      BY <2>2, RenameFacts
    <3>2. it.op = "download"
      BY <2>2, StepKind, RenameFacts, RemoveLocalFacts
    <3>3. local[TmpOf(it.rel)].data = work[it].data
      BY <3>1, <3>2 DEF LocalKnown, Stages, Staged, InTmp
    <3>4. work[it].data > 0
      BY <2>2, <3>1, <3>2 DEF Whole, WholeStreams
    <3> QED
      BY <3>1, <3>3, <3>4, Renamed
  <2>3. CASE it.rel \notin DOMAIN local'
    BY <2>3
  <2>4. \/ SameFile(it.rel)
        \/ Rename(it) /\ ~Goes(it, "failed")
        \/ it.rel \notin DOMAIN local'
    BY OwnPath
  <2> QED
    BY <2>1, <2>2, <2>3, <2>4
<1>4. NothingInParts'
  BY <1>0, <1>3 DEF Whole, NothingInParts, SameFile
<1> QED
  BY <1>2, <1>4 DEF Whole

\* A push item sends a whole file, or one with a temporary name.
LEMMA WholePush ==
  ASSUME Types, Types', RemoteKnown, Whole, NEW it \in later, PushItem(it)
  PROVE  Whole'
<1>1. UNCHANGED local /\ DOMAIN work' = {}
  BY PushFacts
<1>2. \A i \in DOMAIN remote' : remote'[i].path \in Rels => remote'[i].data > 0
  <2>1. CASE remote' = remote
    BY <2>1 DEF Whole, NothingInParts
  <2>2. CASE Feasible(it) /\ remote' = Pushed(it) /\ it.op = "delete"
    BY <2>2, PushedFacts DEF Whole, NothingInParts, Delete
  <2>3. CASE Feasible(it) /\ remote' = Pushed(it) /\ it.op # "delete"
    <3>1. /\ DOMAIN remote' = DOMAIN remote \cup {TargetOf(it)}
          /\ \A j \in DOMAIN remote \ {TargetOf(it)} : remote'[j] = remote[j]
          /\ remote'[TargetOf(it)].path = it.rel
          /\ remote'[TargetOf(it)].data = local[it.rel].data
      BY <2>3, PushMoves
    <3>2. it.rel \in DOMAIN local
      BY <2>3, TargetFacts
    <3> QED
      BY <3>1, <3>2 DEF Whole, NothingInParts
  <2> QED
    BY <2>1, <2>2, <2>3, PushItemShape
<1> QED
  BY <1>1, <1>2 DEF Whole, WholeStreams, NothingInParts

\* All is whole at the start.
LEMMA WholeInit ==
  ASSUME Init
  PROVE  Whole
<1> DEFINE n == Len(StartPaths)
<1>1. /\ StartPaths \in [1..n -> Rels] /\ n \in Nat /\ DOMAIN StartPaths = 1..n
  BY PullAssumption
<1>2. remote = [i \in 1..n |-> [path |-> StartPaths[i], size |-> 1, mtime |-> i, data |-> i]]
  BY <1>1 DEF Init
<1>3. DOMAIN work = {}
  BY DEF Init, Empty
<1>4. PICK synced \in SyncedStarts :
        LET pulled == {i \in DOMAIN StartPaths : synced}
            Nth(r) == CHOOSE i \in pulled : StartPaths[i] = r
            paths  == {StartPaths[i] : i \in pulled}
        IN /\ local = [r \in paths |-> [size |-> 1, mtime |-> Nth(r), data |-> Nth(r)]]
  BY DEF Init
<1> DEFINE pulled == {i \in 1..n : synced}
           Nth(r) == CHOOSE i \in pulled : StartPaths[i] = r
           paths  == {StartPaths[i] : i \in pulled}
<1>5. local = [r \in paths |-> [size |-> 1, mtime |-> Nth(r), data |-> Nth(r)]]
  BY <1>1, <1>4
<1>6. ASSUME NEW r \in paths PROVE Nth(r) \in 1..n
  <2>1. \E i \in pulled : StartPaths[i] = r
    OBVIOUS
  <2> QED
    BY <2>1
<1> HIDE DEF Nth, paths
<1>7. \A r \in DOMAIN local : local[r].data = Nth(r) /\ Nth(r) \in 1..n
  BY <1>5, <1>6
<1> QED
  BY <1>1, <1>2, <1>3, <1>7 DEF Whole, WholeStreams, NothingInParts

\* Every step keeps it so.
LEMMA WholeNext ==
  ASSUME Types, Types', RemoteKnown, NoTwins, LocalKnown, Whole, [Next]_vars
  PROVE  Whole'
<1>1. ASSUME NEW it \in waiting, Take(it) PROVE Whole'
  <2>1. work'[it].at \notin {"create", "copy", "rename"}
    <3> DEFINE at == IF it.op = "download" THEN "open" ELSE "remove"
    <3>1. work'[it] = [at |-> at, size |-> 0, mtime |-> 0, data |-> 0]
      BY <1>1, TakeFacts
    <3>2. work'[it].at = at
      BY <3>1
    <3> QED
      BY <3>2
  <2> QED
    BY <1>1, <2>1, TakeFacts, WholeKept
<1>2. ASSUME NEW it \in DOMAIN work, Collect(it) \/ CollectFailure(it) PROVE Whole'
  BY <1>2, DropFacts, WholeKept DEF Collect, CollectFailure
<1>3. ASSUME NEW o \in Options, Begin(o) \/ BeginStops(o) PROVE Whole'
  BY <1>3, WholeKept DEF Begin, BeginStops, run
<1>4. CASE PullHalfDone \/ Finish \/ Crash \/ UNCHANGED vars
  BY <1>4, WholeKept DEF PullHalfDone, Finish, Crash, Abandon, Empty, vars, run
<1> QED
  BY <1>1, <1>2, <1>3, <1>4, WholeEdit, WholeStep, WholePush DEF Next

\* No part of a file is ever found under a name users use, here or in the remote folder:
\* a download shows under its name only when all of it is there, whatever fails, and
\* wherever the process is killed.
THEOREM NothingInPartsAlways == Spec /\ []NoTwins => []NothingInParts
<1>1. Init => Whole
  BY WholeInit
<1>2. Types /\ Types' /\ RemoteKnown /\ NoTwins /\ LocalKnown /\ Whole /\ [Next]_vars => Whole'
  BY WholeNext
<1>3. Whole => NothingInParts
  BY DEF Whole
<1> QED
  BY <1>1, <1>2, <1>3, TypesAlways, RemoteKnownAlways, LocalKnownAlways, PTL DEF Spec

-----------------------------------------------------------------------------
(* Edits no run has seen                                                     *)

\* the stages at which an item has not replaced or removed its file
Before == {"open", "create", "copy", "rename", "remove"}

Ahead(it) == it \in waiting \/ (it \in DOMAIN work /\ work[it].at \in Before)

\* An item that still has its file to replace or to remove may do so, or the file is the
\* one the manifest holds.
SparedFile(it) ==
  Ahead(it) /\ it.rel \in (Rels \cap DOMAIN local) \ late =>
    \/ opts.mode = "pull" /\ (opts.force \/ it.op = "deleteLocal")
    \/ it.rel \in DOMAIN m /\ ~Touched(local[it.rel], m[it.rel])

\* A push item is for a remote file that the manifest holds as it is, or for none.
SparedRemote(it) ==
  IF it.op = "upload" THEN At(it.rel) \subseteq lateIds
  ELSE /\ it.rel \in DOMAIN m
       /\ it.remoteID \in DOMAIN remote \ lateIds =>
            ~RemoteTouched(remote[it.remoteID], m[it.rel])

Unseen ==
  /\ edits \in Nat /\ foreign \in Nat
  /\ \A it \in Pulls : /\ SparedFile(it)
                       /\ it.op = "deleteLocal" => it = DeleteLocalItem(it.rel)
  /\ \A it \in later : SparedRemote(it)

SameEntryAt(r) == /\ r \in DOMAIN m' <=> r \in DOMAIN m
                  /\ r \in DOMAIN m => m'[r] = m[r]

\* A step that leaves the file and its entry alone spares it.
LEMMA SparedFileKept ==
  ASSUME NEW it \in Pulls, SparedFile(it), SameFile(it.rel) \/ it.rel \in late',
         SameEntryAt(it.rel), opts' = opts, late \subseteq late', Ahead(it)' => Ahead(it)
  PROVE  SparedFile(it)'
  BY DEF SparedFile, SameFile, SameEntryAt

\* So it is with the remote file of a push item.
LEMMA SparedRemoteKept ==
  ASSUME Types, Types', NEW it \in later, SparedRemote(it), SameEntryAt(it.rel),
         lateIds \subseteq lateIds',
         \A i \in DOMAIN remote' \ lateIds' :
           (remote'[i].path = it.rel \/ (it.op # "upload" /\ i = it.remoteID)) =>
             i \in DOMAIN remote /\ remote'[i] = remote[i]
  PROVE  SparedRemote(it)'
<1>1. CASE it.op = "upload"
  BY <1>1 DEF SparedRemote, At
<1>2. CASE it.op # "upload"
  BY <1>2 DEF SparedRemote, SameEntryAt
<1> QED
  BY <1>1, <1>2

\* What leaves the remote folder and the entries of its items alone.
LEMMA UnseenKept ==
  ASSUME Types, Types', Unseen, Pulls' \subseteq Pulls, later' \subseteq later,
         edits' \in Nat, foreign' \in Nat, opts' = opts,
         late \subseteq late', lateIds \subseteq lateIds', UNCHANGED remote,
         \A it \in later' : SameEntryAt(it.rel),
         \A it \in Pulls' : Ahead(it)' =>
           /\ SameFile(it.rel) \/ it.rel \notin Rels \/ it.rel \in late'
                \/ it.rel \notin DOMAIN local'
           /\ SameEntryAt(it.rel) /\ Ahead(it)
  PROVE  Unseen'
<1>1. ASSUME NEW it \in Pulls' PROVE SparedFile(it)'
  <2>1. it \in Pulls /\ SparedFile(it)
    BY DEF Unseen
  <2>2. CASE SameFile(it.rel) \/ it.rel \in late'
    <3>1. CASE Ahead(it)'
      BY <2>1, <2>2, <3>1, SparedFileKept
    <3>2. CASE ~Ahead(it)'
      BY <3>2 DEF SparedFile
    <3> QED
      BY <3>1, <3>2
  <2>3. CASE it.rel \notin Rels \/ it.rel \notin DOMAIN local' \/ ~Ahead(it)'
    BY <2>3 DEF SparedFile
  <2> QED
    BY <2>2, <2>3
<1>2. ASSUME NEW it \in later' PROVE SparedRemote(it)'
  <2>1. it \in later /\ SparedRemote(it)
    BY DEF Unseen
  <2> QED
    BY <2>1, SparedRemoteKept
<1> QED
  BY <1>1, <1>2 DEF Unseen

\* An edit is one that no run has seen, and marked so.
LEMMA UnseenEdit ==
  ASSUME Types, Types', RemoteKnown, Unseen, Environment
  PROVE  Unseen'
<1>1. ASSUME NEW r \in Rels, LocalWrite(r) \/ LocalRemove(r) PROVE Unseen'
  <2>1. /\ \A q : q # r => SameFile(q)
        /\ late' = late \cup {r} /\ UNCHANGED <<work, later, m, remote>>
    BY <1>1, EditFacts
  <2>2. UNCHANGED <<waiting, opts, lateIds, foreign>> /\ edits' = edits + 1
    BY <1>1, LocalEditFacts DEF run
  <2> QED
    BY <2>1, <2>2, UnseenKept DEF Unseen, Ahead, Pulls, SameEntryAt
<1>2. ASSUME NEW r, NEW i,
             \/ r \in Rels /\ ForeignCreate(r) /\ i = nextId
             \/ i \in DOMAIN remote /\ (ForeignWrite(i) \/ ForeignRemove(i))
      PROVE  Unseen'
  <2>1. /\ UNCHANGED <<local, m, waiting, opts, later, work, late, edits>>
        /\ foreign' = foreign + 1 /\ lateIds' = lateIds \cup {i}
    BY <1>2, ForeignFacts DEF run
  <2>2. \A j \in DOMAIN remote' \ {i} : j \in DOMAIN remote /\ remote'[j] = remote[j]
    <3>1. \/ \E f : remote' = Set(remote, i, f)
          \/ remote' = Delete(remote, i)
      BY <1>2, ForeignFacts
    <3> QED
      BY <3>1 DEF Set, Delete
  <2>3. ASSUME NEW it \in Pulls' PROVE SparedFile(it)'
    BY <2>1 DEF Unseen, SparedFile, Ahead, Pulls
  <2>4. ASSUME NEW it \in later' PROVE SparedRemote(it)'
    <3>1. it \in later /\ SparedRemote(it) /\ SameEntryAt(it.rel)
      BY <2>1 DEF Unseen, SameEntryAt
    <3> QED
      BY <2>1, <2>2, <3>1, SparedRemoteKept
  <2> QED
    BY <2>1, <2>3, <2>4 DEF Unseen, Pulls
<1> QED
  BY <1>1, <1>2 DEF Environment

\* An executor step makes no other item reach a file it would not have reached.
LEMMA UnseenStep ==
  ASSUME Types, Types', NoTwins, Unseen, NEW it \in DOMAIN work, Step(it)
  PROVE  Unseen'
<1>0. /\ UNCHANGED <<remote, m, waiting, opts, later, late, lateIds, edits, foreign>>
      /\ DOMAIN work' = DOMAIN work
      /\ \A other \in DOMAIN work \ {it} : work'[other] = work[other]
      /\ \A r : r # it.rel /\ (it.op = "download" => r # TmpOf(it.rel)) => SameFile(r)
      /\ it.op = "download" => TmpOf(it.rel) \notin Rels
  BY StepShape, StepTree DEF OnlyProgress, NoTwins
<1>1. ASSUME NEW other \in Pulls', Ahead(other)'
      PROVE  /\ Ahead(other)
             /\ \/ SameFile(other.rel) \/ other.rel \notin Rels
                \/ other.rel \notin DOMAIN local'
  <2>1. CASE other # it
    <3>1. other.rel # it.rel /\ other \in Pulls
      BY <1>0, <2>1 DEF Types, OneItemPerPath, Pulls
    <3>2. SameFile(other.rel) \/ other.rel \notin Rels
      BY <1>0, <3>1
    <3> QED
      BY <1>0, <1>1, <2>1, <3>2 DEF Ahead
  <2>2. CASE other = it
    <3>1. work'[it].at \in Before
      BY <1>0, <1>1, <2>2 DEF Ahead, Types, OneItemPerPath
    <3>2. ~Stat(it)
      <4>1. SUFFICES ASSUME Stat(it) PROVE FALSE
        OBVIOUS
      <4>2. work'[it].at \in {"failed", "done"}
        <5>1. CASE Goes(it, "failed")
          BY <5>1, GoesFields
        <5>2. CASE work'[it] = [at |-> "done", size |-> work[it].size,
                                mtime |-> local[it.rel].mtime, data |-> work[it].data]
          BY <5>2
        <5> QED
          BY <4>1, <5>1, <5>2, StatFacts
      <4> QED
        BY <3>1, <4>2 DEF Before
    <3>3. work[it].at \in Before
      BY <3>2, OpenStreamFacts, CreateTmpFacts, CopyFacts, RenameFacts, RemoveLocalFacts
         DEF Step, Before
    <3>4. ~(Rename(it) /\ ~Goes(it, "failed"))
      <4>1. Rename(it) /\ ~Goes(it, "failed") => work'[it].at = "stat"
        BY RenameFacts, GoesFields
      <4> QED
        BY <3>1, <4>1 DEF Before
    <3> QED
      BY <2>2, <3>3, <3>4, OwnPath DEF Ahead
  <2> QED
    BY <2>1, <2>2
<1> QED
  BY <1>0, <1>1, UnseenKept DEF Unseen, Pulls, SameEntryAt

\* Collecting changes the entry of a path that has no other item.
LEMMA UnseenCollect ==
  ASSUME Types, Types', Unseen, NEW it \in DOMAIN work, Collect(it)
  PROVE  Unseen'
<1>0. /\ UNCHANGED <<local, remote, waiting, opts, later, late, lateIds, edits, foreign>>
      /\ DOMAIN work' = DOMAIN work \ {it}
      /\ \A other \in DOMAIN work \ {it} : work'[other] = work[other]
  BY CollectFacts DEF Collect
<1>1. \A r : r # it.rel => SameEntryAt(r)
  <2>1. m' = Recorded(it)
    BY DEF Collect
  <2>2. CASE it.op = "deleteLocal"
    BY <2>1, <2>2 DEF Recorded, SameEntryAt, Delete
  <2>3. CASE it.op # "deleteLocal"
    BY <2>1, <2>3 DEF Recorded, SameEntryAt, Set
  <2> QED
    BY <2>2, <2>3
<1>2. /\ \A other \in Pulls' : other.rel # it.rel
      /\ \A other \in later' : other.rel # it.rel
  <2>1. \A other \in Pulls' : other \in Pulls /\ other # it
    BY <1>0 DEF Pulls, Types, OneItemPerPath
  <2> QED
    BY <1>0, <2>1 DEF Types, OneItemPerPath, Pulls
<1>3. \A other \in Pulls' : Ahead(other)' => Ahead(other)
  BY <1>0 DEF Ahead
<1>4. \A r : SameFile(r)
  BY <1>0 DEF SameFile
<1>5. Pulls' \subseteq Pulls /\ edits' \in Nat /\ foreign' \in Nat
  BY <1>0 DEF Pulls, Unseen
<1> QED
  BY <1>0, <1>1, <1>2, <1>3, <1>4, <1>5, UnseenKept

\* A push item changes a path that has no other item.
LEMMA UnseenPush ==
  ASSUME Types, Types', RemoteKnown, Unseen, NEW it \in later, PushItem(it)
  PROVE  Unseen'
<1>0. /\ UNCHANGED <<local, waiting, opts, late, lateIds, edits, foreign>>
      /\ DOMAIN work' = {} /\ later' = later \ {it} /\ waiting = {} /\ clock \in Nat
  BY PushItemShape, PushFacts, RemoteBasics DEF Types, Phases
<1>1. \A r : r # it.rel => SameEntryAt(r)
  <2>1. CASE m' = m
    BY <2>1 DEF SameEntryAt
  <2>2. CASE m' = PushRecorded(it)
    BY <2>2 DEF SameEntryAt, PushRecorded, Set, Delete
  <2> QED
    BY <2>1, <2>2, PushItemShape
<1>2. Pulls' = {}
  BY <1>0 DEF Pulls
<1>3. ASSUME NEW other \in later' PROVE SparedRemote(other)'
  <2>1. other \in later /\ other # it /\ other.rel # it.rel /\ SparedRemote(other)
    BY <1>0 DEF Types, OneItemPerPath, Unseen
  <2>2. ASSUME NEW i \in DOMAIN remote' \ lateIds',
               remote'[i].path = other.rel \/ (other.op # "upload" /\ i = other.remoteID)
        PROVE  i \in DOMAIN remote /\ remote'[i] = remote[i]
    <3>1. CASE remote' = remote
      BY <3>1
    <3>2. CASE Feasible(it) /\ remote' = Pushed(it) /\ it.op = "delete"
      BY <3>2, PushedFacts DEF Delete
    <3>3. CASE Feasible(it) /\ remote' = Pushed(it) /\ it.op # "delete"
      <4>1. /\ \A j \in DOMAIN remote' \ {TargetOf(it)} : j \in DOMAIN remote /\ remote'[j] = remote[j]
            /\ remote'[TargetOf(it)].path = it.rel /\ TargetOf(it) \in DOMAIN remote'
        BY <3>3, PushMoves
      <4>2. CASE i # TargetOf(it)
        BY <4>1, <4>2
      <4>3. CASE i = TargetOf(it) /\ i = other.remoteID /\ other.op # "upload"
        <5>1. OfNext(other.remoteID, other.rel)
          BY <2>1, <4>3, EntriesKept, PushMoves
        <5> QED
          BY <2>1, <4>1, <4>3, <5>1 DEF OfNext
      <4> QED
        BY <2>1, <2>2, <4>1, <4>2, <4>3
    <3> QED
      BY <3>1, <3>2, <3>3, PushItemShape
  <2> QED
    BY <1>0, <1>1, <2>1, <2>2, SparedRemoteKept
<1> QED
  BY <1>0, <1>2, <1>3 DEF Unseen

\* What a run finds changed on one side only.
LEMMA UnseenBegin ==
  ASSUME Types, Types', RemoteKnown, Unseen, Unwalked = {}, NEW o \in Options, Begin(o)
  PROVE  Unseen'
<1>0. /\ UNCHANGED <<local, remote, edits, foreign, work>>
      /\ opts' = o /\ m' = Base(o) /\ waiting' = PullItems(o) /\ later' = PushItems(o)
      /\ Pulls' = PullItems(o) /\ late' = {} /\ lateIds' = {} /\ o \in Option /\ TreesTyped
      /\ DOMAIN work = {}
  BY BeginFacts
<1>1. /\ DOMAIN Walked = DOMAIN local
      /\ \A r \in DOMAIN local : Walked[r] = local[r]
  BY <1>0, WalkedFacts
<1>2. ASSUME NEW it \in Pulls'
      PROVE  /\ SparedFile(it)'
             /\ it.op = "deleteLocal" => it = DeleteLocalItem(it.rel)
  <2>1. /\ \/ it.op = "download"
           \/ it = DeleteLocalItem(it.rel) /\ it.op = "deleteLocal"
        /\ o.mode = "twoWay" =>
              \/ ~LocalChanged(Walked, Base(o), it.rel)
              \/ it.rel \notin DOMAIN Walked
        /\ o.mode = "pull" /\ ~o.force /\ it.op = "download" /\ it.rel \in DOMAIN Walked =>
              it.rel \in DOMAIN Base(o) /\ ~Touched(local[it.rel], Base(o)[it.rel])
    BY <1>0, PullItemFacts DEF DownloadItem, DeleteLocalItem
  <2>2. o.mode \in {"pull", "twoWay"}
    BY <1>0 DEF Option
  <2>3. CASE o.mode = "pull"
    BY <1>0, <1>1, <2>1, <2>3 DEF SparedFile
  <2>4. CASE o.mode = "twoWay"
    BY <1>0, <1>1, <2>1, <2>4 DEF SparedFile, LocalChanged
  <2> QED
    BY <2>1, <2>2, <2>3, <2>4 DEF DeleteLocalItem
<1>3. ASSUME NEW it \in later' PROVE SparedRemote(it)'
  <2>1. /\ ~RemoteChanged(Index, Base(o), it.rel)
        /\ \/ it.rel \notin DOMAIN Base(o) /\ it.op = "upload"
           \/ /\ it.rel \in DOMAIN Base(o) /\ it.op # "upload"
              /\ it.remoteID = Base(o)[it.rel].remoteID
    BY <1>0, PushItemFacts DEF UploadItem, OverwriteItem, DeleteItem
  <2>2. CASE it.op = "upload"
    <3>1. it.rel \notin DOMAIN Index
      BY <2>1, <2>2 DEF RemoteChanged
    <3>2. At(it.rel) = {}
      BY <1>0, <3>1, IndexFacts DEF At
    <3> QED
      BY <1>0, <2>2, <3>2 DEF SparedRemote, At
  <2>3. CASE it.op # "upload"
    <3>1. /\ it.rel \in DOMAIN Base(o) /\ it.rel \in DOMAIN Index
          /\ ~RemoteTouched(Index[it.rel], Base(o)[it.rel])
      BY <2>1, <2>3 DEF RemoteChanged
    <3>2. ASSUME it.remoteID \in DOMAIN remote
          PROVE  ~RemoteTouched(remote[it.remoteID], Base(o)[it.rel])
      <4>1. remote[it.remoteID].path = it.rel
        <5>1. RemoteKnown'
          BY BeginKnown
        <5> QED
          BY <1>0, <2>3, <3>2, <5>1 DEF RemoteKnown, Of
      <4>2. /\ Index[it.rel].id \in DOMAIN remote /\ remote[Index[it.rel].id].path = it.rel
            /\ Index[it.rel].size = remote[Index[it.rel].id].size
            /\ Index[it.rel].mtime = remote[Index[it.rel].id].mtime
        BY <1>0, <3>1, IndexFacts
      <4>3. it.remoteID = Index[it.rel].id
        BY <3>2, <4>1, <4>2 DEF RemoteKnown
      <4> QED
        BY <3>1, <4>2, <4>3 DEF RemoteTouched
    <3> QED
      BY <1>0, <2>3, <3>1, <3>2 DEF SparedRemote
  <2> QED
    BY <2>2, <2>3
<1> QED
  BY <1>0, <1>2, <1>3 DEF Unseen

\* The steps that neither transfer nor edit.
LEMMA UnseenOther ==
  ASSUME Types, Types', Unseen,
         \/ \E o \in Options : BeginStops(o)
         \/ \E it \in waiting : Take(it)
         \/ \E it \in DOMAIN work : CollectFailure(it)
         \/ PullHalfDone \/ Finish \/ Crash \/ UNCHANGED vars
  PROVE  Unseen'
<1>1. CASE (\E o \in Options : BeginStops(o)) \/ UNCHANGED vars \/ PullHalfDone
  <2>1. UNCHANGED <<local, remote, m, opts, waiting, later, work, edits, foreign, late, lateIds>>
    BY <1>1 DEF BeginStops, PullHalfDone, vars, run, bounds, history
  <2> QED
    BY <2>1 DEF Unseen, SparedFile, SparedRemote, Ahead, Pulls, At
<1>2. CASE \E it \in waiting : Take(it)
  <2>1. PICK it \in waiting : Take(it)
    BY <1>2
  <2>2. /\ UNCHANGED <<local, remote, m, opts, later, edits, foreign, late, lateIds>>
        /\ waiting' = waiting \ {it} /\ DOMAIN work' = DOMAIN work \cup {it}
        /\ \A other \in DOMAIN work : work'[other] = work[other]
    BY <2>1, TakeFacts DEF bounds, history
  <2>3. Pulls' = Pulls /\ \A other \in Pulls' : Ahead(other)' => Ahead(other)
    BY <2>2 DEF Pulls, Ahead
  <2>4. \A r : SameFile(r) /\ SameEntryAt(r)
    BY <2>2 DEF SameFile, SameEntryAt
  <2> QED
    BY <2>2, <2>3, <2>4, UnseenKept DEF Unseen
<1>3. CASE \E it \in DOMAIN work : CollectFailure(it)
  <2>1. PICK it \in DOMAIN work : CollectFailure(it)
    BY <1>3
  <2>2. /\ UNCHANGED <<local, remote, m, opts, waiting, later, edits, foreign, late, lateIds>>
        /\ DOMAIN work' = DOMAIN work \ {it}
        /\ \A other \in DOMAIN work \ {it} : work'[other] = work[other]
    BY <2>1, DropFacts DEF CollectFailure, bounds, history
  <2>3. Pulls' \subseteq Pulls /\ \A other \in Pulls' : Ahead(other)' => Ahead(other)
    BY <2>2 DEF Pulls, Ahead
  <2>4. \A r : SameFile(r) /\ SameEntryAt(r)
    BY <2>2 DEF SameFile, SameEntryAt
  <2> QED
    BY <2>2, <2>3, <2>4, UnseenKept DEF Unseen
<1>4. CASE Finish \/ Crash
  <2>1. Pulls' = {} /\ later' = {} /\ UNCHANGED <<edits, foreign>>
    BY <1>4 DEF Finish, Crash, Abandon, Empty, Pulls
  <2> QED
    BY <2>1 DEF Unseen
<1> QED
  BY <1>1, <1>2, <1>3, <1>4

\* Every step keeps the items from what no run has seen.
LEMMA UnseenNext ==
  ASSUME Types, Types', RemoteKnown, NoTwins, Unseen, Unwalked = {}, [Next]_vars
  PROVE  Unseen'
  BY UnseenEdit, UnseenStep, UnseenCollect, UnseenPush, UnseenBegin, UnseenOther DEF Next

\* So no step of a run replaces or removes it.
LEMMA NoStepLoses ==
  ASSUME Types, Types', RemoteKnown, NoTwins, Unseen, [Next]_vars,
         edits' = edits, foreign' = foreign
  PROVE  /\ \A r \in (Rels \cap DOMAIN local) \ late :
              Unpushed(r) /\ ~MayLose(r) => r \in DOMAIN local' /\ local'[r] = local[r]
         /\ \A i \in DOMAIN remote \ lateIds :
              Unpulled(i) => i \in DOMAIN remote' /\ remote'[i] = remote[i]
<1>0. edits \in Nat /\ foreign \in Nat
  BY DEF Unseen
<1>1. ~Environment
  <2>1. edits + 1 # edits /\ foreign + 1 # foreign
    BY <1>0
  <2> QED
    BY <2>1 DEF Environment, LocalWrite, LocalRemove, LocalEdit, ForeignCreate, ForeignWrite,
                ForeignRemove, ForeignEdit
<1>2. CASE \E it \in DOMAIN work : Step(it)
  <2>1. PICK it \in DOMAIN work : Step(it)
    BY <1>2
  <2>2. /\ UNCHANGED remote
        /\ \A r : r # it.rel /\ (it.op = "download" => r # TmpOf(it.rel)) => SameFile(r)
        /\ it.op = "download" => TmpOf(it.rel) \notin Rels
        /\ it \in Pulls
    BY <2>1, StepShape, StepTree DEF OnlyProgress, NoTwins, Pulls
  <2>3. ASSUME it.rel \in (Rels \cap DOMAIN local) \ late, Unpushed(it.rel), ~MayLose(it.rel)
        PROVE  SameFile(it.rel)
    <3>1. SUFFICES ASSUME ~SameFile(it.rel) PROVE FALSE
      OBVIOUS
    <3>2. RemoveLocal(it) \/ Rename(it)
      BY <2>1, <3>1, OwnPath
    <3>3. work[it].at \in Before
      BY <3>2, RenameFacts, RemoveLocalFacts DEF Before
    <3>4. SparedFile(it) /\ (it.op = "deleteLocal" => it = DeleteLocalItem(it.rel))
      BY <2>2 DEF Unseen
    <3>5. opts.mode = "pull" /\ (opts.force \/ it.op = "deleteLocal")
      BY <2>3, <3>3, <3>4 DEF SparedFile, Ahead, Unpushed
    <3> QED
      BY <2>3, <3>4, <3>5 DEF MayLose
  <2> QED
    BY <2>2, <2>3 DEF SameFile
<1>3. CASE \E it \in later : PushItem(it)
  <2>1. PICK it \in later : PushItem(it)
    BY <1>3
  <2>2. UNCHANGED local /\ SparedRemote(it)
    BY <2>1, PushFacts DEF Unseen
  <2>3. ASSUME NEW i \in DOMAIN remote \ lateIds, Unpulled(i)
        PROVE  i \in DOMAIN remote' /\ remote'[i] = remote[i]
    <3>1. CASE remote' = remote
      BY <3>1
    <3>2. CASE Feasible(it) /\ remote' = Pushed(it) /\ it.op = "delete"
      <4>1. remote' = Delete(remote, it.remoteID)
        BY <3>2, PushedFacts
      <4>2. i # it.remoteID
        BY <2>2, <2>3, <3>2 DEF SparedRemote, Unpulled, RemoteKnown, Of
      <4> QED
        BY <4>1, <4>2 DEF Delete
    <3>3. CASE Feasible(it) /\ remote' = Pushed(it) /\ it.op # "delete"
      <4>1. /\ \A j \in DOMAIN remote \ {TargetOf(it)} : j \in DOMAIN remote' /\ remote'[j] = remote[j]
        BY <2>1, <3>3, PushMoves
      <4>2. i # TargetOf(it)
        <5>1. CASE it.op = "upload"
          BY <2>2, <3>3, <5>1, TargetFacts, RemoteBasics DEF SparedRemote
        <5>2. CASE it.op = "overwrite"
          <6>1. TargetOf(it) = it.remoteID
            BY <3>3, <5>2, TargetFacts
          <6> QED
            BY <2>2, <2>3, <5>2, <6>1 DEF SparedRemote, Unpulled, RemoteKnown, Of
        <5> QED
          BY <3>3, <5>1, <5>2, RemoteBasics
      <4> QED
        BY <4>1, <4>2
    <3> QED
      BY <2>1, <3>1, <3>2, <3>3, PushItemShape
  <2> QED
    BY <2>2, <2>3
<1>4. CASE \/ \E o \in Options : Begin(o) \/ BeginStops(o)
           \/ \E it \in waiting : Take(it)
           \/ \E it \in DOMAIN work : Collect(it) \/ CollectFailure(it)
           \/ PullHalfDone \/ Finish \/ Crash \/ UNCHANGED vars
  <2>1. UNCHANGED <<local, remote>>
    BY <1>4 DEF Begin, BeginStops, Take, Collect, CollectFailure, PullHalfDone, Finish, Crash,
                vars
  <2> QED
    BY <2>1
<1> QED
  BY <1>1, <1>2, <1>3, <1>4 DEF Next

\* There are no items at the start.
LEMMA InitUnseen ==
  ASSUME Init
  PROVE  Unseen
  BY DEF Init, Unseen, Pulls, Empty

\* No step of a run replaces or removes a version that nobody has synchronised: not a local
\* one that was there when the tree was walked, unless forced or removed by a plain pull
\* with its remote file, and not a remote one that was there when the index was taken.
THEOREM KeepsUnseenEditsAlways ==
  ASSUME Unwalked = {}
  PROVE  Spec /\ []NoTwins => KeepsUnseenEdits
<1>1. Init => Unseen
  BY InitUnseen
<1>2. Types /\ Types' /\ RemoteKnown /\ NoTwins /\ Unseen /\ [Next]_vars => Unseen'
  BY UnseenNext
<1>3. Types /\ Types' /\ RemoteKnown /\ NoTwins /\ Unseen /\ [Next]_vars =>
      [edits' = edits /\ foreign' = foreign =>
         /\ \A r \in (Rels \cap DOMAIN local) \ late :
              Unpushed(r) /\ ~MayLose(r) => r \in DOMAIN local' /\ local'[r] = local[r]
         /\ \A i \in DOMAIN remote \ lateIds :
              Unpulled(i) => i \in DOMAIN remote' /\ remote'[i] = remote[i]]_vars
  BY NoStepLoses
<1> QED
  BY <1>1, <1>2, <1>3, TypesAlways, RemoteKnownAlways, PTL DEF Spec, KeepsUnseenEdits

-----------------------------------------------------------------------------
(* Where no temporary file is taken for one of the user's                    *)

\* No user gives a file the temporary name of another, and no run that walks the tree
\* follows one that was killed: runs only pull, or nothing is killed and nothing fails.
Untwinned ==
  /\ \A r \in Rels : TmpOf(r) \notin Rels
  /\ MaxTroubles = 0 \/ \A o \in Options : o.mode = "pull"

\* r is the temporary name of a download that has made that file
Temporary(r) == \E it \in DOMAIN work : /\ it.op = "download" /\ r = TmpOf(it.rel)
                                        /\ work[it].at \in {"copy", "rename"}

\* All but temporary files have the paths users gave.
OwnPaths ==
  /\ troubles \in Nat
  /\ DOMAIN m \subseteq Rels /\ DOMAIN disk \subseteq Rels
  /\ \A i \in DOMAIN remote : remote[i].path \in Rels
  /\ \A it \in Pulls \cup later : it.rel \in Rels
  /\ MaxTroubles = 0 => \A r \in DOMAIN local : r \in Rels \/ Temporary(r)

\* Then the temporary name of a download is no one else's.
LEMMA OwnPathsApart ==
  ASSUME Types, Untwinned, OwnPaths
  PROVE  NoTwins
  BY DEF NoTwins, OwnPaths, Untwinned, Pulls

\* Nothing fails where nothing may.
LEMMA NoTroubles ==
  ASSUME OwnPaths, MaxTroubles = 0
  PROVE  ~(troubles < MaxTroubles)
  BY DEF OwnPaths

\* The counter of troubles only counts.
LEMMA TroublesCounted ==
  ASSUME OwnPaths, [Next]_vars
  PROVE  troubles' \in Nat
<1>1. troubles \in Nat
  BY DEF OwnPaths
<1>2. CASE UNCHANGED vars
  BY <1>1, <1>2 DEF vars, bounds
<1>3. CASE Environment
  BY <1>1, <1>3 DEF Environment, LocalWrite, LocalRemove, ForeignCreate, ForeignWrite,
                    ForeignRemove, LocalEdit, ForeignEdit
<1>4. CASE (\E o \in Options : Begin(o) \/ BeginStops(o)) \/ PullHalfDone \/ Finish \/ Crash
  BY <1>1, <1>4 DEF Begin, BeginStops, PullHalfDone, Finish, Crash, Faulty, NoFault, bounds
<1>5. CASE \E it \in waiting : Take(it)
  BY <1>1, <1>5 DEF Take, bounds
<1>8. CASE \E it \in later : PushItem(it)
  <2>1. PICK it \in later : PushItem(it)
    BY <1>8
  <2>2. Checkpoint(it.rel) \/ NoFault \/ Faulty
    BY <2>1 DEF PushItem
  <2> QED
    BY <1>1, <2>2 DEF Checkpoint, Faulty, NoFault
<1>6. CASE \E it \in DOMAIN work : Step(it)
  BY <1>1, <1>6 DEF Step, OpenStream, CreateTmp, Copy, Rename, Stat, RemoveLocal, Faulty, NoFault
<1>7. CASE \E it \in DOMAIN work : Collect(it) \/ CollectFailure(it)
  BY <1>1, <1>7 DEF Collect, CollectFailure, Checkpoint, Faulty, NoFault, bounds
<1> QED
  BY <1>2, <1>3, <1>4, <1>5, <1>6, <1>7, <1>8 DEF Next

\* The part of OwnPaths that is not of the local tree.
LEMMA PathsOwned ==
  ASSUME Types, Types', RemoteKnown, Untwinned, OwnPaths, [Next]_vars
  PROVE  /\ DOMAIN m' \subseteq Rels /\ DOMAIN disk' \subseteq Rels
         /\ \A i \in DOMAIN remote' : remote'[i].path \in Rels
         /\ \A it \in Pulls' \cup later' : it.rel \in Rels
<1>1. CASE \/ \E o \in Options : BeginStops(o)
           \/ \E it \in waiting : Take(it)
           \/ \E it \in DOMAIN work : Step(it) \/ CollectFailure(it)
           \/ PullHalfDone \/ Finish \/ Crash \/ UNCHANGED vars
  <2>1. Quiet
    BY <1>1, OtherMoves
  <2>2. UNCHANGED remote
    <3>1. CASE \E it \in DOMAIN work : Step(it)
      BY <3>1, StepShape DEF OnlyProgress
    <3>2. CASE ~\E it \in DOMAIN work : Step(it)
      BY <1>1, <3>2 DEF BeginStops, Take, CollectFailure, PullHalfDone, Finish, Crash, vars
    <3> QED
      BY <3>1, <3>2
  <2> QED
    BY <2>1, <2>2 DEF Quiet, OwnPaths
<1>2. CASE Environment
  <2>1. Quiet
    BY <1>2, OtherMoves
  <2>2. CASE \E r \in Rels : LocalWrite(r) \/ LocalRemove(r)
    BY <2>1, <2>2, LocalEditFacts DEF Quiet, OwnPaths
  <2>3. CASE \/ \E r \in Rels : ForeignCreate(r)
             \/ \E i \in DOMAIN remote : ForeignWrite(i) \/ ForeignRemove(i)
    <3>1. PICK r, i : \/ r \in Rels /\ ForeignCreate(r) /\ i = nextId
                      \/ i \in DOMAIN remote /\ (ForeignWrite(i) \/ ForeignRemove(i))
      BY <2>3
    <3>2. \/ \E s \in Sizes : r \in Rels /\ remote' = Set(remote, i, OnServer(r, Written(s)))
          \/ \E s \in Sizes : i \in DOMAIN remote
               /\ remote' = Set(remote, i, OnServer(remote[i].path, Written(s)))
          \/ remote' = Delete(remote, i)
      BY <3>1, ForeignFacts
    <3>3. \A j \in DOMAIN remote' : remote'[j].path \in Rels
      <4>1. ASSUME NEW q \in Rels, NEW s, remote' = Set(remote, i, OnServer(q, Written(s)))
            PROVE  \A j \in DOMAIN remote' : remote'[j].path \in Rels
        <5>1. OnServer(q, Written(s)).path = q
          BY DEF OnServer
        <5> QED
          BY <4>1, <5>1 DEF Set, OwnPaths
      <4>2. CASE remote' = Delete(remote, i)
        BY <4>2 DEF Delete, OwnPaths
      <4> QED
        BY <3>2, <4>1, <4>2 DEF OwnPaths
    <3> QED
      BY <2>1, <3>3 DEF Quiet, OwnPaths
  <2> QED
    BY <1>2, <2>2, <2>3 DEF Environment
<1>3. CASE \E it \in DOMAIN work : Collect(it)
  <2>1. PICK it \in DOMAIN work : Collect(it)
    BY <1>3
  <2>2. m' = Recorded(it) /\ disk' \in {disk, m'} /\ it.rel \in Rels /\ UNCHANGED remote
    BY <2>1, CheckpointFacts DEF Collect, OwnPaths, Pulls
  <2>3. DOMAIN m' \subseteq DOMAIN m \cup {it.rel}
    BY <2>2 DEF Recorded, Set, Delete
  <2>4. Pulls' \subseteq Pulls /\ later' = later
    BY <2>1, CollectFacts DEF Pulls
  <2> QED
    BY <2>2, <2>3, <2>4 DEF OwnPaths
<1>4. CASE \E it \in later : PushItem(it)
  <2>1. PICK it \in later : PushItem(it)
    BY <1>4
  <2>2. /\ it.rel \in Rels /\ UNCHANGED <<waiting, work>> /\ later' \subseteq later
        /\ disk' \in {disk, m'} /\ m' \in {m, PushRecorded(it)}
        /\ remote' = remote \/ (Feasible(it) /\ remote' = Pushed(it))
    BY <2>1, PushItemShape DEF OwnPaths
  <2>3. DOMAIN m' \subseteq DOMAIN m \cup {it.rel}
    BY <2>2 DEF PushRecorded, Set, Delete
  <2>4. \A j \in DOMAIN remote' : remote'[j].path \in Rels
    <3>1. CASE remote' = remote
      BY <3>1 DEF OwnPaths
    <3>2. CASE Feasible(it) /\ remote' = Pushed(it) /\ it.op = "delete"
      BY <3>2, PushedFacts DEF Delete, OwnPaths
    <3>3. CASE Feasible(it) /\ remote' = Pushed(it) /\ it.op # "delete"
      <4>1. PICK f \in RemoteFile :
              /\ remote' = Set(remote, TargetOf(it), f)
              /\ f.path = IF TargetOf(it) \in DOMAIN remote THEN remote[TargetOf(it)].path
                          ELSE it.rel
        BY <3>3, PushedFacts
      <4>2. f.path \in Rels
        BY <2>2, <4>1 DEF OwnPaths
      <4> QED
        BY <4>1, <4>2 DEF Set, OwnPaths
    <3> QED
      BY <2>2, <3>1, <3>2, <3>3
  <2> QED
    BY <2>2, <2>3, <2>4 DEF OwnPaths, Pulls
<1>5. CASE \E o \in Options : Begin(o)
  <2>1. PICK o \in Options : Begin(o)
    BY <1>5
  <2>2. /\ UNCHANGED <<remote, disk, local>> /\ m' = Base(o) /\ Pulls' = PullItems(o)
        /\ later' = PushItems(o) /\ o \in Option /\ TreesTyped /\ DOMAIN work = {}
    BY <2>1, BeginFacts
  <2>3. DOMAIN Index \subseteq Rels
    BY <2>2, IndexFacts DEF OwnPaths
  <2>4. DOMAIN Base(o) \subseteq Rels
    BY <2>2, <2>3, BaseFacts DEF OwnPaths
  <2>5. \A it \in PullItems(o) : it.rel \in Rels
    BY <2>2, <2>3, <2>4, PullItemFacts
  <2>6. ASSUME NEW it \in PushItems(o) PROVE it.rel \in Rels
    <3>1. o.mode = "twoWay" /\ (it.rel \in DOMAIN Walked \/ it.rel \in DOMAIN Base(o))
      BY <2>2, PushItemFacts
    <3>2. MaxTroubles = 0
      BY <3>1 DEF Untwinned
    <3>3. DOMAIN local \subseteq Rels
      BY <2>2, <3>2 DEF OwnPaths, Temporary
    <3> QED
      BY <2>2, <2>4, <3>1, <3>3, WalkedFacts
  <2> QED
    BY <2>2, <2>4, <2>5, <2>6 DEF OwnPaths
<1> QED
  BY <1>1, <1>2, <1>3, <1>4, <1>5 DEF Next

\* The local tree, where nothing fails: what is not the user's is on its way.
LEMMA TreeOwned ==
  ASSUME Types, Types', Untwinned, OwnPaths, [Next]_vars, MaxTroubles = 0,
         NEW r \in DOMAIN local', r \notin Rels
  PROVE  Temporary(r)'
<1>0. ~(troubles < MaxTroubles)
  BY NoTroubles
<1>1. CASE \E it \in DOMAIN work : Step(it)
  <2>1. PICK it \in DOMAIN work : Step(it)
    BY <1>1
  <2>2. /\ DOMAIN work' = DOMAIN work /\ it.rel \in Rels
        /\ \A other \in DOMAIN work \ {it} : work'[other] = work[other]
    BY <2>1, StepShape DEF OnlyProgress, OwnPaths, Pulls
  <2>3. CASE it.op = "download" /\ r = TmpOf(it.rel)
    <3>1. CASE r \in DOMAIN local
      <4>1. PICK other \in DOMAIN work : /\ other.op = "download" /\ r = TmpOf(other.rel)
                                         /\ work[other].at \in {"copy", "rename"}
        BY <3>1, <1>0 DEF OwnPaths, Temporary
      <4>2. other.rel \in Path /\ it.rel \in Path
        BY RemoteBasics DEF Pulls
      <4>3. other = it
        BY <2>3, <4>1, <4>2, TmpFacts DEF Types, OneItemPerPath, Pulls
      <4>4. work[it].at \in {"copy", "rename"}
        BY <4>1, <4>3
      <4>5. work'[it].at \in {"copy", "rename"}
        <5>1. Copy(it) \/ Rename(it)
          BY <2>1, <4>4 DEF Step, OpenStream, CreateTmp, Stat, RemoveLocal, InStep
        <5>2. ~Faulty
          BY <1>0 DEF Faulty
        <5>3. CASE Copy(it)
          BY <5>2, <5>3, ProceedFacts, GoesFields DEF Copy
        <5>4. CASE Rename(it)
          <6>1. local' = Set(Delete(local, TmpOf(it.rel)), it.rel, local[TmpOf(it.rel)])
            BY <2>3, <3>1, <5>2, <5>4 DEF Rename
          <6>2. TmpOf(it.rel) \notin DOMAIN local'
            BY <2>3, <3>1, <6>1, Renamed
          <6> QED
            BY <2>3, <6>2
        <5> QED
          BY <5>1, <5>3, <5>4
      <4> QED
        BY <2>2, <2>3, <4>5 DEF Temporary
    <3>2. CASE r \notin DOMAIN local
      <4>1. CreateTmp(it) /\ Goes(it, "copy")
        <5>1. ~Faulty
          BY <1>0 DEF Faulty
        <5>2. CASE OpenStream(it) \/ Stat(it)
          BY <3>2, <5>2, OpenStreamFacts, StatFacts
        <5>3. CASE CreateTmp(it)
          BY <3>2, <5>1, <5>3, ProceedFacts DEF CreateTmp
        <5>4. CASE Copy(it)
          <6>1. local' = Filled(it)
            BY <5>1, <5>4 DEF Copy
          <6> QED
            BY <3>2, <6>1, FilledFacts
        <5>5. CASE Rename(it)
          <6>1. local' = Set(Delete(local, TmpOf(it.rel)), it.rel, local[TmpOf(it.rel)])
                \/ UNCHANGED local
            BY <5>1, <5>5 DEF Rename
          <6> QED
            BY <2>2, <3>2, <6>1 DEF Set, Delete
        <5>6. CASE RemoveLocal(it)
          BY <2>1, <2>3, <5>6, StepKind
        <5> QED
          BY <2>1, <5>2, <5>3, <5>4, <5>5, <5>6 DEF Step
      <4> QED
        BY <2>2, <2>3, <4>1, GoesFields DEF Temporary
    <3> QED
      BY <3>1, <3>2
  <2>4. CASE ~(it.op = "download" /\ r = TmpOf(it.rel))
    <3>1. r # it.rel /\ SameFile(r)
      BY <2>1, <2>2, <2>4, StepTree
    <3>2. PICK other \in DOMAIN work : /\ other.op = "download" /\ r = TmpOf(other.rel)
                                       /\ work[other].at \in {"copy", "rename"}
      BY <3>1 DEF SameFile, OwnPaths, Temporary
    <3>3. other # it
      BY <2>4, <3>2
    <3> QED
      BY <2>2, <3>2, <3>3 DEF Temporary
  <2> QED
    BY <2>3, <2>4
<1>2. CASE \E it \in DOMAIN work : Collect(it) \/ CollectFailure(it)
  <2>1. PICK it \in DOMAIN work : Collect(it) \/ CollectFailure(it)
    BY <1>2
  <2>2. /\ UNCHANGED local /\ work[it].at \in {"done", "failed"} /\ Drop(it)
    BY <2>1 DEF Collect, CollectFailure, InStep
  <2>3. PICK other \in DOMAIN work : /\ other.op = "download" /\ r = TmpOf(other.rel)
                                     /\ work[other].at \in {"copy", "rename"}
    BY <2>2 DEF OwnPaths, Temporary
  <2>4. other # it
    BY <2>2, <2>3
  <2> QED
    BY <2>2, <2>3, <2>4, DropFacts DEF Temporary
<1>3. CASE \E it \in waiting : Take(it)
  <2>1. PICK it \in waiting : Take(it)
    BY <1>3
  <2> QED
    BY <2>1, TakeFacts DEF OwnPaths, Temporary
<1>4. CASE Environment
  <2>1. UNCHANGED work /\ r \in DOMAIN local
    <3>1. CASE \E q \in Rels : LocalWrite(q) \/ LocalRemove(q)
      BY <3>1, EditFacts DEF SameFile
    <3>2. CASE \/ \E q \in Rels : ForeignCreate(q)
               \/ \E i \in DOMAIN remote : ForeignWrite(i) \/ ForeignRemove(i)
      BY <3>2 DEF ForeignCreate, ForeignWrite, ForeignRemove, ForeignEdit, run
    <3> QED
      BY <1>4, <3>1, <3>2 DEF Environment
  <2> QED
    BY <2>1 DEF OwnPaths, Temporary
<1>5. CASE \/ \E o \in Options : Begin(o) \/ BeginStops(o)
           \/ PullHalfDone \/ (\E it \in later : PushItem(it)) \/ UNCHANGED vars
  <2>1. UNCHANGED <<local, work>>
    BY <1>5 DEF Begin, BeginStops, PullHalfDone, PushItem, vars, run
  <2> QED
    BY <2>1 DEF OwnPaths, Temporary
<1>6. CASE Finish \/ Crash
  <2>1. Finish
    BY <1>0, <1>6 DEF Crash
  <2>2. UNCHANGED local /\ DOMAIN work = {}
    BY <2>1 DEF Finish, Types, Phases
  <2> QED
    BY <2>2 DEF OwnPaths, Temporary
<1> QED
  BY <1>1, <1>2, <1>3, <1>4, <1>5, <1>6 DEF Next

\* Every step keeps all but temporary files at the paths users gave.
LEMMA OwnPathsNext ==
  ASSUME Types, Types', RemoteKnown, Untwinned, OwnPaths, [Next]_vars
  PROVE  OwnPaths'
<1>1. MaxTroubles = 0 => \A r \in DOMAIN local' : r \in Rels \/ Temporary(r)'
  BY TreeOwned
<1> QED
  BY <1>1, TroublesCounted, PathsOwned DEF OwnPaths

\* The start: the files are the users'.
LEMMA InitOwnPaths ==
  ASSUME Init
  PROVE  OwnPaths
<1>1. \A i \in DOMAIN StartPaths : StartPaths[i] \in Rels
  BY PullAssumption
<1>2. DOMAIN local \subseteq Rels /\ DOMAIN disk \subseteq Rels /\ m = disk
  BY <1>1 DEF Init
<1>3. \A i \in DOMAIN remote : remote[i].path \in Rels
  BY <1>1 DEF Init
<1>4. Pulls = {} /\ later = {} /\ troubles = 0
  BY DEF Init, Pulls, Empty
<1> QED
  BY <1>2, <1>3, <1>4 DEF OwnPaths

\* The premise of the theorems below holds of every pull where no user gives a file the
\* temporary name of another, and of two-way runs too where none is killed or has a failing
\* operation: a file name.tmp is then never in the manifest, in the folder or in a plan.
THEOREM NoTwinsAlways ==
  ASSUME Untwinned
  PROVE  Spec => []NoTwins
<1>1. Init => OwnPaths
  BY InitOwnPaths
<1>2. Types /\ Types' /\ RemoteKnown /\ OwnPaths /\ [Next]_vars => OwnPaths'
  BY OwnPathsNext
<1>3. Types /\ OwnPaths => NoTwins
  BY OwnPathsApart
<1> QED
  BY <1>1, <1>2, <1>3, TypesAlways, RemoteKnownAlways, PTL DEF Spec

-----------------------------------------------------------------------------
(* What a pull skips                                                         *)

\* the entry and the file at r agree
Matches(f, r) == r \in DOMAIN f /\ r \in DOMAIN local /\ ~Touched(local[r], f[r])

\* the entry at r is the one in the manifest file
SavedAt(r) == /\ r \in DOMAIN m <=> r \in DOMAIN disk
              /\ r \in DOMAIN m => m[r] = disk[r]

\* A file is edited, or known to the manifest, or from a transfer that is yet to be saved.
KnownAt(r) == /\ r \in touched \cup unsaved \/ Matches(disk, r)
              /\ r \in touched \/ Matches(m, r) \/ (r \in unsaved /\ SavedAt(r))

\* A file that is there again after a run removed it is the user's.
Regained(it) ==
  it.op = "deleteLocal" /\ work[it].at = "done" /\ it.rel \in Rels \cap DOMAIN local =>
    it.rel \in touched

\* The file a push item was planned for is still that, or edited since.
AsPlanned(it) ==
  it.rel \in Rels =>
    /\ it.rel \in late => it.rel \in touched
    /\ it.rel \in DOMAIN local \ late =>
         it.rel \in Unwalked \/ (it.op # "delete" /\ local[it.rel].mtime = it.mtime)

LeftAlone(r) == /\ r \in touched \cup unsaved /\ SavedAt(r)
                /\ \A it \in Pulls : it.rel # r

\* What the manifest knows of the user's files, in a run and between runs.
FilesKnown ==
  /\ \A r \in (Rels \cap DOMAIN local) \ Unwalked : KnownAt(r)
  /\ \A it \in Pulls \cup later : SavedAt(it.rel)
  /\ \A it \in DOMAIN work : Regained(it)
  /\ \A it \in later : AsPlanned(it)
  /\ opts.mode = "pull" => \A r \in skipped \cap Rels : LeftAlone(r)

\* how a step saves the manifest, if it does
Saves == \/ disk' = disk /\ unsaved \subseteq unsaved'
         \/ /\ disk' = m'
            /\ \E rels : unsaved \subseteq rels /\ unsaved' = NotIn(m', rels)

\* A checkpoint leaves a path that was saved as saved.
LEMMA SavedKept ==
  ASSUME NEW r, SavedAt(r), SameEntryAt(r), Saves
  PROVE  SavedAt(r)'
  BY DEF SavedAt, SameEntryAt, Saves

\* A path no step touches stays known.
LEMMA KnownKept ==
  ASSUME NEW r \in DOMAIN local', KnownAt(r), SameFile(r), SameEntryAt(r), Saves,
         r \in touched => r \in touched'
  PROVE  KnownAt(r)'
<1>1. CASE disk' = disk /\ unsaved \subseteq unsaved'
  BY <1>1 DEF KnownAt, Matches, SavedAt, SameFile, SameEntryAt
<1>2. CASE disk' = m' /\ \E rels : unsaved \subseteq rels /\ unsaved' = NotIn(m', rels)
  <2>1. PICK rels : unsaved \subseteq rels /\ unsaved' = NotIn(m', rels)
    BY <1>2
  <2>2. r \in unsaved /\ SavedAt(r) => r \in unsaved'
    BY <1>2, <2>1 DEF NotIn, SavedAt, SameEntryAt
  <2>3. SavedAt(r)'
    BY <1>2 DEF SavedAt
  <2>4. Matches(m, r) => Matches(m, r)' /\ Matches(disk, r)'
    BY <1>2 DEF Matches, SameFile, SameEntryAt
  <2>5. Matches(disk, r) /\ SavedAt(r) => Matches(m, r)
    BY DEF Matches, SavedAt
  <2>6. r \in touched' \/ Matches(m, r)' \/ r \in unsaved'
    BY <2>2, <2>4 DEF KnownAt
  <2> QED
    BY <1>2, <2>3, <2>6 DEF KnownAt, Matches
<1> QED
  BY <1>1, <1>2 DEF Saves

\* A saved path that was left alone keeps its mark.
LEMMA MarkKept ==
  ASSUME NEW r, r \in touched \cup unsaved, SavedAt(r), SameEntryAt(r), Saves,
         r \in touched => r \in touched'
  PROVE  r \in (touched \cup unsaved)'
  BY DEF SavedAt, SameEntryAt, Saves, NotIn

\* A step that is about the paths in `paths` only.
LEMMA FilesFrame ==
  ASSUME FilesKnown, NEW paths, Saves,
         Pulls' \subseteq Pulls, later' \subseteq later, opts' = opts, skipped' \subseteq skipped,
         \A r : r \notin paths => SameEntryAt(r),
         \A r \in Rels : r \notin paths => SameFile(r),
         \A r : r \notin paths => /\ r \in touched => r \in touched'
                                  /\ r \in late' <=> r \in late,
         \A it \in DOMAIN work' : it.rel \notin paths =>
            \/ it \in DOMAIN work /\ work'[it] = work[it]
            \/ work'[it].at # "done",
         \A r \in paths : r \in (Rels \cap DOMAIN local') \ Unwalked => KnownAt(r)',
         \A it \in Pulls' \cup later' : it.rel \in paths => SavedAt(it.rel)',
         \A it \in DOMAIN work' : it.rel \in paths => Regained(it)',
         \A it \in later' : it.rel \in paths => AsPlanned(it)',
         opts.mode = "pull" => \A r \in skipped' \cap Rels : r \in paths =>
                                 r \in (touched \cup unsaved)' /\ SavedAt(r)'
  PROVE  FilesKnown'
<1>1. ASSUME NEW r \in (Rels \cap DOMAIN local') \ Unwalked PROVE KnownAt(r)'
  <2>1. CASE r \notin paths
    <3>1. SameFile(r) /\ SameEntryAt(r)
      BY <2>1
    <3>2. r \in DOMAIN local /\ KnownAt(r)
      BY <3>1 DEF SameFile, FilesKnown
    <3> QED
      BY <2>1, <3>1, <3>2, KnownKept
  <2> QED
    BY <2>1
<1>2. ASSUME NEW it \in Pulls' \cup later' PROVE SavedAt(it.rel)'
  <2>1. CASE it.rel \notin paths
    BY <2>1, SavedKept DEF FilesKnown
  <2> QED
    BY <2>1
<1>3. ASSUME NEW it \in DOMAIN work' PROVE Regained(it)'
  <2>1. CASE it.rel \notin paths
    BY <2>1 DEF FilesKnown, Regained, SameFile
  <2> QED
    BY <2>1
<1>4. ASSUME NEW it \in later' PROVE AsPlanned(it)'
  <2>1. CASE it.rel \notin paths
    BY <2>1 DEF FilesKnown, AsPlanned, SameFile
  <2> QED
    BY <2>1
<1>5. ASSUME opts.mode = "pull", NEW r \in skipped' \cap Rels PROVE LeftAlone(r)'
  <2>1. LeftAlone(r)
    BY <1>5 DEF FilesKnown
  <2>2. r \in (touched \cup unsaved)' /\ SavedAt(r)'
    <3>1. CASE r \notin paths
      BY <2>1, <3>1, MarkKept, SavedKept DEF LeftAlone
    <3> QED
      BY <1>5, <3>1
  <2> QED
    BY <2>1, <2>2 DEF LeftAlone
<1> QED
  BY <1>1, <1>2, <1>3, <1>4, <1>5 DEF FilesKnown

\* A file its user has edited is known to be.
LEMMA FilesEdit ==
  ASSUME Types, FilesKnown, NEW r \in Rels, LocalWrite(r) \/ LocalRemove(r)
  PROVE  FilesKnown'
<1>1. /\ \A q : q # r => SameFile(q)
      /\ touched' = touched \cup {r} /\ late' = late \cup {r}
      /\ UNCHANGED <<work, later, m, disk, unsaved, waiting, opts, skipped>>
  BY EditFacts, LocalEditFacts DEF run
<1>2. Saves /\ Pulls' = Pulls /\ \A q : SameEntryAt(q)
  BY <1>1 DEF Saves, Pulls, SameEntryAt
<1>3. KnownAt(r)'
  BY <1>1 DEF KnownAt
<1>4. \A q : SavedAt(q) => SavedAt(q)'
  BY <1>1 DEF SavedAt
<1>5. \A it \in Pulls' \cup later' : it.rel = r => SavedAt(it.rel)'
  BY <1>1, <1>2, <1>4 DEF FilesKnown
<1>6. \A it : it.rel = r => Regained(it)' /\ AsPlanned(it)'
  BY <1>1 DEF Regained, AsPlanned
<1>7. opts.mode = "pull" => \A q \in skipped' \cap Rels : q = r =>
                                 q \in (touched \cup unsaved)' /\ SavedAt(q)'
  BY <1>1, <1>4 DEF FilesKnown, LeftAlone
<1> DEFINE paths == {r}
<1> QED
  <2>1. \A q : q \in paths <=> q = r
    OBVIOUS
  <2> HIDE DEF paths
  <2> QED
    BY <1>1, <1>2, <1>3, <1>5, <1>6, <1>7, <2>1, FilesFrame

\* An executor step.
LEMMA FilesStep ==
  ASSUME Types, Types', LocalKnown, FilesKnown, NoTwins, NEW it \in DOMAIN work, Step(it)
  PROVE  FilesKnown'
<1>0. /\ OnlyProgress(it) /\ DOMAIN work' = DOMAIN work /\ Pulls' = Pulls
      /\ \A r : r # it.rel /\ (it.op = "download" => r # TmpOf(it.rel)) => SameFile(r)
      /\ it.op = "download" => TmpOf(it.rel) \notin Rels
      /\ \A r : r # it.rel => (r \in touched' <=> r \in touched)
      /\ it \in Pulls /\ it.rel \in Path
  BY StepShape, StepTree, RemoteBasics DEF OnlyProgress, NoTwins, Pulls
<1>1. /\ \A r : SameEntryAt(r)
      /\ UNCHANGED <<later, opts, skipped, late, disk, m, waiting>>
      /\ \A other \in DOMAIN work \ {it} : work'[other] = work[other]
  BY <1>0 DEF OnlyProgress, SameEntryAt
<1>2. unsaved \subseteq unsaved'
  BY OpenStreamFacts, CreateTmpFacts, CopyFacts, RenameFacts, StatFacts, RemoveLocalFacts DEF Step
<1>3. Saves
  BY <1>1, <1>2 DEF Saves
<1>4. \A r : SavedAt(r) => SavedAt(r)'
  BY <1>1 DEF SavedAt
<1>5. SavedAt(it.rel) /\ \A other \in later : other.rel # it.rel
  BY <1>0 DEF FilesKnown, Types, OneItemPerPath
<1>6. \A other \in DOMAIN work : other.rel = it.rel => other = it
  BY DEF Types, OneItemPerPath, Pulls
<1>7. \A r \in Rels : r # it.rel => SameFile(r)
  BY <1>0
<1>8. it.rel \in touched => it.rel \in touched' \/ it.rel \in unsaved' \/ it.rel \notin DOMAIN local'
  <2>1. CASE Rename(it)
    BY <2>1, RenameFacts
  <2>2. CASE RemoveLocal(it)
    BY <2>2, RemoveLocalFacts DEF Delete
  <2> QED
    BY <2>1, <2>2, OpenStreamFacts, CreateTmpFacts, CopyFacts, StatFacts DEF Step
<1>9. it.rel \in (Rels \cap DOMAIN local') \ Unwalked => KnownAt(it.rel)'
  <2>1. SUFFICES ASSUME it.rel \in (Rels \cap DOMAIN local') \ Unwalked PROVE KnownAt(it.rel)'
    OBVIOUS
  <2>2. CASE Rename(it) /\ ~Goes(it, "failed")
    <3>1. it.rel \in unsaved'
      BY <2>2, RenameFacts
    <3> QED
      BY <1>4, <1>5, <3>1 DEF KnownAt
  <2>3. CASE SameFile(it.rel)
    <3>1. KnownAt(it.rel)
      BY <2>1, <2>3 DEF SameFile, FilesKnown
    <3>2. CASE it.rel \in touched => it.rel \in touched'
      BY <1>1, <1>3, <2>1, <2>3, <3>1, <3>2, KnownKept
    <3>3. CASE it.rel \in unsaved'
      BY <1>4, <1>5, <3>3 DEF KnownAt
    <3> QED
      BY <1>8, <2>1, <3>2, <3>3
  <2> QED
    BY <2>1, <2>2, <2>3, OwnPath
<1>10. Regained(it)'
  <2>1. SUFFICES ASSUME it.op = "deleteLocal", work'[it].at = "done",
                        it.rel \in Rels \cap DOMAIN local'
                 PROVE  FALSE
    BY DEF Regained
  <2>2. RemoveLocal(it)
    BY <2>1, StepKind
  <2>3. Goes(it, "done")
    BY <2>1, <2>2, RemoveLocalFacts, GoesFields
  <2>4. local' = Delete(local, it.rel)
    BY <2>2, <2>3, RemoveLocalFacts, GoesFields
  <2> QED
    BY <2>1, <2>4 DEF Delete
<1>11. opts.mode = "pull" => \A r \in skipped' \cap Rels : r # it.rel
  BY <1>0, <1>1 DEF FilesKnown, LeftAlone
<1> DEFINE paths == {it.rel}
<1> QED
  <2>1. \A q : q \in paths <=> q = it.rel
    OBVIOUS
  <2> HIDE DEF paths
  <2>2. \A other \in DOMAIN work' : other.rel \notin paths =>
            other \in DOMAIN work /\ work'[other] = work[other]
    BY <1>0, <1>1, <2>1
  <2>3. \A other \in DOMAIN work' : other.rel \in paths => Regained(other)'
    BY <1>0, <1>6, <1>10, <2>1
  <2>4. \A other \in Pulls' \cup later' : other.rel \in paths => SavedAt(other.rel)'
    BY <1>4, <1>5, <2>1
  <2>5. \A other \in later' : other.rel \notin paths
    BY <1>1, <1>5, <2>1
  <2>6. \A r \in paths : r \in (Rels \cap DOMAIN local') \ Unwalked => KnownAt(r)'
    BY <1>9, <2>1
  <2> QED
    BY <1>0, <1>1, <1>3, <1>7, <1>11, <2>1, <2>2, <2>3, <2>4, <2>5, <2>6, FilesFrame

\* A download that is recorded vouches for the file, or the file has been edited.
LEMMA FilesCollect ==
  ASSUME Types, Types', LocalKnown, FilesKnown, NEW it \in DOMAIN work, Collect(it)
  PROVE  FilesKnown'
<1>0. /\ work[it].at = "done" /\ it \in Pulls /\ m' = Recorded(it)
      /\ UNCHANGED <<local, later, late, touched, opts, skipped, waiting>>
      /\ DOMAIN work' = DOMAIN work \ {it}
      /\ \A other \in DOMAIN work \ {it} : work'[other] = work[other]
      /\ \A r : SameFile(r)
  BY CollectFacts DEF Collect, SameFile
<1>1. \A r : r # it.rel => SameEntryAt(r)
  <2>1. CASE it.op = "deleteLocal"
    BY <1>0, <2>1 DEF Recorded, SameEntryAt, Delete
  <2>2. CASE it.op # "deleteLocal"
    BY <1>0, <2>2 DEF Recorded, SameEntryAt, Set
  <2> QED
    BY <2>1, <2>2
<1>2. Saves /\ (disk' = disk => it.rel \in unsaved')
      /\ (it.rel \in unsaved' \/ disk' = m')
  <2>1. CASE disk' = disk /\ unsaved' = unsaved \cup {it.rel}
    BY <2>1 DEF Saves
  <2>2. CASE disk' = m' /\ unsaved' = NotIn(m', unsaved \cup {it.rel})
    BY <2>2 DEF Saves, NotIn
  <2> QED
    BY <2>1, <2>2, CollectFacts
<1>3. \A other \in Pulls' \cup later' : other.rel # it.rel
  BY <1>0 DEF Types, OneItemPerPath, Pulls
<1>4. Pulls' \subseteq Pulls
  BY <1>0 DEF Pulls
<1>5. it.rel \in (Rels \cap DOMAIN local') \ Unwalked => KnownAt(it.rel)'
  <2>1. SUFFICES ASSUME it.rel \in (Rels \cap DOMAIN local) \ Unwalked, it.rel \notin touched
                 PROVE  KnownAt(it.rel)'
    BY <1>0 DEF KnownAt
  <2>2. it.op = "download"
    BY <1>0, <2>1, RemoteBasics DEF FilesKnown, Regained
  <2>3. Holds(it.rel, work[it]) /\ local[it.rel].mtime = work[it].mtime
    BY <1>0, <2>1, <2>2 DEF LocalKnown, Stages, Staged, InPlace
  <2>4. it.rel \in DOMAIN m' /\ m'[it.rel] = Entry(work[it].size, work[it].mtime, it.remoteID,
                                                  it.remoteMtime)
    BY <2>2, CollectFacts
  <2>5. Matches(m, it.rel)'
    BY <1>0, <2>1, <2>3, <2>4 DEF Matches, Holds, Touched, Entry
  <2> QED
    BY <1>2, <2>5 DEF KnownAt, Matches
<1>6. opts.mode = "pull" => \A r \in skipped' \cap Rels : r # it.rel
  BY <1>0 DEF FilesKnown, LeftAlone
<1> DEFINE paths == {it.rel}
<1> QED
  <2>1. \A q : q \in paths <=> q = it.rel
    OBVIOUS
  <2> HIDE DEF paths
  <2>2. \A other \in Pulls' \cup later' : other.rel \notin paths
    BY <1>3, <2>1
  <2>3. \A r \in paths : r \in (Rels \cap DOMAIN local') \ Unwalked => KnownAt(r)'
    BY <1>5, <2>1
  <2>4. DOMAIN work' \subseteq Pulls' /\ \A other \in DOMAIN work' :
            other \in DOMAIN work /\ work'[other] = work[other]
    BY <1>0 DEF Pulls
  <2> QED
    BY <1>0, <1>1, <1>2, <1>4, <1>6, <2>1, <2>2, <2>3, <2>4, FilesFrame

\* A push that is recorded vouches for the file it was planned for.
LEMMA FilesPush ==
  ASSUME Types, Types', RemoteKnown, FilesKnown, NEW it \in later, PushItem(it)
  PROVE  FilesKnown'
<1>0. /\ UNCHANGED <<local, waiting, opts, late, skipped>>
      /\ DOMAIN work' = {} /\ later' = later \ {it} /\ waiting = {}
      /\ phase = "push" /\ DOMAIN work = {} /\ \A r : SameFile(r)
      /\ opts.mode # "pull"
  BY PushItemShape, PushFacts DEF Types, Phases, SameFile
<1>1. \A r : r # it.rel => SameEntryAt(r) /\ (r \in touched => r \in touched')
  <2>1. m' = m \/ m' = PushRecorded(it)
    BY PushItemShape
  <2>2. \A r : r # it.rel => SameEntryAt(r)
    <3>1. CASE m' = m
      BY <3>1 DEF SameEntryAt
    <3>2. CASE m' = PushRecorded(it) /\ it.op = "delete"
      BY <3>2 DEF SameEntryAt, PushRecorded, Delete
    <3>3. CASE m' = PushRecorded(it) /\ it.op # "delete"
      BY <3>3 DEF SameEntryAt, PushRecorded, Set
    <3> QED
      BY <2>1, <3>1, <3>2, <3>3
  <2>3. touched' \in {touched, touched \ {it.rel}}
    BY PushItemShape
  <2> QED
    BY <2>2, <2>3
<1>2. Pulls' = {} /\ Pulls = {}
  BY <1>0 DEF Pulls
<1>3. \A other \in later' : other.rel # it.rel
  BY <1>0 DEF Types, OneItemPerPath
<1>4. /\ Saves
      /\ it.rel \in (Rels \cap DOMAIN local') \ Unwalked => KnownAt(it.rel)'
  <2>1. CASE UNCHANGED <<m, disk, touched, unsaved>>
    <3>1. Saves /\ SameEntryAt(it.rel) /\ SameFile(it.rel)
      BY <1>0, <2>1 DEF Saves, SameEntryAt
    <3>2. ASSUME it.rel \in (Rels \cap DOMAIN local') \ Unwalked
          PROVE  it.rel \in DOMAIN local' /\ KnownAt(it.rel)
      BY <1>0, <3>2 DEF FilesKnown
    <3> QED
      BY <2>1, <3>1, <3>2, KnownKept
  <2>2. CASE /\ Feasible(it) /\ m' = PushRecorded(it)
             /\ touched' = IF it.rel \in late THEN touched ELSE touched \ {it.rel}
             /\ \/ disk' = disk /\ unsaved' = unsaved \cup {it.rel}
                \/ disk' = m' /\ unsaved' = NotIn(m', unsaved \cup {it.rel})
    <3>1. Saves
      BY <2>2 DEF Saves
    <3>2. it.rel \in unsaved' \/ disk' = m'
      BY <2>2
    <3>3. ASSUME it.rel \in (Rels \cap DOMAIN local') \ Unwalked PROVE KnownAt(it.rel)'
      <4>1. AsPlanned(it)
        BY DEF FilesKnown
      <4>2. CASE it.rel \in late
        BY <2>2, <3>3, <4>1, <4>2 DEF AsPlanned, KnownAt
      <4>3. CASE it.rel \notin late
        <5>1. it.op # "delete" /\ local[it.rel].mtime = it.mtime
          BY <1>0, <3>3, <4>1, <4>3 DEF AsPlanned
        <5>2. local[it.rel].size = it.size
          BY <2>2, <5>1 DEF Feasible
        <5>3. /\ it.rel \in DOMAIN m'
              /\ m'[it.rel] = Entry(it.size, it.mtime, TargetOf(it), clock + 1)
          BY <2>2, <5>1 DEF PushRecorded, Set
        <5>4. Matches(m, it.rel)'
          BY <1>0, <3>3, <5>1, <5>2, <5>3 DEF Matches, Touched, Entry
        <5> QED
          BY <3>2, <5>4 DEF KnownAt, Matches
      <4> QED
        BY <4>2, <4>3
    <3> QED
      BY <3>1, <3>3
  <2> QED
    BY <2>1, <2>2, PushItemShape
<1> DEFINE paths == {it.rel}
<1> QED
  <2>1. \A q : q \in paths <=> q = it.rel
    OBVIOUS
  <2> HIDE DEF paths
  <2>2. \A other \in Pulls' \cup later' : other.rel \notin paths
    BY <1>2, <1>3, <2>1
  <2>3. \A r \in paths : r \in (Rels \cap DOMAIN local') \ Unwalked => KnownAt(r)'
    BY <1>4, <2>1
  <2> QED
    BY <1>0, <1>1, <1>2, <1>4, <2>1, <2>2, <2>3, FilesFrame

\* A seeded entry says that nothing is to be done.
LEMMA SeededFacts ==
  ASSUME TreesTyped, NEW o \in Option, NEW r \in DOMAIN Base(o) \ DOMAIN disk
  PROVE  /\ r \in DOMAIN local /\ ~Touched(local[r], Base(o)[r])
         /\ \A it \in PullItems(o) \cup PushItems(o) : it.rel # r
<1>1. /\ r \in DOMAIN Index /\ r \in DOMAIN Walked /\ r \in DOMAIN local
      /\ Index[r].size = local[r].size /\ Walked[r] = local[r]
      /\ Base(o)[r] = Entry(Index[r].size, local[r].mtime, Index[r].id, Index[r].mtime)
  BY BaseFacts, WalkedFacts
<1>2. ~Touched(local[r], Base(o)[r]) /\ ~RemoteTouched(Index[r], Base(o)[r])
  BY <1>1 DEF Touched, RemoteTouched, Entry
<1>3. ~LocalChanged(Walked, Base(o), r)
  BY <1>1, <1>2 DEF LocalChanged
<1> QED
  BY <1>1, <1>2, <1>3, PullItemFacts, PushItemFacts

\* What a pull skips has no item.
LEMMA SkippedFacts ==
  ASSUME NEW o \in Option, o.mode = "pull", NEW r \in Plan(o).conflicts
  PROVE  /\ r \in DOMAIN Walked
         /\ r \notin DOMAIN disk \/ Touched(Walked[r], disk[r])
         /\ \A it \in PullItems(o) : it.rel # r
<1> DEFINE all  == PlanPull(Index, disk)
           kept == IF o.force THEN all ELSE FilterDrift(all, Walked, disk)
<1>1. PICK it \in all \ kept : r = it.rel
  BY DEF Plan
<1>2. /\ it.rel \in DOMAIN Walked
      /\ it.rel \notin DOMAIN disk \/ Touched(Walked[it.rel], disk[it.rel])
      /\ it.op = "download"
  BY <1>1 DEF FilterDrift
<1>3. \A other \in all : other.rel = it.rel => other = it
  <2>1. SUFFICES ASSUME NEW other \in all, other.rel = it.rel PROVE other = it
    OBVIOUS
  <2>2. it = DownloadItem(it.rel, Index[it.rel]) /\ it.rel \in DOMAIN Index
    BY <1>1, <1>2, PullPlan DEF DeleteLocalItem
  <2>3. other = DownloadItem(other.rel, Index[other.rel])
    BY <2>1, <2>2, PullPlan
  <2> QED
    BY <2>1, <2>2, <2>3
<1>4. PullItems(o) \subseteq kept /\ kept \subseteq all
  BY DEF PullItems, Plan, DropPullDeletes, FilterDrift
<1> QED
  BY <1>1, <1>2, <1>3, <1>4

\* A run begins: it leaves alone what the manifest does not know, and plans the rest.
LEMMA FilesBegin ==
  ASSUME Types, Types', FilesKnown, NEW o \in Options, Begin(o)
  PROVE  FilesKnown'
<1>0. /\ UNCHANGED <<local, disk, work, touched, unsaved>>
      /\ opts' = o /\ m = disk /\ m' = Base(o) /\ later' = PushItems(o)
      /\ Pulls' = PullItems(o) /\ late' = {} /\ o \in Option /\ TreesTyped
      /\ DOMAIN work = {} /\ skipped' = Plan(o).conflicts
  BY BeginFacts
<1>1. \A r \in DOMAIN m' : \/ r \in DOMAIN disk /\ m' = disk
                           \/ r \in DOMAIN Base(o) \ DOMAIN disk /\ DOMAIN disk = {}
  BY <1>0, BaseFacts
<1>2. DOMAIN disk # {} => m' = disk
  BY <1>0, BaseFacts
<1>3. \A r : (r \in DOMAIN m' /\ r \notin DOMAIN disk) \/ SavedAt(r)'
  BY <1>0, <1>2 DEF SavedAt
<1>4. ASSUME NEW r \in (Rels \cap DOMAIN local') \ Unwalked PROVE KnownAt(r)'
  <2>1. KnownAt(r)
    BY <1>0 DEF FilesKnown
  <2>2. CASE r \in DOMAIN m' /\ r \notin DOMAIN disk
    <3>1. ~Touched(local[r], m'[r])
      BY <1>0, <2>2, SeededFacts
    <3>2. Matches(m, r)'
      BY <1>0, <2>2, <3>1 DEF Matches
    <3>3. r \in touched \cup unsaved
      BY <2>1, <2>2 DEF KnownAt, Matches
    <3> QED
      BY <1>0, <3>2, <3>3 DEF KnownAt
  <2>3. CASE SavedAt(r)'
    <3>1. r \in touched \cup unsaved \/ Matches(disk, r)'
      BY <1>0, <2>1 DEF KnownAt, Matches
    <3>2. Matches(disk, r)' => Matches(m, r)'
      BY <2>3 DEF SavedAt, Matches
    <3> QED
      BY <1>0, <2>3, <3>1, <3>2 DEF KnownAt
  <2> QED
    BY <1>3, <2>2, <2>3
<1>5. ASSUME NEW it \in Pulls' \cup later' PROVE SavedAt(it.rel)'
  <2>1. ~(it.rel \in DOMAIN m' /\ it.rel \notin DOMAIN disk)
    BY <1>0, SeededFacts
  <2> QED
    BY <1>3, <2>1
<1>6. ASSUME NEW it \in later' PROVE AsPlanned(it)'
  <2>1. ASSUME it.rel \in DOMAIN local
        PROVE  it.rel \in Unwalked \/ (it.op # "delete" /\ local[it.rel].mtime = it.mtime)
    <3>1. \/ it = UploadItem(it.rel, local[it.rel])
          \/ it = OverwriteItem(it.rel, local[it.rel], Base(o)[it.rel])
          \/ it.rel \notin DOMAIN Walked
      BY <1>0, PushItemFacts
    <3>2. it.rel \notin DOMAIN Walked => it.rel \in Unwalked
      BY <1>0, <2>1, WalkedFacts
    <3> QED
      BY <3>1, <3>2 DEF UploadItem, OverwriteItem
  <2> QED
    BY <1>0, <2>1 DEF AsPlanned
<1>7. ASSUME o.mode = "pull", NEW r \in skipped' \cap Rels PROVE LeftAlone(r)'
  <2>1. /\ r \in DOMAIN Walked
        /\ r \notin DOMAIN disk \/ Touched(Walked[r], disk[r])
        /\ \A it \in PullItems(o) : it.rel # r
    BY <1>0, <1>7, SkippedFacts
  <2>2. r \in (Rels \cap DOMAIN local) \ Unwalked /\ ~Matches(disk, r)
    BY <1>0, <1>7, <2>1, WalkedFacts DEF Matches
  <2>3. KnownAt(r) /\ r \in touched \cup unsaved
    BY <2>2 DEF FilesKnown, KnownAt
  <2>4. SavedAt(r)'
    <3>1. m' = disk
      BY <1>0, <1>7, BaseFacts
    <3> QED
      BY <1>0, <3>1 DEF SavedAt
  <2> QED
    BY <1>0, <2>1, <2>3, <2>4 DEF LeftAlone
<1> QED
  BY <1>0, <1>4, <1>5, <1>6, <1>7 DEF FilesKnown

\* A run that ends, saved or not, or is killed.
LEMMA FilesEnd ==
  ASSUME FilesKnown, Finish \/ Crash
  PROVE  FilesKnown'
<1>0. /\ UNCHANGED <<local, touched>> /\ Pulls' = {} /\ later' = {} /\ DOMAIN work' = {}
      /\ skipped' = {} /\ m' = disk'
      /\ \/ disk' = disk /\ unsaved' = unsaved
         \/ disk' = m /\ unsaved' = NotIn(m, unsaved)
  BY DEF Finish, Crash, Abandon, Empty, Pulls
<1>1. ASSUME NEW r \in (Rels \cap DOMAIN local') \ Unwalked PROVE KnownAt(r)'
  <2>1. KnownAt(r)
    BY <1>0 DEF FilesKnown
  <2>2. SavedAt(r)' /\ (Matches(disk, r)' <=> Matches(m, r)')
    BY <1>0 DEF SavedAt, Matches
  <2>3. r \in (touched \cup unsaved)' \/ Matches(disk, r)'
    <3>1. CASE disk' = disk /\ unsaved' = unsaved
      BY <1>0, <2>1, <3>1 DEF KnownAt, Matches
    <3>2. CASE disk' = m /\ unsaved' = NotIn(m, unsaved)
      <4>1. r \in unsaved /\ SavedAt(r) => r \in unsaved'
        BY <3>2 DEF NotIn, SavedAt
      <4> QED
        BY <1>0, <2>1, <3>2, <4>1 DEF KnownAt, Matches
    <3> QED
      BY <1>0, <3>1, <3>2
  <2> QED
    BY <2>2, <2>3 DEF KnownAt
<1> QED
  BY <1>0, <1>1 DEF FilesKnown

\* The steps that neither transfer nor edit locally.
LEMMA FilesOther ==
  ASSUME Types, FilesKnown,
         \/ \E r \in Rels : ForeignCreate(r)
         \/ \E i \in DOMAIN remote : ForeignWrite(i) \/ ForeignRemove(i)
         \/ \E o \in Options : BeginStops(o)
         \/ \E it \in waiting : Take(it)
         \/ \E it \in DOMAIN work : CollectFailure(it)
         \/ PullHalfDone \/ UNCHANGED vars
  PROVE  FilesKnown'
<1>1. /\ UNCHANGED <<local, m, disk, touched, unsaved, opts, later, late, skipped>>
      /\ Pulls' \subseteq Pulls
      /\ \A it \in DOMAIN work' : \/ it \in DOMAIN work /\ work'[it] = work[it]
                                  \/ work'[it].at # "done"
  <2>1. CASE \/ \E r \in Rels : ForeignCreate(r)
             \/ \E i \in DOMAIN remote : ForeignWrite(i) \/ ForeignRemove(i)
    BY <2>1 DEF ForeignCreate, ForeignWrite, ForeignRemove, ForeignEdit, Pulls, run
  <2>2. CASE (\E o \in Options : BeginStops(o)) \/ PullHalfDone \/ UNCHANGED vars
    BY <2>2 DEF BeginStops, PullHalfDone, vars, run, history, Pulls
  <2>3. CASE \E it \in waiting : Take(it)
    <3>1. PICK it \in waiting : Take(it)
      BY <2>3
    <3>2. work'[it].at # "done"
      <4>1. work'[it] = [at |-> IF it.op = "download" THEN "open" ELSE "remove",
                         size |-> 0, mtime |-> 0, data |-> 0]
        BY <3>1, TakeFacts
      <4> DEFINE at == IF it.op = "download" THEN "open" ELSE "remove"
      <4>2. work'[it].at = at /\ at # "done"
        BY <4>1
      <4> QED
        BY <4>2
    <3>3. /\ UNCHANGED <<local, m, disk, opts, later, history>>
          /\ waiting' = waiting \ {it} /\ DOMAIN work' = DOMAIN work \cup {it}
          /\ \A other \in DOMAIN work : work'[other] = work[other]
      BY <3>1, TakeFacts
    <3> QED
      BY <3>2, <3>3 DEF Pulls, history
  <2>4. CASE \E it \in DOMAIN work : CollectFailure(it)
    <3>1. PICK it \in DOMAIN work : CollectFailure(it)
      BY <2>4
    <3> QED
      BY <3>1, DropFacts DEF CollectFailure, Pulls, history
  <2> QED
    BY <2>1, <2>2, <2>3, <2>4
<1>2. \A r : SameFile(r) /\ SameEntryAt(r)
  BY <1>1 DEF SameFile, SameEntryAt
<1>3. Saves
  BY <1>1 DEF Saves
<1> DEFINE paths == {}
<1> QED
  <2>1. \A q : q \notin paths
    OBVIOUS
  <2> HIDE DEF paths
  <2> QED
    BY <1>1, <1>2, <1>3, <2>1, FilesFrame

\* The start: the manifest knows every file.
LEMMA InitFiles ==
  ASSUME Init
  PROVE  FilesKnown
<1>1. ASSUME NEW r \in DOMAIN local PROVE KnownAt(r)
  <2>1. r \in DOMAIN disk /\ m = disk /\ ~Touched(local[r], disk[r])
    BY <1>1 DEF Init, Entry, Touched
  <2> QED
    BY <1>1, <2>1 DEF KnownAt, Matches
<1>2. Pulls = {} /\ later = {} /\ skipped = {} /\ DOMAIN work = {}
  BY DEF Init, Pulls, Empty
<1> QED
  BY <1>1, <1>2 DEF FilesKnown

\* Every step keeps the files known.
LEMMA FilesNext ==
  ASSUME Types, Types', RemoteKnown, NoTwins, LocalKnown, FilesKnown, [Next]_vars
  PROVE  FilesKnown'
  BY FilesEdit, FilesStep, FilesCollect, FilesPush, FilesBegin, FilesEnd, FilesOther
     DEF Next, Environment

\* A plain pull leaves no file of a user alone but for a reason: the user edited it since
\* its last transfer, or a run downloaded it and could not save the manifest.
THEOREM SkipsOnlyEditsAlways == Spec /\ []NoTwins => []SkipsOnlyEdits
<1>1. Init => FilesKnown
  BY InitFiles
<1>2. Types /\ Types' /\ RemoteKnown /\ NoTwins /\ LocalKnown /\ FilesKnown /\ [Next]_vars =>
      FilesKnown'
  BY FilesNext
<1>3. FilesKnown => SkipsOnlyEdits
  BY DEF FilesKnown, SkipsOnlyEdits, LeftAlone
<1> QED
  BY <1>1, <1>2, <1>3, TypesAlways, RemoteKnownAlways, LocalKnownAlways, PTL DEF Spec

-----------------------------------------------------------------------------
(* Entries of the version the folder has                                     *)

\* the entry is of the version the folder has
Agrees(e) == e.remoteID \in DOMAIN remote /\ ~RemoteTouched(remote[e.remoteID], e)

AgreesNext(e) == e.remoteID \in DOMAIN remote' /\ ~RemoteTouched(remote'[e.remoteID], e)

\* Then the local file is the one it was made for, or edited since.
InTimeAt(r) == /\ r \in DOMAIN m /\ Agrees(m[r]) => r \in touched \/ Matches(m, r)
               /\ r \in DOMAIN disk /\ Agrees(disk[r]) => r \in touched \/ Matches(disk, r)

\* A pull item is for a path whose entry is behind.
BehindAt(r) == /\ r \in DOMAIN m => ~Agrees(m[r])
               /\ r \in DOMAIN disk => ~Agrees(disk[r])

\* A file that no user owns is what a push item was planned for, or a temporary one.
StrayAsPlanned(it) ==
  it.rel \in DOMAIN local \ Rels =>
    (it.op # "delete" /\ local[it.rel].mtime = it.mtime) \/ Temporary(it.rel)

Timely ==
  /\ late \subseteq Rels
  /\ \A r : InTimeAt(r)
  /\ \A it \in Pulls : BehindAt(it.rel)
  /\ \A it \in later : StrayAsPlanned(it)

\* No version comes back: an entry that is of the folder's version was so before.
LEMMA AgreesBack ==
  ASSUME Types, Types', RemoteMoves, NEW e, Dates(e.remoteID, e.remoteMtime),
         e.remoteID \in Nat, e.remoteMtime \in Nat, AgreesNext(e), e.remoteID < nextId
  PROVE  Agrees(e)
<1>1. CASE UNCHANGED remote
  BY <1>1 DEF Agrees, AgreesNext
<1>2. CASE \E i : RemoteStep(i)
  <2>1. PICK i : RemoteStep(i)
    BY <1>2
  <2>2. e.remoteID # i
    <3>1. SUFFICES ASSUME e.remoteID = i PROVE FALSE
      OBVIOUS
    <3>2. remote'[i].mtime = clock + 1 /\ e.remoteMtime <= clock /\ clock \in Nat
      BY <2>1, <3>1, RemoteBasics DEF RemoteStep, AgreesNext, Dates
    <3> QED
      BY <3>1, <3>2 DEF AgreesNext, RemoteTouched
  <2> QED
    BY <2>1, <2>2 DEF RemoteStep, Agrees, AgreesNext
<1> QED
  BY <1>1, <1>2 DEF RemoteMoves

\* So an entry that is behind stays behind.
LEMMA BehindKept ==
  ASSUME Types, Types', RemoteKnown, RemoteMoves, NEW r, BehindAt(r), OldAt(r)
  PROVE  BehindAt(r)'
<1>1. ASSUME NEW e, \/ r \in DOMAIN m /\ e = m[r]
                    \/ r \in DOMAIN disk /\ e = disk[r]
      PROVE  ~AgreesNext(e)
  <2>1. /\ e.remoteID \in Nat /\ e.remoteMtime \in Nat /\ e.remoteID < nextId
        /\ Dates(e.remoteID, e.remoteMtime) /\ ~Agrees(e)
    BY <1>1, RemoteBasics DEF RemoteKnown, Entries, Of, BehindAt
  <2> QED
    BY <2>1, AgreesBack
<1>2. r \in DOMAIN m' => ~AgreesNext(m'[r])
  BY <1>1 DEF OldAt
<1>3. r \in DOMAIN disk' => ~AgreesNext(disk'[r])
  BY <1>1 DEF OldAt
<1> QED
  BY <1>2, <1>3 DEF BehindAt, Agrees, AgreesNext

\* A path no step touches stays in time.
LEMMA InTimeKept ==
  ASSUME Types, Types', RemoteKnown, RemoteMoves, NEW r, InTimeAt(r), OldAt(r),
         r \in DOMAIN m \cup DOMAIN disk => SameFile(r) \/ r \in touched',
         r \in touched => r \in touched'
  PROVE  InTimeAt(r)'
<1>1. ASSUME NEW e, \/ r \in DOMAIN m /\ e = m[r]
                    \/ r \in DOMAIN disk /\ e = disk[r],
             AgreesNext(e), r \notin touched'
      PROVE  r \in DOMAIN local' /\ ~Touched(local'[r], e)
  <2>1. /\ e.remoteID \in Nat /\ e.remoteMtime \in Nat /\ e.remoteID < nextId
        /\ Dates(e.remoteID, e.remoteMtime)
    BY <1>1, RemoteBasics DEF RemoteKnown, Entries, Of
  <2>2. Agrees(e)
    BY <1>1, <2>1, AgreesBack
  <2> QED
    BY <1>1, <2>2 DEF InTimeAt, Matches, SameFile
<1>2. r \in DOMAIN m' /\ AgreesNext(m'[r]) => r \in touched' \/ Matches(m, r)'
  BY <1>1 DEF OldAt, Matches
<1>3. r \in DOMAIN disk' /\ AgreesNext(disk'[r]) => r \in touched' \/ Matches(disk, r)'
  BY <1>1 DEF OldAt, Matches
<1> QED
  BY <1>2, <1>3 DEF InTimeAt, Agrees, AgreesNext

\* A path whose entries are behind is in time.
LEMMA BehindInTime ==
  ASSUME NEW r, BehindAt(r)'
  PROVE  InTimeAt(r)'
  BY DEF BehindAt, InTimeAt

\* A step that is about the paths in `paths` only.
LEMMA TimelyFrame ==
  ASSUME Types, Types', RemoteKnown, RemoteMoves, Timely, NEW paths,
         late' \subseteq Rels, Pulls' \subseteq Pulls,
         \A r : r \notin paths =>
            /\ OldAt(r)
            /\ r \in DOMAIN m \cup DOMAIN disk => SameFile(r) \/ r \in touched'
            /\ r \in touched => r \in touched',
         \A r \in paths : InTimeAt(r)',
         \A it \in Pulls' : it.rel \in paths => BehindAt(it.rel)',
         \A it \in later' : StrayAsPlanned(it)'
  PROVE  Timely'
<1>1. ASSUME NEW r PROVE InTimeAt(r)'
  <2>1. CASE r \notin paths
    <3>1. InTimeAt(r)
      BY DEF Timely
    <3> QED
      BY <2>1, <3>1, InTimeKept
  <2> QED
    BY <2>1
<1>2. ASSUME NEW it \in Pulls' PROVE BehindAt(it.rel)'
  <2>1. CASE it.rel \notin paths
    <3>1. BehindAt(it.rel)
      BY DEF Timely
    <3> QED
      BY <2>1, <3>1, BehindKept
  <2> QED
    BY <2>1
<1> QED
  BY <1>1, <1>2 DEF Timely

\* A stray file no step touches.
LEMMA StrayKept ==
  ASSUME NEW it, StrayAsPlanned(it),
         it.rel \notin Rels => SameFile(it.rel) /\ (Temporary(it.rel) => Temporary(it.rel)')
  PROVE  StrayAsPlanned(it)'
  BY DEF StrayAsPlanned, SameFile

\* Edits of users and of other clients.
LEMMA TimelyEdit ==
  ASSUME Types, Types', RemoteKnown, Timely, Environment
  PROVE  Timely'
<1>1. /\ RemoteMoves /\ Pulls' = Pulls /\ later' = later /\ UNCHANGED work
      /\ \A r : OldAt(r)
  BY EnvironmentMoves, QuietOld DEF Pulls, run
<1>2. /\ late' \subseteq Rels
      /\ \A r : r \in touched => r \in touched'
      /\ \A r : SameFile(r) \/ r \in touched' \cap Rels
  <2>1. ASSUME NEW q \in Rels, LocalWrite(q) \/ LocalRemove(q)
        PROVE  /\ late' \subseteq Rels
               /\ \A r : r \in touched => r \in touched'
               /\ \A r : SameFile(r) \/ r \in touched' \cap Rels
    BY <2>1, EditFacts DEF Timely
  <2>2. CASE \/ \E q \in Rels : ForeignCreate(q)
             \/ \E i \in DOMAIN remote : ForeignWrite(i) \/ ForeignRemove(i)
    BY <2>2 DEF ForeignCreate, ForeignWrite, ForeignRemove, ForeignEdit, SameFile, Timely
  <2> QED
    BY <2>1, <2>2 DEF Environment
<1>3. ASSUME NEW it \in later' PROVE StrayAsPlanned(it)'
  <2>1. StrayAsPlanned(it)
    BY <1>1 DEF Timely
  <2>2. Temporary(it.rel) => Temporary(it.rel)'
    BY <1>1 DEF Temporary
  <2> QED
    BY <1>2, <2>1, <2>2, StrayKept
<1> DEFINE paths == {}
<1> QED
  <2>1. \A r : r \notin paths
    OBVIOUS
  <2> HIDE DEF paths
  <2> QED
    BY <1>1, <1>2, <1>3, <2>1, TimelyFrame

\* What a download does to the file of its temporary name, which is then there, or gone.
LEMMA TmpAfter ==
  ASSUME Types, NEW it \in DOMAIN work, Step(it), it.op = "download"
  PROVE  \/ SameFile(TmpOf(it.rel)) /\ work[it].at \notin {"copy", "rename"}
         \/ TmpOf(it.rel) \notin DOMAIN local'
         \/ Temporary(TmpOf(it.rel))'
<1>1. DOMAIN work' = DOMAIN work
  BY StepShape
<1>2. Goes(it, "copy") \/ Goes(it, "rename") => Temporary(TmpOf(it.rel))'
  BY <1>1, GoesFields DEF Temporary
<1>3. CASE OpenStream(it)
  BY <1>3, OpenStreamFacts DEF SameFile
<1>4. CASE CreateTmp(it)
  BY <1>2, <1>4, CreateTmpFacts DEF SameFile
<1>5. CASE Copy(it)
  BY <1>2, <1>5, CopyFacts DEF Delete
<1>6. CASE Rename(it)
  <2>1. CASE local' = Delete(local, TmpOf(it.rel))
    BY <2>1 DEF Delete
  <2>2. CASE TmpOf(it.rel) \notin DOMAIN local /\ UNCHANGED local
    BY <2>2
  <2>3. CASE /\ TmpOf(it.rel) \in DOMAIN local
             /\ local' = Set(Delete(local, TmpOf(it.rel)), it.rel, local[TmpOf(it.rel)])
    BY <2>3, Renamed
  <2> QED
    BY <1>6, <2>1, <2>2, <2>3, RenameFacts
<1>7. CASE Stat(it)
  BY <1>7, StatFacts DEF SameFile
<1> QED
  BY <1>3, <1>4, <1>5, <1>6, <1>7, StepKind DEF Step

\* Another path is the temporary one of a download after the step as it was before.
LEMMA TmpElsewhere ==
  ASSUME Types, NEW it \in DOMAIN work, Step(it), NEW r, it.op = "download" => r # TmpOf(it.rel),
         Temporary(r)
  PROVE  Temporary(r)'
<1>1. PICK other \in DOMAIN work : /\ other.op = "download" /\ r = TmpOf(other.rel)
                                   /\ work[other].at \in {"copy", "rename"}
  BY DEF Temporary
<1>2. other # it
  BY <1>1
<1> QED
  BY <1>1, <1>2, StepShape DEF OnlyProgress, Temporary

\* A temporary name tells its download.
LEMMA TmpOwner ==
  ASSUME Types, NEW it \in DOMAIN work, it.op = "download",
         work[it].at \notin {"copy", "rename"}
  PROVE  ~Temporary(TmpOf(it.rel))
<1>1. SUFFICES ASSUME NEW other \in DOMAIN work, TmpOf(it.rel) = TmpOf(other.rel),
                      work[other].at \in {"copy", "rename"}
               PROVE  FALSE
  BY DEF Temporary
<1>2. other.rel \in Path /\ it.rel \in Path
  BY RemoteBasics DEF Pulls
<1>3. other = it
  BY <1>1, <1>2, TmpFacts DEF Types, OneItemPerPath, Pulls
<1> QED
  BY <1>1, <1>3

\* An executor step changes the file of an entry that is behind, or a temporary one.
LEMMA TimelyStep ==
  ASSUME Types, Types', RemoteKnown, Timely, NoTwins, NEW it \in DOMAIN work, Step(it)
  PROVE  Timely'
<1>0. /\ DOMAIN work' = DOMAIN work /\ Pulls' = Pulls /\ RemoteMoves
      /\ UNCHANGED <<m, disk, late, later>>
      /\ \A r : OldAt(r)
      /\ \A r : r # it.rel /\ (it.op = "download" => r # TmpOf(it.rel)) => SameFile(r)
      /\ it.op = "download" => TmpOf(it.rel) \notin Rels \cup DOMAIN m \cup DOMAIN disk
      /\ \A r : r # it.rel => (r \in touched' <=> r \in touched)
      /\ it \in Pulls
  BY StepShape, StepTree, QuietOld DEF OnlyProgress, NoTwins, Pulls
<1>1. BehindAt(it.rel)' /\ InTimeAt(it.rel)'
  <2>1. BehindAt(it.rel)
    BY <1>0 DEF Timely
  <2> QED
    BY <1>0, <2>1, BehindKept, BehindInTime
<1>2. ASSUME NEW other \in later' PROVE StrayAsPlanned(other)'
  <2>1. StrayAsPlanned(other) /\ other.rel # it.rel
    BY <1>0 DEF Timely, Types, OneItemPerPath
  <2>2. CASE it.op = "download" /\ other.rel = TmpOf(it.rel)
    <3>1. CASE SameFile(TmpOf(it.rel)) /\ work[it].at \notin {"copy", "rename"}
      BY <2>1, <2>2, <3>1, TmpOwner, StrayKept
    <3>2. CASE TmpOf(it.rel) \notin DOMAIN local' \/ Temporary(TmpOf(it.rel))'
      BY <2>2, <3>2 DEF StrayAsPlanned
    <3> QED
      BY <2>2, <3>1, <3>2, TmpAfter
  <2>3. CASE it.op = "download" => other.rel # TmpOf(it.rel)
    <3>1. SameFile(other.rel)
      BY <1>0, <2>1, <2>3
    <3>2. Temporary(other.rel) => Temporary(other.rel)'
      BY <2>3, TmpElsewhere
    <3> QED
      BY <2>1, <3>1, <3>2, StrayKept
  <2> QED
    BY <2>2, <2>3
<1> DEFINE paths == {it.rel}
<1> QED
  <2>1. \A r : r \in paths <=> r = it.rel
    OBVIOUS
  <2> HIDE DEF paths
  <2>2. late' \subseteq Rels
    BY <1>0 DEF Timely
  <2>3. \A r : r \notin paths => /\ r \in DOMAIN m \cup DOMAIN disk => SameFile(r)
                                 /\ r \in touched => r \in touched'
    BY <1>0, <2>1
  <2> QED
    BY <1>0, <1>1, <1>2, <2>1, <2>2, <2>3, TimelyFrame

\* A download is entered while its file is there, or that has been edited.
LEMMA TimelyCollect ==
  ASSUME Types, Types', RemoteKnown, LocalKnown, Timely, NEW it \in DOMAIN work, Collect(it)
  PROVE  Timely'
<1>0. /\ work[it].at = "done" /\ it \in Pulls
      /\ UNCHANGED <<local, remote, later, late, touched, waiting>>
      /\ DOMAIN work' = DOMAIN work \ {it} /\ RemoteMoves
      /\ \A other \in DOMAIN work \ {it} : work'[other] = work[other]
      /\ \A r : r # it.rel => OldAt(r)
      /\ disk' \in {disk, m'}
  BY CollectFacts
<1>1. \A other \in Pulls' : other \in Pulls /\ other.rel # it.rel
  BY <1>0 DEF Types, OneItemPerPath, Pulls
<1>2. it.rel \in DOMAIN m' => it.rel \in touched' \/ Matches(m, it.rel)'
  <2>1. SUFFICES ASSUME it.rel \in DOMAIN m', it.rel \notin touched
                 PROVE  Matches(m, it.rel)'
    BY <1>0
  <2>2. /\ it.op = "download"
        /\ m'[it.rel] = Entry(work[it].size, work[it].mtime, it.remoteID, it.remoteMtime)
    BY <2>1, CollectFacts
  <2>3. Holds(it.rel, work[it]) /\ local[it.rel].mtime = work[it].mtime
    BY <1>0, <2>1, <2>2 DEF LocalKnown, Stages, Staged, InPlace
  <2> QED
    BY <1>0, <2>1, <2>2, <2>3 DEF Matches, Holds, Touched, Entry
<1>3. InTimeAt(it.rel)'
  <2>1. CASE disk' = m'
    BY <1>2, <2>1 DEF InTimeAt, Matches
  <2>2. CASE disk' = disk
    <3>1. it.rel \in DOMAIN disk => ~Agrees(disk[it.rel])
      BY <1>0 DEF Timely, BehindAt
    <3> QED
      BY <1>0, <1>2, <2>2, <3>1 DEF InTimeAt, Agrees
  <2> QED
    BY <1>0, <2>1, <2>2
<1>4. ASSUME NEW other \in later' PROVE StrayAsPlanned(other)'
  <2>1. StrayAsPlanned(other) /\ SameFile(other.rel)
    BY <1>0 DEF Timely, SameFile
  <2>2. Temporary(other.rel) => Temporary(other.rel)'
    BY <1>0 DEF Temporary
  <2> QED
    BY <2>1, <2>2, StrayKept
<1>5. Pulls' \subseteq Pulls /\ late' \subseteq Rels /\ \A r : SameFile(r)
  BY <1>0, <1>1 DEF Timely, SameFile
<1> DEFINE paths == {it.rel}
<1> QED
  <2>1. \A r : r \in paths <=> r = it.rel
    OBVIOUS
  <2> HIDE DEF paths
  <2> QED
    BY <1>0, <1>1, <1>3, <1>4, <1>5, <2>1, TimelyFrame

\* In the push half, the file of an item is the one it was planned for, or edited since.
LEMMA PlannedNow ==
  ASSUME Types, Timely, FilesKnown, Unwalked = {}, DOMAIN work = {}, NEW it \in later,
         it.rel \in DOMAIN local
  PROVE  \/ it.rel \in late /\ it.rel \in touched
         \/ it.op # "delete" /\ local[it.rel].mtime = it.mtime
<1>1. AsPlanned(it) /\ StrayAsPlanned(it) /\ late \subseteq Rels
  BY DEF Timely, FilesKnown
<1>2. ~Temporary(it.rel)
  BY DEF Temporary
<1> QED
  BY <1>1, <1>2 DEF AsPlanned, StrayAsPlanned

\* A push enters the file it has sent.
LEMMA TimelyPush ==
  ASSUME Types, Types', RemoteKnown, RemoteKnown', LocalKnown, FilesKnown, Timely,
         Unwalked = {}, NEW it \in later, PushItem(it)
  PROVE  Timely'
<1>0. /\ UNCHANGED <<local, late, waiting>> /\ DOMAIN work = {} /\ DOMAIN work' = {}
      /\ RemoteMoves /\ later' = later \ {it} /\ waiting = {}
      /\ \A r : r # it.rel => OldAt(r)
      /\ \A r : SameFile(r) /\ it.rel \in Path
  BY PushFacts, PushItemShape DEF SameFile, Types, Phases
<1>1. Pulls' = {}
  BY <1>0 DEF Pulls
<1>2. ASSUME NEW other \in later' PROVE StrayAsPlanned(other)'
  <2>1. StrayAsPlanned(other) /\ SameFile(other.rel) /\ ~Temporary(other.rel)
    BY <1>0 DEF Timely, Temporary
  <2> QED
    BY <2>1, StrayKept
<1>3. \A r : r # it.rel => (r \in touched => r \in touched')
  BY PushFacts
<1>4. InTimeAt(it.rel)'
  <2>1. CASE Quiet /\ UNCHANGED <<touched, adopted, unsaved>>
    <3>1. InTimeAt(it.rel) /\ OldAt(it.rel) /\ SameFile(it.rel)
      BY <1>0, <2>1, QuietOld DEF Timely
    <3> QED
      BY <1>0, <2>1, <3>1, InTimeKept
  <2>2. CASE /\ Feasible(it) /\ remote' = Pushed(it) /\ clock' = clock + 1
             /\ touched' = IF it.rel \in late THEN touched ELSE touched \ {it.rel}
             /\ it.op = "delete" => it.rel \notin DOMAIN m'
             /\ it.op # "delete" =>
                  /\ it.rel \in DOMAIN m'
                  /\ m'[it.rel] = Entry(it.size, it.mtime, TargetOf(it), clock + 1)
             /\ disk' = disk \/ disk' = m'
    <3>1. ASSUME it.op # "delete" PROVE it.rel \in touched' \/ Matches(m, it.rel)'
      <4>1. it.rel \in DOMAIN local /\ local[it.rel].size = it.size
        BY <2>2, <3>1 DEF Feasible
      <4>2. CASE it.rel \in late /\ it.rel \in touched
        BY <2>2, <4>2
      <4>3. CASE local[it.rel].mtime = it.mtime
        BY <1>0, <2>2, <3>1, <4>1, <4>3 DEF Matches, Touched, Entry
      <4> QED
        BY <1>0, <4>1, <4>2, <4>3, PlannedNow
    <3>2. ASSUME it.rel \in DOMAIN disk PROVE ~AgreesNext(disk[it.rel])
      <4> DEFINE e == disk[it.rel]
      <4>1. /\ e.remoteMtime \in Nat /\ clock \in Nat /\ e.remoteMtime <= clock
            /\ OfNext(e.remoteID, it.rel)
        BY <3>2, RemoteBasics, EntriesKept, <1>0 DEF RemoteKnown, Entries, Dates
      <4>2. CASE it.op = "delete"
        <5>1. e.remoteID = it.remoteID
          BY <3>2, <4>2 DEF LocalKnown, Deletes
        <5>2. remote' = Delete(remote, it.remoteID)
          BY <2>2, <4>2, PushedFacts
        <5> QED
          BY <5>1, <5>2 DEF Delete, AgreesNext
      <4>3. CASE it.op # "delete"
        <5>1. /\ remote'[TargetOf(it)].path = it.rel /\ TargetOf(it) \in DOMAIN remote'
              /\ remote'[TargetOf(it)].mtime = clock + 1
          BY <2>2, <4>3, PushMoves
        <5>2. e.remoteID \in DOMAIN remote' => e.remoteID = TargetOf(it)
          BY <4>1, <5>1 DEF OfNext, RemoteKnown
        <5> QED
          BY <4>1, <5>1, <5>2 DEF AgreesNext, RemoteTouched
      <4> QED
        BY <4>2, <4>3
    <3>3. it.rel \in DOMAIN m' => it.rel \in touched' \/ Matches(m, it.rel)'
      BY <2>2, <3>1
    <3> QED
      BY <2>2, <3>2, <3>3 DEF InTimeAt, AgreesNext, Agrees, Matches
  <2> QED
    BY <2>1, <2>2, PushFacts
<1>5. late' \subseteq Rels
  BY <1>0 DEF Timely
<1> DEFINE paths == {it.rel}
<1> QED
  <2>1. \A r : r \in paths <=> r = it.rel
    OBVIOUS
  <2> HIDE DEF paths
  <2> QED
    BY <1>0, <1>1, <1>2, <1>3, <1>4, <1>5, <2>1, TimelyFrame

\* What a run has to download or to remove, the manifest does not have.
LEMMA BehindItems ==
  ASSUME Types, RemoteKnown, NEW o \in Option, NEW it \in PullItems(o),
         it.rel \in DOMAIN Base(o), Of(Base(o)[it.rel].remoteID, it.rel)
  PROVE  ~Agrees(Base(o)[it.rel])
<1> DEFINE e == Base(o)[it.rel]
<1>1. SUFFICES ASSUME e.remoteID \in DOMAIN remote, ~RemoteTouched(remote[e.remoteID], e)
               PROVE  FALSE
  BY DEF Agrees
<1>2. remote[e.remoteID].path = it.rel /\ TreesTyped
  BY <1>1 DEF Of, Types
<1>3. it.rel \in DOMAIN Index
  BY <1>1, <1>2, IndexFacts
<1>4. /\ Index[it.rel].id \in DOMAIN remote /\ remote[Index[it.rel].id].path = it.rel
      /\ Index[it.rel].size = remote[Index[it.rel].id].size
      /\ Index[it.rel].mtime = remote[Index[it.rel].id].mtime
  BY <1>2, <1>3, IndexFacts
<1>5. Index[it.rel].id = e.remoteID
  BY <1>1, <1>2, <1>4 DEF RemoteKnown
<1>6. ~RemoteTouched(Index[it.rel], e)
  BY <1>1, <1>4, <1>5 DEF RemoteTouched
<1>7. RemoteTouched(Index[it.rel], e)
  BY <1>2, <1>3, PullItemFacts
<1> QED
  BY <1>6, <1>7

\* A run begins: its pull items are for what is behind.
LEMMA TimelyBegin ==
  ASSUME Types, Types', RemoteKnown, RemoteKnown', Timely, NEW o \in Options, Begin(o)
  PROVE  Timely'
<1>0. /\ UNCHANGED <<local, remote, nextId, disk, work, touched>>
      /\ m = disk /\ m' = Base(o) /\ later' = PushItems(o)
      /\ Pulls' = PullItems(o) /\ late' = {} /\ o \in Option /\ TreesTyped
  BY BeginFacts
<1>1. \A r \in DOMAIN m' : (r \in DOMAIN disk /\ m' = disk) \/ r \in DOMAIN Base(o) \ DOMAIN disk
  BY <1>0, BaseFacts
<1>2. DOMAIN disk # {} => m' = disk
  BY <1>0, BaseFacts
<1>3. ASSUME NEW r PROVE InTimeAt(r)'
  <2>1. InTimeAt(r)
    BY DEF Timely
  <2>2. r \in DOMAIN disk /\ Agrees(disk[r])' => r \in touched' \/ Matches(disk, r)'
    BY <1>0, <2>1 DEF InTimeAt, Agrees, Matches
  <2>3. r \in DOMAIN m' /\ Agrees(m[r])' => r \in touched' \/ Matches(m, r)'
    <3>1. CASE m' = disk
      BY <1>0, <2>2, <3>1 DEF Agrees, Matches
    <3>2. CASE r \in DOMAIN Base(o) \ DOMAIN disk
      <4>1. r \in DOMAIN local /\ ~Touched(local[r], Base(o)[r])
        BY <1>0, <3>2, SeededFacts
      <4> QED
        BY <1>0, <3>2, <4>1 DEF Matches
    <3> QED
      BY <1>1, <3>1, <3>2
  <2> QED
    BY <1>0, <2>2, <2>3 DEF InTimeAt
<1>4. ASSUME NEW it \in Pulls' PROVE BehindAt(it.rel)'
  <2>1. it.rel \in DOMAIN m' => ~Agrees(m'[it.rel])
    <3>1. SUFFICES ASSUME it.rel \in DOMAIN m' PROVE ~Agrees(m'[it.rel])
      OBVIOUS
    <3>2. Of(Base(o)[it.rel].remoteID, it.rel)
      BY <1>0, <3>1 DEF RemoteKnown, Entries, Of
    <3> QED
      BY <1>0, <3>1, <3>2, BehindItems
  <2>2. it.rel \in DOMAIN disk => ~Agrees(disk[it.rel])
    BY <1>2, <2>1
  <2> QED
    BY <1>0, <2>1, <2>2 DEF BehindAt, Agrees
<1>5. ASSUME NEW it \in later' PROVE StrayAsPlanned(it)'
  <2>1. SUFFICES ASSUME it.rel \in DOMAIN local \ Rels
                 PROVE  it.op # "delete" /\ local[it.rel].mtime = it.mtime
    BY <1>0 DEF StrayAsPlanned
  <2>2. it.rel \in DOMAIN Walked
    BY <1>0, <2>1, WalkedFacts, PullAssumption
  <2>3. \/ it = UploadItem(it.rel, local[it.rel])
        \/ it = OverwriteItem(it.rel, local[it.rel], Base(o)[it.rel])
    BY <1>0, <2>2, PushItemFacts
  <2> QED
    BY <2>3 DEF UploadItem, OverwriteItem
<1> QED
  BY <1>0, <1>3, <1>4, <1>5 DEF Timely

\* The steps that neither transfer nor edit.
LEMMA TimelyOther ==
  ASSUME Types, Types', RemoteKnown, Timely,
         \/ \E o \in Options : BeginStops(o)
         \/ \E it \in waiting : Take(it)
         \/ \E it \in DOMAIN work : CollectFailure(it)
         \/ PullHalfDone \/ Finish \/ Crash \/ UNCHANGED vars
  PROVE  Timely'
<1>1. /\ RemoteMoves /\ Pulls' \subseteq Pulls /\ later' \subseteq later /\ \A r : OldAt(r)
  BY OtherMoves, QuietOld DEF Quiet
<1>2. /\ UNCHANGED <<local, touched, late>>
      /\ later' = {} \/ \A r : Temporary(r) => Temporary(r)'
  <2>1. CASE (\E o \in Options : BeginStops(o)) \/ PullHalfDone \/ UNCHANGED vars
    BY <2>1 DEF BeginStops, PullHalfDone, vars, run, history, Temporary
  <2>2. CASE \E it \in waiting : Take(it)
    <3>1. PICK it \in waiting : Take(it)
      BY <2>2
    <3>2. /\ UNCHANGED <<local, history>> /\ DOMAIN work' = DOMAIN work \cup {it}
          /\ \A other \in DOMAIN work : work'[other] = work[other]
      BY <3>1, TakeFacts
    <3> QED
      BY <3>2 DEF Temporary, history
  <2>3. CASE \E it \in DOMAIN work : CollectFailure(it)
    <3>1. PICK it \in DOMAIN work : CollectFailure(it)
      BY <2>3
    <3>2. UNCHANGED <<local, history>> /\ work[it].at = "failed" /\ Drop(it)
      BY <3>1 DEF CollectFailure, InStep
    <3>3. /\ DOMAIN work' = DOMAIN work \ {it}
          /\ \A other \in DOMAIN work \ {it} : work'[other] = work[other]
      BY <3>2, DropFacts
    <3> QED
      BY <3>2, <3>3 DEF Temporary, history
  <2>4. CASE Finish \/ Crash
    BY <2>4 DEF Finish, Crash, Abandon
  <2> QED
    BY <2>1, <2>2, <2>3, <2>4
<1>3. ASSUME NEW it \in later' PROVE StrayAsPlanned(it)'
  <2>1. StrayAsPlanned(it) /\ SameFile(it.rel)
    BY <1>1, <1>2 DEF Timely, SameFile
  <2> QED
    BY <1>2, <1>3, <2>1, StrayKept
<1>4. \A r : SameFile(r)
  BY <1>2 DEF SameFile
<1>5. late' \subseteq Rels
  BY <1>2 DEF Timely
<1> DEFINE paths == {}
<1> QED
  <2>1. \A r : r \notin paths
    OBVIOUS
  <2> HIDE DEF paths
  <2> QED
    BY <1>1, <1>2, <1>3, <1>4, <1>5, <2>1, TimelyFrame

\* The start: entries, folder and tree agree.
LEMMA InitTimely ==
  ASSUME Init
  PROVE  Timely
<1>1. ASSUME NEW r PROVE InTimeAt(r)
  <2>1. r \in DOMAIN disk => r \in DOMAIN local /\ ~Touched(local[r], disk[r])
    BY DEF Init, Entry, Touched
  <2>2. m = disk
    BY DEF Init
  <2> QED
    BY <2>1, <2>2 DEF InTimeAt, Matches
<1>2. Pulls = {} /\ later = {} /\ late = {}
  BY DEF Init, Pulls, Empty
<1> QED
  BY <1>1, <1>2 DEF Timely

\* Every step keeps the entries in time.
LEMMA TimelyNext ==
  ASSUME Types, Types', RemoteKnown, RemoteKnown', NoTwins, LocalKnown, FilesKnown, Timely,
         Unwalked = {}, [Next]_vars
  PROVE  Timely'
  BY TimelyEdit, TimelyStep, TimelyCollect, TimelyPush, TimelyBegin, TimelyOther DEF Next

-----------------------------------------------------------------------------
(* A run on its course                                                       *)

\* a run in which nothing has failed, changed or been left alone so far
Calm == /\ phase # "idle" /\ ~failures /\ late = {} /\ lateIds = {} /\ skipped = {}
        /\ ~opts.noDelete

HasItem(r) == \E it \in Pulls \cup later : it.rel = r

\* both have the same files, in the same versions
RemoteSettled(r) == /\ r \in DOMAIN m <=> At(r) # {}
                    /\ r \in DOMAIN m => Agrees(m[r])

LocalSettled(r) == /\ r \in DOMAIN m <=> r \in DOMAIN local
                   /\ r \in DOMAIN m => ~Touched(local[r], m[r])

SettledAt(r) ==
  \/ HasItem(r)
  \/ /\ RemoteSettled(r)
     /\ opts.mode = "twoWay" => Temporary(r) \/ LocalSettled(r)

\* The folder is as the item was planned for.
ReadyPull(it) ==
  /\ it.op = "download" => /\ it.remoteID \in DOMAIN remote
                           /\ remote[it.remoteID].mtime = it.remoteMtime
  /\ it.op = "deleteLocal" =>
       /\ At(it.rel) = {}
       /\ it \in DOMAIN work /\ work[it].at = "done" => it.rel \notin DOMAIN local

ReadyPush(it) == it.op # "upload" => it.remoteID \in DOMAIN remote

OnCourse == Calm => /\ \A it \in Pulls : ReadyPull(it)
                    /\ \A it \in later : ReadyPush(it)
                    /\ \A r \in Path : SettledAt(r)

\* A step that leaves the folder and the manifest alone.
LEMMA SettledKept ==
  ASSUME NEW r, SettledAt(r), UNCHANGED <<remote, m, opts>>, HasItem(r) => HasItem(r)',
         LocalSettled(r) => LocalSettled(r)' \/ Temporary(r)',
         Temporary(r) => LocalSettled(r)' \/ Temporary(r)'
  PROVE  SettledAt(r)'
<1>1. RemoteSettled(r)' <=> RemoteSettled(r)
  BY DEF RemoteSettled, At, Agrees
<1> QED
  BY <1>1 DEF SettledAt

\* An executor step settles nothing yet, and unsettles nothing.
LEMMA CourseStep ==
  ASSUME Types, Types', OnCourse, NoTwins, NEW it \in DOMAIN work, Step(it)
  PROVE  OnCourse'
<1>0. /\ DOMAIN work' = DOMAIN work /\ Pulls' = Pulls
      /\ UNCHANGED <<m, late, later, remote, opts, phase, failures, lateIds, skipped>>
      /\ \A other \in DOMAIN work \ {it} : work'[other] = work[other]
      /\ \A r : r # it.rel /\ (it.op = "download" => r # TmpOf(it.rel)) => SameFile(r)
      /\ it.op = "download" => TmpOf(it.rel) \notin DOMAIN m \cup {other.rel : other \in DOMAIN work}
      /\ it \in Pulls
  BY StepShape, StepTree DEF OnlyProgress, NoTwins, Pulls
<1>1. SUFFICES ASSUME Calm
               PROVE  /\ \A other \in Pulls' : ReadyPull(other)'
                      /\ \A other \in later' : ReadyPush(other)'
                      /\ \A r \in Path : SettledAt(r)'
  BY <1>0 DEF OnCourse, Calm
<1>2. ASSUME NEW other \in Pulls' PROVE ReadyPull(other)'
  <2>1. ReadyPull(other) /\ other \in Pulls
    BY <1>0, <1>1 DEF OnCourse
  <2>2. ASSUME other.op = "deleteLocal", other \in DOMAIN work', work'[other].at = "done"
        PROVE  other.rel \notin DOMAIN local'
    <3>1. CASE other = it
      <4>1. RemoveLocal(it)
        BY <2>2, <3>1, StepKind
      <4>2. local' = Delete(local, it.rel)
        BY <2>2, <3>1, <4>1, RemoveLocalFacts, GoesFields
      <4> QED
        BY <3>1, <4>2 DEF Delete
    <3>2. CASE other # it
      <4>1. other \in DOMAIN work /\ work[other].at = "done"
        BY <1>0, <2>2, <3>2
      <4>2. other.rel # it.rel
        BY <1>0, <3>2, <2>1 DEF Types, OneItemPerPath
      <4>3. SameFile(other.rel)
        BY <1>0, <4>1, <4>2
      <4> QED
        BY <2>1, <2>2, <4>1, <4>3 DEF ReadyPull, SameFile
    <3> QED
      BY <3>1, <3>2
  <2> QED
    BY <1>0, <2>1, <2>2 DEF ReadyPull, At
<1>3. ASSUME NEW other \in later' PROVE ReadyPush(other)'
  BY <1>0, <1>1 DEF OnCourse, ReadyPush
<1>4. ASSUME NEW r \in Path PROVE SettledAt(r)'
  <2>1. SettledAt(r) /\ (HasItem(r) => HasItem(r)')
    BY <1>0, <1>1 DEF OnCourse, HasItem
  <2>2. CASE r = it.rel
    BY <1>0, <2>2 DEF SettledAt, HasItem
  <2>3. CASE it.op = "download" /\ r = TmpOf(it.rel)
    <3>1. CASE SameFile(r) /\ ~Temporary(r)
      BY <1>0, <2>1, <3>1, SettledKept DEF LocalSettled, SameFile
    <3>2. CASE r \notin DOMAIN local'
      <4>1. LocalSettled(r)'
        BY <1>0, <2>3, <3>2 DEF LocalSettled
      <4> QED
        BY <1>0, <2>1, <4>1, SettledKept
    <3>3. CASE Temporary(r)'
      BY <1>0, <2>1, <3>3, SettledKept
    <3> QED
      BY <2>3, <3>1, <3>2, <3>3, TmpAfter, TmpOwner
  <2>4. CASE r # it.rel /\ (it.op = "download" => r # TmpOf(it.rel))
    <3>1. SameFile(r)
      BY <1>0, <2>4
    <3>2. Temporary(r) => Temporary(r)'
      BY <2>4, TmpElsewhere
    <3>3. LocalSettled(r) => LocalSettled(r)'
      BY <1>0, <3>1 DEF LocalSettled, SameFile
    <3> QED
      BY <1>0, <2>1, <3>2, <3>3, SettledKept
  <2> QED
    BY <2>2, <2>3, <2>4
<1> QED
  BY <1>2, <1>3, <1>4

\* A collected item leaves its path settled.
LEMMA CourseCollect ==
  ASSUME Types, Types', RemoteKnown, LocalKnown, OnCourse, NEW it \in DOMAIN work, Collect(it)
  PROVE  OnCourse'
<1>0. /\ work[it].at = "done" /\ it \in Pulls /\ m' = Recorded(it) /\ it.rel \in Path
      /\ UNCHANGED <<local, remote, waiting, late, later, opts, phase, failures, lateIds, skipped,
                     touched>>
      /\ DOMAIN work' = DOMAIN work \ {it}
      /\ \A other \in DOMAIN work \ {it} : work'[other] = work[other]
  BY CollectFacts DEF Collect
<1>1. SUFFICES ASSUME Calm
               PROVE  /\ \A other \in Pulls' : ReadyPull(other)'
                      /\ \A other \in later' : ReadyPush(other)'
                      /\ \A r \in Path : SettledAt(r)'
  BY <1>0 DEF OnCourse, Calm
<1>2. Pulls' = Pulls \ {it}
  BY <1>0 DEF Types, OneItemPerPath, Pulls
<1>3. ASSUME NEW other \in Pulls' PROVE ReadyPull(other)'
  <2>1. ReadyPull(other) /\ other # it
    BY <1>1, <1>2 DEF OnCourse
  <2> QED
    BY <1>0, <2>1 DEF ReadyPull, At
<1>4. ASSUME NEW other \in later' PROVE ReadyPush(other)'
  BY <1>0, <1>1 DEF OnCourse, ReadyPush
<1>5. SettledAt(it.rel)'
  <2>1. ReadyPull(it) /\ late = {} /\ it.op \in {"download", "deleteLocal"}
    BY <1>0, <1>1, RemoteBasics DEF OnCourse, Calm
  <2>2. CASE it.op = "download"
    <3>1. /\ it.rel \in DOMAIN m'
          /\ m'[it.rel] = Entry(work[it].size, work[it].mtime, it.remoteID, it.remoteMtime)
      BY <2>2, CollectFacts
    <3>2. /\ it.remoteID \in DOMAIN remote /\ remote[it.remoteID].mtime = it.remoteMtime
          /\ remote[it.remoteID].path = it.rel
      BY <1>0, <2>1, <2>2 DEF ReadyPull, RemoteKnown, Of
    <3>3. Staged(it)
      BY DEF LocalKnown, Stages
    <3>4. remote[it.remoteID].size = work[it].size
      BY <1>0, <2>2, <3>2, <3>3 DEF Staged, Streamed
    <3>5. Holds(it.rel, work[it]) /\ local[it.rel].mtime = work[it].mtime
      BY <1>0, <2>1, <2>2, <3>3 DEF Staged, InPlace
    <3>6. AgreesNext(m'[it.rel])
      BY <1>0, <3>1, <3>2, <3>4 DEF AgreesNext, RemoteTouched, Entry
    <3>7. it.remoteID \in At(it.rel)'
      BY <1>0, <3>2 DEF At
    <3>8. RemoteSettled(it.rel)'
      BY <3>1, <3>6, <3>7 DEF RemoteSettled, AgreesNext, Agrees
    <3>9. LocalSettled(it.rel)'
      BY <1>0, <3>1, <3>5 DEF LocalSettled, Holds, Touched, Entry
    <3> QED
      BY <3>8, <3>9 DEF SettledAt
  <2>3. CASE it.op = "deleteLocal"
    <3>1. it.rel \notin DOMAIN m'
      BY <1>0, <2>3 DEF Recorded, Delete
    <3>2. At(it.rel)' = {} /\ it.rel \notin DOMAIN local'
      BY <1>0, <2>1, <2>3 DEF ReadyPull, At
    <3> QED
      BY <3>1, <3>2 DEF SettledAt, RemoteSettled, LocalSettled
  <2> QED
    BY <2>1, <2>2, <2>3
<1>6. ASSUME NEW r \in Path, r # it.rel PROVE SettledAt(r)'
  <2>1. SettledAt(r)
    BY <1>1 DEF OnCourse
  <2>2. SameEntryAt(r)
    <3>1. CASE it.op = "deleteLocal"
      BY <1>0, <1>6, <3>1 DEF Recorded, SameEntryAt, Delete
    <3>2. CASE it.op # "deleteLocal"
      BY <1>0, <1>6, <3>2 DEF Recorded, SameEntryAt, Set
    <3> QED
      BY <3>1, <3>2
  <2>3. HasItem(r) => HasItem(r)'
    BY <1>0, <1>2, <1>6 DEF HasItem
  <2>4. RemoteSettled(r) => RemoteSettled(r)'
    BY <1>0, <2>2 DEF RemoteSettled, At, Agrees, SameEntryAt
  <2>5. LocalSettled(r) => LocalSettled(r)'
    BY <1>0, <2>2 DEF LocalSettled, SameEntryAt
  <2>6. Temporary(r) => Temporary(r)'
    BY <1>0 DEF Temporary
  <2> QED
    BY <1>0, <2>1, <2>3, <2>4, <2>5, <2>6 DEF SettledAt
<1> QED
  BY <1>3, <1>4, <1>5, <1>6

\* A push item changes the remote file of its path, and no other.
LEMMA PushSpares ==
  ASSUME Types, RemoteKnown, NEW it \in later, PushItem(it), Feasible(it), remote' = Pushed(it)
  PROVE  /\ \A j \in DOMAIN remote : remote[j].path # it.rel =>
              j \in DOMAIN remote' /\ remote'[j] = remote[j]
         /\ \A j \in DOMAIN remote' : remote'[j].path # it.rel =>
              j \in DOMAIN remote /\ remote'[j] = remote[j]
<1>1. CASE it.op = "delete"
  <2>1. remote' = Delete(remote, it.remoteID)
    BY <1>1, PushedFacts
  <2>2. it.remoteID \in DOMAIN remote => remote[it.remoteID].path = it.rel
    BY <1>1 DEF RemoteKnown, Of
  <2> QED
    BY <2>1, <2>2 DEF Delete
<1>2. CASE it.op # "delete"
  <2>1. /\ DOMAIN remote' = DOMAIN remote \cup {TargetOf(it)}
        /\ \A j \in DOMAIN remote \ {TargetOf(it)} : remote'[j] = remote[j]
        /\ remote'[TargetOf(it)].path = it.rel
    BY <1>2, PushMoves
  <2>2. TargetOf(it) \in DOMAIN remote => remote[TargetOf(it)].path = it.rel
    <3>1. CASE it.op = "upload"
      BY <1>2, <3>1, TargetFacts, RemoteBasics DEF At
    <3>2. CASE it.op = "overwrite"
      BY <1>2, <3>2, TargetFacts DEF RemoteKnown, Of
    <3> QED
      BY <1>2, <3>1, <3>2, RemoteBasics
  <2> QED
    BY <2>1, <2>2
<1> QED
  BY <1>1, <1>2

\* A push item that is done leaves its path settled.
LEMMA CoursePush ==
  ASSUME Types, Types', RemoteKnown, RemoteKnown', FilesKnown, Timely, OnCourse,
         Unwalked = {}, NEW it \in later, PushItem(it)
  PROVE  OnCourse'
<1>0. /\ UNCHANGED <<local, waiting, work, late, lateIds, skipped, opts, phase>>
      /\ DOMAIN work = {} /\ later' = later \ {it} /\ waiting = {}
  BY PushItemShape DEF Types, Phases
<1>1. SUFFICES ASSUME Calm'
               PROVE  /\ \A other \in Pulls' : ReadyPull(other)'
                      /\ \A other \in later' : ReadyPush(other)'
                      /\ \A r \in Path : SettledAt(r)'
  BY DEF OnCourse
<1>2. failures' # TRUE
  BY <1>1 DEF Calm
<1>3. /\ Feasible(it) /\ remote' = Pushed(it) /\ m' = PushRecorded(it)
      /\ UNCHANGED failures
  BY <1>2, PushItemShape
<1>4. Calm /\ late = {}
  BY <1>0, <1>1, <1>3 DEF Calm
<1>5. ASSUME NEW other \in Pulls' PROVE ReadyPull(other)'
  BY <1>0 DEF Pulls
<1>6. ASSUME NEW other \in later', other.op # "upload" PROVE other.remoteID \in DOMAIN remote'
  <2>1. other.rel # it.rel /\ other \in later /\ other.remoteID \in DOMAIN remote
    BY <1>0, <1>4, <1>6 DEF OnCourse, ReadyPush, Types, OneItemPerPath
  <2>2. remote[other.remoteID].path = other.rel
    BY <1>6, <2>1 DEF RemoteKnown, Of
  <2> QED
    BY <1>3, <2>1, <2>2, PushSpares
<1>7. SettledAt(it.rel)'
  <2>1. it.rel \in DOMAIN local => it.op # "delete" /\ local[it.rel].mtime = it.mtime
    BY <1>0, <1>4, PlannedNow
  <2>2. CASE it.op = "delete"
    <3>1. it.rel \notin DOMAIN m' /\ it.rel \notin DOMAIN local'
      BY <1>0, <1>3, <2>1, <2>2 DEF PushRecorded, Delete
    <3>2. it.remoteID \in DOMAIN remote /\ remote[it.remoteID].path = it.rel
      BY <1>4, <2>2 DEF OnCourse, ReadyPush, RemoteKnown, Of
    <3>3. remote' = Delete(remote, it.remoteID)
      BY <1>3, <2>2, PushedFacts
    <3>4. At(it.rel)' = {}
      BY <3>2, <3>3 DEF At, Delete, RemoteKnown
    <3> QED
      BY <3>1, <3>4 DEF SettledAt, RemoteSettled, LocalSettled
  <2>3. CASE it.op # "delete"
    <3>1. /\ it.rel \in DOMAIN m'
          /\ m'[it.rel] = Entry(it.size, it.mtime, TargetOf(it), clock + 1)
      BY <1>3, <2>3 DEF PushRecorded, Set
    <3>2. /\ TargetOf(it) \in DOMAIN remote' /\ remote'[TargetOf(it)].path = it.rel
          /\ remote'[TargetOf(it)].size = it.size /\ remote'[TargetOf(it)].mtime = clock + 1
      BY <1>3, <2>3, PushMoves
    <3>3. it.rel \in DOMAIN local /\ local[it.rel].size = it.size
      BY <1>3, <2>3 DEF Feasible
    <3>4. AgreesNext(m'[it.rel]) /\ TargetOf(it) \in {i \in DOMAIN remote' : remote'[i].path = it.rel}
      BY <3>1, <3>2 DEF AgreesNext, RemoteTouched, Entry
    <3>5. RemoteSettled(it.rel)'
      BY <3>1, <3>4 DEF RemoteSettled, AgreesNext, Agrees, At
    <3>6. LocalSettled(it.rel)'
      BY <1>0, <2>1, <3>1, <3>3 DEF LocalSettled, Touched, Entry
    <3> QED
      BY <3>5, <3>6 DEF SettledAt
  <2> QED
    BY <2>2, <2>3
<1>8. ASSUME NEW r \in Path, r # it.rel PROVE SettledAt(r)'
  <2>1. SettledAt(r)
    BY <1>4 DEF OnCourse
  <2>2. SameEntryAt(r)
    <3>1. CASE it.op = "delete"
      BY <1>3, <1>8, <3>1 DEF PushRecorded, SameEntryAt, Delete
    <3>2. CASE it.op # "delete"
      BY <1>3, <1>8, <3>2 DEF PushRecorded, SameEntryAt, Set
    <3> QED
      BY <3>1, <3>2
  <2>3. HasItem(r) => HasItem(r)'
    BY <1>0, <1>8 DEF HasItem, Pulls
  <2>4. RemoteSettled(r) => RemoteSettled(r)'
    <3>1. At(r)' = At(r)
      BY <1>3, <1>8, PushSpares DEF At
    <3>2. ASSUME r \in DOMAIN m, Agrees(m[r]) PROVE AgreesNext(m[r])
      <4>1. remote[m[r].remoteID].path = r /\ m[r].remoteID \in DOMAIN remote
        BY <3>2 DEF Agrees, RemoteKnown, Entries, Of
      <4>2. m[r].remoteID \in DOMAIN remote' /\ remote'[m[r].remoteID] = remote[m[r].remoteID]
        BY <1>3, <1>8, <4>1, PushSpares
      <4> QED
        BY <3>2, <4>2 DEF Agrees, AgreesNext
    <3> QED
      BY <2>2, <3>1, <3>2 DEF RemoteSettled, SameEntryAt, Agrees, AgreesNext
  <2>5. LocalSettled(r) => LocalSettled(r)'
    BY <1>0, <2>2 DEF LocalSettled, SameEntryAt
  <2>6. Temporary(r) => Temporary(r)'
    BY <1>0 DEF Temporary
  <2> QED
    BY <1>0, <2>1, <2>3, <2>4, <2>5, <2>6 DEF SettledAt
<1> QED
  BY <1>5, <1>6, <1>7, <1>8 DEF ReadyPush

\* Where the index has the version of an entry, that version is the folder's.
LEMMA IndexAgrees ==
  ASSUME Types, NEW r \in DOMAIN Index, NEW e, Dates(e.remoteID, e.remoteMtime),
         ~RemoteTouched(Index[r], e)
  PROVE  Agrees(e) /\ e.remoteID = Index[r].id
<1>1. /\ Index[r].id \in DOMAIN remote
      /\ Index[r].size = remote[Index[r].id].size
      /\ Index[r].mtime = remote[Index[r].id].mtime
  BY IndexFacts DEF Types
<1>2. Index[r].mtime = e.remoteMtime /\ Index[r].size = e.size
  BY DEF RemoteTouched
<1>3. Index[r].id = e.remoteID
  BY <1>1, <1>2 DEF Dates
<1> QED
  BY <1>1, <1>2, <1>3 DEF Agrees, RemoteTouched

\* What PlanPull leaves out is as the baseline says.
LEMMA PullPlanned ==
  ASSUME NEW idx, NEW b, NEW r
  PROVE  \/ \E it \in PlanPull(idx, b) : it.rel = r
         \/ /\ r \in DOMAIN idx <=> r \in DOMAIN b
            /\ r \in DOMAIN b => ~RemoteTouched(idx[r], b[r])
<1>1. CASE r \in DOMAIN idx /\ (r \notin DOMAIN b \/ RemoteTouched(idx[r], b[r]))
  <2>1. DownloadItem(r, idx[r]) \in PlanPull(idx, b)
    BY <1>1 DEF PlanPull
  <2>2. DownloadItem(r, idx[r]).rel = r
    BY DEF DownloadItem
  <2> QED
    BY <2>1, <2>2
<1>2. CASE r \in DOMAIN b \ DOMAIN idx
  <2>1. DeleteLocalItem(r) \in PlanPull(idx, b)
    BY <1>2 DEF PlanPull
  <2>2. DeleteLocalItem(r).rel = r
    BY DEF DeleteLocalItem
  <2> QED
    BY <2>1, <2>2
<1> QED
  BY <1>1, <1>2

\* So it is with PlanPush.
LEMMA PushPlanned ==
  ASSUME NEW tree, NEW b, NEW r, LocalChanged(tree, b, r)
  PROVE  \E it \in PlanPush(tree, b) : it.rel = r
<1>1. CASE r \in DOMAIN tree \ DOMAIN b
  <2>1. UploadItem(r, tree[r]) \in PlanPush(tree, b)
    BY <1>1 DEF PlanPush
  <2>2. UploadItem(r, tree[r]).rel = r
    BY DEF UploadItem
  <2> QED
    BY <2>1, <2>2
<1>2. CASE r \in DOMAIN tree \cap DOMAIN b /\ Touched(tree[r], b[r])
  <2>1. OverwriteItem(r, tree[r], b[r]) \in PlanPush(tree, b)
    BY <1>2 DEF PlanPush
  <2>2. OverwriteItem(r, tree[r], b[r]).rel = r
    BY DEF OverwriteItem
  <2> QED
    BY <2>1, <2>2
<1>3. CASE r \in DOMAIN b \ DOMAIN tree
  <2>1. DeleteItem(r, b[r]) \in PlanPush(tree, b)
    BY <1>3 DEF PlanPush
  <2>2. DeleteItem(r, b[r]).rel = r
    BY DEF DeleteItem
  <2> QED
    BY <2>1, <2>2
<1> QED
  BY <1>1, <1>2, <1>3 DEF LocalChanged

\* A path a plan has nothing to do for, where nothing is left out: both sides are as the
\* baseline says.
LEMMA NothingLeftOut ==
  ASSUME TreesTyped, NEW o \in Option, ~o.noDelete, Plan(o).conflicts = {}, NEW r
  PROVE  \/ \E it \in PullItems(o) \cup PushItems(o) : it.rel = r
         \/ /\ r \in DOMAIN Index <=> r \in DOMAIN Base(o)
            /\ r \in DOMAIN Base(o) => ~RemoteTouched(Index[r], Base(o)[r])
            /\ o.mode = "twoWay" => ~LocalChanged(Walked, Base(o), r)
<1>1. CASE o.mode = "twoWay"
  <2> DEFINE plan == PlanTwoWay(Walked, Index, Base(o))
  <2>1. PullItems(o) = plan.pull /\ PushItems(o) = plan.push /\ plan.conflicts = {}
    BY <1>1 DEF PullItems, PushItems, Plan
  <2>2. \/ \E it \in PlanPull(Index, Base(o)) : it.rel = r
        \/ ~RemoteChanged(Index, Base(o), r)
    <3>1. \/ \E it \in PlanPull(Index, Base(o)) : it.rel = r
          \/ /\ r \in DOMAIN Index <=> r \in DOMAIN Base(o)
             /\ r \in DOMAIN Base(o) => ~RemoteTouched(Index[r], Base(o)[r])
      BY PullPlanned
    <3> QED
      BY <3>1 DEF RemoteChanged
  <2>3. CASE /\ \E it \in PlanPull(Index, Base(o)) : it.rel = r
             /\ RemoteChanged(Index, Base(o), r)
    <3>1. PICK it \in PlanPull(Index, Base(o)) : it.rel = r
      BY <2>3
    <3>2. r \in DOMAIN Walked \cup DOMAIN Index \cup DOMAIN Base(o)
      BY <2>3 DEF RemoteChanged
    <3>3. \/ ~LocalChanged(Walked, Base(o), r)
          \/ r \in BothGone(Walked, Index, Base(o))
      BY <2>1, <2>3, <3>2 DEF PlanTwoWay
    <3>4. it \in plan.pull
      BY <2>3, <3>1, <3>2, <3>3 DEF PlanTwoWay
    <3> QED
      BY <2>1, <3>1, <3>4
  <2>4. CASE ~RemoteChanged(Index, Base(o), r) /\ LocalChanged(Walked, Base(o), r)
    <3>1. PICK it \in PlanPush(Walked, Base(o)) : it.rel = r
      BY <2>4, PushPlanned
    <3>2. r \in DOMAIN Walked \cup DOMAIN Index \cup DOMAIN Base(o)
      BY <2>4 DEF LocalChanged
    <3>3. it \in plan.push
      BY <2>4, <3>1, <3>2 DEF PlanTwoWay
    <3> QED
      BY <2>1, <3>1, <3>3
  <2>5. CASE ~RemoteChanged(Index, Base(o), r) /\ ~LocalChanged(Walked, Base(o), r)
    BY <2>5 DEF RemoteChanged
  <2>6. (\E it \in PlanPull(Index, Base(o)) : it.rel = r) => RemoteChanged(Index, Base(o), r)
    BY PullPlan DEF RemoteChanged
  <2> QED
    BY <2>2, <2>3, <2>4, <2>5, <2>6
<1>2. CASE o.mode # "twoWay"
  <2> DEFINE all  == PlanPull(Index, disk)
             kept == IF o.force THEN all ELSE FilterDrift(all, Walked, disk)
  <2>1. Plan(o).pull = kept /\ Plan(o).conflicts = {it.rel : it \in all \ kept}
    BY <1>2 DEF Plan
  <2>2. all \subseteq PullItems(o)
    BY <2>1 DEF PullItems
  <2>3. Base(o) = disk
    BY <1>2, BaseFacts
  <2> QED
    BY <1>2, <2>2, <2>3, PullPlanned
<1> QED
  BY <1>1, <1>2

\* A plan that leaves nothing out has an item for every path that is not settled.
LEMMA CourseBegin ==
  ASSUME Types, Types', RemoteKnown, RemoteKnown', Unwalked = {}, NEW o \in Options, Begin(o)
  PROVE  OnCourse'
<1>0. /\ UNCHANGED <<local, remote, nextId, clock, disk, work>>
      /\ opts' = o /\ m = disk /\ m' = Base(o) /\ later' = PushItems(o)
      /\ Pulls' = PullItems(o) /\ o \in Option /\ TreesTyped
      /\ DOMAIN work = {} /\ skipped' = Plan(o).conflicts
  BY BeginFacts
<1>1. SUFFICES ASSUME ~o.noDelete, Plan(o).conflicts = {}
               PROVE  /\ \A it \in Pulls' : ReadyPull(it)'
                      /\ \A it \in later' : ReadyPush(it)'
                      /\ \A r \in Path : SettledAt(r)'
  BY <1>0 DEF OnCourse, Calm
<1>2. \A r \in DOMAIN Base(o) : Dates(Base(o)[r].remoteID, Base(o)[r].remoteMtime)
  BY <1>0 DEF RemoteKnown, Entries, Dates
<1>3. ASSUME NEW it \in Pulls' PROVE ReadyPull(it)'
  <2>1. \/ /\ it.rel \in DOMAIN Index /\ it = DownloadItem(it.rel, Index[it.rel])
        \/ /\ it.rel \notin DOMAIN Index /\ it = DeleteLocalItem(it.rel)
    BY <1>0, PullItemFacts
  <2>2. CASE it.rel \in DOMAIN Index /\ it = DownloadItem(it.rel, Index[it.rel])
    <3>1. it.op = "download" /\ it.remoteID = Index[it.rel].id
          /\ it.remoteMtime = Index[it.rel].mtime
      BY <2>2 DEF DownloadItem
    <3> QED
      BY <1>0, <2>2, <3>1, IndexFacts DEF ReadyPull
  <2>3. CASE it.rel \notin DOMAIN Index /\ it = DeleteLocalItem(it.rel)
    <3>1. it.op = "deleteLocal" /\ At(it.rel) = {}
      BY <1>0, <2>3, IndexFacts DEF DeleteLocalItem, At
    <3> QED
      BY <1>0, <3>1 DEF ReadyPull, At
  <2> QED
    BY <2>1, <2>2, <2>3
<1>4. ASSUME NEW it \in later' PROVE ReadyPush(it)'
  <2>1. SUFFICES ASSUME it.op # "upload" PROVE it.remoteID \in DOMAIN remote
    BY <1>0 DEF ReadyPush
  <2>2. /\ ~RemoteChanged(Index, Base(o), it.rel)
        /\ it.rel \in DOMAIN Base(o) /\ it.remoteID = Base(o)[it.rel].remoteID
    BY <1>0, <2>1, PushItemFacts DEF UploadItem, OverwriteItem, DeleteItem
  <2>3. it.rel \in DOMAIN Index /\ ~RemoteTouched(Index[it.rel], Base(o)[it.rel])
    BY <2>2 DEF RemoteChanged
  <2>4. Agrees(Base(o)[it.rel])
    BY <1>2, <2>2, <2>3, IndexAgrees
  <2> QED
    BY <2>2, <2>4 DEF Agrees
<1>5. ASSUME NEW r \in Path PROVE SettledAt(r)'
  <2>1. CASE \E it \in PullItems(o) \cup PushItems(o) : it.rel = r
    BY <1>0, <2>1 DEF SettledAt, HasItem
  <2>2. CASE /\ r \in DOMAIN Index <=> r \in DOMAIN Base(o)
             /\ r \in DOMAIN Base(o) => ~RemoteTouched(Index[r], Base(o)[r])
             /\ o.mode = "twoWay" => ~LocalChanged(Walked, Base(o), r)
    <3>1. r \in DOMAIN Index <=> At(r) # {}
      BY <1>0, IndexFacts DEF At
    <3>2. r \in DOMAIN Base(o) => Agrees(Base(o)[r])
      BY <1>2, <2>2, IndexAgrees
    <3>3. RemoteSettled(r)'
      BY <1>0, <2>2, <3>1, <3>2 DEF RemoteSettled, At, Agrees
    <3>4. o.mode = "twoWay" => LocalSettled(r)'
      <4>1. DOMAIN Walked = DOMAIN local /\ \A q \in DOMAIN local : Walked[q] = local[q]
        BY <1>0, WalkedFacts
      <4> QED
        BY <1>0, <2>2, <4>1 DEF LocalChanged, LocalSettled
    <3> QED
      BY <1>0, <3>3, <3>4 DEF SettledAt
  <2> QED
    BY <1>0, <1>1, <2>1, <2>2, NothingLeftOut
<1> QED
  BY <1>3, <1>4, <1>5

\* The steps that settle nothing.
LEMMA CourseOther ==
  ASSUME Types, Types', OnCourse,
         \/ Environment
         \/ \E o \in Options : BeginStops(o)
         \/ \E it \in waiting : Take(it)
         \/ \E it \in DOMAIN work : CollectFailure(it)
         \/ PullHalfDone \/ Finish \/ Crash \/ UNCHANGED vars
  PROVE  OnCourse'
<1>1. CASE Environment
  <2>1. late' # {} \/ lateIds' # {}
    <3>1. ASSUME NEW r \in Rels, LocalWrite(r) \/ LocalRemove(r) PROVE r \in late'
      BY <3>1 DEF LocalWrite, LocalRemove, LocalEdit
    <3>2. ASSUME NEW i, (\E r \in Rels : ForeignCreate(r) /\ i = nextId)
                          \/ ForeignWrite(i) \/ ForeignRemove(i)
          PROVE  i \in lateIds'
      BY <3>2 DEF ForeignCreate, ForeignWrite, ForeignRemove, ForeignEdit
    <3> QED
      BY <1>1, <3>1, <3>2 DEF Environment
  <2> QED
    BY <2>1 DEF OnCourse, Calm
<1>2. CASE Finish \/ Crash
  BY <1>2 DEF Finish, Crash, Abandon, OnCourse, Calm
<1>3. CASE \E it \in DOMAIN work : CollectFailure(it)
  BY <1>3 DEF CollectFailure, OnCourse, Calm
<1>4. CASE \E o \in Options : BeginStops(o)
  BY <1>4 DEF BeginStops, run, OnCourse, Calm
<1>5. CASE UNCHANGED vars \/ PullHalfDone
  <2>1. /\ UNCHANGED <<local, remote, m, opts, waiting, later, work, failures, history>>
        /\ phase # "idle" => phase' # "idle" \/ UNCHANGED vars
        /\ phase = "idle" => phase' = "idle" \/ PullHalfDone
    BY <1>5 DEF PullHalfDone, vars, run
  <2>2. Calm' => Calm
    BY <1>5, <2>1 DEF Calm, PullHalfDone, vars, run, history
  <2>3. /\ \A it : ReadyPull(it) => ReadyPull(it)'
        /\ \A it : ReadyPush(it) => ReadyPush(it)'
        /\ Pulls' = Pulls
    BY <2>1 DEF ReadyPull, ReadyPush, At, Pulls
  <2>4. \A r : SettledAt(r) => SettledAt(r)'
    BY <2>1, <2>3 DEF SettledAt, HasItem, RemoteSettled, LocalSettled, Agrees, At, Temporary
  <2> QED
    BY <2>1, <2>2, <2>3, <2>4 DEF OnCourse
<1>6. CASE \E it \in waiting : Take(it)
  <2>1. PICK it \in waiting : Take(it)
    BY <1>6
  <2>2. /\ UNCHANGED <<local, remote, m, phase, opts, later, failures, late, lateIds, skipped>>
        /\ waiting' = waiting \ {it} /\ DOMAIN work' = DOMAIN work \cup {it}
        /\ \A other \in DOMAIN work : work'[other] = work[other]
        /\ work'[it] = [at |-> IF it.op = "download" THEN "open" ELSE "remove",
                        size |-> 0, mtime |-> 0, data |-> 0]
    BY <2>1, TakeFacts DEF history
  <2>3. Pulls' = Pulls /\ (Calm' => Calm)
    BY <2>2 DEF Pulls, Calm
  <2>4. work'[it].at # "done"
    <3> DEFINE at == IF it.op = "download" THEN "open" ELSE "remove"
    <3>1. work'[it].at = at /\ at # "done"
      BY <2>2
    <3> QED
      BY <3>1
  <2>5. \A other : ReadyPull(other) => ReadyPull(other)'
    BY <2>2, <2>4 DEF ReadyPull, At
  <2>6. \A other : ReadyPush(other) => ReadyPush(other)'
    BY <2>2 DEF ReadyPush
  <2>7. ASSUME NEW r, SettledAt(r) PROVE SettledAt(r)'
    <3>1. (HasItem(r) => HasItem(r)') /\ (Temporary(r) => Temporary(r)')
      BY <2>2, <2>3 DEF HasItem, Temporary
    <3>2. LocalSettled(r) => LocalSettled(r)'
      BY <2>2 DEF LocalSettled
    <3> QED
      BY <2>2, <2>7, <3>1, <3>2, SettledKept
  <2> QED
    BY <2>2, <2>3, <2>5, <2>6, <2>7 DEF OnCourse
<1> QED
  BY <1>1, <1>2, <1>3, <1>4, <1>5, <1>6

\* Every step keeps a calm run on its course.
LEMMA CourseNext ==
  ASSUME Types, Types', RemoteKnown, RemoteKnown', NoTwins, LocalKnown, FilesKnown, Timely,
         OnCourse, Unwalked = {}, [Next]_vars
  PROVE  OnCourse'
  BY CourseStep, CourseCollect, CoursePush, CourseBegin, CourseOther DEF Next

\* What CleanPullMirrors says, of the manifest in memory and the mode of the run.
Mirrors ==
  LET v == Verify(Walked, Index) IN
  /\ DOMAIN m = DOMAIN Index
  /\ \A r \in DOMAIN Index :
       /\ m[r].remoteID = Index[r].id /\ ~RemoteTouched(Index[r], m[r])
       /\ r \notin touched \cup adopted => /\ r \in DOMAIN local
                                          /\ local[r].data = remote[Index[r].id].data
  /\ v.missingLocal \cup v.sizeDiff \subseteq touched
  /\ opts.mode = "twoWay" => v.missingRemote \cup v.missingLocal \cup v.sizeDiff = {}

\* A run on its course that has nothing left to do mirrors the folder.
LEMMA CourseEnds ==
  ASSUME Types, RemoteKnown, LocalKnown, Timely, OnCourse, Unwalked = {},
         Calm, phase = "push", later = {}
  PROVE  Mirrors
<1>0. Pulls = {} /\ DOMAIN work = {} /\ TreesTyped
  BY DEF Types, Phases, Pulls
<1>1. ASSUME NEW r \in Path
      PROVE  RemoteSettled(r) /\ (opts.mode = "twoWay" => LocalSettled(r))
  <2>1. SettledAt(r)
    BY DEF OnCourse
  <2>2. ~HasItem(r) /\ ~Temporary(r)
    BY <1>0 DEF HasItem, Temporary
  <2> QED
    BY <2>1, <2>2 DEF SettledAt
<1>2. /\ DOMAIN m \subseteq Path /\ DOMAIN local \subseteq Path /\ DOMAIN Index \subseteq Path
      /\ \A r : r \in DOMAIN Index <=> At(r) # {}
  BY <1>0, IndexFacts DEF TreesTyped, Table, At
<1>3. DOMAIN m = DOMAIN Index
  BY <1>1, <1>2 DEF RemoteSettled
<1>4. ASSUME NEW r \in DOMAIN Index
      PROVE  /\ Agrees(m[r]) /\ m[r].remoteID = Index[r].id /\ r \in DOMAIN m
             /\ Index[r].size = m[r].size /\ ~RemoteTouched(Index[r], m[r])
  <2>1. Agrees(m[r]) /\ r \in DOMAIN m
    BY <1>1, <1>2, <1>3 DEF RemoteSettled
  <2>2. remote[m[r].remoteID].path = r /\ m[r].remoteID \in DOMAIN remote
    BY <2>1 DEF RemoteKnown, Entries, Of, Agrees
  <2>3. /\ Index[r].id \in DOMAIN remote /\ remote[Index[r].id].path = r
        /\ Index[r].size = remote[Index[r].id].size
        /\ Index[r].mtime = remote[Index[r].id].mtime
    BY <1>0, IndexFacts
  <2>4. m[r].remoteID = Index[r].id
    BY <2>2, <2>3 DEF RemoteKnown
  <2> QED
    BY <2>1, <2>3, <2>4 DEF Agrees, RemoteTouched
<1>5. ASSUME NEW r \in DOMAIN Index, r \notin touched
      PROVE  /\ r \in DOMAIN local /\ local[r].size = Index[r].size
             /\ r \notin adopted => local[r].data = remote[Index[r].id].data
  <2>1. Matches(m, r)
    <3>1. InTimeAt(r)
      BY DEF Timely
    <3> QED
      BY <1>4, <1>5, <3>1 DEF InTimeAt
  <2>2. Backs(m[r], r)
    BY <1>4 DEF LocalKnown, Vouched
  <2> QED
    BY <1>4, <1>5, <2>1, <2>2 DEF Matches, Touched, Backs, Agrees
<1>6. DOMAIN Walked = DOMAIN local /\ \A r \in DOMAIN local : Walked[r] = local[r]
  BY <1>0, WalkedFacts
<1> DEFINE v == Verify(Walked, Index)
<1>7. /\ v.missingLocal = DOMAIN Index \ DOMAIN local
      /\ v.missingRemote = DOMAIN local \ DOMAIN Index
      /\ v.sizeDiff = {r \in DOMAIN local \cap DOMAIN Index : local[r].size # Index[r].size}
  BY <1>6 DEF Verify
<1>8. v.missingLocal \cup v.sizeDiff \subseteq touched
  BY <1>5, <1>7
<1>9. opts.mode = "twoWay" => v.missingRemote \cup v.missingLocal \cup v.sizeDiff = {}
  <2>1. SUFFICES ASSUME opts.mode = "twoWay"
                 PROVE  v.missingRemote \cup v.missingLocal \cup v.sizeDiff = {}
    OBVIOUS
  <2>2. \A r \in Path : LocalSettled(r)
    BY <1>1, <2>1
  <2>3. DOMAIN local = DOMAIN m
    BY <1>2, <2>2 DEF LocalSettled
  <2>4. \A r \in DOMAIN local : local[r].size = Index[r].size
    BY <1>2, <1>3, <1>4, <2>2, <2>3 DEF LocalSettled, Touched
  <2> QED
    BY <1>3, <1>7, <2>3, <2>4
<1> QED
  BY <1>3, <1>4, <1>5, <1>8, <1>9 DEF Mirrors

\* A run says it was clean when it was, and no longer than nothing changes.
CleanSaid == (clean # "no" => phase = "idle") /\ CleanPullMirrors

\* Every step keeps what a clean run says true.
LEMMA CleanNext ==
  ASSUME Types, RemoteKnown, LocalKnown, Timely, OnCourse, CleanSaid, Unwalked = {}, [Next]_vars
  PROVE  CleanSaid'
<1>1. CASE \/ Environment
           \/ \E o \in Options : Begin(o)
  <2>1. clean' = "no"
    BY <1>1 DEF Environment, LocalWrite, LocalRemove, LocalEdit, ForeignCreate, ForeignWrite,
                ForeignRemove, ForeignEdit, Begin
  <2> QED
    BY <2>1 DEF CleanSaid, CleanPullMirrors
<1>2. CASE (\E o \in Options : BeginStops(o)) \/ UNCHANGED vars
  <2>1. UNCHANGED <<local, remote, disk, phase, clean, touched, adopted>>
    BY <1>2 DEF BeginStops, vars, run, history
  <2>2. Index' = Index /\ Walked' = Walked
    BY <2>1 DEF Index, At, Walked
  <2> QED
    BY <2>1, <2>2 DEF CleanSaid, CleanPullMirrors
<1>3. CASE \/ \E it \in waiting : Take(it)
           \/ \E it \in DOMAIN work : Step(it) \/ Collect(it) \/ CollectFailure(it)
           \/ PullHalfDone
           \/ \E it \in later : PushItem(it)
           \/ Crash
  <2>1. phase # "idle" /\ clean' = clean
    <3>1. CASE \E it \in DOMAIN work : Step(it)
      BY <3>1, StepShape DEF OnlyProgress, Types, Phases
    <3>2. CASE ~\E it \in DOMAIN work : Step(it)
      BY <1>3, <3>2 DEF Take, Collect, CollectFailure, PullHalfDone, PushItem, Crash, history,
                        Types, Phases
    <3> QED
      BY <3>1, <3>2
  <2> QED
    BY <2>1 DEF CleanSaid, CleanPullMirrors
<1>4. CASE Finish
  <2>1. /\ phase = "push" /\ later = {} /\ phase' = "idle"
        /\ UNCHANGED <<local, remote, touched, adopted>>
    BY <1>4 DEF Finish, Abandon
  <2>2. CASE clean' = "no"
    BY <2>2 DEF CleanSaid, CleanPullMirrors
  <2>3. CASE clean' # "no" /\ disk' = m /\ clean' = opts.mode /\ Calm
    <3>1. Mirrors
      BY <2>1, <2>3, CourseEnds
    <3>2. Index' = Index /\ Walked' = Walked
      BY <2>1 DEF Index, At, Walked
    <3> QED
      BY <2>1, <2>3, <3>1, <3>2 DEF CleanSaid, CleanPullMirrors, Mirrors
  <2>4. \/ clean' = "no"
        \/ disk' = m /\ clean' = opts.mode /\ Calm
        \/ clean' = clean
    BY <1>4 DEF Finish, Calm
  <2> QED
    BY <2>1, <2>2, <2>3, <2>4 DEF CleanSaid
<1> QED
  BY <1>1, <1>2, <1>3, <1>4 DEF Next

\* No run has been clean at the start.
LEMMA InitClean ==
  ASSUME Init
  PROVE  OnCourse /\ CleanSaid
  BY DEF Init, OnCourse, Calm, CleanSaid, CleanPullMirrors

\* What a run that says it was clean leaves behind, when the walk sees the whole tree.
THEOREM CleanPullMirrorsAlways ==
  ASSUME Unwalked = {}
  PROVE  Spec /\ []NoTwins => []CleanPullMirrors
<1>1. Init => FilesKnown /\ Timely /\ OnCourse /\ CleanSaid
  BY InitFiles, InitTimely, InitClean
<1>2. /\ Types /\ Types' /\ RemoteKnown /\ RemoteKnown' /\ NoTwins /\ LocalKnown
      /\ FilesKnown /\ Timely /\ OnCourse /\ CleanSaid /\ [Next]_vars
      => FilesKnown' /\ Timely' /\ OnCourse' /\ CleanSaid'
  BY FilesNext, TimelyNext, CourseNext, CleanNext
<1>3. CleanSaid => CleanPullMirrors
  BY DEF CleanSaid
<1> QED
  BY <1>1, <1>2, <1>3, TypesAlways, RemoteKnownAlways, LocalKnownAlways, PTL DEF Spec
=============================================================================
