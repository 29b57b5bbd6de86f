---------------------------- MODULE ContentCache ----------------------------
(***************************************************************************)
(* Reading files through the mount: the read handles of the FUSE layer and *)
(* the disk cache behind them, shared by all of them, while other clients  *)
(* change the files, downloads fail and the daemon is killed               *)
(* (contentcache/disk.go, presentation/fuse/file.go, usecase/read_file.go).*)
(*                                                                         *)
(* An entry is named by file id and mtime and filled by whoever opens it   *)
(* first, under a lock of that file.  Room is made before the download,    *)
(* under a lock of its own, evictMu: the eviction takes a list of the      *)
(* directory and then removes one name after the other, whatever the       *)
(* downloads of other files do meanwhile.                                  *)
(*                                                                         *)
(*   reader:  closed -> lock -> room -> evict -> create            *)
(*              -> copy -> rename -> open -> reading | failed -> closed    *)
(*                                                                         *)
(* Content is the version of a file it was downloaded from; 0 is a part of *)
(* one.  A version has a size and an mtime, which may be that of the one   *)
(* before it (mtimes are in seconds).  The handle asks for the mtime its   *)
(* node has been told of, now or earlier.  The age of entries is their     *)
(* order of use: no two uses are in the same second here.  Removing a name *)
(* does not take the file from those who have it open.                     *)
(* Not modelled: errors of the local disk, the counters of the observer.   *)
(***************************************************************************)
EXTENDS Integers, Sequences, FiniteSets, FiniteSetsExt

CONSTANTS Readers,    \* read handles
          Files,      \* file ids
          MaxBytes,   \* maxB
          Sizes,      \* sizes of versions
          FirstSizes, \* bound: sizes of the first version
          MaxChanges, \* bound: changes by other clients
          MaxFaults,  \* bound: downloads that fail
          MaxCrashes, \* bound: kills of the daemon
          None

ASSUME CacheAssumption ==
  /\ MaxBytes \in Nat
  /\ Sizes \subseteq Nat \ {0} /\ FirstSizes \subseteq Sizes /\ FirstSizes # {}
  /\ {MaxChanges, MaxFaults, MaxCrashes} \subseteq Nat
  /\ None \notin Readers \cup Files

VARIABLES
  version,    \* server: file -> its versions, a sequence of [size, mtime]
  disk,       \* the cache directory: name -> [content, size]
  age,        \* names in the order of their last use, the oldest first
  reader,     \* the handles
  locks,      \* file -> the reader that holds its lock, or None
  evictMu,    \* the reader that holds evictMu, or None
  faults, crashes,
  hit         \* history: readers a name was evicted from under their hands

vars == <<version, disk, age, reader, locks, evictMu, faults, crashes, hit>>

\* Seeded defects: an entry named by its file alone, and a download written under
\* the name of the entry.
NameOfFile(f, mtime) == [file |-> f, mtime |-> 1, tmp |-> FALSE]
TmpInPlace(name) == name

Name(f, mtime) == [file |-> f, mtime |-> mtime, tmp |-> FALSE]
Tmp(name)      == [name EXCEPT !.tmp = TRUE]

Closed == [at |-> "closed", file |-> None, want |-> 0, got |-> 0, list |-> <<>>, total |-> 0]

Init == /\ version \in [Files -> {<<[size |-> s, mtime |-> 1]>> : s \in FirstSizes}]
        /\ disk = [n \in {} |-> 0] /\ age = <<>>
        /\ reader = [r \in Readers |-> Closed]
        /\ locks = [f \in Files |-> None] /\ evictMu = None
        /\ faults = 0 /\ crashes = 0 /\ hit = {}

\* the version the node told the handle of, and the name it gives the entry
Wanted(r) == version[reader[r].file][reader[r].want]
Key(r)    == Name(reader[r].file, Wanted(r).mtime)

Without(order, n) == SelectSeq(order, LAMBDA other : other # n)

\* a name becomes, or stays, the one used last
Used(order, n) == Append(Without(order, n), n)

Put(n, content, size) ==
  /\ disk' = [k \in DOMAIN disk \cup {n} |->
                IF k = n THEN [content |-> content, size |-> size] ELSE disk[k]]
  /\ age' = Used(age, n)

Removed(n) == /\ disk' = [k \in DOMAIN disk \ {n} |-> disk[k]]
              /\ age' = Without(age, n)

Total == MapThenSumSet(LAMBDA n : disk[n].size, DOMAIN disk)

Changes == MapThenSumSet(LAMBDA f : Len(version[f]) - 1, Files)

Server == UNCHANGED version
Bounds == UNCHANGED <<faults, crashes>>
-----------------------------------------------------------------------------
(* Other clients, and the kill of the daemon *)

Change(f) ==
  LET last == version[f][Len(version[f])] IN
  /\ Changes < MaxChanges
  /\ \E s \in Sizes, t \in {last.mtime, last.mtime + 1} :
       version' = [version EXCEPT ![f] = Append(@, [size |-> s, mtime |-> t])]
  /\ UNCHANGED <<disk, age, reader, locks, evictMu, hit>> /\ Bounds

Crash ==
  /\ crashes < MaxCrashes /\ crashes' = crashes + 1
  /\ reader' = [r \in Readers |-> Closed]
  /\ locks' = [f \in Files |-> None] /\ evictMu' = None
  /\ hit' = {}
  /\ UNCHANGED <<version, disk, age, faults>>
-----------------------------------------------------------------------------
(* readHandle and DiskCache.Open *)

In(r, place) == reader[r].at = place

Goes(r, place) == reader' = [reader EXCEPT ![r].at = place]

\* FileNode.Open copies the node's info, and the first Read comes.
Ask(r, f, i) ==
  /\ In(r, "closed")
  /\ i \in DOMAIN version[f]
  /\ reader' = [reader EXCEPT ![r] = [Closed EXCEPT !.at = "lock", !.file = f, !.want = i]]
  /\ hit' = hit \ {r}
  /\ UNCHANGED <<disk, age, locks, evictMu>> /\ Server /\ Bounds

\* Seeded defect: no lock per file.
TakeNothing(r) == UNCHANGED locks

TakeLock(r) == locks' = [locks EXCEPT ![reader[r].file] = r]
Unlock(r)   == locks' = [locks EXCEPT ![reader[r].file] = None]

Reads(r, n) ==
  reader' = [reader EXCEPT ![r].at = "reading", ![r].got = disk[n].content]

\* ensureOpen keeps the error for all Reads to come.
Refuse(r) == Goes(r, "failed") /\ Unlock(r)

\* The lock of the file, and the look at the entry under it: found, the lock is
\* free again.
Lock(r) ==
  /\ In(r, "lock")
  /\ locks[reader[r].file] = None
  /\ \/ /\ Key(r) \in DOMAIN disk
        /\ Reads(r, Key(r))
        /\ age' = Used(age, Key(r))
        /\ UNCHANGED locks
     \/ /\ Key(r) \notin DOMAIN disk
        /\ TakeLock(r)
        /\ Goes(r, "room")
        /\ UNCHANGED age
  /\ UNCHANGED <<disk, evictMu, hit>> /\ Server /\ Bounds

\* Seeded defect: the entry to come is not counted.
FitsNow(total, r) == total <= MaxBytes

Fits(total, r) == total + Wanted(r).size <= MaxBytes

\* evictIfNeeded: the list of the directory
Room(r) ==
  /\ In(r, "room")
  /\ evictMu = None
  /\ \/ Fits(Total, r) /\ Goes(r, "create") /\ UNCHANGED evictMu
     \/ /\ ~Fits(Total, r)
        /\ evictMu' = r
        /\ reader' = [reader EXCEPT ![r].at = "evict", ![r].total = Total,
                        ![r].list = [i \in DOMAIN age |->
                                       [name |-> age[i], size |-> disk[age[i]].size]]]
  /\ UNCHANGED <<disk, age, locks, hit>> /\ Server /\ Bounds

\* whose Open has made the name, or is making it
Hands(n) == {q \in Readers : /\ reader[q].at \in {"copy", "rename", "open"}
                             /\ n \in {Key(q), Tmp(Key(q))}}

\* os.Remove of one name of the list
Evict(r) ==
  LET hd == reader[r] IN
  /\ In(r, "evict")
  /\ ~Fits(hd.total, r) /\ hd.list # <<>>
  /\ LET n == Head(hd.list) IN
       IF n.name \in DOMAIN disk
       THEN /\ Removed(n.name)
            /\ reader' = [reader EXCEPT ![r].list = Tail(@), ![r].total = @ - n.size]
            /\ hit' = hit \cup Hands(n.name)
       ELSE /\ reader' = [reader EXCEPT ![r].list = Tail(@)]
            /\ UNCHANGED <<disk, age, hit>>
  /\ UNCHANGED <<locks, evictMu>> /\ Server /\ Bounds

Evicted(r) ==
  /\ In(r, "evict")
  /\ Fits(reader[r].total, r) \/ reader[r].list = <<>>
  /\ evictMu' = None
  /\ reader' = [reader EXCEPT ![r].at = "create", ![r].list = <<>>, ![r].total = 0]
  /\ UNCHANGED <<disk, age, locks, hit>> /\ Server /\ Bounds

\* os.Create, and the answer to DownloadStream begins with the version it will
\* be of.  (When it fails, the temporary file is removed again.)
Create(r) ==
  /\ In(r, "create")
  /\ Put(Tmp(Key(r)), 0, 0)
  /\ reader' = [reader EXCEPT ![r].at = "copy", ![r].got = Len(version[reader[r].file])]
  /\ UNCHANGED <<locks, evictMu, hit>> /\ Server /\ Bounds

\* Seeded defect: a broken download leaves the file locked.
CopyFailsLocked(r) ==
  /\ In(r, "copy")
  /\ faults < MaxFaults /\ faults' = faults + 1
  /\ Removed(Tmp(Key(r)))
  /\ Goes(r, "failed")
  /\ UNCHANGED <<locks, evictMu, crashes, hit>> /\ Server

CopyFails(r) ==
  /\ In(r, "copy")
  /\ faults < MaxFaults /\ faults' = faults + 1
  /\ Removed(Tmp(Key(r)))
  /\ Refuse(r)
  /\ UNCHANGED <<evictMu, crashes, hit>> /\ Server

Copy(r) ==
  LET got == reader[r].got IN
  /\ In(r, "copy")
  /\ IF Tmp(Key(r)) \in DOMAIN disk
     THEN Put(Tmp(Key(r)), got, version[reader[r].file][got].size)
     ELSE UNCHANGED <<disk, age>>
  /\ Goes(r, "rename")
  /\ UNCHANGED <<locks, evictMu, hit>> /\ Server /\ Bounds

Rename(r) ==
  LET from == Tmp(Key(r)) IN
  /\ In(r, "rename")
  /\ \/ /\ from \in DOMAIN disk
        /\ disk' = [k \in (DOMAIN disk \ {from}) \cup {Key(r)} |->
                      IF k = Key(r) THEN disk[from] ELSE disk[k]]
        /\ age' = [i \in DOMAIN age |-> IF age[i] = from THEN Key(r) ELSE age[i]]
        /\ Goes(r, "open")
        /\ UNCHANGED locks
     \/ /\ from \notin DOMAIN disk
        /\ Refuse(r)
        /\ UNCHANGED <<disk, age>>
  /\ UNCHANGED <<evictMu, hit>> /\ Server /\ Bounds

\* os.Open of the entry just made
Open(r) ==
  /\ In(r, "open")
  /\ IF Key(r) \in DOMAIN disk THEN Reads(r, Key(r)) /\ Unlock(r) ELSE Refuse(r)
  /\ UNCHANGED <<disk, age, evictMu, hit>> /\ Server /\ Bounds

Release(r) ==
  /\ reader[r].at \in {"reading", "failed"}
  /\ reader' = [reader EXCEPT ![r] = Closed]
  /\ UNCHANGED <<disk, age, locks, evictMu, hit>> /\ Server /\ Bounds

Step(r) == \/ Lock(r) \/ Room(r) \/ Evict(r) \/ Evicted(r)
           \/ Create(r) \/ CopyFails(r) \/ Copy(r) \/ Rename(r) \/ Open(r)

Next == \/ \E f \in Files : Change(f)
        \/ Crash
        \/ \E r \in Readers : \/ \E f \in Files, i \in 1..(MaxChanges + 1) : Ask(r, f, i)
                              \/ Step(r) \/ Release(r)

Spec == Init /\ [][Next]_vars

\* Downloads end, and a sync.Mutex lets nobody starve.
FairSpec == Spec /\ \A r \in Readers : SF_vars(Step(r))
-----------------------------------------------------------------------------
(* Properties *)

\* "invalidates automatically when the remote file changes": whoever asks for a
\* file as of some mtime reads one whole version of it, and none that is older,
\* whatever other readers, evictions, broken downloads and kills left in the
\* directory.  (It may be a younger one, or an older one of the same second.)
NoOlder(f, v, mtime) == v \in DOMAIN version[f] /\ version[f][v].mtime >= mtime

EntriesHoldTheirKey ==
  /\ \A n \in DOMAIN disk : ~n.tmp =>
       NoOlder(n.file, disk[n].content, n.mtime)
         /\ disk[n].size = version[n.file][disk[n].content].size
  /\ \A r \in Readers : In(r, "reading") =>
       NoOlder(reader[r].file, reader[r].got, Wanted(r).mtime)

\* "configurable byte budget": the cache outgrows it by no more than what the
\* opens under way bring in at once, each one file, however long they go on;
\* the last to have made room made some for its own.
WithinBudget ==
  Total <= MaxBytes - Min(Sizes) + Cardinality(Readers) * Max(Sizes)

\* As long as no download has broken, a read fails only because another file's
\* eviction removed what it had just made; never because of its own eviction, of
\* what a killed daemon left behind, or of another reader of the same file.
FailsForAReason == \A r \in Readers : In(r, "failed") => faults > 0 \/ r \in hit

\* Every read is answered: neither the lock of the file nor evictMu, taken one
\* inside the other, is ever waited for in vain.
ReadsReturn ==
  \A r \in Readers : In(r, "lock") ~> reader[r].at \in {"closed", "reading", "failed"}
=============================================================================
