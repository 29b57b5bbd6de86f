-------------------------- MODULE ContentCacheProofs --------------------------
(***************************************************************************)
(* For any number of readers, files and versions, and any number of broken *)
(* downloads and kills of the daemon: what the entries of the cache hold,  *)
(* what readers read, and what makes a read fail.                          *)
(***************************************************************************)
EXTENDS ContentCache, SequenceTheorems, TLAPS

\* While it fills the entry, a reader has the lock of its file.
Filling == {"room", "evict", "create", "copy", "rename", "open"}

Places == Filling \cup {"closed", "lock", "reading", "failed"}

Versions   == [size : Nat, mtime : Nat]
CacheNames == [file : Files, mtime : Nat, tmp : BOOLEAN]

\* A handle, its list of the directory aside.
Handle(hd) == hd \in [at : Places, file : Files \cup {None}, want : Nat, got : Nat,
                      list : {hd.list}, total : {hd.total}]

Types ==
  /\ version \in [Files -> Seq(Versions)]
  /\ DOMAIN disk \subseteq CacheNames
  /\ disk \in [DOMAIN disk -> [content : Nat, size : Nat]]
  /\ reader = [r \in Readers |-> reader[r]]
  /\ \A r \in Readers : Handle(reader[r])
  /\ locks \in [Files -> Readers \cup {None}]
  /\ faults \in Nat
  /\ hit \subseteq Readers

\* The mtime of a file does not go back.
Grows ==
  \A f \in Files :
    /\ Len(version[f]) > 0
    /\ \A i, j \in DOMAIN version[f] : i <= j => version[f][i].mtime <= version[f][j].mtime

\* Whoever is not closed asks for a version there is.
Asked ==
  \A r \in Readers : ~In(r, "closed") =>
    reader[r].file \in Files /\ reader[r].want \in DOMAIN version[reader[r].file]

Locked == \A r \in Readers : reader[r].at \in Filling => locks[reader[r].file] = r

\* What is downloaded, and what is read, is no older than what was asked for.
Young ==
  \A r \in Readers : reader[r].at \in {"copy", "rename", "reading"} =>
    NoOlder(reader[r].file, reader[r].got, Wanted(r).mtime)

\* The temporary file about to be renamed, unless it was evicted, is the whole
\* version downloaded.
Whole ==
  \A r \in Readers : In(r, "rename") /\ Tmp(Key(r)) \in DOMAIN disk =>
    disk[Tmp(Key(r))] = [content |-> reader[r].got,
                         size    |-> version[reader[r].file][reader[r].got].size]

EntriesTrue ==
  \A n \in DOMAIN disk : ~n.tmp =>
    /\ NoOlder(n.file, disk[n].content, n.mtime)
    /\ disk[n].size = version[n.file][disk[n].content].size

\* A name its maker does not find was evicted from under its hands.
Missing ==
  \A r \in Readers :
    /\ reader[r].at \in {"copy", "rename"} /\ Tmp(Key(r)) \notin DOMAIN disk => r \in hit
    /\ In(r, "open") /\ Key(r) \notin DOMAIN disk => r \in hit

Inv == /\ Types /\ Grows /\ Asked /\ Locked
       /\ Young /\ Whole /\ EntriesTrue /\ Missing /\ FailsForAReason
-----------------------------------------------------------------------------
(* Names, versions and the directory                                        *)

\* The temporary file of an entry is of the same file id, and has another name.
LEMMA TmpFacts ==
  ASSUME NEW n \in CacheNames, ~n.tmp
  PROVE  /\ Tmp(n) \in CacheNames /\ Tmp(n).tmp /\ Tmp(n).file = n.file
         /\ Tmp(n).mtime = n.mtime /\ Tmp(n) # n
<1>1. Tmp(n) \in CacheNames /\ Tmp(n).tmp /\ Tmp(n).file = n.file /\ Tmp(n).mtime = n.mtime
  BY DEF CacheNames, Tmp
<1> QED
  BY <1>1, Zenon

\* The name of an entry says of which file, as of when.
LEMMA NameFacts ==
  ASSUME NEW f \in Files, NEW m \in Nat
  PROVE  /\ Name(f, m) \in CacheNames /\ ~Name(f, m).tmp
         /\ Name(f, m).file = f /\ Name(f, m).mtime = m
  BY DEF CacheNames, Name

\* The names a reader makes are of the file and the mtime it was asked for.
LEMMA KeyFacts ==
  ASSUME Types, Asked, NEW r \in Readers, ~In(r, "closed")
  PROVE  /\ reader[r].file \in Files /\ Wanted(r) \in Versions /\ Wanted(r).mtime \in Nat
         /\ Key(r) \in CacheNames /\ Key(r).file = reader[r].file
         /\ Key(r).mtime = Wanted(r).mtime /\ ~Key(r).tmp
         /\ Tmp(Key(r)) \in CacheNames /\ Tmp(Key(r)).file = reader[r].file /\ Tmp(Key(r)).tmp
         /\ Tmp(Key(r)) # Key(r)
<1>1. reader[r].file \in Files /\ reader[r].want \in DOMAIN version[reader[r].file]
  BY DEF Asked
<1>2. version[reader[r].file] \in Seq(Versions)
  BY <1>1 DEF Types
<1>3. Wanted(r) \in Versions
  BY <1>1, <1>2 DEF Wanted
<1>4. Wanted(r).mtime \in Nat
  BY <1>3 DEF Versions
<1>5. /\ Key(r) \in CacheNames /\ ~Key(r).tmp
      /\ Key(r).file = reader[r].file /\ Key(r).mtime = Wanted(r).mtime
  BY <1>1, <1>4, NameFacts DEF Key
<1> QED
  BY <1>1, <1>3, <1>4, <1>5, TmpFacts

\* Two readers that fill entries fill those of different files.
LEMMA OneFillsAFile ==
  ASSUME Types, Asked, Locked, NEW q \in Readers, NEW r \in Readers, q # r,
         reader[q].at \in Filling, reader[r].at \in Filling
  PROVE  /\ reader[q].file # reader[r].file
         /\ {Key(q), Tmp(Key(q))} \cap {Key(r), Tmp(Key(r))} = {}
<1>1. reader[q].file # reader[r].file
  BY DEF Locked
<1>2. ~In(q, "closed") /\ ~In(r, "closed")
  BY DEF In, Filling
<1>3. Key(q).file = reader[q].file /\ Tmp(Key(q)).file = reader[q].file
  BY <1>2, KeyFacts
<1>4. Key(r).file = reader[r].file /\ Tmp(Key(r)).file = reader[r].file
  BY <1>2, KeyFacts
<1> QED
  BY <1>1, <1>3, <1>4

\* A change by another client adds a version, whose mtime is no earlier.
LEMMA ChangeEffect ==
  ASSUME Types, Grows, NEW f \in Files, Change(f)
  PROVE  /\ version' \in [Files -> Seq(Versions)]
         /\ Grows'
<1>1. PICK s \in Sizes, t \in {version[f][Len(version[f])].mtime, version[f][Len(version[f])].mtime + 1} :
        version' = [version EXCEPT ![f] = Append(@, [size |-> s, mtime |-> t])]
  BY DEF Change
<1> DEFINE n == Len(version[f])
           new == [size |-> s, mtime |-> t]
<1>2. version[f] \in Seq(Versions) /\ n \in Nat /\ n > 0 /\ n \in DOMAIN version[f]
  BY DEF Types, Grows
<1>3. version[f][n] \in Versions
  BY <1>2
<1>4. s \in Nat /\ t \in Nat /\ t >= version[f][n].mtime
  BY <1>3, CacheAssumption DEF Versions
<1>5. new \in Versions /\ new.mtime = t
  BY <1>4 DEF Versions
<1>6. version' = [version EXCEPT ![f] = Append(version[f], new)]
  BY <1>1
<1> HIDE DEF new
<1>7. Append(version[f], new) \in Seq(Versions)
  BY <1>2, <1>5
<1>8. version' \in [Files -> Seq(Versions)] /\ version'[f] = Append(version[f], new)
  BY <1>6, <1>7 DEF Types
<1>9. \A g \in Files \ {f} : version'[g] = version[g]
  BY <1>6 DEF Types
<1>10. /\ Len(version'[f]) = n + 1 /\ DOMAIN version'[f] = 1..(n + 1)
       /\ version'[f][n + 1] = new
       /\ \A i \in 1..n : version'[f][i] = version[f][i]
  BY <1>2, <1>5, <1>8
<1>11. \A i \in DOMAIN version[f] : version[f][i].mtime <= version[f][n].mtime /\ version[f][i].mtime \in Nat
  <2> SUFFICES ASSUME NEW i \in DOMAIN version[f]
               PROVE  version[f][i].mtime <= version[f][n].mtime /\ version[f][i].mtime \in Nat
    OBVIOUS
  <2>1. version[f][i] \in Versions /\ i <= n
    BY <1>2
  <2>2. version[f][i].mtime <= version[f][n].mtime
    BY <2>1, <1>2 DEF Grows
  <2> QED
    BY <2>1, <2>2 DEF Versions
<1>12. ASSUME NEW i \in DOMAIN version'[f], NEW j \in DOMAIN version'[f], i <= j
       PROVE  version'[f][i].mtime <= version'[f][j].mtime
  <2>1. CASE j = n + 1 /\ i = n + 1
    BY <2>1, <1>10, <1>5, <1>4
  <2>2. CASE j = n + 1 /\ i # n + 1
    <3>1. i \in 1..n /\ i \in DOMAIN version[f]
      BY <2>2, <1>10, <1>2
    <3>2. version'[f][i].mtime = version[f][i].mtime /\ version'[f][j].mtime = t
      BY <3>1, <2>2, <1>10, <1>5
    <3>3. version[f][n].mtime \in Nat
      BY <1>3 DEF Versions
    <3> QED
      BY <3>1, <3>2, <3>3, <1>11, <1>4
  <2>3. CASE j # n + 1
    <3>1. i \in 1..n /\ j \in 1..n /\ i \in DOMAIN version[f] /\ j \in DOMAIN version[f]
      BY <2>3, <1>10, <1>12, <1>2
    <3> QED
      BY <3>1, <1>10, <1>12 DEF Grows
  <2> QED
    BY <2>1, <2>2, <2>3
<1>13. Len(version'[f]) > 0
  BY <1>10, <1>2
<1>14. Grows'
  BY <1>9, <1>12, <1>13 DEF Grows
<1> QED
  BY <1>8, <1>14

\* Only other clients make versions.
LEMMA ServerStays ==
  ASSUME NEW r \in Readers, Step(r) \/ Release(r) \/ \E f \in Files, i \in 1..(MaxChanges + 1) : Ask(r, f, i)
  PROVE  version' = version
  BY DEF Step, Lock, Room, Evict, Evicted, Create, CopyFails, Copy, Rename, Open, Release, Ask, Server

\* Versions stay.
LEMMA VersionsStay ==
  ASSUME Types, Next \/ UNCHANGED vars
  PROVE  \A f \in Files : \A i \in DOMAIN version[f] :
           i \in DOMAIN version'[f] /\ version'[f][i] = version[f][i]
<1>1. ASSUME NEW f \in Files, Change(f)
      PROVE  \A g \in Files : \A i \in DOMAIN version[g] :
                i \in DOMAIN version'[g] /\ version'[g][i] = version[g][i]
  <2>1. PICK new : version' = [version EXCEPT ![f] = Append(version[f], new)]
    BY <1>1 DEF Change
  <2>2. version[f] \in Seq(Versions)
    BY DEF Types
  <2>3. version'[f] = Append(version[f], new)
    BY <2>1 DEF Types
  <2>4. \A i \in DOMAIN version[f] : i \in DOMAIN version'[f] /\ version'[f][i] = version[f][i]
    BY <2>2, <2>3
  <2>5. \A g \in Files \ {f} : version'[g] = version[g]
    BY <2>1 DEF Types
  <2> QED
    BY <2>4, <2>5
<1>2. CASE Crash
  BY <1>2 DEF Crash
<1>3. CASE UNCHANGED vars
  BY <1>3 DEF vars
<1> QED
  BY <1>1, <1>2, <1>3, ServerStays DEF Next
-----------------------------------------------------------------------------
(* What steps do to their handle and to the directory                       *)

\* A step of r takes it to another place, for the same version of the same file.
GoesTo(r, at, got) ==
  /\ reader' = [q \in Readers |-> reader'[q]]
  /\ \A q \in Readers : Handle(reader'[q])
  /\ \A q \in Readers \ {r} : reader'[q] = reader[q]
  /\ reader'[r].file = reader[r].file /\ reader'[r].want = reader[r].want
  /\ reader'[r].at = at /\ reader'[r].got = got

\* An assignment of a new handle with the same file and version is a GoesTo.
LEMMA OneReader ==
  ASSUME Types, NEW r \in Readers, NEW new, Handle(new),
         reader' = [reader EXCEPT ![r] = new],
         new.file = reader[r].file, new.want = reader[r].want
  PROVE  GoesTo(r, new.at, new.got)
<1>1. reader' = [q \in Readers |-> IF q = r THEN new ELSE reader[q]]
  BY DEF Types
<1>2. \A q \in Readers : reader'[q] = IF q = r THEN new ELSE reader[q]
  BY <1>1
<1>3. reader' = [q \in Readers |-> reader'[q]]
  BY <1>1
<1>4. \A q \in Readers : Handle(reader'[q])
  BY <1>2 DEF Types
<1> QED
  BY <1>2, <1>3, <1>4 DEF GoesTo

\* Going to another place changes nothing else of the handle.
LEMMA GoesEffect ==
  ASSUME Types, NEW r \in Readers, NEW at \in Places, Goes(r, at)
  PROVE  GoesTo(r, at, reader[r].got)
<1> DEFINE new == [reader[r] EXCEPT !.at = at]
<1>1. Handle(reader[r])
  BY DEF Types
<1>2. Handle(new) /\ new.file = reader[r].file /\ new.want = reader[r].want
      /\ new.at = at /\ new.got = reader[r].got
  BY <1>1 DEF Handle
<1>3. reader' = [reader EXCEPT ![r] = new]
  BY DEF Goes
<1> HIDE DEF new
<1> QED
  BY <1>2, <1>3, OneReader

\* Reading begins with the content of the entry.
LEMMA ReadsEffect ==
  ASSUME Types, NEW r \in Readers, NEW n \in DOMAIN disk, Reads(r, n)
  PROVE  GoesTo(r, "reading", disk[n].content)
<1> DEFINE new == [reader[r] EXCEPT !.at = "reading", !.got = disk[n].content]
<1>1. Handle(reader[r]) /\ disk[n].content \in Nat
  BY DEF Types
<1>2. Handle(new) /\ new.file = reader[r].file /\ new.want = reader[r].want
      /\ new.at = "reading" /\ new.got = disk[n].content
  BY <1>1 DEF Handle, Places
<1>3. reader' = [reader EXCEPT ![r] = new]
  BY DEF Reads
<1> HIDE DEF new
<1> QED
  BY <1>2, <1>3, OneReader

\* Evicting changes the list in hand only, and what is left of the total.
LEMMA EvictGoes ==
  ASSUME Types, NEW r \in Readers, Evict(r)
  PROVE  GoesTo(r, "evict", reader[r].got)
<1>1. Handle(reader[r]) /\ reader[r].at = "evict"
  BY DEF Types, Evict, In
<1>2. ASSUME NEW l, NEW total, reader' = [reader EXCEPT ![r].list = l, ![r].total = total]
      PROVE  GoesTo(r, "evict", reader[r].got)
  <2> DEFINE new == [reader[r] EXCEPT !.list = l, !.total = total]
  <2>1. Handle(new) /\ new.file = reader[r].file /\ new.want = reader[r].want
        /\ new.at = "evict" /\ new.got = reader[r].got
    BY <1>1 DEF Handle
  <2>2. reader' = [reader EXCEPT ![r] = new]
    BY <1>2
  <2> HIDE DEF new
  <2> QED
    BY <2>1, <2>2, OneReader
<1>3. ASSUME NEW l, reader' = [reader EXCEPT ![r].list = l]
      PROVE  GoesTo(r, "evict", reader[r].got)
  <2> DEFINE new == [reader[r] EXCEPT !.list = l]
  <2>1. Handle(new) /\ new.file = reader[r].file /\ new.want = reader[r].want
        /\ new.at = "evict" /\ new.got = reader[r].got
    BY <1>1 DEF Handle
  <2>2. reader' = [reader EXCEPT ![r] = new]
    BY <1>3
  <2> HIDE DEF new
  <2> QED
    BY <2>1, <2>2, OneReader
<1>4. \/ \E l, total : reader' = [reader EXCEPT ![r].list = l, ![r].total = total]
      \/ \E l : reader' = [reader EXCEPT ![r].list = l]
  BY DEF Evict
<1> QED
  BY <1>2, <1>3, <1>4

\* Making room ends in making the entry, or begins an eviction.
LEMMA RoomGoes ==
  ASSUME Types, NEW r \in Readers, Room(r)
  PROVE  GoesTo(r, "create", reader[r].got) \/ GoesTo(r, "evict", reader[r].got)
<1>1. Handle(reader[r])
  BY DEF Types
<1>2. ASSUME NEW l, NEW total,
             reader' = [reader EXCEPT ![r].at = "evict", ![r].total = total, ![r].list = l]
      PROVE  GoesTo(r, "evict", reader[r].got)
  <2> DEFINE new == [reader[r] EXCEPT !.at = "evict", !.total = total, !.list = l]
  <2>1. Handle(new) /\ new.file = reader[r].file /\ new.want = reader[r].want
        /\ new.at = "evict" /\ new.got = reader[r].got
    BY <1>1 DEF Handle, Places, Filling
  <2>2. reader' = [reader EXCEPT ![r] = new]
    BY <1>2
  <2> HIDE DEF new
  <2> QED
    BY <2>1, <2>2, OneReader
<1>3. \/ Goes(r, "create")
      \/ \E l, total : reader' = [reader EXCEPT ![r].at = "evict", ![r].total = total, ![r].list = l]
  BY DEF Room
<1>4. "create" \in Places
  BY DEF Places, Filling
<1> QED
  BY <1>2, <1>3, <1>4, GoesEffect

\* With enough evicted, the reader goes to create its temporary file.
LEMMA EvictedGoes ==
  ASSUME Types, NEW r \in Readers, Evicted(r)
  PROVE  GoesTo(r, "create", reader[r].got)
<1> DEFINE new == [reader[r] EXCEPT !.at = "create", !.list = <<>>, !.total = 0]
<1>1. Handle(reader[r])
  BY DEF Types
<1>2. Handle(new) /\ new.file = reader[r].file /\ new.want = reader[r].want
      /\ new.at = "create" /\ new.got = reader[r].got
  BY <1>1 DEF Handle, Places, Filling
<1>3. reader' = [reader EXCEPT ![r] = new]
  BY DEF Evicted
<1> HIDE DEF new
<1> QED
  BY <1>2, <1>3, OneReader

\* The download is of the latest version there is when it begins.
LEMMA CreateGoes ==
  ASSUME Types, Asked, NEW r \in Readers, Create(r)
  PROVE  GoesTo(r, "copy", Len(version[reader[r].file]))
<1> DEFINE new == [reader[r] EXCEPT !.at = "copy", !.got = Len(version[reader[r].file])]
<1>1. reader[r].file \in Files
  BY DEF Asked, Create, In
<1>2. Handle(reader[r]) /\ Len(version[reader[r].file]) \in Nat
  BY <1>1 DEF Types
<1>3. Handle(new) /\ new.file = reader[r].file /\ new.want = reader[r].want
      /\ new.at = "copy" /\ new.got = Len(version[reader[r].file])
  BY <1>2 DEF Handle, Places, Filling
<1>4. reader' = [reader EXCEPT ![r] = new]
  BY DEF Create
<1> HIDE DEF new
<1> QED
  BY <1>3, <1>4, OneReader

\* A name is put into the directory, or changed there.
LEMMA PutEffect ==
  ASSUME Types, NEW n \in CacheNames, NEW content \in Nat, NEW size \in Nat, Put(n, content, size)
  PROVE  /\ DOMAIN disk' = DOMAIN disk \cup {n}
         /\ disk'[n] = [content |-> content, size |-> size]
         /\ \A k \in DOMAIN disk \ {n} : disk'[k] = disk[k]
         /\ DOMAIN disk' \subseteq CacheNames
         /\ disk' \in [DOMAIN disk' -> [content : Nat, size : Nat]]
  BY DEF Put, Types

\* unlink takes one name away and leaves the other files of the directory alone.
LEMMA RemovedEffect ==
  ASSUME Types, NEW n, Removed(n)
  PROVE  /\ DOMAIN disk' = DOMAIN disk \ {n}
         /\ \A k \in DOMAIN disk \ {n} : disk'[k] = disk[k]
         /\ DOMAIN disk' \subseteq CacheNames
         /\ disk' \in [DOMAIN disk' -> [content : Nat, size : Nat]]
  BY DEF Removed, Types

\* The temporary file takes the place of the entry.
LEMMA RenameEffect ==
  ASSUME Types, Asked, NEW r \in Readers, In(r, "rename"), Tmp(Key(r)) \in DOMAIN disk,
         disk' = [k \in (DOMAIN disk \ {Tmp(Key(r))}) \cup {Key(r)} |->
                    IF k = Key(r) THEN disk[Tmp(Key(r))] ELSE disk[k]]
  PROVE  /\ DOMAIN disk' = (DOMAIN disk \ {Tmp(Key(r))}) \cup {Key(r)}
         /\ disk'[Key(r)] = disk[Tmp(Key(r))]
         /\ \A k \in DOMAIN disk' \ {Key(r)} : disk'[k] = disk[k]
         /\ DOMAIN disk' \subseteq CacheNames
         /\ disk' \in [DOMAIN disk' -> [content : Nat, size : Nat]]
<1>1. Key(r) \in CacheNames
  BY KeyFacts DEF In
<1> QED
  BY <1>1 DEF Types
-----------------------------------------------------------------------------
(* What a step leaves to the others                                         *)

\* What the other readers have made or are making stays as it is, or was evicted.
OthersKeep(r) ==
  \A q \in Readers \ {r} : reader[q].at \in {"copy", "rename", "open"} =>
    \A n \in {Key(q), Tmp(Key(q))} :
      /\ n \in DOMAIN disk' => n \in DOMAIN disk /\ disk'[n] = disk[n]
      /\ n \in DOMAIN disk \ DOMAIN disk' => q \in hit'

\* A step that leaves the directory alone, or all but its own two names, does.
LEMMA OwnNames ==
  ASSUME Types, Asked, Locked, NEW r \in Readers, reader[r].at \in Filling,
         \A n \in CacheNames \ {Key(r), Tmp(Key(r))} :
            /\ n \in DOMAIN disk' <=> n \in DOMAIN disk
            /\ n \in DOMAIN disk => disk'[n] = disk[n]
  PROVE  OthersKeep(r)
<1> SUFFICES ASSUME NEW q \in Readers \ {r}, reader[q].at \in {"copy", "rename", "open"},
                    NEW n \in {Key(q), Tmp(Key(q))}
             PROVE  /\ n \in DOMAIN disk' => n \in DOMAIN disk /\ disk'[n] = disk[n]
                    /\ n \in DOMAIN disk \ DOMAIN disk' => q \in hit'
  BY DEF OthersKeep
<1>1. reader[q].at \in Filling /\ ~In(q, "closed")
  BY DEF Filling, In
<1>2. n \notin {Key(r), Tmp(Key(r))}
  BY <1>1, OneFillsAFile
<1>3. n \in CacheNames
  BY <1>1, KeyFacts
<1> QED
  BY <1>2, <1>3

\* A step that leaves the directory alone pulls nothing from under the other readers.
LEMMA SameDirectory ==
  ASSUME NEW r \in Readers, disk' = disk
  PROVE  OthersKeep(r)
  BY DEF OthersKeep

\* Names and versions wanted stay those they are.
LEMMA KeysStay ==
  ASSUME NEW q \in Readers, version' = version,
         reader'[q].file = reader[q].file, reader'[q].want = reader[q].want
  PROVE  Key(q)' = Key(q) /\ Wanted(q)' = Wanted(q)
  BY DEF Key, Wanted

\* A step of r, none of the server, keeps what is known of the readers when it is
\* true of r, and the others keep what is theirs.
LEMMA StepKeeps ==
  ASSUME Inv, NEW r \in Readers, NEW at, NEW got, GoesTo(r, at, got), version' = version,
         ~In(r, "closed"), OthersKeep(r), hit \subseteq hit',
         faults' \in Nat, faults' >= faults,
         at \in {"copy", "rename", "reading"} => NoOlder(reader[r].file, got, Wanted(r).mtime),
         at = "rename" /\ Tmp(Key(r)) \in DOMAIN disk' =>
           disk'[Tmp(Key(r))] = [content |-> got, size |-> version[reader[r].file][got].size],
         at \in {"copy", "rename"} /\ Tmp(Key(r)) \notin DOMAIN disk' => r \in hit',
         at = "open" /\ Key(r) \notin DOMAIN disk' => r \in hit',
         at = "failed" => faults' > 0 \/ r \in hit'
  PROVE  Asked' /\ Young' /\ Whole' /\ Missing' /\ FailsForAReason'
<1> USE DEF Inv
<1>1. \A q \in Readers : /\ reader'[q].file = reader[q].file /\ reader'[q].want = reader[q].want
                         /\ Key(q)' = Key(q) /\ Wanted(q)' = Wanted(q)
  BY KeysStay DEF GoesTo
<1>2. \A q \in Readers \ {r} : reader'[q] = reader[q]
  BY DEF GoesTo
<1>3. reader'[r].at = at /\ reader'[r].got = got
  BY DEF GoesTo
<1>4. ASSUME NEW q \in Readers
      PROVE  Tmp(Key(q))' = Tmp(Key(q))
  BY <1>1 DEF Tmp
<1>5. Asked'
  BY <1>1, <1>2 DEF Asked, In
<1>6. Young'
  <2> SUFFICES ASSUME NEW q \in Readers, reader'[q].at \in {"copy", "rename", "reading"}
               PROVE  NoOlder(reader[q].file, reader'[q].got, Wanted(q).mtime)
    BY <1>1 DEF Young, NoOlder
  <2> QED
    BY <1>2, <1>3 DEF Young
<1>7. Whole'
  <2> SUFFICES ASSUME NEW q \in Readers, reader'[q].at = "rename", Tmp(Key(q)) \in DOMAIN disk'
               PROVE  disk'[Tmp(Key(q))] =
                        [content |-> reader'[q].got,
                         size    |-> version[reader[q].file][reader'[q].got].size]
    BY <1>1, <1>4 DEF Whole, In
  <2>1. CASE q = r
    BY <2>1, <1>3
  <2>2. CASE q # r
    <3>1. reader[q].at = "rename" /\ reader'[q] = reader[q]
      BY <2>2, <1>2
    <3>2. Tmp(Key(q)) \in DOMAIN disk /\ disk'[Tmp(Key(q))] = disk[Tmp(Key(q))]
      BY <2>2, <3>1 DEF OthersKeep
    <3> QED
      BY <3>1, <3>2 DEF Whole, In
  <2> QED
    BY <2>1, <2>2
<1>8. Missing'
  <2> SUFFICES ASSUME NEW q \in Readers
               PROVE  /\ reader'[q].at \in {"copy", "rename"} /\ Tmp(Key(q)) \notin DOMAIN disk' => q \in hit'
                      /\ reader'[q].at = "open" /\ Key(q) \notin DOMAIN disk' => q \in hit'
    BY <1>1, <1>4 DEF Missing, In
  <2>1. CASE q = r
    BY <2>1, <1>3
  <2>2. CASE q # r
    BY <2>2, <1>2 DEF OthersKeep, Missing, In
  <2> QED
    BY <2>1, <2>2
<1>9. FailsForAReason'
  BY <1>2, <1>3 DEF FailsForAReason, In, Types
<1> QED
  BY <1>5, <1>6, <1>7, <1>8, <1>9

\* The lock of the file stays with whoever fills its entry.
LEMMA LockStays ==
  ASSUME Types, Locked, NEW r \in Readers, NEW at, NEW got, GoesTo(r, at, got),
         UNCHANGED locks, at \in Filling => reader[r].at \in Filling
  PROVE  Locked'
  BY DEF GoesTo, Locked

\* The reader that filled an entry lets go of the lock it held.
LEMMA UnlockKeeps ==
  ASSUME Types, Asked, Locked, NEW r \in Readers, NEW at, NEW got, GoesTo(r, at, got),
         Unlock(r), reader[r].at \in Filling, at \notin Filling
  PROVE  Locked' /\ locks' \in [Files -> Readers \cup {None}]
<1>1. reader[r].file \in Files
  BY DEF Asked, In, Filling
<1>2. locks' \in [Files -> Readers \cup {None}]
      /\ \A f \in Files \ {reader[r].file} : locks'[f] = locks[f]
  BY <1>1 DEF Unlock, Types
<1>3. ASSUME NEW q \in Readers, reader'[q].at \in Filling
      PROVE  locks'[reader'[q].file] = q
  <2>1. q # r /\ reader'[q] = reader[q]
    BY <1>3 DEF GoesTo
  <2>2. reader[q].file \in Files
    BY <1>3, <2>1 DEF Asked, In, Filling
  <2>3. reader[q].file # reader[r].file /\ locks[reader[q].file] = q
    BY <1>3, <2>1 DEF Locked
  <2> QED
    BY <2>1, <2>2, <2>3, <1>2
<1> QED
  BY <1>2, <1>3 DEF Locked
-----------------------------------------------------------------------------
(* Every action keeps the invariant                                         *)

\* What holds of the entries goes on holding when those that are new or changed
\* are temporary, or true.
LEMMA EntriesKeep ==
  ASSUME EntriesTrue, version' = version,
         \A n \in DOMAIN disk' : ~n.tmp =>
            \/ n \in DOMAIN disk /\ disk'[n] = disk[n]
            \/ /\ NoOlder(n.file, disk'[n].content, n.mtime)
               /\ disk'[n].size = version[n.file][disk'[n].content].size
  PROVE  EntriesTrue'
  BY DEF EntriesTrue, NoOlder

\* The types of what a step of a reader, but not the server, changes.
LEMMA TypesKeep ==
  ASSUME Types, version' = version, NEW r \in Readers, NEW at, NEW got, GoesTo(r, at, got),
         DOMAIN disk' \subseteq CacheNames,
         disk' \in [DOMAIN disk' -> [content : Nat, size : Nat]],
         locks' \in [Files -> Readers \cup {None}],
         faults' \in Nat, hit' \subseteq Readers
  PROVE  Types'
  BY DEF Types, GoesTo

\* With no new version the mtimes still grow.
LEMMA GrowsKeep ==
  ASSUME Grows, version' = version
  PROVE  Grows'
  BY DEF Grows

\* Change: versions stay, and what was no older is none.
LEMMA ChangeKeeps ==
  ASSUME Inv, NEW f \in Files, Change(f)
  PROVE  Inv'
<1> USE DEF Inv
<1>1. version' \in [Files -> Seq(Versions)] /\ Grows'
  BY ChangeEffect
<1>2. UNCHANGED <<disk, age, reader, locks, evictMu, hit, faults, crashes>>
  BY DEF Change, Bounds
<1>3. \A g \in Files : \A i \in DOMAIN version[g] :
         i \in DOMAIN version'[g] /\ version'[g][i] = version[g][i]
  BY VersionsStay DEF Next
<1>4. Types'
  BY <1>1, <1>2 DEF Types, Handle
<1>5. Asked'
  BY <1>2, <1>3 DEF Asked, In
<1>6. Locked' /\ FailsForAReason'
  BY <1>2 DEF Locked, FailsForAReason, In
<1>7. \A q \in Readers : ~In(q, "closed") => Wanted(q)' = Wanted(q) /\ Key(q)' = Key(q)
  BY <1>2, <1>3 DEF Asked, Wanted, Key
<1>8. ASSUME NEW g \in Files, NEW v, NEW m, NoOlder(g, v, m)
      PROVE  NoOlder(g, v, m)' /\ version'[g][v] = version[g][v]
  BY <1>3, <1>8 DEF NoOlder
<1>9. Young'
  <2> SUFFICES ASSUME NEW q \in Readers, reader[q].at \in {"copy", "rename", "reading"}
               PROVE  NoOlder(reader[q].file, reader[q].got, Wanted(q).mtime)'
    BY <1>2 DEF Young, NoOlder
  <2>1. ~In(q, "closed") /\ reader[q].file \in Files
    BY DEF In, Asked
  <2>2. NoOlder(reader[q].file, reader[q].got, Wanted(q).mtime)
    BY DEF Young
  <2>3. version[reader[q].file][reader[q].got].mtime >= Wanted(q).mtime
        /\ reader[q].got \in DOMAIN version[reader[q].file]
    BY <2>2 DEF NoOlder
  <2>4. /\ reader[q].got \in DOMAIN version'[reader[q].file]
        /\ version'[reader[q].file][reader[q].got] = version[reader[q].file][reader[q].got]
    BY <2>1, <2>3, <1>3
  <2> QED
    BY <1>2, <1>7, <2>1, <2>3, <2>4 DEF NoOlder
<1>10. Whole'
  <2> SUFFICES ASSUME NEW q \in Readers, reader[q].at = "rename", Tmp(Key(q)) \in DOMAIN disk
               PROVE  disk[Tmp(Key(q))] =
                        [content |-> reader[q].got,
                         size    |-> version'[reader[q].file][reader[q].got].size]
    BY <1>2, <1>7 DEF Whole, In, Tmp
  <2>1. reader[q].file \in Files
    BY DEF In, Asked
  <2>2. reader[q].got \in DOMAIN version[reader[q].file]
    BY DEF Young, NoOlder
  <2>3. version'[reader[q].file][reader[q].got] = version[reader[q].file][reader[q].got]
    BY <2>1, <2>2, <1>3
  <2> QED
    BY <2>3 DEF Whole, In
<1>11. EntriesTrue'
  <2> SUFFICES ASSUME NEW n \in DOMAIN disk, ~n.tmp
               PROVE  /\ NoOlder(n.file, disk[n].content, n.mtime)'
                      /\ disk[n].size = version'[n.file][disk[n].content].size
    BY <1>2 DEF EntriesTrue, NoOlder
  <2>1. n \in CacheNames
    BY DEF Types
  <2>2. n.file \in Files
    BY <2>1 DEF CacheNames
  <2> QED
    BY <2>2, <1>2, <1>3 DEF EntriesTrue, NoOlder
<1>12. Missing'
  BY <1>2, <1>7 DEF Missing, In, Tmp
<1> QED
  BY <1>1, <1>4, <1>5, <1>6, <1>9, <1>10, <1>11, <1>12

\* A kill leaves no readers; the entries stay.
LEMMA CrashKeeps ==
  ASSUME Inv, Crash
  PROVE  Inv'
<1> USE DEF Inv
<1>1. UNCHANGED <<version, disk, age, faults>> /\ reader' = [q \in Readers |-> Closed]
      /\ locks' = [f \in Files |-> None] /\ hit' = {}
  BY DEF Crash
<1>2. \A q \in Readers : reader'[q] = Closed
  BY <1>1
<1>3. Handle(Closed) /\ Closed.at = "closed"
  BY DEF Handle, Closed, Places
<1>4. Types'
  BY <1>1, <1>2, <1>3 DEF Types
<1>5. Grows' /\ EntriesTrue'
  BY <1>1, GrowsKeep, EntriesKeep
<1>6. \A q \in Readers : reader'[q].at = "closed"
  BY <1>2, <1>3
<1>7. Asked' /\ Locked' /\ Young' /\ Whole' /\ Missing' /\ FailsForAReason'
  BY <1>6 DEF Asked, Locked, Young, Whole, Missing, FailsForAReason, In, Filling
<1> QED
  BY <1>4, <1>5, <1>7

\* A handle that has nothing yet, or no longer, is of no concern.
LEMMA AwayKeeps ==
  ASSUME Inv, NEW r \in Readers, NEW new, Handle(new), new.at \in {"closed", "lock"},
         new.at = "lock" => new.file \in Files /\ new.want \in DOMAIN version[new.file],
         reader' = [reader EXCEPT ![r] = new],
         hit' \in {hit, hit \ {r}}, UNCHANGED <<version, disk, age, locks, evictMu, faults>>
  PROVE  Inv'
<1> USE DEF Inv
<1>1. reader' = [q \in Readers |-> IF q = r THEN new ELSE reader[q]]
  BY DEF Types
<1>2. \A q \in Readers : reader'[q] = IF q = r THEN new ELSE reader[q]
  BY <1>1
<1>3. Types'
  BY <1>1, <1>2 DEF Types
<1>4. Grows' /\ EntriesTrue'
  BY GrowsKeep, EntriesKeep
<1>5. \A q \in Readers \ {r} : Key(q)' = Key(q) /\ Wanted(q)' = Wanted(q)
  BY <1>2, KeysStay
<1>6. reader'[r].at \in {"closed", "lock"} /\ \A q \in Readers \ {r} : reader'[q] = reader[q]
  BY <1>2
<1>7. Asked'
  BY <1>2 DEF Asked, In
<1>8. Locked'
  BY <1>6 DEF Locked, Filling
<1>9. Young'
  BY <1>5, <1>6 DEF Young, NoOlder
<1>10. Whole' /\ Missing'
  BY <1>5, <1>6 DEF Whole, Missing, In, Tmp
<1>11. FailsForAReason'
  BY <1>6 DEF FailsForAReason, In
<1> QED
  BY <1>3, <1>4, <1>7, <1>8, <1>9, <1>10, <1>11

\* Open: the reader asks for the version its node was given.
LEMMA AskKeeps ==
  ASSUME Inv, NEW r \in Readers, NEW f \in Files, NEW i \in 1..(MaxChanges + 1), Ask(r, f, i)
  PROVE  Inv'
<1> DEFINE new == [Closed EXCEPT !.at = "lock", !.file = f, !.want = i]
<1>1. i \in Nat
  BY CacheAssumption
<1>2. Handle(new) /\ new.at = "lock" /\ new.file = f /\ new.want = i
  BY <1>1 DEF Handle, Closed, Places
<1>3. i \in DOMAIN version[f] /\ reader' = [reader EXCEPT ![r] = new] /\ hit' = hit \ {r}
      /\ UNCHANGED <<version, disk, age, locks, evictMu, faults>>
  BY DEF Ask, Server, Bounds
<1> HIDE DEF new
<1> QED
  BY <1>2, <1>3, AwayKeeps

\* Release: the reader is idle again.
LEMMA ReleaseKeeps ==
  ASSUME Inv, NEW r \in Readers, Release(r)
  PROVE  Inv'
<1>1. Handle(Closed) /\ Closed.at = "closed"
  BY DEF Handle, Closed, Places
<1>2. reader' = [reader EXCEPT ![r] = Closed] /\ UNCHANGED <<version, disk, age, locks, evictMu, faults, hit>>
  BY DEF Release, Server, Bounds
<1> QED
  BY <1>1, <1>2, AwayKeeps

\* Steps that leave the directory, its history and the lock alone, of a reader that
\* has nothing of its own to vouch for, keep the invariant.
LEMMA QuietKeeps ==
  ASSUME Inv, NEW r \in Readers, reader[r].at \in Filling,
         NEW at \in {"create", "evict", "room"}, NEW got, GoesTo(r, at, got),
         UNCHANGED <<version, disk, locks, hit, faults>>
  PROVE  Inv'
<1> USE DEF Inv
<1>1. Types' /\ Grows' /\ EntriesTrue'
  BY TypesKeep, GrowsKeep, EntriesKeep DEF Types
<1>2. Locked'
  BY LockStays
<1>3. OthersKeep(r) /\ ~In(r, "closed")
  BY SameDirectory DEF In, Filling
<1>4. faults' \in Nat /\ faults' >= faults /\ hit \subseteq hit'
  BY DEF Types
<1>5. Asked' /\ Young' /\ Whole' /\ Missing' /\ FailsForAReason'
  BY <1>3, <1>4, StepKeeps
<1> QED
  BY <1>1, <1>2, <1>5

\* Lock: an entry found is one to read; else the reader has the lock.
LEMMA LockKeeps ==
  ASSUME Inv, NEW r \in Readers, Lock(r)
  PROVE  Inv'
<1> USE DEF Inv
<1>1. reader[r].at = "lock" /\ ~In(r, "closed") /\ locks[reader[r].file] = None
      /\ UNCHANGED <<version, disk, hit, faults>>
  BY DEF Lock, In, Server, Bounds
<1>2. reader[r].file \in Files /\ Key(r) \in CacheNames /\ ~Key(r).tmp
      /\ Key(r).file = reader[r].file /\ Key(r).mtime = Wanted(r).mtime
  BY <1>1, KeyFacts
<1>3. OthersKeep(r) /\ Grows' /\ EntriesTrue'
  BY <1>1, SameDirectory, GrowsKeep, EntriesKeep
<1>4. faults' \in Nat /\ faults' >= faults
  BY <1>1 DEF Types
<1>5. CASE Key(r) \in DOMAIN disk /\ Reads(r, Key(r)) /\ UNCHANGED locks
  <2> DEFINE got == disk[Key(r)].content
  <2>1. GoesTo(r, "reading", got)
    BY <1>5, ReadsEffect
  <2>2. NoOlder(reader[r].file, got, Wanted(r).mtime)
    BY <1>2, <1>5 DEF EntriesTrue
  <2> HIDE DEF got
  <2>3. Asked' /\ Young' /\ Whole' /\ Missing' /\ FailsForAReason'
    BY <1>1, <1>3, <1>4, <2>1, <2>2, StepKeeps
  <2>4. Types'
    BY <1>1, <1>5, <2>1, TypesKeep DEF Types
  <2>5. Locked'
    BY <1>5, <2>1, LockStays DEF Filling
  <2> QED
    BY <1>3, <2>3, <2>4, <2>5
<1>6. CASE TakeLock(r) /\ Goes(r, "room")
  <2> DEFINE got == reader[r].got
  <2>1. GoesTo(r, "room", got)
    BY <1>6, GoesEffect DEF Places, Filling
  <2> HIDE DEF got
  <2>2. Asked' /\ Young' /\ Whole' /\ Missing' /\ FailsForAReason'
    BY <1>1, <1>3, <1>4, <2>1, StepKeeps
  <2>3. /\ locks' \in [Files -> Readers \cup {None}]
        /\ locks'[reader[r].file] = r
        /\ \A f \in Files \ {reader[r].file} : locks'[f] = locks[f]
    BY <1>2, <1>6 DEF TakeLock, Types
  <2>4. Types'
    BY <1>1, <2>1, <2>3, TypesKeep DEF Types
  <2>5. ASSUME NEW q \in Readers, q # r, reader[q].at \in Filling
        PROVE  locks'[reader[q].file] = q
    <3>1. reader[q].file \in Files /\ locks[reader[q].file] = q
      BY <2>5 DEF Asked, Locked, In, Filling
    <3>2. q # None
      BY CacheAssumption
    <3> QED
      BY <1>1, <2>3, <3>1, <3>2
  <2>6. Locked'
    BY <2>1, <2>3, <2>5 DEF Locked, GoesTo
  <2> QED
    BY <1>3, <2>2, <2>4, <2>6
<1> QED
  BY <1>5, <1>6 DEF Lock

\* The directory is measured, and the eviction loop begins or is left.
LEMMA RoomKeeps ==
  ASSUME Inv, NEW r \in Readers, Room(r) \/ Evicted(r)
  PROVE  Inv'
<1>1. reader[r].at \in Filling /\ UNCHANGED <<version, disk, locks, hit, faults>>
  BY DEF Room, Evicted, In, Filling, Server, Bounds
<1>2. GoesTo(r, "create", reader[r].got) \/ GoesTo(r, "evict", reader[r].got)
  BY RoomGoes, EvictedGoes DEF Inv
<1> QED
  BY <1>1, <1>2, QuietKeeps

\* Evict: whose name goes is hit.
LEMMA EvictKeeps ==
  ASSUME Inv, NEW r \in Readers, Evict(r)
  PROVE  Inv'
<1> USE DEF Inv
<1>1. reader[r].at = "evict" /\ UNCHANGED <<version, locks, faults>>
  BY DEF Evict, In, Server, Bounds
<1> DEFINE got == reader[r].got
           n == Head(reader[r].list).name
<1>2. GoesTo(r, "evict", got)
  BY EvictGoes
<1>3. CASE n \notin DOMAIN disk
  <2>1. UNCHANGED <<disk, hit>>
    BY <1>3 DEF Evict
  <2> HIDE DEF got
  <2> QED
    BY <1>1, <1>2, <2>1, QuietKeeps DEF Filling
<1>4. CASE n \in DOMAIN disk
  <2>1. Removed(n) /\ hit' = hit \cup Hands(n)
    BY <1>4 DEF Evict
  <2> HIDE DEF n
  <2>2. /\ DOMAIN disk' = DOMAIN disk \ {n}
        /\ \A k \in DOMAIN disk \ {n} : disk'[k] = disk[k]
        /\ DOMAIN disk' \subseteq CacheNames
        /\ disk' \in [DOMAIN disk' -> [content : Nat, size : Nat]]
    BY <2>1, RemovedEffect
  <2>3. hit \subseteq hit' /\ hit' \subseteq Readers
    BY <2>1 DEF Hands, Types
  <2>4. OthersKeep(r)
    BY <2>1, <2>2 DEF OthersKeep, Hands
  <2> HIDE DEF got
  <2>9. faults' \in Nat /\ faults' >= faults /\ ~In(r, "closed")
    BY <1>1 DEF Types, In
  <2>5. Asked' /\ Young' /\ Whole' /\ Missing' /\ FailsForAReason'
    BY <1>1, <1>2, <2>3, <2>4, <2>9, StepKeeps
  <2>6. Types'
    BY <1>1, <1>2, <2>2, <2>3, TypesKeep DEF Types
  <2>7. Locked'
    BY <1>1, <1>2, LockStays DEF Filling
  <2>8. Grows' /\ EntriesTrue'
    BY <1>1, <2>2, GrowsKeep, EntriesKeep
  <2> QED
    BY <2>5, <2>6, <2>7, <2>8
<1> QED
  BY <1>3, <1>4

\* Create: the file that begins is nobody else's, and the version that comes is the
\* latest.
LEMMA CreateKeeps ==
  ASSUME Inv, NEW r \in Readers, Create(r)
  PROVE  Inv'
<1> USE DEF Inv
<1>1. reader[r].at = "create" /\ ~In(r, "closed") /\ reader[r].at \in Filling
      /\ UNCHANGED <<version, locks, faults, hit>>
  BY DEF Create, In, Server, Bounds, Filling
<1> DEFINE f == reader[r].file
           got == Len(version[f])
<1>2. GoesTo(r, "copy", got)
  BY CreateGoes
<1>3. Tmp(Key(r)) \in CacheNames /\ Tmp(Key(r)).tmp
  BY <1>1, KeyFacts
<1>4. Put(Tmp(Key(r)), 0, 0)
  BY DEF Create
<1>5. /\ DOMAIN disk' = DOMAIN disk \cup {Tmp(Key(r))}
      /\ \A k \in DOMAIN disk \ {Tmp(Key(r))} : disk'[k] = disk[k]
      /\ DOMAIN disk' \subseteq CacheNames
      /\ disk' \in [DOMAIN disk' -> [content : Nat, size : Nat]]
  BY <1>3, <1>4, PutEffect
<1>6. f \in Files /\ reader[r].want \in DOMAIN version[f] /\ version[f] \in Seq(Versions)
  BY <1>1 DEF Asked, Types
<1>7. got \in DOMAIN version[f] /\ reader[r].want <= got
  BY <1>6 DEF Grows
<1>8. version[f][reader[r].want].mtime <= version[f][got].mtime
  BY <1>6, <1>7 DEF Grows
<1>9. version[f][reader[r].want] \in Versions /\ version[f][got] \in Versions
  BY <1>6, <1>7
<1>10. NoOlder(f, got, Wanted(r).mtime)
  BY <1>7, <1>8, <1>9 DEF NoOlder, Wanted, Versions
<1>11. OthersKeep(r)
  BY <1>1, <1>5, OwnNames
<1>12. NoOlder(reader[r].file, got, Wanted(r).mtime)
  BY <1>10
<1> HIDE DEF f, got
<1>17. faults' \in Nat /\ faults' >= faults /\ hit \subseteq hit' /\ Tmp(Key(r)) \in DOMAIN disk'
  BY <1>1, <1>5 DEF Types
<1>13. Asked' /\ Young' /\ Whole' /\ Missing' /\ FailsForAReason'
  BY <1>1, <1>2, <1>11, <1>12, <1>17, StepKeeps
<1>14. Types'
  BY <1>1, <1>2, <1>5, TypesKeep DEF Types
<1>15. Locked'
  BY <1>1, <1>2, LockStays
<1>16. Grows' /\ EntriesTrue'
  BY <1>1, <1>3, <1>5, GrowsKeep, EntriesKeep
<1> QED
  BY <1>13, <1>14, <1>15, <1>16

\* A broken download takes its temporary file with it, and is counted.
LEMMA CopyFailsKeeps ==
  ASSUME Inv, NEW r \in Readers, CopyFails(r)
  PROVE  Inv'
<1> USE DEF Inv
<1>1. reader[r].at = "copy" /\ ~In(r, "closed") /\ reader[r].at \in Filling
      /\ UNCHANGED <<version, hit>> /\ faults' = faults + 1
      /\ Goes(r, "failed") /\ Unlock(r) /\ Removed(Tmp(Key(r)))
  BY DEF CopyFails, Refuse, In, Server, Filling
<1> DEFINE got == reader[r].got
<1>2. GoesTo(r, "failed", got)
  BY <1>1, GoesEffect DEF Places
<1> HIDE DEF got
<1>3. /\ DOMAIN disk' = DOMAIN disk \ {Tmp(Key(r))}
      /\ \A k \in DOMAIN disk \ {Tmp(Key(r))} : disk'[k] = disk[k]
      /\ DOMAIN disk' \subseteq CacheNames
      /\ disk' \in [DOMAIN disk' -> [content : Nat, size : Nat]]
  BY <1>1, RemovedEffect
<1>4. OthersKeep(r)
  BY <1>1, <1>3, OwnNames
<1>5. faults' \in Nat /\ faults' > 0 /\ faults' >= faults
  BY <1>1 DEF Types
<1>6. Asked' /\ Young' /\ Whole' /\ Missing' /\ FailsForAReason'
  BY <1>1, <1>2, <1>4, <1>5, StepKeeps
<1>7. Locked' /\ locks' \in [Files -> Readers \cup {None}]
  BY <1>1, <1>2, UnlockKeeps DEF Filling
<1>8. Types'
  BY <1>1, <1>2, <1>3, <1>5, <1>7, TypesKeep DEF Types
<1>9. Grows' /\ EntriesTrue'
  BY <1>1, <1>3, GrowsKeep, EntriesKeep
<1> QED
  BY <1>6, <1>7, <1>8, <1>9

\* Copy: the temporary file, where it still is, is a whole version.
LEMMA CopyKeeps ==
  ASSUME Inv, NEW r \in Readers, Copy(r)
  PROVE  Inv'
<1> USE DEF Inv
<1>1. reader[r].at = "copy" /\ ~In(r, "closed") /\ reader[r].at \in Filling
      /\ UNCHANGED <<version, hit, locks, faults>> /\ Goes(r, "rename")
  BY DEF Copy, In, Server, Bounds, Filling
<1> DEFINE got  == reader[r].got
           tmp  == Tmp(Key(r))
           size == version[reader[r].file][got].size
<1>2. GoesTo(r, "rename", got)
  BY <1>1, GoesEffect DEF Places, Filling
<1>3. tmp \in CacheNames /\ tmp.tmp /\ reader[r].file \in Files
  BY <1>1, KeyFacts
<1>4. NoOlder(reader[r].file, got, Wanted(r).mtime)
  BY <1>1 DEF Young
<1>5. version[reader[r].file] \in Seq(Versions) /\ got \in DOMAIN version[reader[r].file]
  BY <1>3, <1>4 DEF NoOlder, Types
<1>6. got \in Nat /\ size \in Nat
  <2>1. got \in Nat /\ version[reader[r].file][got] \in Versions
    BY <1>5
  <2> QED
    BY <2>1 DEF Versions
<1>7. IF tmp \in DOMAIN disk THEN Put(tmp, got, size) ELSE UNCHANGED <<disk, age>>
  BY DEF Copy
<1> HIDE DEF got, tmp, size
<1>8. /\ DOMAIN disk' = DOMAIN disk
      /\ tmp \in DOMAIN disk' => disk'[tmp] = [content |-> got, size |-> size]
      /\ \A k \in DOMAIN disk \ {tmp} : disk'[k] = disk[k]
      /\ DOMAIN disk' \subseteq CacheNames
      /\ disk' \in [DOMAIN disk' -> [content : Nat, size : Nat]]
  <2>1. CASE tmp \in DOMAIN disk
    BY <2>1, <1>3, <1>6, <1>7, PutEffect
  <2>2. CASE tmp \notin DOMAIN disk
    BY <2>2, <1>7 DEF Types
  <2> QED
    BY <2>1, <2>2
<1>9. OthersKeep(r)
  BY <1>1, <1>8, OwnNames DEF tmp
<1>10. faults' \in Nat /\ faults' >= faults /\ hit \subseteq hit'
  BY <1>1 DEF Types
<1>11. tmp \notin DOMAIN disk' => r \in hit'
  BY <1>1, <1>8 DEF Missing, tmp
<1>12. Asked' /\ Young' /\ Whole' /\ Missing' /\ FailsForAReason'
  BY <1>1, <1>2, <1>4, <1>8, <1>9, <1>10, <1>11, StepKeeps DEF tmp, size
<1>13. Types'
  BY <1>1, <1>2, <1>8, TypesKeep DEF Types
<1>14. Locked'
  BY <1>1, <1>2, LockStays
<1>15. Grows' /\ EntriesTrue'
  BY <1>1, <1>3, <1>8, GrowsKeep, EntriesKeep
<1> QED
  BY <1>12, <1>13, <1>14, <1>15

\* Rename: what becomes the entry is the whole version; where the temporary file is
\* gone, it was evicted.
LEMMA RenameKeeps ==
  ASSUME Inv, NEW r \in Readers, Rename(r)
  PROVE  Inv'
<1> USE DEF Inv
<1>1. reader[r].at = "rename" /\ ~In(r, "closed") /\ reader[r].at \in Filling
      /\ UNCHANGED <<version, hit, faults>>
  BY DEF Rename, In, Server, Bounds, Filling
<1> DEFINE got == reader[r].got
           tmp == Tmp(Key(r))
           key == Key(r)
<1>2. /\ tmp \in CacheNames /\ tmp.tmp /\ reader[r].file \in Files
      /\ key \in CacheNames /\ key.file = reader[r].file /\ key.mtime = Wanted(r).mtime
      /\ tmp # key
  BY <1>1, KeyFacts
<1>3. NoOlder(reader[r].file, got, Wanted(r).mtime)
  BY <1>1 DEF Young
<1>4. faults' \in Nat /\ faults' >= faults /\ hit \subseteq hit' /\ hit' \subseteq Readers
  BY <1>1 DEF Types
<1>5. CASE /\ tmp \in DOMAIN disk
           /\ disk' = [k \in (DOMAIN disk \ {tmp}) \cup {key} |-> IF k = key THEN disk[tmp] ELSE disk[k]]
           /\ Goes(r, "open") /\ UNCHANGED locks
  <2>1. GoesTo(r, "open", got)
    BY <1>5, GoesEffect DEF Places, Filling
  <2>2. /\ DOMAIN disk' = (DOMAIN disk \ {tmp}) \cup {key}
        /\ disk'[key] = disk[tmp]
        /\ \A k \in DOMAIN disk' \ {key} : disk'[k] = disk[k]
        /\ DOMAIN disk' \subseteq CacheNames
        /\ disk' \in [DOMAIN disk' -> [content : Nat, size : Nat]]
    BY <1>1, <1>5, RenameEffect DEF In
  <2>3. disk[tmp] = [content |-> got, size |-> version[reader[r].file][got].size]
    BY <1>1, <1>5 DEF Whole, In
  <2>4. disk'[key].content = got /\ disk'[key].size = version[reader[r].file][got].size
    BY <2>2, <2>3
  <2>5. OthersKeep(r)
    BY <1>1, <2>2, OwnNames
  <2>6. key \in DOMAIN disk'
    BY <2>2
  <2>7. EntriesTrue'
    <3> HIDE DEF got, tmp, key
    <3> QED
      BY <1>1, <1>2, <1>3, <2>2, <2>4, EntriesKeep
  <2> HIDE DEF got
  <2>8. Asked' /\ Young' /\ Whole' /\ Missing' /\ FailsForAReason'
    BY <1>1, <1>4, <2>1, <2>5, <2>6, StepKeeps
  <2>9. Types' /\ Grows'
    BY <1>1, <1>4, <1>5, <2>1, <2>2, TypesKeep, GrowsKeep DEF Types
  <2>10. Locked'
    BY <1>1, <1>5, <2>1, LockStays
  <2> QED
    BY <2>7, <2>8, <2>9, <2>10
<1>6. CASE tmp \notin DOMAIN disk /\ Refuse(r) /\ UNCHANGED <<disk, age>>
  <2>1. GoesTo(r, "failed", got) /\ Unlock(r)
    BY <1>6, GoesEffect DEF Refuse, Places
  <2>2. r \in hit'
    BY <1>1, <1>6 DEF Missing
  <2>3. OthersKeep(r)
    BY <1>6, SameDirectory
  <2> HIDE DEF got
  <2>4. Asked' /\ Young' /\ Whole' /\ Missing' /\ FailsForAReason'
    BY <1>1, <1>4, <2>1, <2>2, <2>3, StepKeeps
  <2>5. Locked' /\ locks' \in [Files -> Readers \cup {None}]
    BY <1>1, <2>1, UnlockKeeps DEF Filling
  <2>6. Types' /\ Grows' /\ EntriesTrue'
    BY <1>1, <1>4, <1>6, <2>1, <2>5, TypesKeep, GrowsKeep, EntriesKeep DEF Types
  <2> QED
    BY <2>4, <2>5, <2>6
<1> QED
  BY <1>5, <1>6 DEF Rename

\* Open: the entry is read; where it is gone, it was evicted.
LEMMA OpenKeeps ==
  ASSUME Inv, NEW r \in Readers, Open(r)
  PROVE  Inv'
<1> USE DEF Inv
<1>1. reader[r].at = "open" /\ ~In(r, "closed") /\ reader[r].at \in Filling /\ Unlock(r)
      /\ UNCHANGED <<version, disk, hit, faults>>
  BY DEF Open, Refuse, In, Server, Bounds, Filling
<1>2. /\ Key(r) \in CacheNames /\ ~Key(r).tmp
      /\ Key(r).file = reader[r].file /\ Key(r).mtime = Wanted(r).mtime
  BY <1>1, KeyFacts
<1>3. faults' \in Nat /\ faults' >= faults /\ hit \subseteq hit' /\ hit' \subseteq Readers
  BY <1>1 DEF Types
<1>4. OthersKeep(r) /\ Grows' /\ EntriesTrue'
  BY <1>1, SameDirectory, GrowsKeep, EntriesKeep
<1>5. ASSUME NEW at \in {"reading", "failed"}, NEW got, GoesTo(r, at, got),
             at = "reading" => NoOlder(reader[r].file, got, Wanted(r).mtime),
             at = "failed" => r \in hit'
      PROVE  Inv'
  <2>1. Asked' /\ Young' /\ Whole' /\ Missing' /\ FailsForAReason'
    BY <1>1, <1>3, <1>4, <1>5, StepKeeps
  <2>2. Locked' /\ locks' \in [Files -> Readers \cup {None}]
    BY <1>1, <1>5, UnlockKeeps DEF Filling
  <2>3. Types'
    BY <1>1, <1>3, <1>5, <2>2, TypesKeep DEF Types
  <2> QED
    BY <1>4, <2>1, <2>2, <2>3
<1>6. CASE Key(r) \in DOMAIN disk /\ Reads(r, Key(r))
  <2>1. GoesTo(r, "reading", disk[Key(r)].content)
    BY <1>6, ReadsEffect
  <2>2. NoOlder(reader[r].file, disk[Key(r)].content, Wanted(r).mtime)
    BY <1>2, <1>6 DEF EntriesTrue
  <2> QED
    BY <1>5, <2>1, <2>2
<1>7. CASE Key(r) \notin DOMAIN disk /\ Goes(r, "failed")
  <2>1. GoesTo(r, "failed", reader[r].got)
    BY <1>7, GoesEffect DEF Places
  <2>2. r \in hit'
    BY <1>1, <1>7 DEF Missing, In
  <2> QED
    BY <1>5, <2>1, <2>2
<1> QED
  BY <1>6, <1>7 DEF Open, Refuse
-----------------------------------------------------------------------------
(* The theorems                                                             *)

\* The initial states satisfy the invariant.
LEMMA Starts ==
  ASSUME Init
  PROVE  Inv
<1>1. PICK first \in [Files -> FirstSizes] :
        version = [f \in Files |-> <<[size |-> first[f], mtime |-> 1]>>]
  <2>1. \A f \in Files : \E s \in FirstSizes : version[f] = <<[size |-> s, mtime |-> 1]>>
    BY DEF Init
  <2> DEFINE first == [f \in Files |-> CHOOSE s \in FirstSizes : version[f] = <<[size |-> s, mtime |-> 1]>>]
  <2>2. \A f \in Files : first[f] \in FirstSizes /\ version[f] = <<[size |-> first[f], mtime |-> 1]>>
    BY <2>1
  <2>3. first \in [Files -> FirstSizes]
    BY <2>2
  <2>4. version = [f \in Files |-> version[f]]
    BY DEF Init
  <2> HIDE DEF first
  <2> QED
    BY <2>2, <2>3, <2>4
<1>2. \A f \in Files : /\ version[f] \in Seq(Versions) /\ Len(version[f]) = 1
                       /\ DOMAIN version[f] = {1}
  <2> SUFFICES ASSUME NEW f \in Files
               PROVE  /\ version[f] \in Seq(Versions) /\ Len(version[f]) = 1
                      /\ DOMAIN version[f] = {1}
    OBVIOUS
  <2>1. first[f] \in Nat
    BY CacheAssumption
  <2>2. [size |-> first[f], mtime |-> 1] \in Versions
    BY <2>1 DEF Versions
  <2> QED
    BY <1>1, <2>2
<1>3. Grows
  <2>1. ASSUME NEW f \in Files
        PROVE  version[f][1].mtime \in Nat
    <3>1. version[f] \in Seq(Versions) /\ 1 \in DOMAIN version[f]
      BY <1>2
    <3>2. version[f][1] \in Versions
      BY <3>1
    <3> QED
      BY <3>2 DEF Versions
  <2> QED
    BY <1>2, <2>1 DEF Grows
<1>4. disk = [n \in {} |-> 0] /\ reader = [r \in Readers |-> Closed]
      /\ locks = [f \in Files |-> None] /\ faults = 0 /\ hit = {}
  BY DEF Init
<1>5. \A r \in Readers : reader[r] = Closed
  BY <1>4
<1>6. Handle(Closed) /\ Closed.at = "closed"
  BY DEF Handle, Closed, Places
<1>7. DOMAIN disk = {} /\ disk \in [DOMAIN disk -> [content : Nat, size : Nat]]
  BY <1>4
<1>8. Types
  BY <1>1, <1>2, <1>4, <1>5, <1>6, <1>7 DEF Types
<1>9. Asked /\ Locked /\ Young /\ Whole /\ Missing /\ FailsForAReason
  BY <1>5, <1>6 DEF Asked, Locked, Young, Whole, Missing, FailsForAReason, In, Filling
<1>10. EntriesTrue
  BY <1>7 DEF EntriesTrue
<1> QED
  BY <1>3, <1>8, <1>9, <1>10 DEF Inv

\* Every step, and every stuttering step, keeps the invariant.
LEMMA NextKeeps ==
  ASSUME Inv, [Next]_vars
  PROVE  Inv'
<1>1. CASE UNCHANGED vars
  BY <1>1 DEF Inv, Types, Handle, Grows, Asked, Locked, Young, Whole, EntriesTrue, Missing,
              FailsForAReason, NoOlder, In, Key, Wanted, vars
<1>2. ASSUME NEW r \in Readers, Step(r)
      PROVE  Inv'
  BY <1>2, LockKeeps, RoomKeeps, EvictKeeps, CreateKeeps, CopyFailsKeeps, CopyKeeps,
     RenameKeeps, OpenKeeps DEF Step
<1> QED
  BY <1>1, <1>2, ChangeKeeps, CrashKeeps, AskKeeps, ReleaseKeeps DEF Next

\* Whatever the handles, the clients, the failures and the kills do, the state is of
\* its types.
THEOREM TypesAlways == Spec => []Types
<1>1. Inv => Types
  BY DEF Inv
<1> QED
  BY <1>1, Starts, NextKeeps, PTL DEF Spec

\* Entries hold what their names say, and readers read it: a whole version of the
\* file, no older than the one they were asked for (DiskCache.Open).
THEOREM EntriesAreTrue == Spec => []EntriesHoldTheirKey
<1>1. Inv => EntriesHoldTheirKey
  BY DEF Inv, EntriesHoldTheirKey, EntriesTrue, Young, In
<1> QED
  BY <1>1, Starts, NextKeeps, PTL DEF Spec

\* A read fails only after a failed download, or when another file's eviction took
\* what it had made (DiskCache.Open, evictIfNeeded).
THEOREM FailuresHaveAReason == Spec => []FailsForAReason
<1>1. Inv => FailsForAReason
  BY DEF Inv
<1> QED
  BY <1>1, Starts, NextKeeps, PTL DEF Spec
=============================================================================
