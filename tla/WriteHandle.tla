---------------------------- MODULE WriteHandle ----------------------------
(***************************************************************************)
(* Writing one file through the mount: the FileNode, the write handles     *)
(* opened on it or made by Create, and the remote file they replace        *)
(* (presentation/fuse/file.go, dir.go, usecase commit_write, seed_content).*)
(*                                                                         *)
(* An edit is buffered in a working file.  It starts empty: the remote     *)
(* content is fetched by the first Write, unless the file was truncated,   *)
(* and the whole buffer is uploaded by the first Flush after a Write, or   *)
(* by Release.  A handle's mutex is held through each of its operations,   *)
(* calls to the server included, so each is one step.  What is read and    *)
(* written without it takes several: Open reads the node's id, then its    *)
(* size, then publishes itself in the node; Setattr sets the node's size   *)
(* and reads the active handle, then truncates that handle; Release drops  *)
(* the working file, then clears the node.                                 *)
(*                                                                         *)
(* Contents are sequences of cells.  A cell is the stamp of the Write that *)
(* made it, 0 where a file was extended.  `posix` is what an ordinary file *)
(* would hold after the same calls.                                        *)
(*                                                                         *)
(* What applications do is in Usage; an edit in the plain way (open, with  *)
(* or without a truncate to zero around it, write, close) needs none:      *)
(*   "flushBetween"  a duplicate of the descriptor is closed between writes*)
(*   "truncateTo"    a file is truncated or extended to a size other than 0*)
(*   "truncateNew"   a created file is truncated while it is being written *)
(*   "tornSeed"      the download of the first Write breaks half way       *)
(*   "share"         a file is opened again while a handle is open on it   *)
(*   "race"          other calls run during an Open or a Setattr           *)
(* Not modelled: the mtime part of Setattr, reads, files removed or        *)
(* replaced by other clients, the listing cache CommitWrite invalidates.   *)
(***************************************************************************)
EXTENDS Integers, Sequences, FiniteSets

CONSTANTS Handles,     \* write handles, one per Open or Create
          None,        \* no handle (nil)
          Settings     \* the worlds a behaviour can take place in: name -> Setting

\* The world of the behaviour: one of the names of Settings, which never changes.
VARIABLE setting

Usage     == Settings[setting].usage      \* see above
Starts    == Settings[setting].starts     \* sizes the remote file may have at the
                                          \* start; 0 for a file yet to be created
MaxSize   == Settings[setting].maxSize    \* bound: cells of a file
MaxWrites == Settings[setting].maxWrites  \* bound: writes
MaxCuts   == Settings[setting].maxCuts    \* bound: truncates
MaxFaults == Settings[setting].maxFaults  \* bound: calls to the server that fail

\* None is neither a handle nor a truncate under way.
ASSUME WriteHandleAssumption ==
  /\ None \notin Handles
  /\ \A w \in DOMAIN Settings :
       LET s == Settings[w] IN
       /\ s.usage \subseteq {"flushBetween", "truncateTo", "truncateNew", "tornSeed",
                             "share", "race"}
       /\ s.starts \subseteq 0..s.maxSize
       /\ {s.maxSize, s.maxWrites, s.maxCuts, s.maxFaults} \subseteq Nat
       /\ \A n \in 0..s.maxSize, h \in Handles \cup {None} : [size |-> n, wh |-> h] # None

VARIABLES
  start,      \* the size at the start, one of Starts
  info,       \* FileNode.info: [id, size]; id 0 until the first upload
  wh,         \* FileNode.wh: the active handle, or None
  handle,     \* the write handles
  cut,        \* a Setattr between its two steps: [size, wh], or None
  remote,     \* the server: id -> content
  posix,      \* what an ordinary file would hold
  stamp,      \* writes so far
  cuts,       \* truncates so far
  faults,     \* failed calls so far
  latest      \* history: the handle whose Open ended last, or None

world == <<setting, start>>
node == <<world, info, wh>>
vars == <<node, handle, cut, remote, posix, stamp, cuts, faults, latest>>

\* newWriteHandle; `late` is history: a Write has come after the upload.
NewHandle(id) == [at |-> "opening", existing |-> id, tmp |-> <<>>, uploaded |-> FALSE,
                  wrote |-> FALSE, truncated |-> FALSE, seeded |-> FALSE,
                  linked |-> FALSE, closed |-> FALSE, late |-> FALSE]

Unused == [NewHandle(0) EXCEPT !.at = "unused"]

\* tmp.Truncate
Resize(c, n) == [i \in 1..n |-> IF i <= Len(c) THEN c[i] ELSE 0]

\* tmp.WriteAt, of one cell
WriteAt(c, off, cell) ==
  [Resize(c, IF off < Len(c) THEN Len(c) ELSE off + 1) EXCEPT ![off + 1] = cell]

StartContent == [i \in 1..start |-> i]

Init == /\ setting \in DOMAIN Settings
        /\ start \in Starts
        /\ info = [id |-> IF start > 0 THEN 1 ELSE 0, size |-> start]
        /\ wh = None
        /\ handle = [h \in Handles |-> Unused]
        /\ cut = None
        /\ remote = IF start > 0 THEN <<StartContent>> ELSE <<>>
        /\ posix = StartContent
        /\ stamp = start /\ cuts = 0 /\ faults = 0
        /\ latest = None

InUse(h) == handle[h].at \in {"opening", "open", "closing"}

\* Other calls of the kernel run during an Open or a Setattr only in a race.
Calm == "race" \in Usage \/ (cut = None /\ \A h \in Handles : handle[h].at # "opening")

MayOpen(h) == /\ Calm
              /\ handle[h].at = "unused"
              /\ "share" \in Usage \/ \A k \in Handles : ~InUse(k)
-----------------------------------------------------------------------------
(* Open and Create *)

\* Create: the handle is not the node's, and the node is not the handle's.
Create(h) ==
  /\ MayOpen(h)
  /\ info.id = 0 /\ \A k \in Handles : handle[k] = Unused
  /\ handle' = [handle EXCEPT ![h] = [NewHandle(0) EXCEPT !.at = "open"]]
  /\ UNCHANGED <<node, cut, remote, posix, stamp, cuts, faults, latest>>

\* The kernel opens only a file it has been told of.
Open(h) ==
  /\ MayOpen(h)
  /\ info.id # 0 \/ \E k \in Handles : handle[k] # Unused
  /\ handle' = [handle EXCEPT ![h] = NewHandle(info.id)]
  /\ UNCHANGED <<node, cut, remote, posix, stamp, cuts, faults, latest>>

\* `wh.truncated = truncate || f.info.Size == 0`; an O_TRUNC that comes with the
\* flags empties the file.
Truncated(flag) == flag \/ info.size = 0

OpenReadsSize(h) ==
  /\ handle[h].at = "opening" /\ ~handle[h].linked
  /\ \E flag \in BOOLEAN :
       /\ handle' = [handle EXCEPT ![h].truncated = Truncated(flag), ![h].linked = TRUE]
       /\ posix' = IF flag THEN <<>> ELSE posix
  /\ UNCHANGED <<node, cut, remote, stamp, cuts, faults, latest>>

OpenPublishes(h) ==
  /\ handle[h].at = "opening" /\ handle[h].linked
  /\ handle' = [handle EXCEPT ![h].at = "open"]
  /\ wh' = h
  /\ latest' = h
  /\ UNCHANGED <<world, info, cut, remote, posix, stamp, cuts, faults>>
-----------------------------------------------------------------------------
(* Setattr(size) *)

MayCut(n) ==
  /\ n = 0 \/ "truncateTo" \in Usage
  /\ "truncateNew" \in Usage \/ \A h \in Handles :
       handle[h].at = "open" => handle[h].linked \/ handle[h].tmp = <<>>

SetSize(n) ==
  /\ Calm /\ cut = None
  /\ MayCut(n)
  /\ cuts < MaxCuts /\ cuts' = cuts + 1
  /\ info' = [info EXCEPT !.size = n]
  /\ cut' = [size |-> n, wh |-> wh]
  /\ UNCHANGED <<world, wh, handle, remote, posix, stamp, faults, latest>>

\* truncateTo; a released handle has no working file left to truncate
Cut(hd, n) == [hd EXCEPT !.truncated = TRUE, !.seeded = TRUE,
                         !.tmp = IF hd.at = "open" THEN Resize(@, n) ELSE @]

TruncateTo ==
  /\ cut # None
  /\ handle' = IF cut.wh = None THEN handle
               ELSE [handle EXCEPT ![cut.wh] = Cut(@, cut.size)]
  /\ posix' = Resize(posix, cut.size)
  /\ cut' = None
  /\ UNCHANGED <<node, remote, stamp, cuts, faults, latest>>
-----------------------------------------------------------------------------
(* Write *)

Fails == faults < MaxFaults /\ faults' = faults + 1

\* Seeded defect: a handle opened on an emptied file fetches the old content.
NeedsSeedUnlessCut(hd) == ~hd.seeded /\ hd.existing # 0

NeedsSeed(hd) == ~hd.seeded /\ ~hd.truncated /\ hd.existing # 0

\* io.Copy goes on where an earlier, broken copy stopped.
Seeded(hd) == IF NeedsSeed(hd) THEN hd.tmp \o remote[hd.existing] ELSE hd.tmp

\* The kernel's inode lock keeps a Write and a Setattr apart.
MayWrite(h) == Calm /\ cut = None /\ handle[h].at = "open" /\ ~handle[h].closed

\* Seeded defect: a Write after the upload asks for another one.
WriteRearms(h, off) ==
  LET hd == handle[h] IN
  /\ MayWrite(h)
  /\ stamp < start + MaxWrites
  /\ stamp' = stamp + 1
  /\ handle' = [handle EXCEPT ![h].tmp = WriteAt(Seeded(hd), off, stamp + 1),
                              ![h].seeded = @ \/ NeedsSeed(hd), ![h].wrote = TRUE,
                              ![h].uploaded = FALSE]
  /\ posix' = WriteAt(posix, off, stamp + 1)
  /\ UNCHANGED <<node, cut, remote, cuts, faults, latest>>

Write(h, off) ==
  LET hd == handle[h] IN
  /\ MayWrite(h)
  /\ stamp < start + MaxWrites
  /\ stamp' = stamp + 1
  /\ handle' = [handle EXCEPT ![h].tmp = WriteAt(Seeded(hd), off, stamp + 1),
                              ![h].seeded = @ \/ NeedsSeed(hd), ![h].wrote = TRUE,
                              ![h].late = @ \/ hd.uploaded]
  /\ posix' = WriteAt(posix, off, stamp + 1)
  /\ UNCHANGED <<node, cut, remote, cuts, faults, latest>>

\* The download fails, and the application sees EIO.
SeedFails(h) ==
  /\ MayWrite(h)
  /\ NeedsSeed(handle[h])
  /\ Fails
  /\ \/ UNCHANGED handle
     \/ /\ "tornSeed" \in Usage
        /\ \E n \in 1..Len(remote[handle[h].existing]) - 1 :
             handle' = [handle EXCEPT ![h].tmp = @ \o SubSeq(remote[handle[h].existing], 1, n)]
  /\ UNCHANGED <<node, cut, remote, posix, stamp, cuts, latest>>
-----------------------------------------------------------------------------
(* Flush and Release *)

\* `h.uploaded || !h.wrote` is a flush with nothing to do.
Pending(hd) == hd.wrote /\ ~hd.uploaded

\* file_id replaces the file; conflict=rename makes a new one, whatever is there
Target(hd) == IF hd.existing # 0 THEN hd.existing ELSE Len(remote) + 1

Stored(hd) == IF hd.existing # 0 THEN [remote EXCEPT ![hd.existing] = hd.tmp]
              ELSE Append(remote, hd.tmp)

\* onUploaded
Patched(hd) == [id |-> Target(hd), size |-> Len(hd.tmp)]

\* commitLocked succeeds, or fails before or after the server has stored the file
CommitDone(h)  == /\ remote' = Stored(handle[h])
                  /\ info' = Patched(handle[h])
                  /\ UNCHANGED faults

CommitFails(h) == /\ Fails
                  /\ remote' \in {remote, Stored(handle[h])}
                  /\ UNCHANGED info

\* A flush that commits is the last one, unless the descriptor has a duplicate.
Flush(h) ==
  /\ Calm
  /\ handle[h].at = "open" /\ Pending(handle[h])
  /\ \/ CommitDone(h) /\ handle' = [handle EXCEPT ![h].uploaded = TRUE,
                                                  ![h].closed = "flushBetween" \notin Usage]
     \/ CommitFails(h) /\ handle' = [handle EXCEPT ![h].closed = "flushBetween" \notin Usage]
  /\ UNCHANGED <<world, wh, cut, posix, stamp, cuts, latest>>

\* What the mount shows of the file: an edit that was given up is forgotten, but
\* for a truncate that is still the node's size.
Shown(nodeInfo, files) ==
  IF nodeInfo.size = 0 \/ nodeInfo.id = 0 THEN <<>> ELSE files[nodeInfo.id]

\* Seeded defect: no safety net, Release leaves the commit to Flush.
ReleaseWithoutCommit(h) ==
  /\ Calm
  /\ handle[h].at = "open"
  /\ handle' = [handle EXCEPT ![h].at = "closing", ![h].tmp = <<>>]
  /\ UNCHANGED <<info, remote, faults>>
  /\ posix' = Shown(info, remote)
  /\ UNCHANGED <<world, wh, cut, stamp, cuts, latest>>

\* under h.mu
Release(h) ==
  /\ Calm
  /\ handle[h].at = "open"
  /\ \/ Pending(handle[h]) /\ CommitDone(h)
     \/ Pending(handle[h]) /\ CommitFails(h)
     \/ ~Pending(handle[h]) /\ UNCHANGED <<info, remote, faults>>
  /\ handle' = [handle EXCEPT ![h].at = "closing", ![h].tmp = <<>>]
  /\ posix' = Shown(info', remote')
  /\ UNCHANGED <<world, wh, cut, stamp, cuts, latest>>

\* Seeded defect: the node's handle is cleared whoever it is.
ReleaseClearsAny(h) ==
  /\ Calm
  /\ handle[h].at = "closing"
  /\ handle' = [handle EXCEPT ![h].at = "gone"]
  /\ wh' = IF handle[h].linked THEN None ELSE wh
  /\ UNCHANGED <<world, info, cut, remote, posix, stamp, cuts, faults, latest>>

\* under node.mu, for a handle that Open made
ReleaseClears(h) ==
  /\ Calm
  /\ handle[h].at = "closing"
  /\ handle' = [handle EXCEPT ![h].at = "gone"]
  /\ wh' = IF handle[h].linked /\ wh = h THEN None ELSE wh
  /\ UNCHANGED <<world, info, cut, remote, posix, stamp, cuts, faults, latest>>

\* The kernel forgets the node, and the next Lookup makes one from the listing.
Forget ==
  /\ cut = None /\ \A h \in Handles : ~InUse(h)
  /\ info.id # 0
  /\ info' = [info EXCEPT !.size = Len(remote[info.id])]
  /\ posix' = remote[info.id]
  /\ UNCHANGED <<world, wh, handle, cut, remote, stamp, cuts, faults, latest>>

Next == \/ \E h \in Handles : \/ Create(h) \/ Open(h) \/ OpenReadsSize(h) \/ OpenPublishes(h)
                              \/ \E off \in 0..MaxSize - 1 : Write(h, off)
                              \/ SeedFails(h) \/ Flush(h)
                              \/ Release(h) \/ ReleaseClears(h)
        \/ \E n \in 0..MaxSize : SetSize(n)
        \/ TruncateTo
        \/ Forget

Spec == Init /\ [][Next]_vars
-----------------------------------------------------------------------------
(* Properties *)

\* one handle at a time, and no call of the kernel during an Open or a Setattr
Alone == Usage \cap {"share", "race"} = {}

\* "the kernel's FLUSH/WRITE ordering can't drop data", "a short rewrite doesn't
\* keep a stale tail", "a partial write doesn't blank the rest of the file":
\* whatever is uploaded is the file as the applications made it, whole, and goes
\* into one remote file, however often it is opened again, as long as no upload
\* fails.
UploadsTheFile ==
  [][Alone =>
       /\ \A i \in DOMAIN remote' :
            (i \in DOMAIN remote /\ remote'[i] = remote[i]) \/ remote'[i] = posix
       /\ faults = 0 => Len(remote') <= 1]_vars

\* h, which wrote, is released without an error, and its file is what the
\* applications see.  (A truncate with no write after it is not persisted.)
ReleasedWhole(h) ==
  handle'[h].at = "closing" /\ handle[h].at = "open"
    /\ handle[h].wrote /\ faults' = faults /\ posix # <<>>
  => info'.id \in DOMAIN remote' /\ remote'[info'.id] = posix

\* "with Release as a safety net": whatever a handle wrote before its content was
\* uploaded is stored once it is released, if its flush failed, never came or came
\* between the writes.  It says nothing of a handle written to after its upload.
ReleaseKeepsWrites ==
  [][Alone => \A h \in Handles : ~handle[h].late => ReleasedWhole(h)]_vars

\* "Release commits content written but not yet flushed (writes after the last
\* Flush)": the same of every handle.  The code does not keep this, see WriteDup.
ReleaseLosesNothing ==
  [][Alone => \A h \in Handles : ReleasedWhole(h)]_vars

\* "active write handle, so a late Setattr(size) can truncate it": the handle
\* opened last is the node's until it is released, whatever earlier handles do,
\* and a released handle never stays the node's.
LatestIsActive ==
  /\ latest # None /\ handle[latest].at = "open" => wh = latest
  /\ wh # None => handle[wh].at \in {"open", "closing"}

\* "commits them to the server once": a handle that is to make the file makes one,
\* however it is flushed, written to again and released, and whatever the other
\* handles of the file do.  A second one is left by an upload that failed, or by a
\* handle opened before the first upload; a file that exists is only replaced.
OneFilePerHandle ==
  Len(remote) <= (IF start > 0 THEN 1 ELSE 0) + faults
                   + Cardinality({h \in Handles : handle[h].wrote /\ handle[h].existing = 0})
=============================================================================
