---------------------------- MODULE ManifestFile ----------------------------
(***************************************************************************)
(* The manifest on disk (infrastructure/manifest/store.go): what Load      *)
(* makes of the text that Save wrote, when processes are killed between    *)
(* any two steps of Save, when its operations fail, and when two processes *)
(* keep the same manifest, as nothing stops them from.                     *)
(*                                                                         *)
(* Save writes a temporary file, whose name is the manifest's with .tmp    *)
(* appended whoever writes it, and renames it into place.  A file is an    *)
(* inode: a rename moves the name, not what another process has open.      *)
(*                                                                         *)
(* A text is a sequence of characters, in which a whole number is one, and *)
(* a record has one number for the four of an Entry.  Characters of a name *)
(* are those the format treats apart, and "a" and "b" for all others.      *)
(* Abstracted: the header's version (a line that begins with # is skipped),*)
(* lines beyond Load's buffer of 1 MiB, the missing fsync.                 *)
(***************************************************************************)
EXTENDS Integers, SequencesExt, FiniteSetsExt

Tab  == "tab"
LF   == "newline"
CR   == "return"
Hash == "#"
Digits == {"0", "1"}
Nul  == "nul"

CONSTANTS Procs,     \* processes that keep the manifest
          Names,     \* names of files in sorted order, sequences of characters
          Saved,     \* manifests that runs come to save: name -> number
          MaxSaves,  \* bound: calls of Save
          MaxFaults, \* bound: failing operations
          MaxKills   \* bound: processes killed

Chars == {"a", "b", Tab, LF, CR, Hash}

ASSUME ManifestAssumption ==
  /\ \A n \in DOMAIN Names : Names[n] # <<>> /\ ToSet(Names[n]) \subseteq Chars
  /\ \A m \in Saved : DOMAIN m \subseteq ToSet(Names) /\ \A r \in DOMAIN m : m[r] \in Digits
  /\ {MaxSaves, MaxFaults, MaxKills} \subseteq Nat

VARIABLES
  inode,    \* the contents of files: number -> text
  file,     \* the inode at the manifest's path, 0 if there is none
  tmp,      \* the inode at the temporary path, 0 if there is none
  proc,     \* process -> [at, m, fd, off]
  saves,    \* calls of Save so far
  faults,   \* operations that failed so far
  kills,    \* processes killed so far
  kept,     \* history: the manifest whose Save last renamed its file into place
  overlap   \* history: one Save has begun while another was under way

vars == <<inode, file, tmp, proc, saves, faults, kills, kept, overlap>>

Empty == [r \in {} |-> 0]

\* all manifests of these names
Manifests == UNION {[rels -> Digits] : rels \in SUBSET ToSet(Names)}

-----------------------------------------------------------------------------
(* The text of a manifest *)

Record(rel, e) == <<e, Tab>> \o rel \o <<LF>>

\* the header, then the records in the order of their names
Text(m) ==
  LET rels == SelectSeq(Names, LAMBDA r : r \in DOMAIN m)
  IN <<Hash, LF>> \o FlattenSeq([n \in DOMAIN rels |-> Record(rels[n], m[rels[n]])])

\* where lines begin, and where they end: before a newline, or with the text
Lines(text) ==
  LET breaks == {0, Len(text) + 1} \cup {n \in DOMAIN text : text[n] = LF}
  IN {<<b, c>> \in breaks \X breaks : b < c /\ \A n \in breaks : ~(b < n /\ n < c)}

\* bufio.ScanLines drops a carriage return at the end of a line
LineAt(text, l) ==
  LET line == SubSeq(text, l[1] + 1, l[2] - 1)
  IN IF line # <<>> /\ line[Len(line)] = CR THEN Front(line) ELSE line

\* the relpath is everything after the fourth tab, here the first
NameOf(line) == SubSeq(line, 3, Len(line))

WellFormed(line) ==
  Len(line) > 2 /\ line[1] \in Digits /\ line[2] = Tab

\* Load: an error (FALSE), or the records, a later one in the place of an earlier
Load(text) ==
  LET data == {l \in Lines(text) : LET line == LineAt(text, l)
                                   IN line # <<>> /\ line[1] # Hash}
      At(rel) == {l \in data : NameOf(LineAt(text, l)) = rel}
  IN IF \E l \in data : ~WellFormed(LineAt(text, l)) THEN <<FALSE, Empty>>
     ELSE <<TRUE, [rel \in {NameOf(LineAt(text, l)) : l \in data} |->
                     LET l == CHOOSE x \in At(rel) : \A y \in At(rel) : y[1] <= x[1]
                     IN LineAt(text, l)[1]]>>

\* a missing file yields an empty manifest
LoadFile == IF file = 0 THEN <<TRUE, Empty>> ELSE Load(inode[file])

-----------------------------------------------------------------------------
(* The processes *)

Idle == [at |-> "idle", m |-> Empty, fd |-> 0, off |-> 0]

Init == /\ kept \in Manifests
        /\ \/ kept = Empty /\ inode = <<>> /\ file = 0
           \/ inode = <<Text(kept)>> /\ file = 1
        /\ tmp = 0
        /\ proc = [p \in Procs |-> Idle]
        /\ saves = 0 /\ faults = 0 /\ kills = 0
        /\ overlap = FALSE

InSave(p) == proc[p].at \in {"write", "rename"}

Faulty == faults < MaxFaults /\ faults' = faults + 1

Others == UNCHANGED <<saves, kills, overlap>>

\* Seeded defect: the manifest itself is written over.
CreateInPlace(p) ==
  /\ ~InSave(p)
  /\ saves < MaxSaves /\ saves' = saves + 1
  /\ overlap' = (overlap \/ \E q \in Procs : InSave(q))
  /\ file # 0
  /\ \E m \in Saved :
       proc' = [proc EXCEPT ![p] = [at |-> "write", m |-> m, fd |-> file, off |-> 0]]
  /\ inode' = [inode EXCEPT ![file] = <<>>]
  /\ UNCHANGED <<file, tmp, faults, kills, kept>>

\* os.Create, which empties a file of that name; the manifest is what the run has
\* made of it by now
CreateTmp(p) ==
  /\ ~InSave(p)
  /\ saves < MaxSaves /\ saves' = saves + 1
  /\ overlap' = (overlap \/ \E q \in Procs : InSave(q))
  /\ \E m \in Saved :
       IF tmp = 0
       THEN /\ inode' = Append(inode, <<>>)
            /\ tmp' = Len(inode) + 1
            /\ proc' = [proc EXCEPT ![p] = [at |-> "write", m |-> m, fd |-> tmp', off |-> 0]]
       ELSE /\ inode' = [inode EXCEPT ![tmp] = <<>>]
            /\ proc' = [proc EXCEPT ![p] = [at |-> "write", m |-> m, fd |-> tmp, off |-> 0]]
            /\ UNCHANGED tmp
  /\ UNCHANGED <<file, faults, kills, kept>>

\* what a file holds once a part has been written over it; another process may have
\* emptied it, which leaves a hole
Over(old, off, part) ==
  [n \in 1..Max({Len(old), off + Len(part)}) |->
     IF off < n /\ n <= off + Len(part) THEN part[n - off]
     ELSE IF n <= Len(old) THEN old[n] ELSE Nul]

\* out.Write, in one system call or in several
WriteSome(p) ==
  LET data == Text(proc[p].m) IN
  /\ proc[p].at = "write"
  /\ \E end \in proc[p].off + 1..Len(data) :
       /\ inode' = [inode EXCEPT ![proc[p].fd] =
                      Over(@, proc[p].off, SubSeq(data, proc[p].off + 1, end))]
       /\ proc' = [proc EXCEPT ![p].off = end,
                               ![p].at = IF end = Len(data) THEN "rename" ELSE "write"]
  /\ UNCHANGED <<file, tmp, faults, kept>> /\ Others

\* Write, Close or Rename fails: os.Remove of the temporary name
SaveFails(p) ==
  /\ InSave(p)
  /\ Faulty \/ (proc[p].at = "rename" /\ tmp = 0 /\ UNCHANGED faults)
  /\ tmp' = 0
  /\ proc' = [proc EXCEPT ![p] = Idle]
  /\ UNCHANGED <<inode, file, kept>> /\ Others

\* os.Rename, of whatever file has the temporary name
Rename(p) ==
  /\ proc[p].at = "rename" /\ tmp # 0
  /\ file' = tmp /\ tmp' = 0
  /\ kept' = proc[p].m
  /\ proc' = [proc EXCEPT ![p] = Idle]
  /\ UNCHANGED <<inode, faults>> /\ Others

Kill(p) ==
  /\ InSave(p)
  /\ kills < MaxKills /\ kills' = kills + 1
  /\ proc' = [proc EXCEPT ![p] = Idle]
  /\ UNCHANGED <<inode, file, tmp, saves, faults, kept, overlap>>

Next == \E p \in Procs : \/ CreateTmp(p) \/ WriteSome(p) \/ SaveFails(p) \/ Rename(p)
                         \/ Kill(p)

Spec == Init /\ [][Next]_vars

-----------------------------------------------------------------------------
(* Properties *)

\* Names that come back from the text as they are: a newline would end the record,
\* and a carriage return at the end of the name would be dropped with it.
Clean(rel) == LF \notin ToSet(rel) /\ rel[Len(rel)] # CR

\* "Save writes the manifest to path atomically": a run that starts at any moment,
\* after any kills and failures, loads the manifest of the last Save that came to
\* its rename, entry by entry, unless a name in it is not clean or two processes
\* have been at it at once.
LoadsTheLastSave ==
  ~overlap /\ (\A rel \in DOMAIN kept : Clean(rel)) => LoadFile = <<TRUE, kept>>
=============================================================================
