-------------------------- MODULE WriteHandleProofs --------------------------
(***************************************************************************)
(* For any number of write handles, any sizes of files, and any number of  *)
(* writes, truncates and failed calls: which handle a late truncate        *)
(* reaches, how many remote files the handles of a file make, and what an  *)
(* edit in the plain way stores.                                           *)
(***************************************************************************)
EXTENDS WriteHandle, SequenceTheorems, FiniteSetTheorems, TLAPS

Content == Seq(Nat)

HandleState == [at : {"unused", "opening", "open", "closing", "gone"}, existing : Nat,
                tmp : Content, uploaded : BOOLEAN, wrote : BOOLEAN, truncated : BOOLEAN,
                seeded : BOOLEAN, linked : BOOLEAN, closed : BOOLEAN, late : BOOLEAN]

\* The types; the ids that are known are those of remote files.
Types ==
  /\ setting \in DOMAIN Settings /\ start \in Nat
  /\ info \in [id : Nat, size : Nat] /\ info.id <= Len(remote)
  /\ wh \in Handles \cup {None} /\ latest \in Handles \cup {None}
  /\ handle \in [Handles -> HandleState]
  /\ \A h \in Handles : handle[h].existing <= Len(remote)
  /\ cut # None => cut \in [size : Nat, wh : Handles \cup {None}]
  /\ remote \in Seq(Content) /\ posix \in Content
  /\ stamp \in Nat /\ cuts \in Nat /\ faults \in Nat

\* A world's bounds are numbers, and a pending truncate is not taken for none.
LEMMA WorldFacts ==
  ASSUME setting \in DOMAIN Settings
  PROVE  /\ MaxSize \in Nat /\ MaxWrites \in Nat /\ MaxCuts \in Nat /\ MaxFaults \in Nat
         /\ Starts \subseteq 0..MaxSize
         /\ \A n \in 0..MaxSize, h \in Handles \cup {None} : [size |-> n, wh |-> h] # None
         /\ None \notin Handles
<1> DEFINE s == Settings[setting]
<1>1. /\ s.starts \subseteq 0..s.maxSize
      /\ {s.maxSize, s.maxWrites, s.maxCuts, s.maxFaults} \subseteq Nat
      /\ \A n \in 0..s.maxSize, h \in Handles \cup {None} : [size |-> n, wh |-> h] # None
      /\ None \notin Handles
  BY WriteHandleAssumption
<1> QED
  BY <1>1 DEF MaxSize, MaxWrites, MaxCuts, MaxFaults, Starts

\* Functions on 1..n are sequences.
LEMMA SeqOfFunction ==
  ASSUME NEW S, NEW n \in Nat, NEW c \in [1..n -> S]
  PROVE  c \in Seq(S) /\ Len(c) = n
  OBVIOUS

\* A truncated or extended content is a content, of the size asked for.
LEMMA ResizeFacts ==
  ASSUME NEW c \in Content, NEW n \in Nat
  PROVE  /\ Resize(c, n) \in Content /\ Len(Resize(c, n)) = n
         /\ n = 0 => Resize(c, n) = <<>>
<1>1. \A i \in 1..n : i <= Len(c) => c[i] \in Nat
  BY DEF Content
<1>2. Resize(c, n) \in [1..n -> Nat]
  BY <1>1 DEF Resize
<1>3. Resize(c, n) \in Seq(Nat) /\ Len(Resize(c, n)) = n
  BY <1>2, SeqOfFunction
<1> QED
  BY <1>3, EmptySeq DEF Content

\* Writing a cell makes a content that is not empty.
LEMMA WriteAtFacts ==
  ASSUME NEW c \in Content, NEW off \in Nat, NEW cell \in Nat
  PROVE  WriteAt(c, off, cell) \in Content
<1> DEFINE n == IF off < Len(c) THEN Len(c) ELSE off + 1
<1>1. n \in Nat /\ off + 1 \in 1..n
  BY DEF Content
<1>2. Resize(c, n) \in Seq(Nat) /\ Len(Resize(c, n)) = n
  BY <1>1, ResizeFacts DEF Content
<1>3. WriteAt(c, off, cell) = [Resize(c, n) EXCEPT ![off + 1] = cell]
  BY DEF WriteAt
<1> HIDE DEF n
<1> QED
  BY <1>1, <1>2, <1>3 DEF Content

\* Changing one handle keeps the types, and the other handles.
LEMMA OneHandle ==
  ASSUME handle \in [Handles -> HandleState], NEW h \in Handles, NEW new \in HandleState,
         handle' = [handle EXCEPT ![h] = new]
  PROVE  /\ handle' \in [Handles -> HandleState] /\ handle'[h] = new
         /\ \A k \in Handles \ {h} : handle'[k] = handle[k]
  OBVIOUS
-----------------------------------------------------------------------------
(* What each action does to its handle.                                     *)

\* A new handle is of the type of handles.
LEMMA NewHandleFacts ==
  ASSUME NEW id \in Nat
  PROVE  /\ NewHandle(id) \in HandleState
         /\ NewHandle(id).at = "opening" /\ NewHandle(id).existing = id /\ NewHandle(id).tmp = <<>>
         /\ ~NewHandle(id).wrote /\ ~NewHandle(id).uploaded /\ ~NewHandle(id).seeded
         /\ ~NewHandle(id).truncated /\ ~NewHandle(id).linked /\ ~NewHandle(id).closed
<1>1. <<>> \in Content
  BY DEF Content
<1> QED
  BY <1>1 DEF NewHandle, HandleState

\* Create makes an open handle of a file that has no id.
LEMMA CreateEffect ==
  ASSUME Types, NEW h \in Handles, Create(h)
  PROVE  /\ handle' \in [Handles -> HandleState]
         /\ \A k \in Handles \ {h} : handle'[k] = handle[k]
         /\ LET hd == handle'[h] IN
            /\ hd.at = "open" /\ hd.existing = 0 /\ hd.tmp = <<>>
            /\ ~hd.wrote /\ ~hd.uploaded /\ ~hd.seeded /\ ~hd.truncated /\ ~hd.linked
<1> DEFINE new == [NewHandle(0) EXCEPT !.at = "open"]
<1>1. /\ new \in HandleState /\ new.at = "open" /\ new.existing = 0 /\ new.tmp = <<>>
      /\ ~new.wrote /\ ~new.uploaded /\ ~new.seeded /\ ~new.truncated /\ ~new.linked
  BY NewHandleFacts DEF HandleState
<1>2. handle' = [handle EXCEPT ![h] = new]
  BY DEF Create
<1> HIDE DEF new
<1> QED
  BY <1>1, <1>2, OneHandle DEF Types

\* Open makes a handle of the file the node knows.
LEMMA OpenEffect ==
  ASSUME Types, NEW h \in Handles, Open(h)
  PROVE  /\ handle' \in [Handles -> HandleState]
         /\ \A k \in Handles \ {h} : handle'[k] = handle[k]
         /\ LET hd == handle'[h] IN
            /\ hd.at = "opening" /\ hd.existing = info.id /\ hd.tmp = <<>>
            /\ ~hd.wrote /\ ~hd.uploaded /\ ~hd.seeded /\ ~hd.truncated /\ ~hd.linked
<1>1. info.id \in Nat
  BY DEF Types
<1> DEFINE new == NewHandle(info.id)
<1>2. handle' = [handle EXCEPT ![h] = new]
  BY DEF Open
<1>3. /\ new \in HandleState /\ new.at = "opening" /\ new.existing = info.id /\ new.tmp = <<>>
      /\ ~new.wrote /\ ~new.uploaded /\ ~new.seeded /\ ~new.truncated /\ ~new.linked
  BY <1>1, NewHandleFacts
<1> HIDE DEF new
<1> QED
  BY <1>2, <1>3, OneHandle DEF Types

\* Reading the size is what decides whether the content need be fetched.
LEMMA OpenReadsSizeEffect ==
  ASSUME Types, NEW h \in Handles, OpenReadsSize(h)
  PROVE  /\ handle' \in [Handles -> HandleState]
         /\ \A k \in Handles \ {h} : handle'[k] = handle[k]
         /\ LET hd == handle'[h] IN
            /\ hd.at = "opening" /\ hd.existing = handle[h].existing /\ hd.tmp = handle[h].tmp
            /\ hd.wrote = handle[h].wrote /\ hd.uploaded = handle[h].uploaded
            /\ hd.seeded = handle[h].seeded /\ hd.linked
            /\ \/ hd.truncated /\ (posix' = <<>> \/ (posix' = posix /\ info.size = 0))
               \/ ~hd.truncated /\ posix' = posix /\ info.size # 0
<1>1. PICK flag \in BOOLEAN :
        /\ handle' = [handle EXCEPT ![h].truncated = Truncated(flag), ![h].linked = TRUE]
        /\ posix' = IF flag THEN <<>> ELSE posix
  BY DEF OpenReadsSize
<1> DEFINE new == [handle[h] EXCEPT !.truncated = Truncated(flag), !.linked = TRUE]
<1>2. handle[h] \in HandleState /\ handle[h].at = "opening"
  BY DEF Types, OpenReadsSize
<1>3. Truncated(flag) \in BOOLEAN
  BY DEF Truncated
<1>4. /\ new \in HandleState /\ new.at = "opening" /\ new.existing = handle[h].existing
      /\ new.tmp = handle[h].tmp /\ new.wrote = handle[h].wrote
      /\ new.uploaded = handle[h].uploaded /\ new.seeded = handle[h].seeded
      /\ new.linked /\ new.truncated = Truncated(flag)
  BY <1>2, <1>3 DEF HandleState
<1>5. handle' = [handle EXCEPT ![h] = new]
  BY <1>1
<1> HIDE DEF new
<1>6. /\ handle' \in [Handles -> HandleState] /\ handle'[h] = new
      /\ \A k \in Handles \ {h} : handle'[k] = handle[k]
  BY <1>4, <1>5, OneHandle DEF Types
<1>7. \/ Truncated(flag) /\ (posix' = <<>> \/ (posix' = posix /\ info.size = 0))
      \/ ~Truncated(flag) /\ posix' = posix /\ info.size # 0
  <2>1. CASE flag
    <3>1. Truncated(flag)
      BY <2>1 DEF Truncated
    <3>2. posix' = <<>>
      BY <1>1, <2>1
    <3> QED
      BY <3>1, <3>2, Zenon
  <2>2. CASE ~flag
    BY <1>1, <2>2, Zenon DEF Truncated
  <2> QED
    BY <2>1, <2>2
<1> QED
  BY <1>4, <1>6, <1>7

\* Once published the handle is open, and as it was.
LEMMA OpenPublishesEffect ==
  ASSUME Types, NEW h \in Handles, OpenPublishes(h)
  PROVE  /\ handle' \in [Handles -> HandleState]
         /\ \A k \in Handles \ {h} : handle'[k] = handle[k]
         /\ LET hd == handle'[h] IN
            /\ hd.at = "open" /\ hd.existing = handle[h].existing /\ hd.tmp = handle[h].tmp
            /\ hd.wrote = handle[h].wrote /\ hd.uploaded = handle[h].uploaded
            /\ hd.seeded = handle[h].seeded /\ hd.linked /\ hd.truncated = handle[h].truncated
<1> DEFINE new == [handle[h] EXCEPT !.at = "open"]
<1>1. handle[h] \in HandleState /\ handle[h].linked
  BY DEF Types, OpenPublishes
<1>2. /\ new \in HandleState /\ new.at = "open" /\ new.existing = handle[h].existing
      /\ new.tmp = handle[h].tmp /\ new.wrote = handle[h].wrote
      /\ new.uploaded = handle[h].uploaded /\ new.seeded = handle[h].seeded
      /\ new.linked /\ new.truncated = handle[h].truncated
  BY <1>1 DEF HandleState
<1>3. handle' = [handle EXCEPT ![h] = new]
  BY DEF OpenPublishes
<1> HIDE DEF new
<1> QED
  BY <1>2, <1>3, OneHandle DEF Types

\* A truncate that reaches a handle leaves it nothing to fetch.
LEMMA TruncateToEffect ==
  ASSUME Types, TruncateTo
  PROVE  /\ handle' \in [Handles -> HandleState]
         /\ \A k \in Handles : k # cut.wh => handle'[k] = handle[k]
         /\ \A k \in Handles : k = cut.wh =>
              LET hd == handle'[k] IN
              /\ hd.at = handle[k].at /\ hd.existing = handle[k].existing
              /\ hd.wrote = handle[k].wrote /\ hd.uploaded = handle[k].uploaded
              /\ hd.linked = handle[k].linked /\ hd.closed = handle[k].closed
              /\ hd.truncated /\ hd.seeded
              /\ hd.tmp = IF hd.at = "open" THEN Resize(handle[k].tmp, cut.size) ELSE handle[k].tmp
<1>1. cut # None /\ cut.size \in Nat /\ cut.wh \in Handles \cup {None} /\ None \notin Handles
  BY WorldFacts DEF TruncateTo, Types
<1>2. CASE cut.wh = None
  BY <1>1, <1>2 DEF TruncateTo, Types
<1>3. CASE cut.wh # None
  <2> DEFINE h == cut.wh
             new == Cut(handle[h], cut.size)
             t   == IF handle[h].at = "open" THEN Resize(handle[h].tmp, cut.size) ELSE handle[h].tmp
  <2>1. h \in Handles /\ handle[h] \in HandleState
    BY <1>1, <1>3 DEF Types
  <2>2. t \in Content
    BY <1>1, <2>1, ResizeFacts DEF HandleState
  <2>3. new = [handle[h] EXCEPT !.truncated = TRUE, !.seeded = TRUE, !.tmp = t]
    BY <2>1 DEF Cut
  <2> HIDE DEF t
  <2>4. /\ new \in HandleState
        /\ new.at = handle[h].at /\ new.existing = handle[h].existing
        /\ new.wrote = handle[h].wrote /\ new.uploaded = handle[h].uploaded
        /\ new.linked = handle[h].linked /\ new.closed = handle[h].closed
        /\ new.truncated /\ new.seeded /\ new.tmp = t
    BY <2>1, <2>2, <2>3 DEF HandleState
  <2>5. handle' = [handle EXCEPT ![h] = new]
    BY <1>3 DEF TruncateTo
  <2> HIDE DEF new
  <2> QED
    BY <2>1, <2>4, <2>5, OneHandle DEF Types, t
<1> QED
  BY <1>2, <1>3

\* A Write buffers a cell, after the content was fetched if it had to be.
LEMMA WriteEffect ==
  ASSUME Types, NEW h \in Handles, NEW off \in 0..MaxSize - 1, Write(h, off)
  PROVE  /\ handle' \in [Handles -> HandleState]
         /\ \A k \in Handles \ {h} : handle'[k] = handle[k]
         /\ LET hd == handle'[h] IN
            /\ hd.at = "open" /\ hd.existing = handle[h].existing
            /\ hd.tmp = WriteAt(Seeded(handle[h]), off, stamp + 1)
            /\ hd.wrote /\ hd.uploaded = handle[h].uploaded
            /\ hd.seeded = (handle[h].seeded \/ NeedsSeed(handle[h]))
            /\ hd.truncated = handle[h].truncated /\ hd.linked = handle[h].linked
            /\ hd.uploaded => hd.late
         /\ Seeded(handle[h]) \in Content
<1>1. off \in Nat /\ stamp \in Nat /\ handle[h] \in HandleState
  BY WorldFacts DEF Types
<1>2. Seeded(handle[h]) \in Content
  <2>1. handle[h].tmp \in Content
    BY <1>1 DEF HandleState
  <2>2. CASE NeedsSeed(handle[h])
    <3>1. handle[h].existing \in 1..Len(remote)
      BY <1>1, <2>2 DEF NeedsSeed, Types, HandleState
    <3>2. remote[handle[h].existing] \in Content
      BY <3>1, ElementOfSeq DEF Types
    <3> QED
      BY <2>1, <2>2, <3>2, ConcatProperties DEF Seeded, Content
  <2>3. CASE ~NeedsSeed(handle[h])
    BY <2>1, <2>3 DEF Seeded
  <2> QED
    BY <2>2, <2>3
<1> DEFINE t   == WriteAt(Seeded(handle[h]), off, stamp + 1)
           s   == handle[h].seeded \/ NeedsSeed(handle[h])
           l   == handle[h].late \/ handle[h].uploaded
           new == [handle[h] EXCEPT !.tmp = t, !.seeded = s, !.wrote = TRUE, !.late = l]
<1>3. t \in Content
  BY <1>1, <1>2, WriteAtFacts
<1>4. s \in BOOLEAN /\ l \in BOOLEAN /\ (handle[h].uploaded => l)
  OBVIOUS
<1>5. handle' = [handle EXCEPT ![h] = new]
  BY DEF Write
<1> HIDE DEF t, s, l
<1>6. /\ new \in HandleState /\ new.late = l /\ new.at = handle[h].at /\ new.existing = handle[h].existing
      /\ new.tmp = t /\ new.wrote /\ new.uploaded = handle[h].uploaded /\ new.seeded = s
      /\ new.truncated = handle[h].truncated /\ new.linked = handle[h].linked
  BY <1>1, <1>3, <1>4 DEF HandleState
<1>7. handle[h].at = "open"
  BY DEF Write, MayWrite
<1> HIDE DEF new
<1>8. new.uploaded => new.late
  BY <1>4, <1>6
<1> QED
  BY <1>2, <1>5, <1>6, <1>7, <1>8, OneHandle DEF Types, t, s

\* A download that fails leaves at most a part of the content in the buffer.
LEMMA SeedFailsEffect ==
  ASSUME Types, NEW h \in Handles, SeedFails(h)
  PROVE  /\ handle' \in [Handles -> HandleState]
         /\ \A k \in Handles \ {h} : handle'[k] = handle[k]
         /\ LET hd == handle'[h] IN
            /\ hd.at = "open" /\ hd.existing = handle[h].existing
            /\ hd.wrote = handle[h].wrote /\ hd.uploaded = handle[h].uploaded
            /\ hd.seeded = handle[h].seeded /\ hd.truncated = handle[h].truncated
            /\ hd.linked = handle[h].linked
         /\ "tornSeed" \notin Usage => UNCHANGED handle
<1>1. handle[h] \in HandleState /\ handle[h].at = "open" /\ NeedsSeed(handle[h])
  BY DEF Types, SeedFails, MayWrite
<1>2. CASE UNCHANGED handle
  BY <1>1, <1>2 DEF Types
<1>3. CASE /\ "tornSeed" \in Usage
           /\ \E n \in 1..Len(remote[handle[h].existing]) - 1 :
                handle' = [handle EXCEPT ![h].tmp = @ \o SubSeq(remote[handle[h].existing], 1, n)]
  <2> DEFINE old == remote[handle[h].existing]
  <2>1. PICK n \in 1..Len(old) - 1 : handle' = [handle EXCEPT ![h].tmp = @ \o SubSeq(old, 1, n)]
    BY <1>3
  <2>2. handle[h].existing \in 1..Len(remote)
    BY <1>1 DEF NeedsSeed, Types, HandleState
  <2>3. old \in Content
    BY <2>2, ElementOfSeq DEF Types
  <2>4. SubSeq(old, 1, n) \in Content
    BY <2>3, SubSeqProperties DEF Content
  <2> DEFINE t   == handle[h].tmp \o SubSeq(old, 1, n)
             new == [handle[h] EXCEPT !.tmp = t]
  <2>5. t \in Content
    BY <1>1, <2>4, ConcatProperties DEF HandleState, Content
  <2>6. handle' = [handle EXCEPT ![h] = new]
    BY <2>1
  <2> HIDE DEF t
  <2>7. /\ new \in HandleState /\ new.at = handle[h].at /\ new.existing = handle[h].existing
        /\ new.wrote = handle[h].wrote /\ new.uploaded = handle[h].uploaded
        /\ new.seeded = handle[h].seeded /\ new.truncated = handle[h].truncated
        /\ new.linked = handle[h].linked
    BY <1>1, <2>5 DEF HandleState
  <2> HIDE DEF new
  <2> QED
    BY <1>1, <1>3, <2>6, <2>7, OneHandle DEF Types
<1> QED
  BY <1>2, <1>3 DEF SeedFails

\* What the server keeps after a commit: the buffer, in the file it replaces or in
\* a new one.
LEMMA StoredFacts ==
  ASSUME Types, NEW h \in Handles
  PROVE  LET hd == handle[h] IN
         /\ Stored(hd) \in Seq(Content) /\ Len(remote) <= Len(Stored(hd))
         /\ Target(hd) \in 1..Len(Stored(hd)) /\ Stored(hd)[Target(hd)] = hd.tmp
         /\ \A i \in 1..Len(Stored(hd)) \ {Target(hd)} : i \in 1..Len(remote) /\ Stored(hd)[i] = remote[i]
         /\ hd.existing # 0 => Len(Stored(hd)) = Len(remote) /\ Target(hd) = hd.existing
         /\ hd.existing = 0 => Len(Stored(hd)) = Len(remote) + 1 /\ Target(hd) = Len(remote) + 1
<1> DEFINE hd == handle[h]
<1>1. /\ hd.existing \in Nat /\ hd.existing <= Len(remote) /\ hd.tmp \in Content
      /\ remote \in Seq(Content)
  BY DEF Types, HandleState
<1> HIDE DEF hd
<1>2. CASE hd.existing # 0
  <2>1. Stored(hd) = [remote EXCEPT ![hd.existing] = hd.tmp] /\ Target(hd) = hd.existing
    BY <1>2 DEF Stored, Target
  <2> QED
    BY <1>1, <1>2, <2>1 DEF hd
<1>3. CASE hd.existing = 0
  <2>1. Stored(hd) = Append(remote, hd.tmp) /\ Target(hd) = Len(remote) + 1
    BY <1>3 DEF Stored, Target
  <2> QED
    BY <1>1, <1>3, <2>1, AppendProperties DEF hd
<1> QED
  BY <1>2, <1>3

\* A commit leaves the server as it was, or with the buffer stored; the node is
\* told of it only when the answer has come.
LEMMA CommitFacts ==
  ASSUME Types, NEW h \in Handles, CommitDone(h) \/ CommitFails(h)
  PROVE  /\ remote' \in Seq(Content) /\ Len(remote) <= Len(remote')
         /\ remote' = remote \/ remote' = Stored(handle[h])
         /\ info' \in [id : Nat, size : Nat] /\ info'.id <= Len(remote')
         /\ faults' \in Nat
         /\ CommitDone(h) => /\ remote' = Stored(handle[h]) /\ faults' = faults
                             /\ info'.id = Target(handle[h]) /\ info'.size = Len(handle[h].tmp)
         /\ CommitFails(h) => info' = info /\ faults' = faults + 1
<1> DEFINE hd == handle[h]
<1>1. /\ Stored(hd) \in Seq(Content) /\ Len(remote) <= Len(Stored(hd))
      /\ Target(hd) \in 1..Len(Stored(hd)) /\ Len(hd.tmp) \in Nat
  BY StoredFacts DEF Types, HandleState, Content
<1>2. /\ info \in [id : Nat, size : Nat] /\ info.id <= Len(remote) /\ faults \in Nat
      /\ remote \in Seq(Content)
  BY DEF Types
<1>3. CASE CommitDone(h)
  <2>1. /\ remote' = Stored(hd) /\ faults' = faults
        /\ info' = [id |-> Target(hd), size |-> Len(hd.tmp)]
    BY <1>3 DEF CommitDone, Patched
  <2>2. info' \in [id : Nat, size : Nat] /\ info'.id = Target(hd) /\ info'.size = Len(hd.tmp)
    BY <1>1, <2>1
  <2>3. ~CommitFails(h)
    BY <1>2, <2>1 DEF CommitFails, Fails
  <2> QED
    BY <1>1, <1>2, <2>1, <2>2, <2>3
<1>4. CASE CommitFails(h)
  <2>1. (remote' = remote \/ remote' = Stored(hd)) /\ info' = info /\ faults' = faults + 1
    BY <1>4 DEF CommitFails, Fails
  <2>2. ~CommitDone(h)
    BY <1>2, <2>1 DEF CommitDone
  <2> QED
    BY <1>1, <1>2, <2>1, <2>2
<1> QED
  BY <1>3, <1>4

\* A Flush marks its handle, and commits what is pending.
LEMMA FlushEffect ==
  ASSUME Types, NEW h \in Handles, Flush(h)
  PROVE  /\ handle' \in [Handles -> HandleState]
         /\ \A k \in Handles \ {h} : handle'[k] = handle[k]
         /\ LET hd == handle'[h] IN
            /\ hd.at = "open" /\ hd.existing = handle[h].existing /\ hd.tmp = handle[h].tmp
            /\ hd.wrote = handle[h].wrote /\ hd.seeded = handle[h].seeded
            /\ hd.truncated = handle[h].truncated /\ hd.linked = handle[h].linked
            /\ \/ CommitDone(h) /\ hd.uploaded
               \/ CommitFails(h) /\ hd.uploaded = handle[h].uploaded
<1> DEFINE c    == "flushBetween" \notin Usage
           done == [handle[h] EXCEPT !.uploaded = TRUE, !.closed = c]
           fail == [handle[h] EXCEPT !.closed = c]
<1>1. handle[h] \in HandleState /\ handle[h].at = "open" /\ c \in BOOLEAN
  BY DEF Types, Flush
<1>2. \/ CommitDone(h) /\ handle' = [handle EXCEPT ![h] = done]
      \/ CommitFails(h) /\ handle' = [handle EXCEPT ![h] = fail]
  BY DEF Flush
<1> HIDE DEF c
<1>3. /\ done \in HandleState /\ done.at = "open" /\ done.existing = handle[h].existing
      /\ done.tmp = handle[h].tmp /\ done.wrote = handle[h].wrote
      /\ done.seeded = handle[h].seeded /\ done.truncated = handle[h].truncated
      /\ done.linked = handle[h].linked /\ done.closed = c /\ done.uploaded
  BY <1>1 DEF HandleState
<1>4. /\ fail \in HandleState /\ fail.at = "open" /\ fail.existing = handle[h].existing
      /\ fail.tmp = handle[h].tmp /\ fail.wrote = handle[h].wrote
      /\ fail.seeded = handle[h].seeded /\ fail.truncated = handle[h].truncated
      /\ fail.linked = handle[h].linked /\ fail.closed = c /\ fail.uploaded = handle[h].uploaded
  BY <1>1 DEF HandleState
<1> HIDE DEF done, fail
<1>5. CASE CommitDone(h) /\ handle' = [handle EXCEPT ![h] = done]
  BY <1>3, <1>5, OneHandle DEF Types, c
<1>6. CASE CommitFails(h) /\ handle' = [handle EXCEPT ![h] = fail]
  BY <1>4, <1>6, OneHandle DEF Types, c
<1> QED
  BY <1>2, <1>5, <1>6

\* The first half of Release gives up the buffer.
LEMMA ReleaseEffect ==
  ASSUME Types, NEW h \in Handles, Release(h)
  PROVE  /\ handle' \in [Handles -> HandleState]
         /\ \A k \in Handles \ {h} : handle'[k] = handle[k]
         /\ LET hd == handle'[h] IN
            /\ hd.at = "closing" /\ hd.existing = handle[h].existing
            /\ hd.wrote = handle[h].wrote /\ hd.linked = handle[h].linked
<1> DEFINE new == [handle[h] EXCEPT !.at = "closing", !.tmp = <<>>]
<1>1. handle[h] \in HandleState /\ <<>> \in Content
  BY DEF Types, Content
<1>2. /\ new \in HandleState /\ new.at = "closing" /\ new.existing = handle[h].existing
      /\ new.wrote = handle[h].wrote /\ new.linked = handle[h].linked
  BY <1>1 DEF HandleState
<1>3. handle' = [handle EXCEPT ![h] = new]
  BY DEF Release
<1> HIDE DEF new
<1> QED
  BY <1>2, <1>3, OneHandle DEF Types

\* The second half takes the handle out of use.
LEMMA ReleaseClearsEffect ==
  ASSUME Types, NEW h \in Handles, ReleaseClears(h)
  PROVE  /\ handle' \in [Handles -> HandleState]
         /\ \A k \in Handles \ {h} : handle'[k] = handle[k]
         /\ LET hd == handle'[h] IN
            /\ hd.at = "gone" /\ hd.existing = handle[h].existing
            /\ hd.wrote = handle[h].wrote
<1> DEFINE new == [handle[h] EXCEPT !.at = "gone"]
<1>1. handle[h] \in HandleState
  BY DEF Types
<1>2. /\ new \in HandleState /\ new.at = "gone" /\ new.existing = handle[h].existing
      /\ new.wrote = handle[h].wrote
  BY <1>1 DEF HandleState
<1>3. handle' = [handle EXCEPT ![h] = new]
  BY DEF ReleaseClears
<1> HIDE DEF new
<1> QED
  BY <1>2, <1>3, OneHandle DEF Types

\* What the mount shows is a content.
LEMMA ShownType ==
  ASSUME NEW i \in [id : Nat, size : Nat], NEW files \in Seq(Content), i.id <= Len(files)
  PROVE  Shown(i, files) \in Content
<1>1. CASE i.size = 0 \/ i.id = 0
  BY <1>1 DEF Shown, Content
<1>2. CASE ~(i.size = 0 \/ i.id = 0)
  <2>1. i.id \in 1..Len(files)
    BY <1>2
  <2> QED
    BY <1>2, <2>1, ElementOfSeq DEF Shown
<1> QED
  BY <1>1, <1>2
-----------------------------------------------------------------------------
(* The types.                                                               *)

\* A file starts with every variable of its type.
LEMMA TypesInit == Init => Types
<1> SUFFICES ASSUME Init PROVE Types
  OBVIOUS
<1>1. setting \in DOMAIN Settings /\ start \in 0..MaxSize /\ start \in Nat
  <2>1. setting \in DOMAIN Settings /\ start \in Starts
    BY DEF Init
  <2> QED
    BY <2>1, WorldFacts
<1>2. StartContent \in Content
  <2>1. StartContent \in [1..start -> Nat]
    BY DEF StartContent
  <2> QED
    BY <1>1, <2>1, SeqOfFunction DEF Content
<1>3. /\ info \in [id : Nat, size : Nat]
      /\ (start > 0 => info.id = 1) /\ (~(start > 0) => info.id = 0)
  BY <1>1 DEF Init
<1>4. /\ remote \in Seq(Content)
      /\ (start > 0 => Len(remote) = 1) /\ (~(start > 0) => Len(remote) = 0)
  <2>1. CASE start > 0
    <3>1. remote = <<StartContent>>
      BY <2>1 DEF Init
    <3> QED
      BY <1>2, <2>1, <3>1
  <2>2. CASE ~(start > 0)
    <3>1. remote = <<>>
      BY <2>2 DEF Init
    <3> QED
      BY <2>2, <3>1, EmptySeq
  <2> QED
    BY <2>1, <2>2
<1>5. Unused \in HandleState /\ Unused.existing = 0
  BY NewHandleFacts DEF Unused, HandleState
<1>6. handle \in [Handles -> HandleState] /\ \A h \in Handles : handle[h].existing <= Len(remote)
  BY <1>4, <1>5 DEF Init
<1>7. /\ wh \in Handles \cup {None} /\ latest \in Handles \cup {None} /\ cut = None
      /\ stamp \in Nat /\ cuts \in Nat /\ faults \in Nat /\ posix \in Content
  BY <1>1, <1>2 DEF Init
<1>8. info.id <= Len(remote)
  <2>1. CASE start > 0
    BY <1>3, <1>4, <2>1
  <2>2. CASE ~(start > 0)
    BY <1>3, <1>4, <2>2
  <2> QED
    BY <2>1, <2>2
<1> QED
  BY <1>1, <1>3, <1>4, <1>6, <1>7, <1>8 DEF Types

\* A step of one handle that changes no file's identity keeps the types.
LEMMA TypesQuiet ==
  ASSUME Types, handle' \in [Handles -> HandleState], NEW h \in Handles,
         \A k \in Handles \ {h} : handle'[k] = handle[k],
         handle'[h].existing <= Len(remote'), Len(remote) <= Len(remote'),
         remote' \in Seq(Content), posix' \in Content,
         UNCHANGED <<world, cuts>>, stamp' \in Nat, faults' \in Nat,
         info' \in [id : Nat, size : Nat], info'.id <= Len(remote'),
         wh' \in Handles \cup {None}, latest' \in Handles \cup {None}, UNCHANGED cut
  PROVE  Types'
<1>1. \A k \in Handles : handle'[k].existing <= Len(remote')
  <2> TAKE k \in Handles
  <2>1. handle[k].existing \in Nat /\ handle[k].existing <= Len(remote)
    BY DEF Types, HandleState
  <2>2. Len(remote) \in Nat /\ Len(remote') \in Nat
    BY DEF Types
  <2>3. CASE k = h
    BY <2>3
  <2>4. CASE k # h
    BY <2>1, <2>2, <2>4
  <2> QED
    BY <2>3, <2>4
<1> QED
  BY <1>1 DEF Types, world

\* A step of one handle that leaves the server and the node's info alone.
LEMMA TypesLocal ==
  ASSUME Types, handle' \in [Handles -> HandleState], NEW h \in Handles,
         \A k \in Handles \ {h} : handle'[k] = handle[k],
         handle'[h].existing \in {0, info.id, handle[h].existing}, posix' \in Content,
         UNCHANGED <<world, info, remote, cuts, cut>>, stamp' \in Nat, faults' \in Nat,
         wh' \in Handles \cup {None}, latest' \in Handles \cup {None}
  PROVE  Types'
<1>1. /\ handle[h].existing <= Len(remote) /\ info.id <= Len(remote) /\ Len(remote) \in Nat
      /\ remote \in Seq(Content) /\ info \in [id : Nat, size : Nat]
  BY DEF Types
<1>2. handle'[h].existing <= Len(remote)
  BY <1>1
<1> QED
  BY <1>1, <1>2, TypesQuiet

\* One step on a file keeps the types.
LEMMA TypesStep == Types /\ [Next]_vars => Types'
<1> SUFFICES ASSUME Types, [Next]_vars PROVE Types'
  OBVIOUS
<1> USE DEF node
<1>0. /\ info \in [id : Nat, size : Nat] /\ info.id <= Len(remote) /\ remote \in Seq(Content)
      /\ Len(remote) \in Nat /\ posix \in Content /\ stamp \in Nat /\ faults \in Nat /\ cuts \in Nat
      /\ wh \in Handles \cup {None} /\ latest \in Handles \cup {None}
      /\ \A h \in Handles : handle[h].existing <= Len(remote)
      /\ <<>> \in Content
  BY DEF Types, Content
<1>1. ASSUME NEW h \in Handles, Create(h) PROVE Types'
  <2>1. UNCHANGED <<world, info, wh, cut, remote, posix, stamp, cuts, faults, latest>>
    BY <1>0, <1>1 DEF Create
  <2> QED
    BY <1>0, <1>1, <2>1, CreateEffect, TypesLocal
<1>2. ASSUME NEW h \in Handles, Open(h) PROVE Types'
  <2>1. UNCHANGED <<world, info, wh, cut, remote, posix, stamp, cuts, faults, latest>>
    BY <1>0, <1>2 DEF Open
  <2> QED
    BY <1>0, <1>2, <2>1, OpenEffect, TypesLocal
<1>3. ASSUME NEW h \in Handles, OpenReadsSize(h) PROVE Types'
  <2>1. UNCHANGED <<world, info, wh, cut, remote, stamp, cuts, faults, latest>>
    BY <1>3 DEF OpenReadsSize
  <2>2. posix' \in Content
    BY <1>0, <1>3 DEF OpenReadsSize
  <2> QED
    BY <1>0, <1>3, <2>1, <2>2, OpenReadsSizeEffect, TypesLocal
<1>4. ASSUME NEW h \in Handles, OpenPublishes(h) PROVE Types'
  <2>1. /\ UNCHANGED <<world, info, cut, remote, posix, stamp, cuts, faults>>
        /\ wh' = h /\ latest' = h
    BY <1>4 DEF OpenPublishes
  <2> QED
    BY <1>0, <1>4, <2>1, OpenPublishesEffect, TypesLocal
<1>5. ASSUME NEW h \in Handles, NEW off \in 0..MaxSize - 1, Write(h, off) PROVE Types'
  <2>1. off \in Nat /\ stamp + 1 \in Nat
    BY <1>0, WorldFacts DEF Types
  <2>2. /\ posix' = WriteAt(posix, off, stamp + 1) /\ stamp' = stamp + 1
        /\ UNCHANGED <<world, info, wh, cut, remote, cuts, faults, latest>>
    BY <1>5 DEF Write
  <2>3. posix' \in Content
    BY <1>0, <2>1, <2>2, WriteAtFacts
  <2> QED
    BY <1>0, <1>5, <2>1, <2>2, <2>3, WriteEffect, TypesLocal
<1>6. ASSUME NEW h \in Handles, SeedFails(h) PROVE Types'
  <2>1. /\ UNCHANGED <<world, info, wh, cut, remote, posix, stamp, cuts, latest>>
        /\ faults' \in Nat
    BY <1>0, <1>6 DEF SeedFails, Fails
  <2> QED
    BY <1>0, <1>6, <2>1, SeedFailsEffect, TypesLocal
<1>7. ASSUME NEW h \in Handles, Flush(h) PROVE Types'
  <2>1. CommitDone(h) \/ CommitFails(h)
    BY <1>7 DEF Flush
  <2>2. /\ remote' \in Seq(Content) /\ Len(remote) <= Len(remote') /\ Len(remote') \in Nat
        /\ info' \in [id : Nat, size : Nat] /\ info'.id <= Len(remote') /\ faults' \in Nat
    BY <2>1, CommitFacts
  <2>3. handle'[h].existing <= Len(remote')
    <3>1. handle'[h].existing = handle[h].existing /\ handle[h].existing \in Nat
      BY <1>7, FlushEffect DEF Types, HandleState
    <3> QED
      BY <1>0, <2>2, <3>1
  <2> QED
    BY <1>0, <1>7, <2>2, <2>3, FlushEffect, TypesQuiet DEF Flush
<1>8. ASSUME NEW h \in Handles, Release(h) PROVE Types'
  <2>1. /\ remote' \in Seq(Content) /\ Len(remote) <= Len(remote') /\ Len(remote') \in Nat
        /\ info' \in [id : Nat, size : Nat] /\ info'.id <= Len(remote') /\ faults' \in Nat
    <3>1. CommitDone(h) \/ CommitFails(h) \/ UNCHANGED <<info, remote, faults>>
      BY <1>8 DEF Release
    <3> QED
      BY <1>0, <3>1, CommitFacts
  <2>2. posix' \in Content
    BY <1>8, <2>1, ShownType DEF Release
  <2>3. handle'[h].existing <= Len(remote')
    <3>1. handle'[h].existing = handle[h].existing /\ handle[h].existing \in Nat
      BY <1>8, ReleaseEffect DEF Types, HandleState
    <3> QED
      BY <1>0, <2>1, <3>1
  <2> QED
    BY <1>0, <1>8, <2>1, <2>2, <2>3, ReleaseEffect, TypesQuiet DEF Release
<1>9. ASSUME NEW h \in Handles, ReleaseClears(h) PROVE Types'
  <2>1. wh' \in Handles \cup {None}
    BY <1>0, <1>9 DEF ReleaseClears
  <2>2. UNCHANGED <<world, info, cut, remote, posix, stamp, cuts, faults, latest>>
    BY <1>9 DEF ReleaseClears
  <2> QED
    BY <1>0, <1>9, <2>1, <2>2, ReleaseClearsEffect, TypesLocal
<1>10. ASSUME NEW n \in 0..MaxSize, SetSize(n) PROVE Types'
  <2>1. n \in Nat
    BY WorldFacts DEF Types
  <2>2. info' \in [id : Nat, size : Nat] /\ info'.id = info.id
    BY <1>0, <1>10, <2>1 DEF SetSize
  <2>3. cut' \in [size : Nat, wh : Handles \cup {None}]
    BY <1>0, <1>10, <2>1 DEF SetSize
  <2>4. UNCHANGED <<world, wh, handle, remote, posix, stamp, faults, latest>> /\ cuts' \in Nat
    BY <1>0, <1>10 DEF SetSize
  <2> QED
    BY <2>2, <2>3, <2>4 DEF Types, world
<1>11. CASE TruncateTo
  <2>1. cut.size \in Nat
    BY <1>11 DEF TruncateTo, Types
  <2>2. posix' \in Content
    BY <1>0, <1>11, <2>1, ResizeFacts DEF TruncateTo
  <2>3. /\ handle' \in [Handles -> HandleState]
        /\ \A h \in Handles : handle'[h].existing = handle[h].existing
    BY <1>11, TruncateToEffect
  <2>4. UNCHANGED <<node, remote, stamp, cuts, faults, latest>> /\ cut' = None
    BY <1>11 DEF TruncateTo
  <2> QED
    BY <2>2, <2>3, <2>4 DEF Types, world
<1>12. CASE Forget
  <2>1. info.id \in 1..Len(remote)
    BY <1>0, <1>12 DEF Forget
  <2>2. remote[info.id] \in Content /\ Len(remote[info.id]) \in Nat
    BY <1>0, <2>1, ElementOfSeq DEF Content
  <2>3. /\ posix' \in Content /\ info' \in [id : Nat, size : Nat] /\ info'.id = info.id
        /\ UNCHANGED <<world, wh, handle, cut, remote, stamp, cuts, faults, latest>>
    BY <1>0, <1>12, <2>2 DEF Forget
  <2> QED
    BY <2>3 DEF Types, world
<1>13. CASE UNCHANGED vars
  BY <1>13 DEF vars, world, Types
<1> QED
  BY <1>1, <1>2, <1>3, <1>4, <1>5, <1>6, <1>7, <1>8, <1>9, <1>10, <1>11, <1>12, <1>13 DEF Next

\* Every variable of a file and its handles keeps its type.
THEOREM TypesAlways == Spec => []Types
  BY TypesInit, TypesStep, PTL DEF Spec
-----------------------------------------------------------------------------
(* The node's active handle.                                                *)

\* The handle opened last has been published, and so has the node's; a handle is
\* the node's until the second half of its Release.
Active ==
  /\ latest # None => handle[latest].at \in {"open", "closing", "gone"}
  /\ latest # None /\ handle[latest].at = "open" => wh = latest
  /\ wh # None => handle[wh].at \in {"open", "closing"} /\ handle[wh].linked

\* Only an Open makes another handle the active one, and only the Release of that
\* handle leaves the node without.
LEMMA ActiveStep == Types /\ Active /\ [Next]_vars => Active'
<1> SUFFICES ASSUME Types, Active, [Next]_vars PROVE Active'
  OBVIOUS
<1> USE DEF node
<1>0. /\ wh \in Handles \cup {None} /\ latest \in Handles \cup {None} /\ None \notin Handles
  BY WorldFacts DEF Types
<1>1. ASSUME NEW h \in Handles, Create(h) PROVE Active'
  <2>1. UNCHANGED <<wh, latest>> /\ handle[h].at = "unused"
    BY <1>1 DEF Create, MayOpen
  <2> QED
    BY <1>0, <1>1, <2>1, CreateEffect DEF Active
<1>2. ASSUME NEW h \in Handles, Open(h) PROVE Active'
  <2>1. UNCHANGED <<wh, latest>> /\ handle[h].at = "unused"
    BY <1>2 DEF Open, MayOpen
  <2> QED
    BY <1>0, <1>2, <2>1, OpenEffect DEF Active
<1>3. ASSUME NEW h \in Handles, OpenReadsSize(h) PROVE Active'
  <2>1. UNCHANGED <<wh, latest>> /\ handle[h].at = "opening"
    BY <1>3 DEF OpenReadsSize
  <2> QED
    BY <1>0, <1>3, <2>1, OpenReadsSizeEffect DEF Active
<1>4. ASSUME NEW h \in Handles, OpenPublishes(h) PROVE Active'
  <2>1. wh' = h /\ latest' = h
    BY <1>4 DEF OpenPublishes
  <2> QED
    BY <1>0, <1>4, <2>1, OpenPublishesEffect DEF Active
<1>5. ASSUME NEW h \in Handles, NEW off \in 0..MaxSize - 1, Write(h, off) PROVE Active'
  <2>1. UNCHANGED <<wh, latest>> /\ handle[h].at = "open"
    BY <1>5 DEF Write, MayWrite
  <2> QED
    BY <1>0, <1>5, <2>1, WriteEffect DEF Active
<1>6. ASSUME NEW h \in Handles, SeedFails(h) PROVE Active'
  <2>1. UNCHANGED <<wh, latest>> /\ handle[h].at = "open"
    BY <1>6 DEF SeedFails, MayWrite
  <2> QED
    BY <1>0, <1>6, <2>1, SeedFailsEffect DEF Active
<1>7. ASSUME NEW h \in Handles, Flush(h) PROVE Active'
  <2>1. UNCHANGED <<wh, latest>> /\ handle[h].at = "open"
    BY <1>7 DEF Flush
  <2> QED
    BY <1>0, <1>7, <2>1, FlushEffect DEF Active
<1>8. ASSUME NEW h \in Handles, Release(h) PROVE Active'
  <2>1. UNCHANGED <<wh, latest>> /\ handle[h].at = "open"
    BY <1>8 DEF Release
  <2> QED
    BY <1>0, <1>8, <2>1, ReleaseEffect DEF Active
<1>9. ASSUME NEW h \in Handles, ReleaseClears(h) PROVE Active'
  <2>1. /\ latest' = latest /\ handle[h].at = "closing"
        /\ wh' = IF handle[h].linked /\ wh = h THEN None ELSE wh
    BY <1>9 DEF ReleaseClears
  <2> QED
    BY <1>0, <1>9, <2>1, ReleaseClearsEffect DEF Active
<1>10. ASSUME NEW n \in 0..MaxSize, SetSize(n) PROVE Active'
  BY <1>10 DEF SetSize, Active
<1>11. CASE TruncateTo
  <2>1. UNCHANGED <<wh, latest>>
    BY <1>11 DEF TruncateTo
  <2>2. \A h \in Handles : handle'[h].at = handle[h].at /\ handle'[h].linked = handle[h].linked
    BY <1>11, TruncateToEffect
  <2> QED
    BY <1>0, <2>1, <2>2 DEF Active
<1>12. CASE Forget
  BY <1>12 DEF Forget, Active
<1>13. CASE UNCHANGED vars
  BY <1>13 DEF vars, Active
<1> QED
  BY <1>1, <1>2, <1>3, <1>4, <1>5, <1>6, <1>7, <1>8, <1>9, <1>10, <1>11, <1>12, <1>13 DEF Next

\* However opens and releases of one file overlap, a late truncate finds the handle
\* that was opened last, and never one whose Release has ended.
THEOREM LatestHandleIsActive == Spec => []LatestIsActive
<1>1. Init => Active
  BY DEF Init, Active
<1>2. Active => LatestIsActive
  BY DEF Active, LatestIsActive
<1> QED
  BY <1>1, <1>2, ActiveStep, TypesAlways, PTL DEF Spec
-----------------------------------------------------------------------------
(* How many remote files the handles of a file make.                        *)

\* What a handle is that is to make the file, and what it is when it has.
Maker(hd)   == hd.wrote /\ hd.existing = 0
MadeOne(hd) == Maker(hd) /\ (hd.uploaded \/ hd.at \in {"closing", "gone"})

Makers == {h \in Handles : Maker(handle[h])}
Made   == {h \in Handles : MadeOne(handle[h])}

AtStart == IF start > 0 THEN 1 ELSE 0

\* Each remote file was there at the start, was made by a handle of its own, or is left
\* by an upload that failed.
Once ==
  /\ \A h \in Handles : handle[h].at = "unused" => ~handle[h].wrote
  /\ IsFiniteSet(Makers)
  /\ Len(remote) <= AtStart + faults + Cardinality(Made)

\* A step that stores nothing.
LEMMA OnceQuiet ==
  ASSUME Types, Once, remote' = remote, start' = start, faults' \in Nat, faults' >= faults,
         NEW T, IsFiniteSet(T), Makers' \subseteq Makers \cup T, Made \subseteq Made',
         \A k \in Handles : handle'[k].at = "unused" => ~handle'[k].wrote
  PROVE  Once'
<1>1. IsFiniteSet(Makers')
  BY FS_Union, FS_Subset DEF Once
<1>2. IsFiniteSet(Made') /\ Cardinality(Made) <= Cardinality(Made') /\ IsFiniteSet(Made)
  <2>1. Made' \subseteq Makers'
    BY DEF Made, Makers, MadeOne
  <2>2. IsFiniteSet(Made')
    BY <1>1, <2>1, FS_Subset
  <2> QED
    BY <2>2, FS_Subset
<1>3. Cardinality(Made) \in Nat /\ Cardinality(Made') \in Nat
  BY <1>2, FS_CardinalityType
<1>4. Len(remote) \in Nat /\ faults \in Nat /\ AtStart \in Nat /\ AtStart' = AtStart
  BY DEF Types, AtStart
<1>5. Len(remote') <= AtStart' + faults' + Cardinality(Made')
  BY <1>2, <1>3, <1>4 DEF Once
<1> QED
  BY <1>1, <1>5 DEF Once

\* A step of one handle that stores nothing.
LEMMA OnceOne ==
  ASSUME Types, Once, remote' = remote, start' = start, faults' \in Nat, faults' >= faults,
         NEW h \in Handles, \A k \in Handles \ {h} : handle'[k] = handle[k],
         MadeOne(handle[h]) => MadeOne(handle'[h]), handle'[h].at # "unused"
  PROVE  Once'
<1>1. Makers' \subseteq Makers \cup {h}
  BY DEF Makers
<1>2. Made \subseteq Made'
  BY DEF Made
<1>3. \A k \in Handles : handle'[k].at = "unused" => ~handle'[k].wrote
  BY DEF Once
<1> QED
  BY <1>1, <1>2, <1>3, FS_Singleton, OnceQuiet

\* A commit marks its handle as one that has made its file, or counts as a failure.
LEMMA OnceCommit ==
  ASSUME Types, Once, NEW h \in Handles, handle[h].at = "open", Pending(handle[h]),
         start' = start, CommitDone(h) \/ CommitFails(h),
         \A k \in Handles \ {h} : handle'[k] = handle[k],
         handle'[h].wrote = handle[h].wrote, handle'[h].existing = handle[h].existing,
         handle'[h].at # "unused",
         CommitDone(h) => handle'[h].uploaded \/ handle'[h].at \in {"closing", "gone"}
  PROVE  Once'
<1>1. handle[h].wrote /\ ~MadeOne(handle[h]) /\ h \notin Made
  BY DEF Pending, MadeOne, Made
<1>2. Makers' = Makers /\ IsFiniteSet(Makers')
  <2>1. \A k \in Handles : Maker(handle'[k]) <=> Maker(handle[k])
    BY DEF Maker
  <2>2. Makers' = Makers
    BY <2>1 DEF Makers
  <2> QED
    BY <2>2 DEF Once
<1>3. Made \subseteq Made' /\ Made' \subseteq Makers' /\ Made \subseteq Makers
  BY <1>1 DEF Made, Makers, MadeOne
<1>4. /\ IsFiniteSet(Made) /\ IsFiniteSet(Made')
      /\ Cardinality(Made) \in Nat /\ Cardinality(Made') \in Nat
      /\ Cardinality(Made) <= Cardinality(Made')
  <2>1. IsFiniteSet(Made) /\ IsFiniteSet(Made')
    BY <1>2, <1>3, FS_Subset
  <2> QED
    BY <1>3, <2>1, FS_Subset, FS_CardinalityType
<1>5. /\ Len(remote) \in Nat /\ faults \in Nat /\ AtStart \in Nat /\ AtStart' = AtStart
      /\ Len(remote) <= AtStart + faults + Cardinality(Made)
  BY DEF Types, AtStart, Once
<1>6. \A k \in Handles : handle'[k].at = "unused" => ~handle'[k].wrote
  BY DEF Once
<1>7. /\ remote' = remote \/ remote' = Stored(handle[h])
      /\ CommitDone(h) => faults' = faults
      /\ CommitFails(h) => faults' = faults + 1
  BY CommitFacts
<1>8. /\ handle[h].existing # 0 => Len(remote') = Len(remote)
      /\ Len(remote') = Len(remote) \/ Len(remote') = Len(remote) + 1
  BY <1>7, StoredFacts
<1>9. Len(remote') <= AtStart' + faults' + Cardinality(Made')
  <2>1. CASE CommitFails(h)
    BY <1>4, <1>5, <1>7, <1>8, <2>1
  <2>2. CASE CommitDone(h) /\ handle[h].existing # 0
    BY <1>4, <1>5, <1>7, <1>8, <2>2
  <2>3. CASE CommitDone(h) /\ handle[h].existing = 0
    <3>1. MadeOne(handle'[h])
      BY <1>1, <2>3 DEF MadeOne, Maker
    <3>2. Made \cup {h} \subseteq Made'
      BY <1>3, <3>1 DEF Made
    <3>3. Cardinality(Made \cup {h}) = Cardinality(Made) + 1
      BY <1>1, <1>4, FS_AddElement
    <3>4. Cardinality(Made \cup {h}) <= Cardinality(Made')
      BY <1>4, <3>2, FS_Subset
    <3> QED
      BY <1>4, <1>5, <1>7, <1>8, <2>3, <3>3, <3>4
  <2> QED
    BY <2>1, <2>2, <2>3
<1> QED
  BY <1>2, <1>6, <1>9 DEF Once

\* No step makes a file but for a handle that has made none, or by a failure.
LEMMA OnceStep == Types /\ Once /\ [Next]_vars => Once'
<1> SUFFICES ASSUME Types, Once, [Next]_vars PROVE Once'
  OBVIOUS
<1> USE DEF node, world
<1>0. faults \in Nat
  BY DEF Types
<1>1. ASSUME NEW h \in Handles, Create(h) PROVE Once'
  <2>1. UNCHANGED <<remote, start, faults>> /\ ~MadeOne(handle[h])
    BY <1>1 DEF Create, MayOpen, Once, MadeOne, Maker
  <2> QED
    BY <1>0, <1>1, <2>1, CreateEffect, OnceOne
<1>2. ASSUME NEW h \in Handles, Open(h) PROVE Once'
  <2>1. UNCHANGED <<remote, start, faults>> /\ ~MadeOne(handle[h])
    BY <1>2 DEF Open, MayOpen, Once, MadeOne, Maker
  <2> QED
    BY <1>0, <1>2, <2>1, OpenEffect, OnceOne
<1>3. ASSUME NEW h \in Handles, OpenReadsSize(h) PROVE Once'
  <2>1. UNCHANGED <<remote, start, faults>> /\ handle[h].at = "opening"
    BY <1>3 DEF OpenReadsSize
  <2>2. MadeOne(handle[h]) => MadeOne(handle'[h])
    BY <1>3, <2>1, OpenReadsSizeEffect DEF MadeOne, Maker
  <2> QED
    BY <1>0, <1>3, <2>1, <2>2, OpenReadsSizeEffect, OnceOne
<1>4. ASSUME NEW h \in Handles, OpenPublishes(h) PROVE Once'
  <2>1. UNCHANGED <<remote, start, faults>> /\ handle[h].at = "opening"
    BY <1>4 DEF OpenPublishes
  <2>2. MadeOne(handle[h]) => MadeOne(handle'[h])
    BY <1>4, <2>1, OpenPublishesEffect DEF MadeOne, Maker
  <2> QED
    BY <1>0, <1>4, <2>1, <2>2, OpenPublishesEffect, OnceOne
<1>5. ASSUME NEW h \in Handles, NEW off \in 0..MaxSize - 1, Write(h, off) PROVE Once'
  <2>1. UNCHANGED <<remote, start, faults>> /\ handle[h].at = "open"
    BY <1>5 DEF Write, MayWrite
  <2>2. MadeOne(handle[h]) => MadeOne(handle'[h])
    BY <1>5, <2>1, WriteEffect DEF MadeOne, Maker
  <2> QED
    BY <1>0, <1>5, <2>1, <2>2, WriteEffect, OnceOne
<1>6. ASSUME NEW h \in Handles, SeedFails(h) PROVE Once'
  <2>1. UNCHANGED <<remote, start>> /\ faults' = faults + 1 /\ handle[h].at = "open"
    BY <1>6 DEF SeedFails, Fails, MayWrite
  <2>2. MadeOne(handle[h]) => MadeOne(handle'[h])
    BY <1>6, <2>1, SeedFailsEffect DEF MadeOne, Maker
  <2> QED
    BY <1>0, <1>6, <2>1, <2>2, SeedFailsEffect, OnceOne
<1>7. ASSUME NEW h \in Handles, Flush(h) PROVE Once'
  <2>1. /\ handle[h].at = "open" /\ Pending(handle[h]) /\ start' = start
        /\ CommitDone(h) \/ CommitFails(h)
    BY <1>7 DEF Flush
  <2>2. CommitDone(h) => ~CommitFails(h)
    BY <1>0 DEF CommitDone, CommitFails, Fails
  <2> QED
    BY <1>7, <2>1, <2>2, FlushEffect, OnceCommit
<1>8. ASSUME NEW h \in Handles, Release(h) PROVE Once'
  <2>1. handle[h].at = "open" /\ start' = start
    BY <1>8 DEF Release
  <2>2. CASE Pending(handle[h]) /\ (CommitDone(h) \/ CommitFails(h))
    BY <1>8, <2>1, <2>2, ReleaseEffect, OnceCommit
  <2>3. CASE UNCHANGED <<info, remote, faults>>
    <3>1. MadeOne(handle[h]) => MadeOne(handle'[h])
      BY <1>8, <2>1, ReleaseEffect DEF MadeOne, Maker
    <3> QED
      BY <1>0, <1>8, <2>1, <2>3, <3>1, ReleaseEffect, OnceOne
  <2> QED
    BY <1>8, <2>2, <2>3 DEF Release
<1>9. ASSUME NEW h \in Handles, ReleaseClears(h) PROVE Once'
  <2>1. UNCHANGED <<remote, start, faults>>
    BY <1>9 DEF ReleaseClears
  <2>2. MadeOne(handle[h]) => MadeOne(handle'[h])
    BY <1>9, ReleaseClearsEffect DEF MadeOne, Maker
  <2> QED
    BY <1>0, <1>9, <2>1, <2>2, ReleaseClearsEffect, OnceOne
<1>10. ASSUME UNCHANGED <<remote, start, faults>>,
              \A k \in Handles : /\ handle'[k].at = handle[k].at
                                 /\ handle'[k].wrote = handle[k].wrote
                                 /\ handle'[k].existing = handle[k].existing
                                 /\ handle'[k].uploaded = handle[k].uploaded
       PROVE  Once'
  <2>1. Makers' = Makers /\ Made' = Made
    BY <1>10 DEF Makers, Made, MadeOne, Maker
  <2>2. \A k \in Handles : handle'[k].at = "unused" => ~handle'[k].wrote
    BY <1>10 DEF Once
  <2> QED
    BY <1>0, <1>10, <2>1, <2>2, FS_EmptySet, OnceQuiet
<1>11. CASE (\E n \in 0..MaxSize : SetSize(n)) \/ Forget \/ UNCHANGED vars
  BY <1>10, <1>11 DEF SetSize, Forget, vars
<1>12. CASE TruncateTo
  <2>1. UNCHANGED <<remote, start, faults>>
    BY <1>12 DEF TruncateTo
  <2>2. \A k \in Handles : /\ handle'[k].at = handle[k].at
                           /\ handle'[k].wrote = handle[k].wrote
                           /\ handle'[k].existing = handle[k].existing
                           /\ handle'[k].uploaded = handle[k].uploaded
    BY <1>12, TruncateToEffect
  <2> QED
    BY <1>10, <2>1, <2>2
<1> QED
  BY <1>1, <1>2, <1>3, <1>4, <1>5, <1>6, <1>7, <1>8, <1>9, <1>11, <1>12 DEF Next

\* A handle that is to make the file makes one, however it is flushed, written to again
\* and released, and whatever the file's other handles do at the same time; a file that
\* exists is replaced.  Only failed uploads add to that.
THEOREM HandlesMakeOneFile == Spec => []OneFilePerHandle
<1>1. Init => Once
  <2> SUFFICES ASSUME Init PROVE Once
    OBVIOUS
  <2>1. \A h \in Handles : ~handle[h].wrote
    BY NewHandleFacts DEF Init, Unused, NewHandle
  <2>2. Makers = {} /\ Made = {}
    BY <2>1 DEF Makers, Made, MadeOne, Maker
  <2>3. Len(remote) = AtStart /\ faults = 0
    BY DEF Init, AtStart
  <2> QED
    BY <2>1, <2>2, <2>3, FS_EmptySet DEF Once, AtStart
<1>2. Types /\ Once => OneFilePerHandle
  <2> SUFFICES ASSUME Types, Once PROVE Len(remote) <= AtStart + faults + Cardinality(Makers)
    BY DEF OneFilePerHandle, Makers, Maker, AtStart
  <2>1. /\ Made \subseteq Makers /\ IsFiniteSet(Makers)
        /\ Len(remote) <= AtStart + faults + Cardinality(Made)
    BY DEF Made, Makers, MadeOne, Once
  <2>2. IsFiniteSet(Made) /\ Cardinality(Made) <= Cardinality(Makers)
    BY <2>1, FS_Subset
  <2>3. Cardinality(Made) \in Nat /\ Cardinality(Makers) \in Nat
    BY <2>1, <2>2, FS_CardinalityType
  <2>4. Len(remote) \in Nat /\ faults \in Nat /\ AtStart \in Nat
    BY DEF Types, AtStart
  <2> QED
    BY <2>1, <2>2, <2>3, <2>4
<1> QED
  BY <1>1, <1>2, OnceStep, TypesAlways, PTL DEF Spec
-----------------------------------------------------------------------------
(* What a plain edit stores.                                                *)

\* The plain way of editing, with or without duplicates of the descriptor.
PlainUsage == Usage \subseteq {"flushBetween"}

\* Who may be doing what: one handle is in use, and a truncate under way is one to
\* zero that will reach it, or that it does not need.
Turns ==
  /\ \A h, k \in Handles : InUse(h) /\ InUse(k) => h = k
  /\ \A h \in Handles : handle[h].at = "open" /\ handle[h].linked => wh = h
  /\ cut # None =>
       /\ cut.size = 0 /\ cut.wh = wh /\ info.size = 0
       /\ \A h \in Handles : handle[h].at # "opening"
       /\ \A h \in Handles : handle[h].at = "open" /\ ~handle[h].linked => handle[h].tmp = <<>>

\* While nobody edits it the file is what the mount shows.
AtRest == cut = None /\ (\A h \in Handles : handle[h].at \notin {"opening", "open"})
            => posix = Shown(info, remote)

\* What an Open that is under way has read still holds when it is published.
Opening(h) ==
  LET hd == handle[h] IN
  hd.at = "opening" =>
    /\ hd.existing = info.id /\ hd.tmp = <<>> /\ ~hd.wrote /\ ~hd.uploaded /\ ~hd.seeded
    /\ ~hd.linked => posix = Shown(info, remote)
    /\ hd.linked => posix = IF hd.truncated THEN <<>> ELSE Shown(info, remote)
    /\ hd.linked /\ ~hd.truncated => info.size # 0

\* The buffer of an open handle is the file, unless its content is still to be
\* fetched; after an upload it is the remote file as well, up to the next Write.
Editing(h) ==
  LET hd == handle[h] IN
  hd.at = "open" =>
    /\ hd.existing # 0 => hd.existing = info.id /\ hd.linked
    /\ ~hd.uploaded => hd.existing = info.id
    /\ NeedsSeed(hd) => ~hd.wrote /\ hd.tmp = <<>> /\ posix = remote[hd.existing]
    /\ ~NeedsSeed(hd) => hd.tmp = posix
    /\ hd.uploaded /\ ~hd.late /\ posix # <<>> => info.id # 0 /\ remote[info.id] = posix

\* As long as no upload has failed there is one remote file, known to the node.
OneRemote == faults = 0 => Len(remote) <= 1 /\ (info.id = 0 => remote = <<>>)

PlainEdit == Turns /\ AtRest /\ (\A h \in Handles : Opening(h) /\ Editing(h)) /\ OneRemote

\* In the plain way of editing the kernel's calls take turns, ...
LEMMA PlainTurns ==
  ASSUME PlainUsage
  PROVE  /\ "race" \notin Usage /\ "share" \notin Usage /\ "tornSeed" \notin Usage
         /\ Calm => cut = None /\ \A h \in Handles : handle[h].at # "opening"
         /\ \A h \in Handles : MayOpen(h) => \A k \in Handles : ~InUse(k)
         /\ \A n : MayCut(n) =>
              /\ n = 0
              /\ \A h \in Handles : handle[h].at = "open" => handle[h].linked \/ handle[h].tmp = <<>>
<1>1. \A u \in {"race", "share", "tornSeed", "truncateTo", "truncateNew"} : u \notin Usage
  BY DEF PlainUsage
<1> QED
  BY <1>1 DEF Calm, MayOpen, MayCut

\* ... and a step of the one handle in use finds and leaves the others idle.
LEMMA OthersIdle ==
  ASSUME Types, Turns, NEW h \in Handles, \/ InUse(h)
                                          \/ \A k \in Handles : ~InUse(k),
         \A k \in Handles \ {h} : handle'[k] = handle[k]
  PROVE  /\ \A j, k \in Handles : InUse(j)' /\ InUse(k)' => j = k
         /\ \A k \in Handles \ {h} : /\ handle'[k].at \notin {"opening", "open"}
                                     /\ handle[k].at \notin {"opening", "open"}
                                     /\ Opening(k)' /\ Editing(k)'
<1>1. \A k \in Handles \ {h} : ~InUse(k)
  BY DEF Turns
<1>2. \A k \in Handles \ {h} : ~InUse(k)' /\ handle'[k].at \notin {"opening", "open"}
  BY <1>1 DEF InUse
<1> QED
  BY <1>1, <1>2 DEF InUse, Opening, Editing

\* An open handle that has something to commit holds the file in its buffer.
LEMMA PendingIsFile ==
  ASSUME PlainEdit, NEW h \in Handles, handle[h].at = "open", Pending(handle[h])
  PROVE  handle[h].tmp = posix /\ ~handle[h].uploaded /\ handle[h].existing = info.id
  BY DEF PlainEdit, Editing, Pending

\* Making a new file keeps the plain edit plain.
LEMMA PlainCreate ==
  ASSUME Types, PlainEdit, PlainUsage, NEW h \in Handles, Create(h)
  PROVE  PlainEdit'
<1>1. /\ cut = None /\ (\A k \in Handles : ~InUse(k)) /\ info.id = 0
      /\ UNCHANGED <<info, wh, cut, remote, posix, faults>>
  BY PlainTurns DEF Create, MayOpen, node
<1>2. posix = <<>>
  BY <1>1 DEF PlainEdit, AtRest, Shown, InUse
<1>3. Opening(h)' /\ Editing(h)'
  BY <1>1, <1>2, CreateEffect DEF Opening, Editing, NeedsSeed
<1>4. Turns' /\ (\A k \in Handles \ {h} : Opening(k)' /\ Editing(k)')
  BY <1>1, CreateEffect, OthersIdle DEF PlainEdit, Turns
<1>5. AtRest'
  BY CreateEffect DEF AtRest
<1> QED
  BY <1>1, <1>3, <1>4, <1>5 DEF PlainEdit, OneRemote

\* So does opening the file again, ...
LEMMA PlainOpen ==
  ASSUME Types, PlainEdit, PlainUsage, NEW h \in Handles, Open(h)
  PROVE  PlainEdit'
<1>1. /\ cut = None /\ (\A k \in Handles : ~InUse(k))
      /\ UNCHANGED <<info, wh, cut, remote, posix, faults>>
  BY PlainTurns DEF Open, MayOpen, node
<1>2. posix = Shown(info, remote)
  BY <1>1 DEF PlainEdit, AtRest, InUse
<1>3. Opening(h)' /\ Editing(h)'
  BY <1>1, <1>2, OpenEffect DEF Opening, Editing, Shown
<1>4. Turns' /\ (\A k \in Handles \ {h} : Opening(k)' /\ Editing(k)')
  BY <1>1, OpenEffect, OthersIdle DEF PlainEdit, Turns
<1>5. AtRest'
  BY OpenEffect DEF AtRest
<1> QED
  BY <1>1, <1>3, <1>4, <1>5 DEF PlainEdit, OneRemote

\* ... with or without emptying it, ...
LEMMA PlainOpenReadsSize ==
  ASSUME Types, PlainEdit, PlainUsage, NEW h \in Handles, OpenReadsSize(h)
  PROVE  PlainEdit'
<1>1. /\ handle[h].at = "opening" /\ ~handle[h].linked /\ InUse(h)
      /\ UNCHANGED <<info, wh, cut, remote, faults>>
  BY DEF OpenReadsSize, node, InUse
<1>2. cut = None /\ posix = Shown(info, remote)
  BY <1>1 DEF PlainEdit, Turns, Opening
<1>3. /\ handle'[h].truncated => posix' = <<>>
      /\ ~handle'[h].truncated => posix' = Shown(info, remote) /\ info.size # 0
  <2>1. \/ handle'[h].truncated /\ (posix' = <<>> \/ (posix' = posix /\ info.size = 0))
        \/ ~handle'[h].truncated /\ posix' = posix /\ info.size # 0
    BY OpenReadsSizeEffect
  <2> QED
    BY <1>2, <2>1 DEF Shown
<1>4. Opening(h)' /\ Editing(h)'
  BY <1>1, <1>3, OpenReadsSizeEffect DEF PlainEdit, Opening, Editing, Shown
<1>5. Turns' /\ (\A k \in Handles \ {h} : Opening(k)' /\ Editing(k)')
  BY <1>1, <1>2, OpenReadsSizeEffect, OthersIdle DEF PlainEdit, Turns
<1>6. AtRest'
  BY OpenReadsSizeEffect DEF AtRest
<1> QED
  BY <1>1, <1>4, <1>5, <1>6 DEF PlainEdit, OneRemote

\* ... up to the moment it is the node's handle.
LEMMA PlainOpenPublishes ==
  ASSUME Types, PlainEdit, PlainUsage, NEW h \in Handles, OpenPublishes(h)
  PROVE  PlainEdit'
<1>1. /\ handle[h].at = "opening" /\ handle[h].linked /\ InUse(h)
      /\ wh' = h /\ UNCHANGED <<info, cut, remote, posix, faults>>
  BY DEF OpenPublishes, InUse
<1>2. cut = None /\ Opening(h)
  BY <1>1 DEF PlainEdit, Turns
<1>3. /\ handle'[h].existing = info.id /\ handle'[h].tmp = <<>> /\ handle'[h].linked
      /\ ~handle'[h].wrote /\ ~handle'[h].uploaded /\ ~handle'[h].seeded
      /\ handle'[h].truncated => posix = <<>>
      /\ ~handle'[h].truncated => posix = Shown(info, remote) /\ info.size # 0
  BY <1>1, <1>2, OpenPublishesEffect DEF Opening
<1>4. Opening(h)' /\ Editing(h)'
  BY <1>1, <1>3, OpenPublishesEffect DEF Opening, Editing, NeedsSeed, Shown
<1>5. Turns' /\ (\A k \in Handles \ {h} : Opening(k)' /\ Editing(k)')
  BY <1>1, <1>2, OpenPublishesEffect, OthersIdle DEF PlainEdit, Turns
<1>6. AtRest'
  BY OpenPublishesEffect DEF AtRest
<1> QED
  BY <1>1, <1>4, <1>5, <1>6 DEF PlainEdit, OneRemote

\* A Write makes the same change to the buffer as to the file, for it fetches first
\* what the buffer does not hold.
LEMMA PlainWrite ==
  ASSUME Types, PlainEdit, PlainUsage, NEW h \in Handles, NEW off \in 0..MaxSize - 1,
         Write(h, off)
  PROVE  PlainEdit'
<1>1. /\ handle[h].at = "open" /\ cut = None /\ InUse(h)
      /\ posix' = WriteAt(posix, off, stamp + 1)
      /\ UNCHANGED <<info, wh, cut, remote, faults>>
  BY DEF Write, MayWrite, node, InUse
<1>2. Editing(h)
  BY DEF PlainEdit
<1>3. Seeded(handle[h]) = posix
  <2>1. CASE NeedsSeed(handle[h])
    <3>1. handle[h].existing \in 1..Len(remote)
      BY <2>1 DEF NeedsSeed, Types, HandleState
    <3>2. remote[handle[h].existing] \in Seq(Nat)
      BY <3>1, ElementOfSeq DEF Types, Content
    <3>3. handle[h].tmp = <<>> /\ posix = remote[handle[h].existing]
      BY <1>1, <1>2, <2>1 DEF Editing
    <3> QED
      BY <2>1, <3>2, <3>3, ConcatEmptySeq DEF Seeded
  <2>2. CASE ~NeedsSeed(handle[h])
    BY <1>1, <1>2, <2>2 DEF Seeded, Editing
  <2> QED
    BY <2>1, <2>2
<1>4. Opening(h)' /\ Editing(h)'
  <2>1. ~NeedsSeed(handle'[h])
    BY WriteEffect DEF NeedsSeed
  <2>2. handle'[h].tmp = posix'
    BY <1>1, <1>3, WriteEffect
  <2> QED
    BY <1>1, <1>2, <2>1, <2>2, WriteEffect DEF Opening, Editing
<1>5. Turns' /\ (\A k \in Handles \ {h} : Opening(k)' /\ Editing(k)')
  BY <1>1, WriteEffect, OthersIdle DEF PlainEdit, Turns
<1>6. AtRest'
  BY WriteEffect DEF AtRest
<1> QED
  BY <1>1, <1>4, <1>5, <1>6 DEF PlainEdit, OneRemote

\* A commit stores the file, or fails, and makes no second one unless it failed.
LEMMA PlainCommit ==
  ASSUME Types, PlainEdit, NEW h \in Handles, handle[h].at = "open", Pending(handle[h]),
         CommitDone(h) \/ CommitFails(h)
  PROVE  /\ OneRemote'
         /\ faults = 0 => Len(remote') <= 1
         /\ CommitDone(h) => /\ info'.id \in 1..Len(remote') /\ remote'[info'.id] = posix
                             /\ handle[h].existing # 0 => info'.id = handle[h].existing
         /\ \A i \in 1..Len(remote') :
              (i \in 1..Len(remote) /\ remote'[i] = remote[i]) \/ remote'[i] = posix
<1> DEFINE hd == handle[h]
<1>1. hd.tmp = posix /\ hd.existing = info.id
  BY PendingIsFile
<1>2. /\ Target(hd) \in 1..Len(Stored(hd)) /\ Stored(hd)[Target(hd)] = posix
      /\ \A i \in 1..Len(Stored(hd)) \ {Target(hd)} : i \in 1..Len(remote) /\ Stored(hd)[i] = remote[i]
      /\ hd.existing # 0 => Len(Stored(hd)) = Len(remote) /\ Target(hd) = hd.existing
      /\ hd.existing = 0 => Len(Stored(hd)) = Len(remote) + 1
  BY <1>1, StoredFacts
<1>3. faults \in Nat /\ remote \in Seq(Content) /\ Len(remote) \in Nat
  BY DEF Types
<1>4. /\ remote' = remote \/ remote' = Stored(hd)
      /\ CommitDone(h) => remote' = Stored(hd) /\ faults' = faults /\ info'.id = Target(hd)
      /\ CommitFails(h) => faults' = faults + 1
  BY CommitFacts
<1> HIDE DEF hd
<1>5. faults = 0 => Len(Stored(hd)) <= 1
  <2> SUFFICES ASSUME faults = 0 PROVE Len(Stored(hd)) <= 1
    OBVIOUS
  <2>1. Len(remote) <= 1 /\ (info.id = 0 => remote = <<>>)
    BY DEF PlainEdit, OneRemote
  <2>2. CASE hd.existing # 0
    BY <1>2, <2>1, <2>2
  <2>3. CASE hd.existing = 0
    <3>1. Len(remote) = 0
      BY <1>1, <2>1, <2>3, EmptySeq
    <3> QED
      BY <1>2, <2>3, <3>1
  <2> QED
    BY <2>2, <2>3
<1>6. faults = 0 => Len(remote') <= 1
  BY <1>4, <1>5 DEF PlainEdit, OneRemote
<1>7. OneRemote'
  <2>1. CASE CommitDone(h)
    BY <1>2, <1>4, <1>5, <2>1 DEF OneRemote
  <2>2. CASE CommitFails(h)
    BY <1>3, <1>4, <2>2 DEF OneRemote
  <2> QED
    BY <2>1, <2>2
<1>8. \A i \in 1..Len(remote') :
        (i \in 1..Len(remote) /\ remote'[i] = remote[i]) \/ remote'[i] = posix
  BY <1>2, <1>4
<1> QED
  BY <1>2, <1>4, <1>6, <1>7, <1>8 DEF hd

\* A Flush that commits leaves the buffer, the file and the remote file the same.
LEMMA PlainFlush ==
  ASSUME Types, PlainEdit, PlainUsage, NEW h \in Handles, Flush(h)
  PROVE  PlainEdit'
<1>1. /\ handle[h].at = "open" /\ Pending(handle[h]) /\ cut = None /\ InUse(h)
      /\ UNCHANGED <<wh, cut, posix>>
      /\ CommitDone(h) \/ CommitFails(h)
  BY PlainTurns DEF Flush, InUse
<1>2. /\ handle[h].tmp = posix /\ ~handle[h].uploaded /\ handle[h].existing = info.id
      /\ ~NeedsSeed(handle[h]) /\ Editing(h) /\ handle[h].wrote
  BY <1>1, PendingIsFile DEF PlainEdit, Editing, Pending
<1>3. /\ handle'[h].at = "open" /\ handle'[h].tmp = posix' /\ ~NeedsSeed(handle'[h])
      /\ handle'[h].existing = handle[h].existing /\ handle'[h].linked = handle[h].linked
      /\ \/ CommitDone(h) /\ handle'[h].uploaded
         \/ CommitFails(h) /\ handle'[h].uploaded = handle[h].uploaded
  BY <1>1, <1>2, FlushEffect DEF NeedsSeed
<1>4. Opening(h)' /\ Editing(h)'
  <2>1. CASE CommitDone(h) /\ handle'[h].uploaded
    <3>1. /\ info'.id \in 1..Len(remote') /\ remote'[info'.id] = posix
          /\ handle[h].existing # 0 => info'.id = handle[h].existing
      BY <1>1, <2>1, PlainCommit
    <3>2. info'.id # 0
      BY <3>1
    <3> QED
      BY <1>1, <1>2, <1>3, <2>1, <3>1, <3>2 DEF Opening, Editing
  <2>2. CASE CommitFails(h) /\ handle'[h].uploaded = handle[h].uploaded
    <3>1. info' = info
      BY <2>2 DEF CommitFails
    <3> QED
      BY <1>1, <1>2, <1>3, <2>2, <3>1 DEF Opening, Editing
  <2> QED
    BY <1>3, <2>1, <2>2
<1>5. Turns' /\ (\A k \in Handles \ {h} : Opening(k)' /\ Editing(k)')
  BY <1>1, FlushEffect, OthersIdle DEF PlainEdit, Turns
<1>6. AtRest'
  BY <1>3 DEF AtRest
<1>7. OneRemote'
  BY <1>1, PlainCommit
<1> QED
  BY <1>4, <1>5, <1>6, <1>7 DEF PlainEdit

\* After its Release the file is what the mount shows.
LEMMA PlainRelease ==
  ASSUME Types, PlainEdit, PlainUsage, NEW h \in Handles, Release(h)
  PROVE  PlainEdit'
<1>1. /\ handle[h].at = "open" /\ cut = None /\ InUse(h)
      /\ UNCHANGED <<wh, cut>> /\ posix' = Shown(info', remote')
  BY PlainTurns DEF Release, InUse
<1>2. handle'[h].at = "closing"
  BY ReleaseEffect
<1>3. Opening(h)' /\ Editing(h)' /\ AtRest'
  BY <1>1, <1>2 DEF Opening, Editing, AtRest
<1>4. Turns' /\ (\A k \in Handles \ {h} : Opening(k)' /\ Editing(k)')
  BY <1>1, ReleaseEffect, OthersIdle DEF PlainEdit, Turns
<1>5. OneRemote'
  <2>1. CASE Pending(handle[h]) /\ (CommitDone(h) \/ CommitFails(h))
    BY <1>1, <2>1, PlainCommit
  <2>2. CASE UNCHANGED <<info, remote, faults>>
    BY <2>2 DEF PlainEdit, OneRemote
  <2> QED
    BY <2>1, <2>2 DEF Release
<1> QED
  BY <1>3, <1>4, <1>5 DEF PlainEdit

\* The second half of the Release changes nothing of that.
LEMMA PlainReleaseClears ==
  ASSUME Types, PlainEdit, PlainUsage, NEW h \in Handles, ReleaseClears(h)
  PROVE  PlainEdit'
<1>1. /\ handle[h].at = "closing" /\ cut = None /\ InUse(h)
      /\ UNCHANGED <<info, cut, remote, posix, faults>>
  BY PlainTurns DEF ReleaseClears, InUse
<1>2. handle'[h].at = "gone"
  BY ReleaseClearsEffect
<1>3. \A k \in Handles \ {h} : handle[k].at \notin {"opening", "open"} /\ Opening(k)' /\ Editing(k)'
  BY <1>1, ReleaseClearsEffect, OthersIdle DEF PlainEdit
<1>4. Opening(h)' /\ Editing(h)'
  BY <1>2 DEF Opening, Editing
<1>5. posix = Shown(info, remote)
  BY <1>1, <1>3 DEF PlainEdit, AtRest
<1>6. AtRest'
  BY <1>1, <1>5 DEF AtRest
<1>7. Turns'
  <2>1. \A j, k \in Handles : InUse(j)' /\ InUse(k)' => j = k
    BY <1>1, ReleaseClearsEffect, OthersIdle DEF PlainEdit
  <2>2. \A k \in Handles : handle'[k].at # "open"
    BY <1>2, <1>3, ReleaseClearsEffect
  <2> QED
    BY <1>1, <2>1, <2>2 DEF Turns
<1> QED
  BY <1>1, <1>3, <1>4, <1>6, <1>7 DEF PlainEdit, OneRemote

\* A Setattr that empties the file will reach the handle that is open, or finds its
\* buffer empty.
LEMMA PlainSetSize ==
  ASSUME Types, PlainEdit, PlainUsage, NEW n \in 0..MaxSize, SetSize(n)
  PROVE  PlainEdit'
<1>1. /\ n = 0 /\ (\A h \in Handles : handle[h].at # "opening")
      /\ \A h \in Handles : handle[h].at = "open" => handle[h].linked \/ handle[h].tmp = <<>>
      /\ cut' = [size |-> n, wh |-> wh] /\ info' = [info EXCEPT !.size = n]
      /\ UNCHANGED <<wh, handle, remote, posix, faults>>
  BY PlainTurns DEF SetSize
<1>2. info'.id = info.id /\ info'.size = 0
  BY <1>1 DEF Types
<1>3. cut' # None
  <2>1. setting \in DOMAIN Settings /\ wh \in Handles \cup {None}
    BY DEF Types
  <2> QED
    BY <1>1, <2>1, WorldFacts
<1>4. Turns'
  BY <1>1, <1>2 DEF PlainEdit, Turns, InUse
<1>5. \A h \in Handles : Opening(h)' /\ Editing(h)'
  BY <1>1, <1>2 DEF PlainEdit, Opening, Editing
<1> QED
  BY <1>1, <1>2, <1>3, <1>4, <1>5 DEF PlainEdit, AtRest, OneRemote

\* Then it does.
LEMMA PlainTruncateTo ==
  ASSUME Types, PlainEdit, PlainUsage, TruncateTo
  PROVE  PlainEdit'
<1>1. /\ cut # None /\ cut.size = 0 /\ cut.wh = wh /\ info.size = 0
      /\ \A h \in Handles : handle[h].at # "opening"
      /\ \A h \in Handles : handle[h].at = "open" /\ ~handle[h].linked => handle[h].tmp = <<>>
      /\ \A h \in Handles : handle[h].at = "open" /\ handle[h].linked => wh = h
      /\ posix' = Resize(posix, 0) /\ cut' = None
      /\ UNCHANGED <<info, wh, remote, faults>>
  BY DEF PlainEdit, Turns, TruncateTo, node
<1>2. posix' = <<>>
  BY <1>1, ResizeFacts DEF Types
<1>3. AtRest'
  BY <1>1, <1>2 DEF AtRest, Shown
<1>4. \A h \in Handles : handle'[h].at = handle[h].at /\ handle'[h].linked = handle[h].linked
  BY TruncateToEffect
<1>5. Turns'
  BY <1>1, <1>4 DEF PlainEdit, Turns, InUse
<1>6. ASSUME NEW h \in Handles PROVE Opening(h)' /\ Editing(h)'
  <2>1. Opening(h)'
    BY <1>1, <1>4 DEF Opening
  <2>2. CASE handle[h].at # "open"
    BY <1>4, <2>1, <2>2 DEF Editing
  <2>3. CASE handle[h].at = "open" /\ h = wh
    <3>1. /\ handle'[h].existing = handle[h].existing /\ handle'[h].uploaded = handle[h].uploaded
          /\ handle'[h].truncated
          /\ handle'[h].tmp = Resize(handle[h].tmp, 0)
      BY <1>1, <2>3, TruncateToEffect
    <3>2. handle'[h].tmp = <<>>
      BY <3>1, ResizeFacts DEF Types, HandleState
    <3>3. ~NeedsSeed(handle'[h])
      BY <3>1 DEF NeedsSeed
    <3> QED
      BY <1>1, <1>2, <1>4, <2>1, <2>3, <3>1, <3>2, <3>3 DEF PlainEdit, Editing
  <2>4. CASE handle[h].at = "open" /\ h # wh
    <3>1. handle'[h] = handle[h] /\ handle[h].tmp = <<>> /\ ~handle[h].linked
      BY <1>1, <2>4, TruncateToEffect
    <3>2. handle[h].existing = 0 /\ Editing(h)
      BY <2>4, <3>1 DEF PlainEdit, Editing
    <3>3. ~NeedsSeed(handle'[h])
      BY <3>1, <3>2 DEF NeedsSeed
    <3> QED
      BY <1>1, <1>2, <2>1, <2>4, <3>1, <3>2, <3>3 DEF Editing
  <2> QED
    BY <2>2, <2>3, <2>4
<1> QED
  BY <1>1, <1>3, <1>5, <1>6 DEF PlainEdit, OneRemote

\* A node made anew from the listing shows the remote file.
LEMMA PlainForget ==
  ASSUME Types, PlainEdit, PlainUsage, Forget
  PROVE  PlainEdit'
<1>1. /\ cut = None /\ (\A h \in Handles : ~InUse(h)) /\ info.id # 0
      /\ info' = [info EXCEPT !.size = Len(remote[info.id])] /\ posix' = remote[info.id]
      /\ UNCHANGED <<wh, handle, cut, remote, faults>>
  BY DEF Forget
<1>2. info'.id = info.id /\ info'.size = Len(remote[info.id])
  BY <1>1 DEF Types
<1>3. remote[info.id] \in Seq(Nat)
  <2>1. info.id \in 1..Len(remote)
    BY <1>1 DEF Types
  <2> QED
    BY <2>1, ElementOfSeq DEF Types, Content
<1>4. posix' = Shown(info', remote')
  <2>1. Len(remote[info.id]) = 0 => remote[info.id] = <<>>
    BY <1>3, EmptySeq
  <2> QED
    BY <1>1, <1>2, <2>1 DEF Shown
<1>5. \A h \in Handles : handle[h].at \notin {"opening", "open"}
  BY <1>1 DEF InUse
<1>6. \A h \in Handles : Opening(h)' /\ Editing(h)'
  BY <1>1, <1>5 DEF Opening, Editing
<1>7. Turns' /\ AtRest'
  BY <1>1, <1>4, <1>5 DEF PlainEdit, Turns, AtRest, InUse
<1> QED
  BY <1>1, <1>2, <1>6, <1>7 DEF PlainEdit, OneRemote

\* No step disturbs a plain edit.
LEMMA PlainStep == Types /\ PlainEdit /\ PlainUsage /\ [Next]_vars => PlainEdit' /\ PlainUsage'
<1> SUFFICES ASSUME Types, PlainEdit, PlainUsage, [Next]_vars PROVE PlainEdit' /\ PlainUsage'
  OBVIOUS
<1>1. setting' = setting
  BY DEF Next, Create, Open, OpenReadsSize, OpenPublishes, Write, SeedFails, Flush, Release,
         ReleaseClears, SetSize, TruncateTo, Forget, vars, node, world
<1>2. PlainUsage'
  BY <1>1 DEF PlainUsage, Usage
<1>3. ASSUME NEW h \in Handles, SeedFails(h) PROVE PlainEdit'
  <2>1. UNCHANGED <<info, wh, handle, cut, remote, posix>> /\ faults' = faults + 1
    BY <1>3, SeedFailsEffect, PlainTurns DEF SeedFails, Fails, node
  <2>2. faults' # 0
    BY <2>1 DEF Types
  <2>3. Turns' /\ AtRest' /\ \A k \in Handles : Opening(k)' /\ Editing(k)'
    BY <2>1 DEF PlainEdit, Turns, AtRest, Opening, Editing, InUse
  <2> QED
    BY <2>2, <2>3 DEF PlainEdit, OneRemote
<1>4. CASE UNCHANGED vars
  <2>1. UNCHANGED <<info, wh, handle, cut, remote, posix, faults>>
    BY <1>4 DEF vars, node
  <2>2. Turns' /\ AtRest' /\ \A k \in Handles : Opening(k)' /\ Editing(k)'
    BY <2>1 DEF PlainEdit, Turns, AtRest, Opening, Editing, InUse
  <2> QED
    BY <1>2, <2>1, <2>2 DEF PlainEdit, OneRemote
<1>5. ASSUME NEW h \in Handles,
             \/ Create(h) \/ Open(h) \/ OpenReadsSize(h) \/ OpenPublishes(h)
             \/ Flush(h) \/ Release(h) \/ ReleaseClears(h)
      PROVE  PlainEdit'
  BY <1>5, PlainCreate, PlainOpen, PlainOpenReadsSize, PlainOpenPublishes, PlainFlush,
     PlainRelease, PlainReleaseClears
<1>6. ASSUME NEW h \in Handles, NEW off \in 0..MaxSize - 1, Write(h, off) PROVE PlainEdit'
  BY <1>6, PlainWrite
<1>7. ASSUME \/ \E n \in 0..MaxSize : SetSize(n)
             \/ TruncateTo \/ Forget
      PROVE  PlainEdit'
  BY <1>7, PlainSetSize, PlainTruncateTo, PlainForget
<1> QED
  BY <1>2, <1>3, <1>4, <1>5, <1>6, <1>7 DEF Next

\* A plain edit starts with a file that is what the mount shows.
LEMMA PlainInit == Init => PlainEdit
<1> SUFFICES ASSUME Init PROVE PlainEdit
  OBVIOUS
<1>1. \A h \in Handles : handle[h].at = "unused"
  BY DEF Init, Unused, NewHandle
<1>2. start \in Nat
  BY TypesInit DEF Types
<1>3. posix = Shown(info, remote) /\ OneRemote
  <2>1. CASE start > 0
    <3>1. info = [id |-> 1, size |-> start] /\ remote = <<StartContent>> /\ posix = StartContent
      BY <2>1 DEF Init
    <3> QED
      BY <1>2, <2>1, <3>1 DEF Shown, OneRemote
  <2>2. CASE ~(start > 0)
    <3>1. start = 0
      BY <1>2, <2>2
    <3>2. info.id = 0 /\ remote = <<>> /\ posix = StartContent
      BY <2>2 DEF Init
    <3>3. StartContent \in [1..0 -> Nat]
      BY <3>1 DEF StartContent
    <3>4. StartContent = <<>>
      BY <3>3, SeqOfFunction, EmptySeq
    <3>5. Len(remote) = 0
      BY <3>2, EmptySeq
    <3> QED
      BY <3>2, <3>4, <3>5 DEF Shown, OneRemote
  <2> QED
    BY <2>1, <2>2
<1>4. cut = None
  BY DEF Init
<1>5. Turns /\ AtRest /\ \A h \in Handles : Opening(h) /\ Editing(h)
  BY <1>1, <1>3, <1>4 DEF Turns, AtRest, Opening, Editing, InUse
<1> QED
  BY <1>3, <1>5 DEF PlainEdit

\* A world in which the calls of the kernel take turns is one of plain edits, with or
\* without duplicates of the descriptor.
PlainWhenAlone ==
  \A w \in DOMAIN Settings : \/ Settings[w].usage \subseteq {"flushBetween"}
                             \/ Settings[w].usage \cap {"share", "race"} # {}

\* Calls that take turns keep to the plain way of editing.
LEMMA PlainAlways ==
  ASSUME PlainWhenAlone PROVE Spec => [](Types /\ (Alone => PlainUsage /\ PlainEdit))
<1> DEFINE Inv == Types /\ (Alone => PlainUsage /\ PlainEdit)
<1>1. Types /\ Alone => PlainUsage
  BY DEF PlainWhenAlone, Types, Alone, PlainUsage, Usage
<1>2. Init => Inv
  BY <1>1, TypesInit, PlainInit
<1>3. Inv /\ [Next]_vars => Inv'
  <2> SUFFICES ASSUME Types, Alone => PlainUsage /\ PlainEdit, [Next]_vars, Alone'
               PROVE  PlainUsage' /\ PlainEdit'
    BY TypesStep
  <2>1. setting' = setting
    BY DEF Next, Create, Open, OpenReadsSize, OpenPublishes, Write, SeedFails, Flush, Release,
           ReleaseClears, SetSize, TruncateTo, Forget, vars, node, world
  <2>2. Alone
    BY <2>1 DEF Alone, Usage
  <2> QED
    BY <2>2, PlainStep
<1> QED
  BY <1>2, <1>3, PTL DEF Spec

\* What is uploaded is the file as the applications made it, whole: no write is
\* dropped, no stale tail kept, no rest of the file blanked. One remote file takes it
\* as long as no upload fails.
THEOREM PlainEditsUploadTheFile == ASSUME PlainWhenAlone PROVE Spec => UploadsTheFile
<1> DEFINE Uploads == /\ \A i \in DOMAIN remote' :
                           (i \in DOMAIN remote /\ remote'[i] = remote[i]) \/ remote'[i] = posix
                      /\ faults = 0 => Len(remote') <= 1
<1>1. Types /\ PlainEdit /\ [Next]_vars => Uploads
  <2> SUFFICES ASSUME Types, PlainEdit, [Next]_vars PROVE Uploads
    OBVIOUS
  <2>1. /\ DOMAIN remote = 1..Len(remote) /\ DOMAIN remote' = 1..Len(remote')
    BY TypesStep DEF Types
  <2>2. CASE UNCHANGED remote
    <3>1. faults = 0 => Len(remote') <= 1
      BY <2>2 DEF PlainEdit, OneRemote
    <3> QED
      BY <2>2, <3>1
  <2>3. ASSUME NEW h \in Handles, handle[h].at = "open", Pending(handle[h]),
               CommitDone(h) \/ CommitFails(h)
        PROVE  Uploads
    BY <2>1, <2>3, PlainCommit
  <2>4. \/ UNCHANGED remote
        \/ \E h \in Handles : /\ handle[h].at = "open" /\ Pending(handle[h])
                              /\ CommitDone(h) \/ CommitFails(h)
    BY DEF Next, Create, Open, OpenReadsSize, OpenPublishes, Write, SeedFails, Flush, Release,
           ReleaseClears, SetSize, TruncateTo, Forget, vars
  <2> QED
    BY <2>2, <2>3, <2>4
<1>2. (Types /\ (Alone => PlainUsage /\ PlainEdit)) /\ [Next]_vars
        => [Alone => Uploads]_vars
  BY <1>1
<1> QED
  BY <1>2, PlainAlways, PTL DEF Spec, UploadsTheFile

\* Only Release gives up a buffer.
LEMMA ClosesInRelease ==
  ASSUME Types, [Next]_vars, NEW h \in Handles, handle[h].at = "open", handle'[h].at = "closing"
  PROVE  Release(h)
<1>1. ASSUME NEW k \in Handles,
             \/ Create(k) \/ Open(k) \/ OpenReadsSize(k) \/ OpenPublishes(k) \/ SeedFails(k)
             \/ Flush(k) \/ ReleaseClears(k)
             \/ \E off \in 0..MaxSize - 1 : Write(k, off)
      PROVE  FALSE
  BY <1>1, CreateEffect, OpenEffect, OpenReadsSizeEffect, OpenPublishesEffect, SeedFailsEffect,
     FlushEffect, ReleaseClearsEffect, WriteEffect
<1>2. CASE TruncateTo
  BY <1>2, TruncateToEffect
<1>3. CASE Forget \/ \E n \in 0..MaxSize : SetSize(n)
  BY <1>3 DEF Forget, SetSize
<1>4. CASE UNCHANGED vars
  BY <1>4 DEF vars
<1>5. ASSUME NEW k \in Handles, Release(k) PROVE Release(h)
  BY <1>5, ReleaseEffect
<1> QED
  BY <1>1, <1>2, <1>3, <1>4, <1>5 DEF Next

\* A handle whose last Write came before any upload of it is released with what it wrote
\* stored, or with an error: after a flush that failed, or none, or one before the writes.
\* Nothing is claimed of a handle that was written to after its upload.
THEOREM ReleaseCommits == ASSUME PlainWhenAlone PROVE Spec => ReleaseKeepsWrites
<1> DEFINE Keeps == \A h \in Handles : ~handle[h].late => ReleasedWhole(h)
<1>1. Types /\ PlainEdit /\ [Next]_vars => Keeps
  <2> SUFFICES ASSUME Types, PlainEdit, [Next]_vars, NEW h \in Handles, ~handle[h].late,
                      handle'[h].at = "closing", handle[h].at = "open",
                      handle[h].wrote, faults' = faults, posix # <<>>
               PROVE  info'.id \in DOMAIN remote' /\ remote'[info'.id] = posix
    BY DEF ReleasedWhole
  <2>1. Release(h)
    BY ClosesInRelease
  <2>2. DOMAIN remote = 1..Len(remote) /\ DOMAIN remote' = 1..Len(remote')
    BY TypesStep DEF Types
  <2>3. CASE Pending(handle[h])
    <3>1. CommitDone(h) \/ CommitFails(h)
      BY <2>1, <2>3 DEF Release
    <3>2. ~CommitFails(h)
      BY CommitFacts DEF CommitFails, Fails, Types
    <3> QED
      BY <2>2, <2>3, <3>1, <3>2, PlainCommit
  <2>4. CASE ~Pending(handle[h])
    <3>1. UNCHANGED <<info, remote>> /\ handle[h].uploaded
      BY <2>1, <2>4 DEF Release, Pending
    <3>2. info.id # 0 /\ remote[info.id] = posix
      BY <3>1 DEF PlainEdit, Editing
    <3>3. info.id \in 1..Len(remote)
      BY <3>2 DEF Types
    <3> QED
      BY <2>2, <3>1, <3>2, <3>3
  <2> QED
    BY <2>3, <2>4
<1>2. (Types /\ (Alone => PlainUsage /\ PlainEdit)) /\ [Next]_vars => [Alone => Keeps]_vars
  BY <1>1
<1> QED
  BY <1>2, PlainAlways, PTL DEF Spec, ReleaseKeepsWrites
=============================================================================
