---------------------------- MODULE DirCacheProofs ----------------------------
(***************************************************************************)
(* For any number of requests, directories, names and entries: what the    *)
(* cached listings tell of the drive, and on what the requests that were   *)
(* given a name act.                                                       *)
(***************************************************************************)
EXTENDS DirCache, TLAPS

\* The requests that have their directories to themselves.
Locking == {"unlink", "rmdir", "mkdir", "rename"}

Kinds    == {"file", "dir"}
Entry    == [dir : Dirs, name : Names, kind : Kinds, ver : Nat]
Listings == [files : SUBSET Infos, doubt : BOOLEAN]

Finding == {"list", "fetch", "set"}
Acting  == {"delete", "move", "rename"}

Thread == [at : Finding \cup Acting \cup {"idle", "call", "inval", "inval2"},
           op : Requests \cup {None},
           dir : Dirs \cup {None}, name : Names \cup {None},
           dir2 : Dirs \cup {None}, name2 : Names \cup {None},
           id : Ids \cup {None}, list : Listings \cup {None}]

\* What a request has at each place.
Shape(th) ==
  /\ th.at = "idle" => th = Idle
  /\ th.at # "idle" => th.dir \in Dirs /\ th.op # None
  /\ th.op = "rename" => th.dir2 \in Dirs /\ th.name2 \in Names
  /\ th.op # "rename" => th.dir2 = None
  /\ th.op \in Locking \cup {"create"} => th.name \in Names
  /\ th.at \in Finding => th.op \in {"lookup", "unlink", "rmdir", "rename"}
  /\ th.at = "delete" => th.op \in {"unlink", "rmdir"}
  /\ th.at \in {"move", "rename", "inval2"} => th.op = "rename"
  /\ th.at = "move" => th.dir2 # th.dir
  /\ th.at = "call" => th.op \in {"mkdir", "create", "edit", "touch"}
  /\ th.at \in Acting => th.id \in Ids
  /\ th.op \in {"edit", "touch"} => th.id \in Ids
  /\ th.at \in Acting \cup {"set"} => th.list \in Listings

Types ==
  /\ remote \in [Ids -> Entry \cup {None}]
  /\ made \in Ids
  /\ cache \in [Dirs -> Listings \cup {None}]
  /\ thread \in [Threads -> Thread]
  /\ \A t \in Threads : Shape(thread[t])

\* What was never made is not there.
Born == \A i \in Ids : remote[i] # None => i <= made

\* No two requests have the same directory to themselves.
Apart == \A t, u \in Threads : t # u => Holds(t) \cap Holds(u) = {}

\* The request has changed the directory and is to drop its listing.
Pending(th, d) == \/ th.at = "inval" /\ d \in {th.dir, th.dir2}
                  \/ th.at = "rename" /\ th.dir2 # th.dir /\ d \in {th.dir, th.dir2}
                  \/ th.at = "inval2" /\ d = th.dir2

Changing(d) == \E t \in Threads : Pending(thread[t], d)
Removing(d) == \E t \in Threads : Pending(thread[t], d) /\ thread[t].op \in Locking

\* A listing not in doubt is that of the directory when nobody is to drop it; when
\* nobody who had the directory to itself is, its entries are at least there.
Tells(d, l) ==
  \/ l.doubt
  \/ /\ ~Changing(d) => l.files = Here(d).files
     /\ ~Removing(d) => \A e \in l.files : e.id \in At(d, e.name) /\ remote[e.id].kind = e.kind

CacheTells == \A d \in Dirs : cache[d] # None => Tells(d, cache[d])
SetTells   == \A t \in Threads : In(t, "set") => Tells(thread[t].dir, thread[t].list)

Inv == Types /\ Born /\ Apart /\ CacheTells /\ SetTells /\ ActsOnWhatWasNamed
-----------------------------------------------------------------------------
(* Listings, doubt and the types of requests                                *)

\* None is none of the values it stands in for.
LEMMA NoneFacts ==
  /\ None \notin Dirs /\ None \notin Names /\ None \notin Ids /\ None \notin Requests
  /\ None \notin Listings /\ None \notin Entry
  BY DirAssumption DEF Ids, Listings, Entry, Kinds

\* Doubt leaves a listing the entries it has.
LEMMA DoubtfulFacts ==
  ASSUME NEW l \in Listings \cup {None}
  PROVE  /\ Doubtful(l) \in Listings \cup {None}
         /\ l \in Listings => Doubtful(l) \in Listings /\ Doubtful(l).doubt
         /\ Doubtful(l) # None => l # None /\ Doubtful(l).doubt
<1>1. CASE l \in Listings
  <2>1. Doubtful(l) = [l EXCEPT !.doubt = TRUE]
    BY <1>1, NoneFacts DEF Doubtful
  <2>2. [l EXCEPT !.doubt = TRUE] \in Listings /\ [l EXCEPT !.doubt = TRUE].doubt
    BY <1>1 DEF Listings
  <2> QED
    BY <1>1, <2>1, <2>2, NoneFacts
<1>2. CASE l = None
  <2>1. Doubtful(l) = None
    BY <1>2 DEF Doubtful
  <2> QED
    BY <1>2, <2>1, NoneFacts
<1> QED
  BY <1>1, <1>2

\* A listing is of the type of listings.
LEMMA HereFacts ==
  ASSUME Types, NEW d \in Dirs
  PROVE  /\ Here(d) \in Listings /\ ~Here(d).doubt
         /\ \A e \in Here(d).files : e.id \in At(d, e.name) /\ remote[e.id].kind = e.kind
<1> DEFINE files == {[id |-> i, name |-> remote[i].name, kind |-> remote[i].kind, ver |-> remote[i].ver] :
                       i \in {j \in Ids : remote[j] # None /\ remote[j].dir = d}}
<1>1. ASSUME NEW i \in Ids, remote[i] # None
      PROVE  [id |-> i, name |-> remote[i].name, kind |-> remote[i].kind, ver |-> remote[i].ver] \in Infos
  <2>1. remote[i] \in Entry
    BY <1>1 DEF Types
  <2> QED
    BY <2>1 DEF Entry, Kinds, Infos, Ids
<1>2. files \in SUBSET Infos
  BY <1>1
<1>3. Here(d) = [files |-> files, doubt |-> FALSE]
  BY DEF Here
<1>4. \A e \in files : e.id \in At(d, e.name) /\ remote[e.id].kind = e.kind
  BY DEF At
<1> HIDE DEF files
<1>5. Here(d) \in Listings /\ ~Here(d).doubt /\ Here(d).files = files
  BY <1>2, <1>3 DEF Listings
<1> QED
  BY <1>4, <1>5

\* An idle thread has the type and the shape of a request.
LEMMA IdleFacts ==
  Idle \in Thread /\ Shape(Idle) /\ Idle.at = "idle" /\ Idle.op = None /\ Idle.list = None
<1>1. /\ Idle \in Thread /\ Idle.at = "idle" /\ Idle.op = None /\ Idle.list = None
      /\ Idle.dir2 = None
  BY DEF Idle, Thread
<1>2. None \notin Locking \cup {"create", "edit", "touch"}
  BY NoneFacts DEF Requests, Locking
<1> QED
  BY <1>1, <1>2 DEF Shape, Locking, Finding, Acting

\* Two requests that differ in the listing they have in hand, if at all.
Alike(a, b) == /\ a.at = b.at /\ a.op = b.op /\ a.dir = b.dir /\ a.name = b.name
               /\ a.dir2 = b.dir2 /\ a.name2 = b.name2 /\ a.id = b.id

\* A request whose listing is put in doubt is the same but for that.
LEMMA DoubtOne ==
  ASSUME NEW th \in Thread, Shape(th)
  PROVE  LET new == [th EXCEPT !.list = Doubtful(@)] IN
         /\ new \in Thread /\ Shape(new) /\ Alike(new, th)
         /\ new.list = Doubtful(th.list)
<1> DEFINE new == [th EXCEPT !.list = Doubtful(th.list)]
<1>1. th.list \in Listings \cup {None}
  BY DEF Thread
<1>2. Doubtful(th.list) \in Listings \cup {None} /\ (th.list \in Listings => Doubtful(th.list) \in Listings)
  BY <1>1, DoubtfulFacts
<1>3. new \in Thread /\ Alike(new, th) /\ new.list = Doubtful(th.list)
  BY <1>2 DEF Thread, Alike
<1>4. th.at = "idle" => new = Idle
  <2> SUFFICES ASSUME th.at = "idle" PROVE new = Idle
    OBVIOUS
  <2>1. th = Idle
    BY DEF Shape
  <2>2. Doubtful(th.list) = th.list
    BY <2>1, IdleFacts DEF Doubtful
  <2>3. new = th
    BY <2>2 DEF Thread
  <2> QED
    BY <2>1, <2>3
<1> HIDE DEF new
<1>5. Shape(new)
  BY <1>2, <1>3, <1>4 DEF Shape, Alike
<1>6. new = [th EXCEPT !.list = Doubtful(@)]
  BY DEF new
<1> QED
  BY <1>3, <1>5, <1>6

\* Doubt(dirs, th): listings of dirs are in doubt, the others as they were.
LEMMA DoubtEffect ==
  ASSUME NEW dirs, NEW th \in [Threads -> Thread], \A t \in Threads : Shape(th[t]),
         cache \in [Dirs -> Listings \cup {None}], Doubt(dirs, th)
  PROVE  /\ cache' \in [Dirs -> Listings \cup {None}]
         /\ \A d \in Dirs : IF d \in dirs THEN cache'[d] # None => cache'[d].doubt
                                          ELSE cache'[d] = cache[d]
         /\ thread' \in [Threads -> Thread]
         /\ \A t \in Threads :
              /\ Shape(thread'[t]) /\ Alike(thread'[t], th[t])
              /\ IF th[t].dir \in dirs THEN th[t].list \in Listings => thread'[t].list.doubt
                                       ELSE thread'[t].list = th[t].list
<1>1. /\ \A d \in Dirs : Doubtful(cache[d]) \in Listings \cup {None}
      /\ \A d \in Dirs : Doubtful(cache[d]) # None => Doubtful(cache[d]).doubt
  BY DoubtfulFacts
<1>2. cache' = [d \in Dirs |-> IF d \in dirs THEN Doubtful(cache[d]) ELSE cache[d]]
  BY DEF Doubt
<1>3. thread' = [t \in Threads |-> IF th[t].dir \in dirs THEN [th[t] EXCEPT !.list = Doubtful(@)] ELSE th[t]]
  BY DEF Doubt
<1>4. ASSUME NEW t \in Threads
      PROVE  /\ thread'[t] \in Thread /\ Shape(thread'[t]) /\ Alike(thread'[t], th[t])
             /\ IF th[t].dir \in dirs THEN th[t].list \in Listings => thread'[t].list.doubt
                                      ELSE thread'[t].list = th[t].list
  <2>1. CASE th[t].dir \in dirs
    <3> DEFINE new == [th[t] EXCEPT !.list = Doubtful(@)]
    <3>1. /\ new \in Thread /\ Shape(new) /\ Alike(new, th[t])
          /\ new.list = Doubtful(th[t].list)
      BY DoubtOne
    <3>2. thread'[t] = new
      BY <1>3, <2>1
    <3> HIDE DEF new
    <3>3. th[t].list \in Listings => Doubtful(th[t].list).doubt
      BY DoubtfulFacts
    <3> QED
      BY <2>1, <3>1, <3>2, <3>3
  <2>2. CASE th[t].dir \notin dirs
    <3>1. thread'[t] = th[t]
      BY <1>3, <2>2
    <3> QED
      BY <2>2, <3>1 DEF Alike
  <2> QED
    BY <2>1, <2>2
<1>5. thread' \in [Threads -> Thread]
  BY <1>3, <1>4
<1>6. cache' \in [Dirs -> Listings \cup {None}]
  BY <1>1, <1>2
<1> QED
  BY <1>1, <1>2, <1>4, <1>5, <1>6
-----------------------------------------------------------------------------
(* What a change leaves on the drive                                        *)

\* Entries stay what they are, or go, or change; a new one has the next id.
Possible(after) ==
  /\ after \in [Ids -> Entry \cup {None}]
  /\ \A i \in Ids : after[i] # None => remote[i] # None \/ i = made + 1

\* No entry of the directory goes or is called another name.
Stays(after, d) ==
  \A i \in Ids : remote[i] # None /\ remote[i].dir = d =>
    /\ after[i] # None /\ after[i].dir = d
    /\ after[i].name = remote[i].name /\ after[i].kind = remote[i].kind

Grown(after) == \A d \in Dirs : Stays(after, d)

\* An entry that is made.
LEMMA MakePossible ==
  ASSUME Types, Born, NEW d \in Dirs, NEW n \in Names, NEW k \in Kinds, NEW after \in Make(d, n, k)
  PROVE  Possible(after) /\ Grown(after)
<1> DEFINE new == [dir |-> d, name |-> n, kind |-> k, ver |-> 0]
<1>1. new \in Entry
  BY DEF Entry
<1>2. made < MaxIds /\ after = [remote EXCEPT ![made + 1] = new]
  BY DEF Make
<1> HIDE DEF new
<1>3. made + 1 \in Ids /\ remote[made + 1] = None
  BY <1>2, DirAssumption DEF Ids, Types, Born
<1>4. after \in [Ids -> Entry \cup {None}] /\ \A i \in Ids \ {made + 1} : after[i] = remote[i]
  BY <1>1, <1>2 DEF Types
<1> QED
  BY <1>3, <1>4 DEF Possible, Grown, Stays

\* A new version of an entry there is.
LEMMA NewVersionPossible ==
  ASSUME Types, NEW i \in Ids, NEW after \in NewVersion(i)
  PROVE  Possible(after) /\ Grown(after)
<1>1. remote[i] # None /\ after = [remote EXCEPT ![i].ver = @ + 1]
  BY DEF NewVersion
<1>2. remote[i] \in Entry
  BY <1>1 DEF Types
<1> DEFINE new == [remote[i] EXCEPT !.ver = @ + 1]
<1>3. /\ new \in Entry /\ new.dir = remote[i].dir /\ new.name = remote[i].name
      /\ new.kind = remote[i].kind
  BY <1>2 DEF Entry
<1>4. after = [remote EXCEPT ![i] = new]
  BY <1>1
<1> HIDE DEF new
<1>5. new # None
  BY <1>3, NoneFacts
<1>6. after \in [Ids -> Entry \cup {None}] /\ after[i] = new /\ \A j \in Ids \ {i} : after[j] = remote[j]
  BY <1>3, <1>4 DEF Types
<1> QED
  BY <1>1, <1>3, <1>5, <1>6 DEF Possible, Grown, Stays

\* An entry that goes, or goes elsewhere.
LEMMA EditPossible ==
  ASSUME Types, NEW i \in Ids, remote[i] # None, NEW new \in Entry \cup {None},
         NEW after, after = [remote EXCEPT ![i] = new]
  PROVE  Possible(after)
  BY DEF Possible, Types

\* What the server does for Move and Rename is a possible change of the drive.
LEMMA MovePossible ==
  ASSUME Types, NEW i \in Ids, remote[i] # None, NEW d \in Dirs, NEW n \in Names, NEW after,
         \/ after = [remote EXCEPT ![i].dir = d]
         \/ after = [remote EXCEPT ![i].name = n]
         \/ after = [remote EXCEPT ![i].dir = d, ![i].name = n]
  PROVE  Possible(after)
<1>1. remote[i] \in Entry
  BY DEF Types
<1>2. /\ [remote[i] EXCEPT !.dir = d] \in Entry /\ [remote[i] EXCEPT !.name = n] \in Entry
      /\ [remote[i] EXCEPT !.dir = d, !.name = n] \in Entry
  BY <1>1 DEF Entry
<1>3. \/ after = [remote EXCEPT ![i] = [remote[i] EXCEPT !.dir = d]]
      \/ after = [remote EXCEPT ![i] = [remote[i] EXCEPT !.name = n]]
      \/ after = [remote EXCEPT ![i] = [remote[i] EXCEPT !.dir = d, !.name = n]]
  OBVIOUS
<1> QED
  BY <1>2, <1>3, EditPossible

\* What the server does for a request.  A request that has not the directory to
\* itself takes nothing away.
LEMMA ServedPossible ==
  ASSUME Types, Born, NEW t \in Threads, thread[t].at \in Calls, NEW after \in Served(t)
  PROVE  /\ Possible(after)
         /\ thread[t].op \notin Locking => Grown(after)
<1> DEFINE req == thread[t]
<1>1. req \in Thread /\ Shape(req)
  BY DEF Types
<1>2. CASE req.at = "delete"
  <2>1. req.id \in Ids /\ req.op \in Locking
    BY <1>1, <1>2 DEF Shape, Acting, Locking
  <2>2. Served(t) = IF remote[req.id] = None THEN {} ELSE {[remote EXCEPT ![req.id] = None]}
    <3>1. req.op \in {"unlink", "rmdir"}
      BY <1>1, <1>2 DEF Shape
    <3> QED
      BY <1>2, <3>1 DEF Served
  <2>3. remote[req.id] # None /\ after = [remote EXCEPT ![req.id] = None]
    BY <2>2, Zenon
  <2> QED
    BY <2>1, <2>3, EditPossible
<1>3. CASE req.at = "move"
  <2>1. req.id \in Ids /\ req.op = "rename" /\ req.dir2 \in Dirs
    BY <1>1, <1>3 DEF Shape, Acting
  <2>4. Served(t) = IF remote[req.id] = None \/ ~Free(req.dir2, remote[req.id].name) THEN {}
                    ELSE {[remote EXCEPT ![req.id].dir = req.dir2]}
    BY <1>3, <2>1 DEF Served
  <2>2. remote[req.id] # None /\ after = [remote EXCEPT ![req.id].dir = req.dir2]
    BY <2>4, Zenon
  <2>3. Possible(after)
    BY <1>1, <2>1, <2>2, MovePossible DEF Shape, Locking
  <2> QED
    BY <2>1, <2>3 DEF Locking
<1>4. CASE req.at = "rename"
  <2>1. req.id \in Ids /\ req.op = "rename" /\ req.name2 \in Names /\ req.dir2 \in Dirs
    BY <1>1, <1>4 DEF Shape, Acting
  <2>4. Served(t) = IF remote[req.id] = None \/ ~Free(remote[req.id].dir, req.name2) THEN {}
                    ELSE {[remote EXCEPT ![req.id].name = req.name2]}
    BY <1>4, <2>1 DEF Served
  <2>2. remote[req.id] # None /\ after = [remote EXCEPT ![req.id].name = req.name2]
    BY <2>4, Zenon
  <2>3. Possible(after)
    BY <2>1, <2>2, MovePossible
  <2> QED
    BY <2>1, <2>3 DEF Locking
<1>5. CASE req.at = "call"
  <2>1. req.op \in {"mkdir", "create", "edit", "touch"} /\ req.dir \in Dirs
    BY <1>1, <1>5 DEF Shape
  <2>2. CASE req.op = "mkdir"
    <3>1. req.name \in Names
      BY <1>1, <2>2 DEF Shape, Locking
    <3>2. after \in Make(req.dir, req.name, "dir")
      BY <1>5, <2>2 DEF Served
    <3> QED
      BY <2>1, <3>1, <3>2, MakePossible DEF Kinds
  <2>3. CASE req.op = "create"
    <3>1. req.name \in Names
      BY <1>1, <2>3 DEF Shape
    <3>2. \/ after \in Make(req.dir, req.name, "file")
          \/ \E j \in Ids : after \in NewVersion(j)
      BY <1>5, <2>3 DEF Served, At
    <3> QED
      BY <2>1, <3>1, <3>2, MakePossible, NewVersionPossible DEF Kinds
  <2>4. CASE req.op \in {"edit", "touch"}
    <3>1. req.id \in Ids
      BY <1>1, <2>4 DEF Shape
    <3>2. after \in NewVersion(req.id)
      BY <1>5, <2>4 DEF Served
    <3> QED
      BY <3>1, <3>2, NewVersionPossible
  <2> QED
    BY <2>1, <2>2, <2>3, <2>4
<1> QED
  BY <1>2, <1>3, <1>4, <1>5 DEF Calls

\* So is whatever another client does.
LEMMA ForeignPossible ==
  ASSUME Types, Born, Foreign
  PROVE  \E after : Possible(after) /\ Becomes(after)
<1>1. ASSUME NEW i \in Ids, remote[i] # None, Becomes([remote EXCEPT ![i] = None])
      PROVE  \E after : Possible(after) /\ Becomes(after)
  BY <1>1, EditPossible
<1>2. ASSUME NEW i \in Ids, NEW after \in NewVersion(i), Becomes(after)
      PROVE  Possible(after)
  BY NewVersionPossible
<1>3. ASSUME NEW i \in Ids, remote[i] # None, NEW d \in Dirs, NEW n \in Names,
             Becomes([remote EXCEPT ![i].dir = d, ![i].name = n])
      PROVE  \E after : Possible(after) /\ Becomes(after)
  BY <1>3, MovePossible
<1>4. ASSUME NEW d \in Dirs, NEW n \in Names, NEW after \in Make(d, n, "file"), Becomes(after)
      PROVE  Possible(after)
  BY MakePossible DEF Kinds
<1>5. \/ \E i \in Ids : remote[i] # None /\ Becomes([remote EXCEPT ![i] = None])
      \/ \E i \in Ids : \E after \in NewVersion(i) : Becomes(after)
      \/ \E i \in Ids, d \in Dirs, n \in Names :
            remote[i] # None /\ Becomes([remote EXCEPT ![i].dir = d, ![i].name = n])
      \/ \E d \in Dirs, n \in Names : \E after \in Make(d, n, "file") : Becomes(after)
  BY Zenon DEF Foreign
<1>6. CASE \E i \in Ids : remote[i] # None /\ Becomes([remote EXCEPT ![i] = None])
  BY <1>1, <1>6
<1>7. CASE \E i \in Ids : \E after \in NewVersion(i) : Becomes(after)
  BY <1>2, <1>7
<1>8. CASE \E i \in Ids, d \in Dirs, n \in Names :
             remote[i] # None /\ Becomes([remote EXCEPT ![i].dir = d, ![i].name = n])
  BY <1>3, <1>8
<1>9. CASE \E d \in Dirs, n \in Names : \E after \in Make(d, n, "file") : Becomes(after)
  BY <1>4, <1>9
<1> QED
  BY <1>5, <1>6, <1>7, <1>8, <1>9

\* A call that changes nothing.
LEMMA SamePossible ==
  ASSUME Types
  PROVE  Possible(remote) /\ Changed(remote) = {}
  BY DEF Possible, Types, Changed

\* The ids given out are those of what was made.
LEMMA MakesFacts ==
  ASSUME Types, Born, NEW after, Possible(after), Makes(after), remote' = after
  PROVE  made' \in Ids /\ Born' /\ remote' \in [Ids -> Entry \cup {None}]
<1>1. remote' \in [Ids -> Entry \cup {None}]
  BY DEF Possible
<1>2. CASE \E i \in Ids : i > made /\ after[i] # None
  <2>1. PICK i \in Ids : i > made /\ after[i] # None
    BY <1>2
  <2>2. remote[i] = None
    BY <2>1 DEF Born, Types, Ids
  <2>3. i = made + 1 /\ made' = made + 1
    BY <2>1, <2>2, <1>2 DEF Possible, Makes
  <2>4. Born'
    BY <2>3 DEF Born, Possible, Types, Ids
  <2> QED
    BY <1>1, <2>3, <2>4
<1>3. CASE ~\E i \in Ids : i > made /\ after[i] # None
  <2>1. made' = made
    BY <1>3 DEF Makes, Types, Ids
  <2>2. Born'
    BY <1>3, <2>1 DEF Born, Types, Ids
  <2> QED
    BY <1>1, <2>1, <2>2 DEF Types
<1> QED
  BY <1>2, <1>3

\* Directories a change did not touch are as they were.
LEMMA UntouchedStays ==
  ASSUME Types, NEW after, Possible(after), remote' = after, NEW d \in Dirs, d \notin Changed(after)
  PROVE  Here(d)'.files = Here(d).files /\ Stays(after, d)
<1>1. ASSUME NEW i \in Ids
      PROVE  /\ remote[i] # None /\ remote[i].dir = d => after[i] = remote[i]
             /\ after[i] # None /\ after[i].dir = d => after[i] = remote[i]
  BY DEF Changed
<1>2. {j \in Ids : remote'[j] # None /\ remote'[j].dir = d} =
        {j \in Ids : remote[j] # None /\ remote[j].dir = d}
  BY <1>1
<1>3. Here(d)'.files = Here(d).files
  BY <1>1, <1>2 DEF Here
<1> QED
  BY <1>1, <1>3 DEF Stays
-----------------------------------------------------------------------------
(* What goes on being told                                                  *)

\* Nobody who was to drop the listing of d is done with it, and what changed in d is
\* about to be dropped.
KeepsTelling(d) ==
  /\ ~Changing(d)' => ~Changing(d) /\ Here(d)'.files = Here(d).files
  /\ ~Removing(d)' => ~Removing(d) /\ Stays(remote', d)

\* What a listing tells after the step.
TellsNext(d, l) ==
  \/ l.doubt
  \/ /\ ~Changing(d)' => l.files = Here(d)'.files
     /\ ~Removing(d)' => \A e \in l.files : e.id \in At(d, e.name)' /\ remote'[e.id].kind = e.kind

\* A listing goes on telling what it tells of a directory that keeps telling.
LEMMA TellsOn ==
  ASSUME NEW d \in Dirs, NEW l, Tells(d, l), KeepsTelling(d)
  PROVE  TellsNext(d, l)
<1>1. CASE l.doubt
  BY <1>1 DEF TellsNext
<1>2. CASE ~l.doubt
  <2>1. ~Changing(d)' => l.files = Here(d)'.files
    BY <1>2 DEF Tells, KeepsTelling
  <2>2. ASSUME ~Removing(d)', NEW e \in l.files
        PROVE  e.id \in At(d, e.name)' /\ remote'[e.id].kind = e.kind
    <3>1. e.id \in At(d, e.name) /\ remote[e.id].kind = e.kind /\ Stays(remote', d)
      BY <1>2, <2>2 DEF Tells, KeepsTelling
    <3>2. e.id \in Ids /\ remote[e.id] # None /\ remote[e.id].dir = d /\ remote[e.id].name = e.name
      BY <3>1 DEF At
    <3> QED
      BY <3>1, <3>2 DEF Stays, At
  <2> QED
    BY <2>1, <2>2 DEF TellsNext
<1> QED
  BY <1>1, <1>2

\* The two halves of the invariant about listings, after a step.
LEMMA TellsPrimed ==
  /\ CacheTells' <=> \A d \in Dirs : cache'[d] # None => TellsNext(d, cache'[d])
  /\ (\A t \in Threads, d \in Dirs :
        thread'[t].at = "set" /\ thread'[t].dir = d => TellsNext(d, thread'[t].list))
     /\ (\A t \in Threads : thread'[t].at = "set" => thread'[t].dir \in Dirs) => SetTells'
<1>1. CacheTells' <=> \A d \in Dirs : cache'[d] # None => TellsNext(d, cache'[d])
  BY DEF CacheTells, Tells, TellsNext
<1>2. SUFFICES ASSUME \A t \in Threads, d \in Dirs :
                        thread'[t].at = "set" /\ thread'[t].dir = d => TellsNext(d, thread'[t].list),
                      NEW t \in Threads, thread'[t].at = "set", thread'[t].dir \in Dirs
               PROVE  Tells(thread[t].dir, thread[t].list)'
  BY <1>1 DEF SetTells, In
<1>3. PICK d \in Dirs : thread'[t].dir = d
  BY <1>2
<1>4. TellsNext(d, thread'[t].list)
  BY <1>2, <1>3
<1> QED
  BY <1>3, <1>4 DEF Tells, TellsNext

\* The directory a request holds is its own.
HeldBy(th) == IF th.op \in Locking THEN {th.dir, th.dir2} \ {None} ELSE {}

\* The directories a request has to itself depend on that request alone.
LEMMA HoldsFacts ==
  ASSUME NEW t \in Threads
  PROVE  Holds(t) = HeldBy(thread[t]) /\ Holds(t)' = HeldBy(thread'[t])
  BY DEF Holds, HeldBy, Locking

\* Requests that take no further directory stay apart.
LEMMA ApartOn ==
  ASSUME Apart, \A t \in Threads : HeldBy(thread'[t]) \subseteq HeldBy(thread[t])
  PROVE  Apart'
<1> SUFFICES ASSUME NEW t \in Threads, NEW u \in Threads, t # u
             PROVE  HeldBy(thread'[t]) \cap HeldBy(thread'[u]) = {}
  BY HoldsFacts DEF Apart
<1>1. HeldBy(thread[t]) \cap HeldBy(thread[u]) = {}
  BY HoldsFacts DEF Apart
<1> QED
  BY <1>1

\* What a request is about to do is what it was asked to.
Acts(th) ==
  th.at \in Acting /\ ~(th.at = "rename" /\ th.dir2 # th.dir) /\ ~th.list.doubt =>
    /\ th.id \in At(th.dir, th.name)
    /\ th.op # "rename" => (remote[th.id].kind = "dir") = (th.op = "rmdir")

ActsNext(th) ==
  th.at \in Acting /\ ~(th.at = "rename" /\ th.dir2 # th.dir) /\ ~th.list.doubt =>
    /\ th.id \in Ids /\ remote'[th.id] # None
    /\ remote'[th.id].dir = th.dir /\ remote'[th.id].name = th.name
    /\ th.op # "rename" => (remote'[th.id].kind = "dir") = (th.op = "rmdir")

\* ActsOnWhatWasNamed, request by request, before a step and after it.
LEMMA ActsFacts ==
  /\ ActsOnWhatWasNamed <=> \A t \in Threads : Acts(thread[t])
  /\ ActsOnWhatWasNamed' <=> \A t \in Threads : ActsNext(thread'[t])
  BY DEF ActsOnWhatWasNamed, Acts, ActsNext, Moved, In, Acting, At

\* A request that goes on with its entry goes on acting on it, if the directory it
\* listed stays as it is or its listing is in doubt.
LEMMA ActsOn ==
  ASSUME NEW old \in Thread, Shape(old), Acts(old), NEW new, Alike(new, old),
         \/ old.list \in Listings => new.list.doubt
         \/ new.list = old.list /\ Stays(remote', old.dir)
  PROVE  ActsNext(new)
<1> SUFFICES ASSUME new.at \in Acting, ~(new.at = "rename" /\ new.dir2 # new.dir), ~new.list.doubt
             PROVE  /\ new.id \in Ids /\ remote'[new.id] # None
                    /\ remote'[new.id].dir = new.dir /\ remote'[new.id].name = new.name
                    /\ new.op # "rename" => (remote'[new.id].kind = "dir") = (new.op = "rmdir")
  BY DEF ActsNext
<1>1. old.list \in Listings
  BY DEF Shape, Alike
<1>2. new.list = old.list /\ Stays(remote', old.dir)
  BY <1>1
<1>3. /\ old.id \in At(old.dir, old.name)
      /\ old.op # "rename" => (remote[old.id].kind = "dir") = (old.op = "rmdir")
  BY <1>2 DEF Acts, Alike
<1>4. old.id \in Ids /\ remote[old.id] # None /\ remote[old.id].dir = old.dir
      /\ remote[old.id].name = old.name
  BY <1>3 DEF At
<1>5. /\ remote'[old.id] # None /\ remote'[old.id].dir = old.dir
      /\ remote'[old.id].name = old.name /\ remote'[old.id].kind = remote[old.id].kind
  BY <1>2, <1>4 DEF Stays
<1> QED
  BY <1>3, <1>4, <1>5 DEF Alike

\* Requests that are alike drop the same listings and hold the same directories.
LEMMA PendingAlike ==
  ASSUME NEW a, NEW b, Alike(a, b), NEW d
  PROVE  (Pending(a, d) <=> Pending(b, d)) /\ HeldBy(a) = HeldBy(b)
  BY DEF Alike, Pending, HeldBy
-----------------------------------------------------------------------------
(* Changes of the drive                                                     *)

\* Where a request may be when the server has answered.
After(new, old) ==
  \/ new = old
  \/ new = Idle
  \/ new = [old EXCEPT !.at = "inval"]
  \/ new = [old EXCEPT !.at = "rename"] /\ old.dir2 # old.dir

\* What a call makes of the request that made it.
LEMMA AfterFacts ==
  ASSUME NEW old \in Thread, Shape(old), NEW new, After(new, old)
  PROVE  /\ new.at = "set" => new = old
         /\ HeldBy(new) \subseteq HeldBy(old)
         /\ new = old \/ ~(new.at \in Acting /\ ~(new.at = "rename" /\ new.dir2 # new.dir))
<1>1. Idle.at = "idle" /\ HeldBy(Idle) = {}
  BY IdleFacts, NoneFacts DEF HeldBy, Locking, Requests
<1>2. CASE new = [old EXCEPT !.at = "inval"]
  BY <1>2 DEF Thread, HeldBy, Acting
<1>3. CASE new = [old EXCEPT !.at = "rename"] /\ old.dir2 # old.dir
  BY <1>3 DEF Thread, HeldBy
<1>4. CASE new = Idle
  BY <1>1, <1>4 DEF Acting
<1> QED
  BY <1>2, <1>3, <1>4 DEF After

\* The drive changes, listings are put in doubt, and the others go on telling.
LEMMA ServerKeeps ==
  ASSUME Inv, NEW after, Possible(after), remote' = after, Makes(after),
         NEW dirs, NEW th \in [Threads -> Thread], Doubt(dirs, th),
         \A t \in Threads : Shape(th[t]) /\ After(th[t], thread[t]),
         \A d \in Dirs \ dirs : KeepsTelling(d),
         \A t \in Threads : th[t] = thread[t] /\ thread[t].at \in Acting /\ thread[t].dir \notin dirs =>
            Stays(after, thread[t].dir)
  PROVE  Inv'
<1> USE DEF Inv
<1>1. cache \in [Dirs -> Listings \cup {None}] /\ \A t \in Threads : thread[t] \in Thread /\ Shape(thread[t])
  BY DEF Types
<1>2. /\ cache' \in [Dirs -> Listings \cup {None}]
      /\ \A d \in Dirs : IF d \in dirs THEN cache'[d] # None => cache'[d].doubt
                                       ELSE cache'[d] = cache[d]
      /\ thread' \in [Threads -> Thread]
      /\ \A t \in Threads :
           /\ Shape(thread'[t]) /\ Alike(thread'[t], th[t])
           /\ IF th[t].dir \in dirs THEN th[t].list \in Listings => thread'[t].list.doubt
                                    ELSE thread'[t].list = th[t].list
  BY <1>1, DoubtEffect
<1>3. Types' /\ Born'
  BY <1>2, MakesFacts DEF Types
<1>4. ASSUME NEW t \in Threads
      PROVE  /\ th[t].at = "set" => th[t] = thread[t]
             /\ HeldBy(th[t]) \subseteq HeldBy(thread[t])
             /\ \/ th[t] = thread[t]
                \/ ~(th[t].at \in Acting /\ ~(th[t].at = "rename" /\ th[t].dir2 # th[t].dir))
  BY <1>1, AfterFacts
<1>5. Apart'
  <2>1. ASSUME NEW t \in Threads
        PROVE  HeldBy(thread'[t]) \subseteq HeldBy(thread[t])
    BY <1>2, <1>4, PendingAlike
  <2> QED
    BY <2>1, ApartOn
<1>6. ASSUME NEW d \in Dirs, cache'[d] # None
      PROVE  TellsNext(d, cache'[d])
  <2>1. CASE d \in dirs
    BY <1>2, <1>6, <2>1 DEF TellsNext
  <2>2. CASE d \notin dirs
    <3>1. cache'[d] = cache[d]
      BY <1>2, <2>2
    <3>2. Tells(d, cache[d]) /\ KeepsTelling(d)
      BY <1>6, <2>2, <3>1 DEF CacheTells
    <3> QED
      BY <3>1, <3>2, TellsOn
  <2> QED
    BY <2>1, <2>2
<1>7. ASSUME NEW t \in Threads, thread'[t].at = "set"
      PROVE  /\ thread'[t].dir \in Dirs
             /\ \A d \in Dirs : thread'[t].dir = d => TellsNext(d, thread'[t].list)
  <2>1. thread'[t].at = th[t].at /\ thread'[t].dir = th[t].dir
    BY <1>2 DEF Alike
  <2>2. th[t] = thread[t] /\ thread[t].at = "set" /\ Shape(thread[t])
    BY <1>1, <1>4, <1>7, <2>1
  <2>3. thread[t].dir \in Dirs /\ thread[t].list \in Listings
    BY <2>2 DEF Shape
  <2>4. CASE thread[t].dir \in dirs
    BY <1>2, <2>1, <2>2, <2>3, <2>4 DEF TellsNext
  <2>5. CASE thread[t].dir \notin dirs
    <3>1. thread'[t].list = thread[t].list
      BY <1>2, <2>2, <2>5
    <3>2. Tells(thread[t].dir, thread[t].list) /\ KeepsTelling(thread[t].dir)
      BY <2>2, <2>3, <2>5 DEF SetTells, In
    <3> QED
      BY <2>1, <2>2, <2>3, <3>1, <3>2, TellsOn
  <2> QED
    BY <2>4, <2>5
<1>8. ASSUME NEW t \in Threads
      PROVE  ActsNext(thread'[t])
  <2>1. Alike(thread'[t], th[t]) /\ thread'[t].at = th[t].at /\ thread'[t].dir = th[t].dir
        /\ thread'[t].dir2 = th[t].dir2
    BY <1>2 DEF Alike
  <2>2. CASE ~(th[t].at \in Acting /\ ~(th[t].at = "rename" /\ th[t].dir2 # th[t].dir))
    BY <2>1, <2>2 DEF ActsNext
  <2>3. CASE th[t] = thread[t] /\ th[t].at \in Acting
    <3>1. Acts(thread[t])
      BY ActsFacts
    <3>2. \/ thread[t].list \in Listings => thread'[t].list.doubt
          \/ thread'[t].list = thread[t].list /\ Stays(remote', thread[t].dir)
      BY <1>2, <2>3
    <3> QED
      BY <1>1, <2>1, <2>3, <3>1, <3>2, ActsOn
  <2> QED
    BY <1>4, <2>2, <2>3
<1> QED
  BY <1>3, <1>5, <1>6, <1>7, <1>8, TellsPrimed, ActsFacts

\* A directory that did not change, whose listing nobody is done with.
LEMMA UntouchedTells ==
  ASSUME Types, NEW after, Possible(after), remote' = after, NEW d \in Dirs, d \notin Changed(after),
         Changing(d) => Changing(d)', Removing(d) => Removing(d)'
  PROVE  KeepsTelling(d)
  BY UntouchedStays DEF KeepsTelling

\* Who has a directory to itself has it in hand; nobody else has.
LEMMA AloneIn ==
  ASSUME Types, Apart, NEW t \in Threads, NEW u \in Threads, t # u, NEW d \in Dirs,
         d \in {thread[t].dir, thread[t].dir2}, d \in {thread[u].dir, thread[u].dir2},
         thread[t].op \in Locking
  PROVE  thread[u].op \notin Locking
<1>1. HeldBy(thread[t]) \cap HeldBy(thread[u]) = {}
  BY HoldsFacts DEF Apart
<1>2. d \in HeldBy(thread[t])
  BY NoneFacts DEF HeldBy
<1>3. thread[u].op \in Locking => d \in HeldBy(thread[u])
  BY NoneFacts DEF HeldBy
<1> QED
  BY <1>1, <1>2, <1>3

\* The requests pending after a change, when all but t are where they were.
LEMMA PendingOn ==
  ASSUME NEW th, \A u \in Threads : Alike(thread'[u], th[u]), NEW t \in Threads,
         \A u \in Threads \ {t} : th[u] = thread[u], NEW d,
         Pending(thread[t], d) => Pending(th[t], d) /\ th[t].op = thread[t].op
  PROVE  (Changing(d) => Changing(d)') /\ (Removing(d) => Removing(d)')
<1>1. \A u \in Threads : Pending(thread[u], d) => Pending(thread'[u], d) /\ thread'[u].op = thread[u].op
  BY PendingAlike DEF Alike
<1> QED
  BY <1>1 DEF Changing, Removing

\* Call: the directories the request is to drop are those it need not doubt.
LEMMA CallKeeps ==
  ASSUME Inv, NEW t \in Threads, Call(t)
  PROVE  Inv'
<1> USE DEF Inv
<1>1. PICK after \in Served(t) : /\ remote' = after /\ Makes(after)
                                /\ Doubt(Changed(after) \ Drops(t), [thread EXCEPT ![t].at = NextCall(t)])
  BY DEF Call
<1> DEFINE old  == thread[t]
           new  == [old EXCEPT !.at = NextCall(t)]
           th   == [thread EXCEPT ![t] = new]
           dirs == Changed(after) \ Drops(t)
<1>2. old.at \in Calls /\ old \in Thread /\ Shape(old)
  BY DEF Call, Types
<1>3. Possible(after) /\ (old.op \notin Locking => Grown(after))
  BY <1>2, ServedPossible
<1>4. NextCall(t) \in {"rename", "inval"} /\ (NextCall(t) = "rename" => old.at = "move")
  BY DEF NextCall, In
<1>5. old.at = "move" => old.dir2 # old.dir /\ old.op = "rename"
  BY <1>2 DEF Shape
<1>6. /\ new \in Thread /\ new.at = NextCall(t) /\ new.op = old.op /\ new.dir = old.dir
      /\ new.name = old.name /\ new.dir2 = old.dir2 /\ new.name2 = old.name2
      /\ new.id = old.id /\ new.list = old.list
  BY <1>2, <1>4 DEF Thread, Acting
<1>7. After(new, old)
  BY <1>4, <1>5 DEF After
<1>8. old.dir \in Dirs /\ old.op # None /\ old.op # "lookup" /\ old.at # "idle"
  BY <1>2 DEF Shape, Calls, Locking
<1>9. Shape(new)
  BY <1>2, <1>4, <1>5, <1>6, <1>8 DEF Shape, Calls, Finding, Acting
<1>10. Doubt(dirs, th)
  BY <1>1
<1> HIDE DEF new
<1>11. th \in [Threads -> Thread] /\ th[t] = new /\ \A u \in Threads \ {t} : th[u] = thread[u]
  BY <1>6 DEF Types
<1> HIDE DEF th
<1>12. \A u \in Threads : Shape(th[u]) /\ After(th[u], thread[u])
  BY <1>7, <1>9, <1>11 DEF Types, After
<1>13. \A u \in Threads : Alike(thread'[u], th[u])
  BY <1>10, <1>11, <1>12, DoubtEffect DEF Types
<1>14. ASSUME NEW d \in Dirs, d \in Drops(t)
       PROVE  Pending(new, d)
  BY <1>4, <1>5, <1>6, <1>14 DEF Pending, Drops
<1>15. ASSUME NEW d \in Dirs, Pending(old, d)
       PROVE  d \in Drops(t)
  BY <1>2, <1>15, NoneFacts DEF Pending, Drops, Calls
<1>16. ASSUME NEW d \in Dirs
       PROVE  (Changing(d) => Changing(d)') /\ (Removing(d) => Removing(d)')
  BY <1>6, <1>11, <1>13, <1>14, <1>15, PendingOn
<1>17. ASSUME NEW d \in Dirs \ dirs
       PROVE  KeepsTelling(d)
  <2>1. CASE d \notin Changed(after)
    BY <1>1, <1>3, <1>16, <2>1, UntouchedTells
  <2>2. CASE d \in Drops(t)
    <3>1. Pending(new, d) /\ Pending(thread'[t], d) /\ thread'[t].op = old.op
      BY <1>6, <1>11, <1>13, <1>14, <2>2, PendingAlike DEF Alike
    <3>2. Changing(d)'
      BY <3>1 DEF Changing
    <3>3. old.op \in Locking => Removing(d)'
      BY <3>1 DEF Removing
    <3>4. old.op \notin Locking => Stays(remote', d)
      BY <1>1, <1>3 DEF Grown
    <3> QED
      BY <1>16, <3>2, <3>3, <3>4 DEF KeepsTelling
  <2> QED
    BY <2>1, <2>2
<1>18. ASSUME NEW u \in Threads, th[u] = thread[u], thread[u].at \in Acting, thread[u].dir \notin dirs
       PROVE  Stays(after, thread[u].dir)
  <2> DEFINE d == thread[u].dir
  <2>1. d \in Dirs /\ thread[u].op \in Locking
    BY <1>18 DEF Types, Shape, Acting, Locking
  <2>2. u # t
    BY <1>2, <1>4, <1>6, <1>11, <1>18 DEF Calls, Acting
  <2>3. CASE d \notin Changed(after)
    BY <1>1, <1>3, <2>1, <2>3, UntouchedStays
  <2>4. CASE d \in Drops(t)
    <3>1. d \in {old.dir, old.dir2}
      BY <2>4 DEF Drops
    <3>2. old.op \notin Locking
      BY <2>1, <2>2, <3>1, AloneIn
    <3> QED
      BY <1>3, <2>1, <3>2 DEF Grown
  <2> QED
    BY <1>18, <2>3, <2>4
<1> HIDE DEF dirs, old
<1> QED
  BY <1>1, <1>3, <1>10, <1>11, <1>12, <1>17, <1>18, ServerKeeps

\* A call that erred, done or not: all it changed is in doubt, and all a rename has
\* changed before.
LEMMA ErrsKeeps ==
  ASSUME Inv, NEW t \in Threads, thread[t].at \in Calls, NEW after, Possible(after),
         remote' = after, Makes(after), Errs(t, after)
  PROVE  Inv'
<1> USE DEF Inv
<1> DEFINE old  == thread[t]
           th   == [thread EXCEPT ![t] = Idle]
           dirs == Changed(after) \cup (IF Moved(t) THEN Drops(t) ELSE {})
<1>1. Doubt(dirs, th)
  BY DEF Errs
<1>2. th \in [Threads -> Thread] /\ th[t] = Idle /\ \A u \in Threads \ {t} : th[u] = thread[u]
  BY IdleFacts DEF Types
<1> HIDE DEF th
<1>3. \A u \in Threads : Shape(th[u]) /\ After(th[u], thread[u])
  BY <1>2, IdleFacts DEF Types, After
<1>4. \A u \in Threads : Alike(thread'[u], th[u])
  BY <1>1, <1>2, <1>3, DoubtEffect DEF Types
<1>5. ASSUME NEW d \in Dirs \ dirs
      PROVE  KeepsTelling(d)
  <2>1. ~Pending(thread[t], d)
    BY NoneFacts DEF Pending, Moved, Drops, Calls, In
  <2>2. (Changing(d) => Changing(d)') /\ (Removing(d) => Removing(d)')
    BY <1>2, <1>4, <2>1, PendingOn
  <2> QED
    BY <2>2, UntouchedTells
<1>6. ASSUME NEW u \in Threads, th[u] = thread[u], thread[u].at \in Acting, thread[u].dir \notin dirs
      PROVE  Stays(after, thread[u].dir)
  <2>1. thread[u].dir \in Dirs
    BY <1>6 DEF Types, Shape, Acting
  <2> QED
    BY <1>6, <2>1, UntouchedStays
<1> HIDE DEF dirs
<1> QED
  BY <1>1, <1>2, <1>3, <1>5, <1>6, ServerKeeps

\* The server refuses: nothing has changed, and the request ends.
LEMMA RefusedKeeps ==
  ASSUME Inv, NEW t \in Threads, Refused(t)
  PROVE  Inv'
<1>1. thread[t].at \in Calls /\ Errs(t, remote) /\ remote' = remote /\ made' = made
  BY DEF Refused
<1>2. Possible(remote)
  BY SamePossible DEF Inv
<1>3. Makes(remote)
  BY <1>1 DEF Makes, Inv, Born, Types, Ids
<1> QED
  BY <1>1, <1>2, <1>3, ErrsKeeps

\* A call fails, done or not done.
LEMMA CallFailsKeeps ==
  ASSUME Inv, NEW t \in Threads, CallFails(t)
  PROVE  Inv'
<1>1. PICK after \in {remote} \cup Served(t) : remote' = after /\ Makes(after) /\ Errs(t, after)
  BY DEF CallFails
<1>2. thread[t].at \in Calls
  BY DEF CallFails
<1>3. Possible(after)
  BY <1>2, ServedPossible, SamePossible DEF Inv
<1> QED
  BY <1>1, <1>2, <1>3, ErrsKeeps

\* Other clients: all they changed is in doubt.
LEMMA ForeignKeeps ==
  ASSUME Inv, Foreign
  PROVE  Inv'
<1> USE DEF Inv
<1>1. PICK after : Possible(after) /\ Becomes(after)
  BY ForeignPossible
<1>2. remote' = after /\ Makes(after) /\ Doubt(Changed(after), thread)
  BY <1>1 DEF Becomes
<1>3. thread \in [Threads -> Thread] /\ \A u \in Threads : Shape(thread[u]) /\ After(thread[u], thread[u])
  BY DEF Types, After
<1>4. \A u \in Threads : Alike(thread'[u], thread[u])
  BY <1>2, <1>3, DoubtEffect DEF Types
<1>5. ASSUME NEW d \in Dirs \ Changed(after)
      PROVE  KeepsTelling(d)
  <2>1. \A u \in Threads : Pending(thread[u], d) => Pending(thread'[u], d) /\ thread'[u].op = thread[u].op
    BY <1>4, PendingAlike DEF Alike
  <2>2. (Changing(d) => Changing(d)') /\ (Removing(d) => Removing(d)')
    BY <2>1 DEF Changing, Removing
  <2> QED
    BY <1>1, <1>2, <2>2, UntouchedTells
<1>6. ASSUME NEW u \in Threads, thread[u].at \in Acting, thread[u].dir \notin Changed(after)
      PROVE  Stays(after, thread[u].dir)
  <2>1. thread[u].dir \in Dirs
    BY <1>6 DEF Types, Shape, Acting
  <2> QED
    BY <1>1, <1>2, <1>6, <2>1, UntouchedStays
<1> QED
  BY <1>1, <1>2, <1>3, <1>5, <1>6, ServerKeeps
-----------------------------------------------------------------------------
(* Steps that leave the drive alone                                         *)

\* A directory keeps telling while the drive is the same and no drop is forgotten.
LEMMA SameDrive ==
  ASSUME remote' = remote, NEW d \in Dirs,
         Changing(d) => Changing(d)', Removing(d) => Removing(d)'
  PROVE  KeepsTelling(d)
<1>1. Here(d)'.files = Here(d).files /\ Stays(remote', d)
  BY DEF Here, Stays
<1> QED
  BY <1>1 DEF KeepsTelling

\* A request begins, looks for its entry, or ends: nobody's listing is the worse.
LEMMA LocalKeeps ==
  ASSUME Inv, NEW t \in Threads, NEW new \in Thread, Shape(new),
         thread' = [thread EXCEPT ![t] = new], remote' = remote, made' = made,
         \A u \in Threads \ {t} : HeldBy(new) \cap HeldBy(thread[u]) = {},
         \A d \in Dirs : ~Pending(thread[t], d),
         new.at = "set" => Tells(new.dir, new.list),
         Acts(new),
         cache' \in [Dirs -> Listings \cup {None}],
         \A d \in Dirs : cache'[d] # None => Tells(d, cache'[d])
  PROVE  Inv'
<1> USE DEF Inv
<1>1. thread' \in [Threads -> Thread] /\ thread'[t] = new /\ \A u \in Threads \ {t} : thread'[u] = thread[u]
  BY DEF Types
<1>2. Types' /\ Born'
  BY <1>1 DEF Types, Born
<1>3. Apart'
  <2> SUFFICES ASSUME NEW u \in Threads, NEW v \in Threads, u # v
               PROVE  HeldBy(thread'[u]) \cap HeldBy(thread'[v]) = {}
    BY HoldsFacts DEF Apart
  <2>1. u # t /\ v # t => HeldBy(thread[u]) \cap HeldBy(thread[v]) = {}
    BY HoldsFacts DEF Apart
  <2> QED
    BY <1>1, <2>1
<1>4. ASSUME NEW d \in Dirs
      PROVE  KeepsTelling(d)
  <2>1. (Changing(d) => Changing(d)') /\ (Removing(d) => Removing(d)')
    BY <1>1 DEF Changing, Removing
  <2> QED
    BY <2>1, SameDrive
<1>5. ASSUME NEW d \in Dirs, cache'[d] # None
      PROVE  TellsNext(d, cache'[d])
  BY <1>4, <1>5, TellsOn
<1>6. ASSUME NEW u \in Threads, thread'[u].at = "set"
      PROVE  /\ thread'[u].dir \in Dirs
             /\ \A d \in Dirs : thread'[u].dir = d => TellsNext(d, thread'[u].list)
  <2>1. thread'[u].dir \in Dirs
    BY <1>2, <1>6 DEF Types, Shape
  <2>2. Tells(thread'[u].dir, thread'[u].list)
    BY <1>1, <1>6 DEF SetTells, In
  <2> QED
    BY <1>4, <2>1, <2>2, TellsOn
<1>7. ASSUME NEW u \in Threads
      PROVE  ActsNext(thread'[u])
  <2>1. Acts(thread'[u])
    BY <1>1, ActsFacts
  <2> QED
    BY <2>1 DEF Acts, ActsNext, At
<1> QED
  BY <1>2, <1>3, <1>5, <1>6, <1>7, TellsPrimed, ActsFacts

\* A request begins, with directories nobody holds.
LEMMA BeginKeeps ==
  ASSUME Inv, NEW t \in Threads, NEW new \in Thread, Shape(new), Begin(t, new),
         new.at \in {"list", "call"}, \A u \in Threads : HeldBy(new) \cap HeldBy(thread[u]) = {}
  PROVE  Inv'
<1>1. /\ thread[t].at = "idle" /\ thread' = [thread EXCEPT ![t] = new]
      /\ UNCHANGED <<remote, made, cache>>
  BY DEF Begin, In
<1>2. \A d \in Dirs : ~Pending(thread[t], d)
  BY <1>1 DEF Pending
<1>3. Acts(new)
  BY DEF Acts, Acting
<1>4. cache' \in [Dirs -> Listings \cup {None}] /\ \A d \in Dirs : cache'[d] # None => Tells(d, cache'[d])
  BY <1>1 DEF Inv, Types, CacheTells
<1> QED
  BY <1>1, <1>2, <1>3, <1>4, LocalKeeps

\* A directory that nobody holds is in no other request.
LEMMA UnheldFacts ==
  ASSUME NEW dirs, Unheld(dirs), NEW u \in Threads
  PROVE  dirs \cap HeldBy(thread[u]) = {}
  BY HoldsFacts DEF Unheld

\* The requests of the kernel.
LEMMA RequestsKeep ==
  ASSUME Inv, NEW t \in Threads,
         Lookup(t) \/ Remove(t) \/ Rename(t) \/ Mkdir(t) \/ Commit(t) \/ Touch(t)
  PROVE  Inv'
<1>1. CASE Lookup(t)
  <2>1. PICK d \in Dirs : Begin(t, [Idle EXCEPT !.at = "list", !.op = "lookup", !.dir = d])
    BY <1>1 DEF Lookup
  <2> DEFINE new == [Idle EXCEPT !.at = "list", !.op = "lookup", !.dir = d]
  <2>2. /\ new \in Thread /\ new.at = "list" /\ new.op = "lookup" /\ new.dir = d
        /\ new.dir2 = None
    BY DEF Idle, Thread, Requests, Finding
  <2> HIDE DEF new
  <2>3. Shape(new) /\ HeldBy(new) = {}
    BY <2>2, NoneFacts DEF Shape, HeldBy, Locking, Finding, Acting, Requests
  <2> QED
    BY <2>1, <2>2, <2>3, BeginKeeps DEF new
<1>2. CASE Remove(t)
  <2>1. PICK d \in Dirs, n \in Names, op \in {"unlink", "rmdir"} :
          Unheld({d}) /\ Begin(t, [Idle EXCEPT !.at = "list", !.op = op, !.dir = d, !.name = n])
    BY <1>2 DEF Remove
  <2> DEFINE new == [Idle EXCEPT !.at = "list", !.op = op, !.dir = d, !.name = n]
  <2>2. /\ new \in Thread /\ new.at = "list" /\ new.op = op /\ new.dir = d
        /\ new.name = n /\ new.dir2 = None
    BY DEF Idle, Thread, Requests, Finding
  <2> HIDE DEF new
  <2>3. Shape(new)
    BY <2>2, NoneFacts DEF Shape, Locking, Finding, Acting, Requests
  <2>4. HeldBy(new) \subseteq {d}
    BY <2>2 DEF HeldBy
  <2> QED
    BY <2>1, <2>2, <2>3, <2>4, UnheldFacts, BeginKeeps DEF new
<1>3. CASE Rename(t)
  <2>1. PICK d \in Dirs, d2 \in Dirs, n \in Names, n2 \in Names :
          /\ Unheld({d, d2})
          /\ Begin(t, [Idle EXCEPT !.at = "list", !.op = "rename", !.dir = d, !.name = n,
                                   !.dir2 = d2, !.name2 = n2])
    BY <1>3 DEF Rename
  <2> DEFINE new == [Idle EXCEPT !.at = "list", !.op = "rename", !.dir = d, !.name = n,
                                 !.dir2 = d2, !.name2 = n2]
  <2>2. /\ new \in Thread /\ new.at = "list" /\ new.op = "rename" /\ new.dir = d
        /\ new.name = n /\ new.dir2 = d2 /\ new.name2 = n2
    BY DEF Idle, Thread, Requests, Finding
  <2> HIDE DEF new
  <2>3. Shape(new)
    BY <2>2, NoneFacts DEF Shape, Locking, Finding, Acting, Requests
  <2>4. HeldBy(new) \subseteq {d, d2}
    BY <2>2 DEF HeldBy
  <2> QED
    BY <2>1, <2>2, <2>3, <2>4, UnheldFacts, BeginKeeps DEF new
<1>4. CASE Mkdir(t)
  <2>1. PICK d \in Dirs, n \in Names :
          Unheld({d}) /\ Begin(t, [Idle EXCEPT !.at = "call", !.op = "mkdir", !.dir = d, !.name = n])
    BY <1>4 DEF Mkdir
  <2> DEFINE new == [Idle EXCEPT !.at = "call", !.op = "mkdir", !.dir = d, !.name = n]
  <2>2. /\ new \in Thread /\ new.at = "call" /\ new.op = "mkdir" /\ new.dir = d
        /\ new.name = n /\ new.dir2 = None
    BY DEF Idle, Thread, Requests
  <2> HIDE DEF new
  <2>3. Shape(new)
    BY <2>2, NoneFacts DEF Shape, Locking, Finding, Acting, Requests
  <2>4. HeldBy(new) \subseteq {d}
    BY <2>2 DEF HeldBy
  <2> QED
    BY <2>1, <2>2, <2>3, <2>4, UnheldFacts, BeginKeeps DEF new
<1>5. ASSUME NEW new \in Thread, new.at = "call", new.op \in {"create", "edit", "touch"},
             new.dir \in Dirs, new.dir2 = None, Begin(t, new),
             new.op = "create" => new.name \in Names, new.op # "create" => new.id \in Ids
      PROVE  Inv'
  <2>1. Shape(new) /\ HeldBy(new) = {}
    BY <1>5, NoneFacts DEF Shape, HeldBy, Locking, Finding, Acting, Requests
  <2> QED
    BY <1>5, <2>1, BeginKeeps
<1>6. CASE Commit(t)
  <2>1. CASE \E d \in Dirs, n \in Names :
               Begin(t, [Idle EXCEPT !.at = "call", !.op = "create", !.dir = d, !.name = n])
    <3>1. PICK d \in Dirs, n \in Names :
            Begin(t, [Idle EXCEPT !.at = "call", !.op = "create", !.dir = d, !.name = n])
      BY <2>1
    <3> DEFINE new == [Idle EXCEPT !.at = "call", !.op = "create", !.dir = d, !.name = n]
    <3>2. /\ new \in Thread /\ new.at = "call" /\ new.op = "create" /\ new.dir = d
          /\ new.name = n /\ new.dir2 = None
      BY DEF Idle, Thread, Requests
    <3> HIDE DEF new
    <3> QED
      BY <1>5, <3>1, <3>2 DEF new
  <2>2. CASE \E i \in Ids :
               /\ remote[i] # None
               /\ Begin(t, [Idle EXCEPT !.at = "call", !.op = "edit", !.dir = remote[i].dir, !.id = i])
    <3>1. PICK i \in Ids :
            /\ remote[i] # None
            /\ Begin(t, [Idle EXCEPT !.at = "call", !.op = "edit", !.dir = remote[i].dir, !.id = i])
      BY <2>2
    <3> DEFINE d   == remote[i].dir
               new == [Idle EXCEPT !.at = "call", !.op = "edit", !.dir = d, !.id = i]
    <3>2. d \in Dirs
      BY <3>1 DEF Inv, Types, Entry
    <3>3. Begin(t, new)
      BY <3>1
    <3> HIDE DEF d
    <3>4. /\ new \in Thread /\ new.at = "call" /\ new.op = "edit" /\ new.dir = d
          /\ new.id = i /\ new.dir2 = None
      BY <3>2 DEF Idle, Thread, Requests
    <3> HIDE DEF new
    <3> QED
      BY <1>5, <3>2, <3>3, <3>4
  <2> QED
    BY <1>6, <2>1, <2>2 DEF Commit
<1>7. CASE Touch(t)
  <2>1. PICK i \in Ids :
          /\ remote[i] # None
          /\ Begin(t, [Idle EXCEPT !.at = "call", !.op = "touch", !.dir = remote[i].dir,
                                   !.name = remote[i].name, !.id = i])
    BY <1>7 DEF Touch
  <2> DEFINE d   == remote[i].dir
             n   == remote[i].name
             new == [Idle EXCEPT !.at = "call", !.op = "touch", !.dir = d, !.name = n, !.id = i]
  <2>2. d \in Dirs /\ n \in Names
    BY <2>1 DEF Inv, Types, Entry
  <2>3. Begin(t, new)
    BY <2>1
  <2> HIDE DEF d, n
  <2>4. /\ new \in Thread /\ new.at = "call" /\ new.op = "touch" /\ new.dir = d
        /\ new.id = i /\ new.dir2 = None
    BY <2>2 DEF Idle, Thread, Requests
  <2> HIDE DEF new
  <2> QED
    BY <1>5, <2>2, <2>3, <2>4
<1> QED
  BY <1>1, <1>2, <1>3, <1>4, <1>6, <1>7

\* A request returns: it is one that nothing depends on.
LEMMA ReturnsKeeps ==
  ASSUME Inv, NEW t \in Threads, Returns(t), remote' = remote, made' = made,
         \A d \in Dirs : ~Pending(thread[t], d),
         cache' \in [Dirs -> Listings \cup {None}],
         \A d \in Dirs : cache'[d] # None => Tells(d, cache'[d])
  PROVE  Inv'
<1>1. HeldBy(Idle) = {} /\ Acts(Idle)
  BY IdleFacts, NoneFacts DEF HeldBy, Locking, Requests, Acts, Acting
<1>2. thread' = [thread EXCEPT ![t] = Idle]
  BY DEF Returns
<1> QED
  BY <1>1, <1>2, IdleFacts, LocalKeeps

\* What a request found in a listing of its directory is what it was named, as it has
\* the directory to itself.
LEMMA GoesOnKeeps ==
  ASSUME Inv, NEW t \in Threads, thread[t].at \in {"list", "set"}, remote' = remote, made' = made,
         NEW l \in Listings, Tells(thread[t].dir, l), GoesOnWith(t, l),
         cache' \in [Dirs -> Listings \cup {None}],
         \A d \in Dirs : cache'[d] # None => Tells(d, cache'[d])
  PROVE  Inv'
<1> USE DEF Inv
<1> DEFINE old == thread[t]
<1>1. old \in Thread /\ Shape(old) /\ old.dir \in Dirs
      /\ old.op \in {"lookup", "unlink", "rmdir", "rename"}
  BY DEF Types, Shape, Finding
<1>2. \A d \in Dirs : ~Pending(old, d)
  BY DEF Pending
<1>3. CASE Returns(t)
  BY <1>2, <1>3, ReturnsKeeps
<1>4. CASE old.op # "lookup" /\ \E e \in Matches(t, l) :
             thread' = [thread EXCEPT ![t].at = FirstCall(t), ![t].id = e.id,
                                  ![t].list = [l EXCEPT !.files = {e}]]
  <2>1. PICK e \in Matches(t, l) :
          thread' = [thread EXCEPT ![t].at = FirstCall(t), ![t].id = e.id,
                               ![t].list = [l EXCEPT !.files = {e}]]
    BY <1>4
  <2>2. /\ e \in l.files /\ e.name = old.name
        /\ old.op = "unlink" => e.kind = "file"
        /\ old.op = "rmdir" => e.kind = "dir"
    BY DEF Matches
  <2>3. e \in Infos /\ e.id \in Ids
    BY <2>2 DEF Listings, Infos, Ids
  <2> DEFINE one == [l EXCEPT !.files = {e}]
             new == [old EXCEPT !.at = FirstCall(t), !.id = e.id, !.list = one]
  <2>4. one \in Listings /\ one.doubt = l.doubt
    BY <2>3 DEF Listings
  <2>5. /\ FirstCall(t) \in Acting
        /\ FirstCall(t) = "delete" => old.op # "rename"
        /\ FirstCall(t) # "delete" => old.op = "rename"
        /\ FirstCall(t) = "move" => old.dir2 # old.dir
        /\ FirstCall(t) = "rename" => old.dir2 = old.dir
    BY DEF FirstCall, Acting
  <2> HIDE DEF one
  <2>6. /\ new \in Thread /\ new.at = FirstCall(t) /\ new.op = old.op /\ new.dir = old.dir
        /\ new.name = old.name /\ new.dir2 = old.dir2 /\ new.name2 = old.name2
        /\ new.id = e.id /\ new.list = one
    BY <1>1, <2>3, <2>4, <2>5 DEF Thread
  <2>7. thread' = [thread EXCEPT ![t] = new]
    BY <2>1 DEF one
  <2> HIDE DEF new
  <2>8. Shape(new)
    BY <1>1, <1>4, <2>3, <2>4, <2>5, <2>6 DEF Shape, Acting, Finding
  <2>9. old.op \in Locking
    BY <1>1, <1>4 DEF Locking
  <2>10. ~Removing(old.dir)
    <3> SUFFICES ASSUME NEW u \in Threads, Pending(thread[u], old.dir), thread[u].op \in Locking
                 PROVE  FALSE
      BY DEF Removing
    <3>1. u # t
      BY <1>1, <1>2
    <3>2. old.dir \in {thread[u].dir, thread[u].dir2}
      BY DEF Pending
    <3> QED
      BY <1>1, <2>9, <3>1, <3>2, AloneIn
  <2>11. Acts(new)
    <3> SUFFICES ASSUME ~l.doubt
                 PROVE  /\ e.id \in At(old.dir, old.name)
                        /\ old.op # "rename" => (remote[e.id].kind = "dir") = (old.op = "rmdir")
      BY <2>4, <2>6 DEF Acts
    <3>1. e.id \in At(old.dir, e.name) /\ remote[e.id].kind = e.kind
      BY <2>2, <2>10 DEF Tells
    <3>2. CASE old.op = "rmdir"
      BY <2>2, <3>1, <3>2
    <3>3. CASE old.op = "unlink"
      BY <2>2, <3>1, <3>3
    <3> QED
      BY <1>1, <1>4, <2>2, <3>1, <3>2, <3>3
  <2>12. \A u \in Threads \ {t} : HeldBy(new) \cap HeldBy(thread[u]) = {}
    <3>1. HeldBy(new) = HeldBy(old)
      BY <2>6 DEF HeldBy
    <3> QED
      BY <3>1, HoldsFacts DEF Apart
  <2>13. new.at # "set"
    BY <2>5, <2>6 DEF Acting
  <2> HIDE DEF old
  <2> QED
    BY <1>2, <2>6, <2>7, <2>8, <2>11, <2>12, <2>13, LocalKeeps DEF old
<1> QED
  BY <1>3, <1>4 DEF GoesOnWith

\* A request goes to fetch, or comes with what it fetched.
LEMMA StillHeld ==
  ASSUME Inv, NEW t \in Threads, NEW new, HeldBy(new) = HeldBy(thread[t])
  PROVE  \A u \in Threads \ {t} : HeldBy(new) \cap HeldBy(thread[u]) = {}
  BY HoldsFacts DEF Inv, Apart

\* The cache is read: a listing taken from it tells what the cache told.
LEMMA GetKeeps ==
  ASSUME Inv, NEW t \in Threads, Get(t)
  PROVE  Inv'
<1> DEFINE old == thread[t]
<1>1. old.at = "list" /\ UNCHANGED <<remote, made, cache>>
  BY DEF Get, In
<1>2. old \in Thread /\ Shape(old) /\ old.dir \in Dirs
  BY <1>1 DEF Inv, Types, Shape
<1>3. cache' \in [Dirs -> Listings \cup {None}] /\ \A d \in Dirs : cache'[d] # None => Tells(d, cache'[d])
  BY <1>1 DEF Inv, Types, CacheTells
<1>4. CASE cache[old.dir] # None /\ GoesOnWith(t, cache[old.dir])
  <2>1. cache[old.dir] \in Listings /\ Tells(old.dir, cache[old.dir])
    BY <1>2, <1>4 DEF Inv, Types, CacheTells
  <2> QED
    BY <1>1, <1>3, <1>4, <2>1, GoesOnKeeps
<1>5. CASE Goes(t, "fetch")
  <2> DEFINE new == [old EXCEPT !.at = "fetch"]
  <2>1. /\ new \in Thread /\ new.at = "fetch" /\ new.op = old.op /\ new.dir = old.dir
        /\ new.name = old.name /\ new.dir2 = old.dir2 /\ new.name2 = old.name2 /\ new.id = old.id
    BY <1>2 DEF Thread, Finding
  <2>2. thread' = [thread EXCEPT ![t] = new]
    BY <1>5 DEF Goes
  <2> HIDE DEF new
  <2>3. Shape(new)
    BY <1>1, <1>2, <2>1 DEF Shape, Acting, Finding
  <2>4. HeldBy(new) = HeldBy(old) /\ Acts(new) /\ \A d \in Dirs : ~Pending(old, d)
    BY <1>1, <2>1 DEF HeldBy, Acts, Acting, Pending
  <2> QED
    BY <1>1, <1>3, <2>1, <2>2, <2>3, <2>4, StillHeld, LocalKeeps
<1> QED
  BY <1>4, <1>5 DEF Get

\* A listing is fetched: it tells what there is.
LEMMA FetchKeeps ==
  ASSUME Inv, NEW t \in Threads, Fetch(t)
  PROVE  Inv'
<1> DEFINE old == thread[t]
<1>1. old.at = "fetch" /\ UNCHANGED <<remote, made, cache>>
  BY DEF Fetch, In
<1>2. old \in Thread /\ Shape(old) /\ old.dir \in Dirs
  BY <1>1 DEF Inv, Types, Shape
<1>3. cache' \in [Dirs -> Listings \cup {None}] /\ \A d \in Dirs : cache'[d] # None => Tells(d, cache'[d])
  BY <1>1 DEF Inv, Types, CacheTells
<1>4. \A d \in Dirs : ~Pending(old, d)
  BY <1>1 DEF Pending
<1>5. CASE Returns(t)
  BY <1>1, <1>3, <1>4, <1>5, ReturnsKeeps
<1>6. CASE thread' = [thread EXCEPT ![t].at = "set", ![t].list = Here(old.dir)]
  <2> DEFINE l   == Here(old.dir)
             new == [old EXCEPT !.at = "set", !.list = l]
  <2>1. l \in Listings /\ \A e \in l.files : e.id \in At(old.dir, e.name) /\ remote[e.id].kind = e.kind
    BY <1>2, HereFacts DEF Inv
  <2>2. Tells(old.dir, l)
    BY <2>1 DEF Tells
  <2>3. thread' = [thread EXCEPT ![t] = new]
    BY <1>6
  <2> HIDE DEF l
  <2>4. /\ new \in Thread /\ new.at = "set" /\ new.op = old.op /\ new.dir = old.dir
        /\ new.name = old.name /\ new.dir2 = old.dir2 /\ new.name2 = old.name2 /\ new.id = old.id
        /\ new.list = l
    BY <1>2, <2>1 DEF Thread, Finding
  <2> HIDE DEF new
  <2>5. Shape(new)
    BY <1>1, <1>2, <2>1, <2>4 DEF Shape, Acting, Finding
  <2>6. HeldBy(new) = HeldBy(old) /\ Acts(new)
    BY <2>4 DEF HeldBy, Acts, Acting
  <2> QED
    BY <1>1, <1>3, <1>4, <2>2, <2>3, <2>4, <2>5, <2>6, StillHeld, LocalKeeps
<1> QED
  BY <1>5, <1>6 DEF Fetch

\* A fetched listing is stored, and tells in the cache what it told on its way.
LEMMA SetKeeps ==
  ASSUME Inv, NEW t \in Threads, Set(t)
  PROVE  Inv'
<1> DEFINE old == thread[t]
<1>1. old.at = "set" /\ UNCHANGED <<remote, made>> /\ GoesOnWith(t, old.list)
      /\ cache' = [cache EXCEPT ![old.dir] = old.list]
  BY DEF Set, In
<1>2. old.dir \in Dirs /\ old.list \in Listings
  BY <1>1 DEF Inv, Types, Shape
<1>3. Tells(old.dir, old.list)
  BY <1>1 DEF Inv, SetTells, In
<1>4. cache' \in [Dirs -> Listings \cup {None}] /\ \A d \in Dirs : cache'[d] # None => Tells(d, cache'[d])
  BY <1>1, <1>2, <1>3 DEF Inv, Types, CacheTells
<1> QED
  BY <1>1, <1>2, <1>3, <1>4, GoesOnKeeps

\* A listing expires.
LEMMA ExpireKeeps ==
  ASSUME Inv, NEW d \in Dirs, Expire(d)
  PROVE  Inv'
<1> USE DEF Inv
<1>1. cache' = [cache EXCEPT ![d] = None] /\ UNCHANGED <<remote, made, thread>>
  BY DEF Expire
<1>2. Types' /\ Born'
  BY <1>1 DEF Types, Born
<1>3. Apart' /\ ActsOnWhatWasNamed'
  BY <1>1 DEF Apart, Holds, ActsOnWhatWasNamed, Moved, In, At
<1>4. ASSUME NEW e \in Dirs
      PROVE  KeepsTelling(e)
  BY <1>1, SameDrive DEF Changing, Removing
<1>5. ASSUME NEW e \in Dirs, cache'[e] # None
      PROVE  TellsNext(e, cache'[e])
  <2>1. cache'[e] = cache[e]
    BY <1>1, <1>5 DEF Types
  <2> QED
    BY <1>4, <1>5, <2>1, TellsOn DEF CacheTells
<1>6. ASSUME NEW u \in Threads, thread'[u].at = "set"
      PROVE  /\ thread'[u].dir \in Dirs
             /\ \A e \in Dirs : thread'[u].dir = e => TellsNext(e, thread'[u].list)
  <2>1. thread'[u].dir \in Dirs
    BY <1>2, <1>6 DEF Types, Shape
  <2>2. Tells(thread[u].dir, thread[u].list)
    BY <1>1, <1>6 DEF SetTells, In
  <2> QED
    BY <1>1, <1>4, <2>1, <2>2, TellsOn
<1> QED
  BY <1>2, <1>3, <1>5, <1>6, TellsPrimed

\* The listing of d is dropped, and one on its way into the cache is in doubt.
LEMMA DroppedKeeps ==
  ASSUME Inv, NEW t \in Threads, NEW new \in Thread, Shape(new), new.at \in {"idle", "inval2"},
         HeldBy(new) \subseteq HeldBy(thread[t]), NEW d \in Dirs,
         Dropped(d, [thread EXCEPT ![t] = new]), remote' = remote, made' = made,
         \A e \in Dirs \ {d} : Pending(thread[t], e) => Pending(new, e) /\ new.op = thread[t].op
  PROVE  Inv'
<1> USE DEF Inv
<1> DEFINE th == [thread EXCEPT ![t] = new]
<1>1. th \in [Threads -> Thread] /\ th[t] = new /\ \A u \in Threads \ {t} : th[u] = thread[u]
  BY DEF Types
<1>2. \A u \in Threads : Shape(th[u])
  BY <1>1 DEF Types
<1>3. /\ cache' = [cache EXCEPT ![d] = None]
      /\ thread' = [u \in Threads |-> IF th[u].at = "set" /\ th[u].dir = d
                                     THEN [th[u] EXCEPT !.list = Doubtful(@)] ELSE th[u]]
  BY DEF Dropped
<1> HIDE DEF th
<1>4. ASSUME NEW u \in Threads
      PROVE  /\ thread'[u] \in Thread /\ Shape(thread'[u]) /\ Alike(thread'[u], th[u])
             /\ IF th[u].at = "set" /\ th[u].dir = d THEN thread'[u].list.doubt
                                                   ELSE thread'[u] = th[u]
  <2>1. CASE th[u].at = "set" /\ th[u].dir = d
    <3> DEFINE other == [th[u] EXCEPT !.list = Doubtful(@)]
    <3>1. other \in Thread /\ Shape(other) /\ Alike(other, th[u]) /\ other.list = Doubtful(th[u].list)
      BY <1>1, <1>2, DoubtOne
    <3>2. thread'[u] = other
      BY <1>3, <2>1
    <3> HIDE DEF other
    <3>3. th[u].list \in Listings
      BY <1>2, <2>1 DEF Shape
    <3> QED
      BY <2>1, <3>1, <3>2, <3>3, DoubtfulFacts
  <2>2. CASE ~(th[u].at = "set" /\ th[u].dir = d)
    <3>1. thread'[u] = th[u]
      BY <1>3, <2>2
    <3> QED
      BY <1>1, <1>2, <2>2, <3>1 DEF Alike
  <2> QED
    BY <2>1, <2>2
<1>5. cache' \in [Dirs -> Listings \cup {None}] /\ cache'[d] = None
      /\ \A e \in Dirs \ {d} : cache'[e] = cache[e]
  BY <1>3 DEF Types
<1>6. thread' \in [Threads -> Thread]
  BY <1>3, <1>4
<1>7. Types' /\ Born'
  BY <1>4, <1>5, <1>6 DEF Types, Born
<1>8. Apart'
  <2>1. ASSUME NEW u \in Threads
        PROVE  HeldBy(thread'[u]) \subseteq HeldBy(thread[u])
    BY <1>1, <1>4, PendingAlike
  <2> QED
    BY <2>1, ApartOn
<1>9. ASSUME NEW e \in Dirs \ {d}
      PROVE  KeepsTelling(e)
  <2>1. (Changing(e) => Changing(e)') /\ (Removing(e) => Removing(e)')
    BY <1>1, <1>4, PendingOn
  <2> QED
    BY <2>1, SameDrive
<1>10. ASSUME NEW e \in Dirs, cache'[e] # None
       PROVE  TellsNext(e, cache'[e])
  <2>1. e # d /\ cache'[e] = cache[e]
    BY <1>5, <1>10
  <2> QED
    BY <1>9, <1>10, <2>1, TellsOn DEF CacheTells
<1>11. ASSUME NEW u \in Threads, thread'[u].at = "set"
       PROVE  /\ thread'[u].dir \in Dirs
              /\ \A e \in Dirs : thread'[u].dir = e => TellsNext(e, thread'[u].list)
  <2>1. thread'[u].dir \in Dirs
    BY <1>4, <1>11 DEF Shape
  <2>2. th[u].at = "set" /\ th[u].dir = thread'[u].dir /\ u # t /\ th[u] = thread[u]
    BY <1>1, <1>4, <1>11 DEF Alike
  <2>3. CASE thread'[u].dir = d
    BY <1>4, <2>1, <2>2, <2>3 DEF TellsNext
  <2>4. CASE thread'[u].dir # d
    <3>1. thread'[u] = thread[u]
      BY <1>4, <2>2, <2>4
    <3>2. Tells(thread[u].dir, thread[u].list)
      BY <2>2 DEF SetTells, In
    <3> QED
      BY <1>9, <2>1, <2>4, <3>1, <3>2, TellsOn
  <2> QED
    BY <2>3, <2>4
<1>12. ASSUME NEW u \in Threads
       PROVE  ActsNext(thread'[u])
  <2>1. CASE thread'[u].at \notin Acting
    BY <2>1 DEF ActsNext
  <2>2. CASE thread'[u].at \in Acting
    <3>1. u # t /\ th[u] = thread[u] /\ thread'[u] = thread[u]
      BY <1>1, <1>4, <2>2 DEF Alike, Acting
    <3>2. Acts(thread[u])
      BY ActsFacts
    <3> QED
      BY <3>1, <3>2 DEF Acts, ActsNext, At
  <2> QED
    BY <2>1, <2>2
<1> QED
  BY <1>7, <1>8, <1>10, <1>11, <1>12, TellsPrimed, ActsFacts

\* Invalidate, of the directory, and of the one a rename went to.
LEMMA InvalidateDirKeeps ==
  ASSUME Inv, NEW t \in Threads, InvalidateDir(t)
  PROVE  Inv'
<1> DEFINE old == thread[t]
           new == IF old.op = "rename" THEN [old EXCEPT !.at = "inval2"] ELSE Idle
<1>1. old.at = "inval" /\ UNCHANGED <<remote, made>>
  BY DEF InvalidateDir, In
<1>2. old \in Thread /\ Shape(old) /\ old.dir \in Dirs /\ (old.op # "rename" => old.dir2 = None)
  BY <1>1 DEF Inv, Types, Shape
<1>3. Dropped(old.dir, [thread EXCEPT ![t] = new])
  BY DEF InvalidateDir
<1>4. CASE old.op = "rename"
  <2> DEFINE next == [old EXCEPT !.at = "inval2"]
  <2>1. /\ next \in Thread /\ next.at = "inval2" /\ next.op = old.op /\ next.dir = old.dir
        /\ next.name = old.name /\ next.dir2 = old.dir2 /\ next.name2 = old.name2 /\ next.id = old.id
    BY <1>2 DEF Thread
  <2>2. Dropped(old.dir, [thread EXCEPT ![t] = next])
    BY <1>3, <1>4
  <2> HIDE DEF next
  <2>3. Shape(next)
    BY <1>1, <1>2, <1>4, <2>1 DEF Shape, Acting, Finding
  <2>4. HeldBy(next) \subseteq HeldBy(old)
    BY <2>1 DEF HeldBy
  <2>5. \A e \in Dirs \ {old.dir} : Pending(old, e) => Pending(next, e) /\ next.op = old.op
    BY <1>1, <2>1 DEF Pending
  <2> QED
    BY <1>1, <1>2, <2>1, <2>2, <2>3, <2>4, <2>5, DroppedKeeps
<1>5. CASE old.op # "rename"
  <2>1. Dropped(old.dir, [thread EXCEPT ![t] = Idle])
    BY <1>3, <1>5
  <2>2. HeldBy(Idle) = {}
    BY IdleFacts, NoneFacts DEF HeldBy, Locking, Requests
  <2>3. \A e \in Dirs \ {old.dir} : ~Pending(old, e)
    BY <1>1, <1>2, <1>5, NoneFacts DEF Pending
  <2> QED
    BY <1>1, <1>2, <2>1, <2>2, <2>3, IdleFacts, DroppedKeeps
<1> QED
  BY <1>4, <1>5

\* Rename drops the listing of its second directory, and ends.
LEMMA InvalidateDestKeeps ==
  ASSUME Inv, NEW t \in Threads, InvalidateDest(t)
  PROVE  Inv'
<1>1. thread[t].at = "inval2" /\ UNCHANGED <<remote, made>>
      /\ Dropped(thread[t].dir2, [thread EXCEPT ![t] = Idle])
  BY DEF InvalidateDest, In
<1>2. thread[t].dir2 \in Dirs
  BY <1>1 DEF Inv, Types, Shape
<1>3. HeldBy(Idle) = {}
  BY IdleFacts, NoneFacts DEF HeldBy, Locking, Requests
<1>4. \A e \in Dirs \ {thread[t].dir2} : ~Pending(thread[t], e)
  BY <1>1 DEF Pending
<1> QED
  BY <1>1, <1>2, <1>3, <1>4, IdleFacts, DroppedKeeps
-----------------------------------------------------------------------------
(* The theorems                                                             *)

\* The drive begins with one file, and nothing is cached or under way.
LEMMA Starts ==
  ASSUME Init
  PROVE  Inv
<1>1. PICK first \in Entries : remote = [i \in Ids |-> IF i = 1 THEN first ELSE None]
  BY DEF Init
<1>2. first \in Entry
  BY DEF Entries, Entry, Kinds
<1>3. 1 \in Ids /\ made = 1 /\ cache = [d \in Dirs |-> None] /\ thread = [t \in Threads |-> Idle]
  BY DirAssumption DEF Init, Ids
<1>4. Types
  BY <1>1, <1>2, <1>3, IdleFacts DEF Types
<1>5. Born
  BY <1>1, <1>3 DEF Born
<1>6. \A t \in Threads : thread[t] = Idle
  BY <1>3
<1>7. Apart
  BY <1>6, HoldsFacts, IdleFacts, NoneFacts DEF Apart, HeldBy, Locking, Requests
<1>8. CacheTells
  BY <1>3 DEF CacheTells
<1>9. SetTells
  BY <1>6, IdleFacts DEF SetTells, In
<1>10. ActsOnWhatWasNamed
  BY <1>6, IdleFacts DEF ActsOnWhatWasNamed
<1> QED
  BY <1>4, <1>5, <1>7, <1>8, <1>9, <1>10 DEF Inv

\* Every step, and every stuttering step, keeps the invariant.
LEMMA NextKeeps ==
  ASSUME Inv, [Next]_vars
  PROVE  Inv'
<1>1. CASE UNCHANGED vars
  <2>1. UNCHANGED <<remote, made, cache, thread>>
    BY <1>1 DEF vars
  <2>2. Types' /\ Born' /\ Apart'
    BY <2>1 DEF Inv, Types, Born, Apart, Holds
  <2>3. ActsOnWhatWasNamed'
    BY <2>1 DEF Inv, ActsOnWhatWasNamed, Moved, In, At
  <2>4. \A d \in Dirs : Here(d)' = Here(d) /\ (Changing(d)' <=> Changing(d)) /\ (Removing(d)' <=> Removing(d))
    BY <2>1 DEF Here, Changing, Removing
  <2>5. ASSUME NEW d \in Dirs, NEW l, Tells(d, l)
        PROVE  TellsNext(d, l)
    BY <2>1, <2>4, <2>5 DEF Tells, TellsNext, At
  <2>6. CacheTells'
    BY <2>1, <2>5, TellsPrimed DEF Inv, CacheTells
  <2>7. SetTells'
    BY <2>1, <2>2, <2>5, TellsPrimed DEF Inv, SetTells, In, Types, Shape
  <2> QED
    BY <2>2, <2>3, <2>6, <2>7 DEF Inv
<1>2. ASSUME NEW t \in Threads,
             \/ Lookup(t) \/ Remove(t) \/ Rename(t) \/ Mkdir(t) \/ Commit(t) \/ Touch(t)
             \/ Get(t) \/ Fetch(t) \/ Set(t)
             \/ Call(t) \/ Refused(t) \/ CallFails(t) \/ InvalidateDir(t) \/ InvalidateDest(t)
      PROVE  Inv'
  BY <1>2, RequestsKeep, GetKeeps, FetchKeeps, SetKeeps, CallKeeps, RefusedKeeps, CallFailsKeeps,
     InvalidateDirKeeps, InvalidateDestKeeps
<1> QED
  BY <1>1, <1>2, ExpireKeeps, ForeignKeeps DEF Next

\* Whatever the requests, the other clients and the failures do, the state is of its
\* types.
THEOREM TypesAlways == Spec => []Types
<1>1. Inv => Types
  BY DEF Inv
<1> QED
  BY <1>1, Starts, NextKeeps, PTL DEF Spec

\* A cached listing not in doubt is the directory as it is, unless a request that
\* changed it is about to drop it (the use cases' Execute, DirCache.Invalidate).
THEOREM ListingsAreTrue == Spec => []CachedListingsAreTrue
<1>1. Inv => CachedListingsAreTrue
  <2> SUFFICES ASSUME Inv, NEW d \in Dirs, cache[d] # None, ~cache[d].doubt, ~AboutToDrop(d)
               PROVE  cache[d].files = Here(d).files
    BY DEF CachedListingsAreTrue
  <2>1. ~Changing(d)
    BY NoneFacts DEF AboutToDrop, Changing, Pending, Drops
  <2> QED
    BY <2>1 DEF Inv, CacheTells, Tells
<1> QED
  BY <1>1, Starts, NextKeeps, PTL DEF Spec

\* Unlink, Rmdir and Rename act on the entry that has the name they were given, unless
\* the listing they found it in is in doubt (presentation/fuse/dir.go).
THEOREM NamedEntriesAreActedOn == Spec => []ActsOnWhatWasNamed
<1>1. Inv => ActsOnWhatWasNamed
  BY DEF Inv
<1> QED
  BY <1>1, Starts, NextKeeps, PTL DEF Spec
=============================================================================
