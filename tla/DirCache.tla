------------------------------ MODULE DirCache ------------------------------
(***************************************************************************)
(* The directories of the mount and the cache of their listings: the FUSE  *)
(* handlers of directories, which find a name in a listing that may be     *)
(* cached and act on the id they find, and the use cases that change the   *)
(* remote and drop the listing afterwards (presentation/fuse/dir.go,       *)
(* usecase/*.go, listingcache/memory.go).                                  *)
(*                                                                         *)
(* Each request of the kernel is a thread of the daemon:                   *)
(*                                                                         *)
(*   lookup          list -> (fetch -> set)                                *)
(*   unlink, rmdir   list -> (fetch -> set) -> delete -> inval             *)
(*   rename          list -> (fetch -> set) -> move -> rename -> inval     *)
(*                     -> inval2                                           *)
(*   mkdir, commit, touch     call -> inval                                *)
(*                                                                         *)
(* The kernel gives a request that changes a directory the directory to    *)
(* itself, rename both of its two.  A lookup that revalidates a name, the  *)
(* commit of a written file and touch do not have it; touch has the file.  *)
(* One commit is that of a handle opened in the past: its file may have    *)
(* been renamed to another directory since, and it drops the listing of    *)
(* the directory the handle was opened in.                                 *)
(*                                                                         *)
(* Other clients of the drive change it too, and calls fail, done or not   *)
(* done.  A listing holds for ttl, which is to say as long as it likes.    *)
(* Listings are complete (the pages of one are not modelled), and the      *)
(* server refuses a name that is taken.                                    *)
(***************************************************************************)
EXTENDS Naturals

CONSTANTS Threads,    \* requests under way
          Dirs, Names,
          MaxIds,     \* bound: entries ever made
          MaxOps,     \* bound: requests that change something
          MaxMishaps, \* bound: changes by other clients and calls that fail
          None

\* What a listing says of an entry.
Infos == [id : 1..MaxIds, name : Names, kind : {"file", "dir"}, ver : Nat]

Requests == {"lookup", "unlink", "rmdir", "rename", "mkdir", "create", "edit", "touch"}

ASSUME DirAssumption ==
  /\ MaxIds \in Nat \ {0} /\ {MaxOps, MaxMishaps} \subseteq Nat
  /\ None \notin Dirs \cup Names /\ None \notin 1..MaxIds /\ None \notin Requests
  /\ None \notin [files : SUBSET Infos, doubt : BOOLEAN]
  /\ None \notin [dir : Dirs, name : Names, kind : {"file", "dir"}, ver : Nat]

VARIABLES
  remote,  \* id -> [dir, name, kind, ver], or None before it is made or once it is gone
  made,    \* ids 1..made have been given out
  cache,   \* DirCache.entries: dir -> a listing, or None
  thread,  \* the requests
  ops, mishaps

vars == <<remote, made, cache, thread, ops, mishaps>>

Ids == 1..MaxIds

\* A listing as it was fetched.  doubt (history): something has happened since
\* that the mount does not know of, or a change of its own overtook the fetch.
Here(d) ==
  [files |-> {[id |-> i, name |-> remote[i].name, kind |-> remote[i].kind, ver |-> remote[i].ver] :
                i \in {j \in Ids : remote[j] # None /\ remote[j].dir = d}},
   doubt |-> FALSE]

Idle == [at |-> "idle", op |-> None, dir |-> None, name |-> None, dir2 |-> None, name2 |-> None,
         id |-> None, list |-> None]

Entries == [dir : Dirs, name : Names, kind : {"file"}, ver : {0}]

\* The drive begins with one file; the requests, or other clients, make the rest.
Init == /\ made = 1
        /\ \E first \in Entries : remote = [i \in Ids |-> IF i = 1 THEN first ELSE None]
        /\ cache = [d \in Dirs |-> None]
        /\ thread = [t \in Threads |-> Idle]
        /\ ops = 0 /\ mishaps = 0

In(t, place) == thread[t].at = place

Goes(t, place) == thread' = [thread EXCEPT ![t].at = place]
Returns(t)     == thread' = [thread EXCEPT ![t] = Idle]

At(d, n) == {i \in Ids : remote[i] # None /\ remote[i].dir = d /\ remote[i].name = n}
Free(d, n) == At(d, n) = {}

Doubtful(l) == IF l = None THEN None ELSE [l EXCEPT !.doubt = TRUE]

\* Listings of the directories, in the cache and in the hands of th, put in doubt.
Doubt(dirs, th) ==
  /\ cache' = [d \in Dirs |-> IF d \in dirs THEN Doubtful(cache[d]) ELSE cache[d]]
  /\ thread' = [t \in Threads |->
                  IF th[t].dir \in dirs THEN [th[t] EXCEPT !.list = Doubtful(@)] ELSE th[t]]

Counters == UNCHANGED <<ops, mishaps>>
-----------------------------------------------------------------------------
(* Requests of the kernel *)

Holds(t) == IF thread[t].op \in {"unlink", "rmdir", "mkdir", "rename"}
            THEN {thread[t].dir, thread[t].dir2} \ {None} ELSE {}

\* The inode lock of a file keeps touch apart from its unlink and rename.
Touched(d, n) == \E t \in Threads : thread[t].op = "touch" /\ thread[t].dir = d /\ thread[t].name = n

Unheld(dirs) == \A t \in Threads : Holds(t) \cap dirs = {}

Begin(t, request) ==
  /\ In(t, "idle")
  /\ thread' = [thread EXCEPT ![t] = request]
  /\ UNCHANGED <<remote, made, cache, mishaps>>

Counted == ops < MaxOps /\ ops' = ops + 1
Mishap  == mishaps < MaxMishaps /\ mishaps' = mishaps + 1

\* Lookup (of a name there is, or not) and Readdir
Lookup(t) == \E d \in Dirs :
  Begin(t, [Idle EXCEPT !.at = "list", !.op = "lookup", !.dir = d]) /\ UNCHANGED ops

Remove(t) == \E d \in Dirs, n \in Names, op \in {"unlink", "rmdir"} :
  /\ Unheld({d}) /\ ~Touched(d, n) /\ Counted
  /\ Begin(t, [Idle EXCEPT !.at = "list", !.op = op, !.dir = d, !.name = n])

Rename(t) == \E d, d2 \in Dirs, n, n2 \in Names :
  /\ <<d, n>> # <<d2, n2>>
  /\ Unheld({d, d2}) /\ ~Touched(d, n) /\ ~Touched(d2, n2) /\ Counted
  /\ Begin(t, [Idle EXCEPT !.at = "list", !.op = "rename", !.dir = d, !.name = n,
                           !.dir2 = d2, !.name2 = n2])

Mkdir(t) == \E d \in Dirs, n \in Names :
  /\ Unheld({d}) /\ Counted
  /\ Begin(t, [Idle EXCEPT !.at = "call", !.op = "mkdir", !.dir = d, !.name = n])

\* A written file is committed: a new one, or id, opened in the directory it is in
\* now; the call is made some time later.
Commit(t) ==
  /\ Counted
  /\ \/ \E d \in Dirs, n \in Names :
          Begin(t, [Idle EXCEPT !.at = "call", !.op = "create", !.dir = d, !.name = n])
     \/ \E i \in Ids :
          /\ remote[i] # None /\ remote[i].kind = "file"
          /\ Begin(t, [Idle EXCEPT !.at = "call", !.op = "edit", !.dir = remote[i].dir, !.id = i])

\* Setattr of the mtime
Touch(t) == \E i \in Ids :
  /\ remote[i] # None /\ remote[i].kind = "file"
  /\ \A other \in Threads :
        thread[other].op \in {"unlink", "rmdir", "rename"} =>
          <<remote[i].dir, remote[i].name>> \notin
             {<<thread[other].dir, thread[other].name>>, <<thread[other].dir2, thread[other].name2>>}
  /\ Counted
  /\ Begin(t, [Idle EXCEPT !.at = "call", !.op = "touch", !.dir = remote[i].dir,
                           !.name = remote[i].name, !.id = i])
-----------------------------------------------------------------------------
(* ListDir, and what the handlers do with the listing *)

\* The entries the handler can act on: Unlink wants a file, Rmdir a directory.
Matches(t, l) ==
  {e \in l.files : /\ e.name = thread[t].name
                   /\ thread[t].op = "unlink" => e.kind = "file"
                   /\ thread[t].op = "rmdir"  => e.kind = "dir"}

FirstCall(t) == CASE thread[t].op # "rename" -> "delete"
                  [] thread[t].op = "rename" /\ thread[t].dir2 # thread[t].dir -> "move"
                  [] OTHER -> "rename"

\* EISDIR, ENOTDIR and ENOENT return.
GoesOnWith(t, l) ==
  IF thread[t].op = "lookup" \/ Matches(t, l) = {} THEN Returns(t)
  ELSE \E e \in Matches(t, l) :
         thread' = [thread EXCEPT ![t].at = FirstCall(t), ![t].id = e.id,
                              ![t].list = [l EXCEPT !.files = {e}]]

Get(t) ==
  /\ In(t, "list")
  /\ IF cache[thread[t].dir] # None THEN GoesOnWith(t, cache[thread[t].dir])
                                    ELSE Goes(t, "fetch")
  /\ UNCHANGED <<remote, made, cache>> /\ Counters

Fetch(t) ==
  /\ In(t, "fetch")
  /\ \/ thread' = [thread EXCEPT ![t].at = "set", ![t].list = Here(thread[t].dir)]
     \/ Returns(t)    \* the call failed
  /\ UNCHANGED <<remote, made, cache>> /\ Counters

Set(t) ==
  /\ In(t, "set")
  /\ cache' = [cache EXCEPT ![thread[t].dir] = thread[t].list]
  /\ GoesOnWith(t, thread[t].list)
  /\ UNCHANGED <<remote, made>> /\ Counters

Expire(d) ==
  /\ cache[d] # None /\ cache' = [cache EXCEPT ![d] = None]
  /\ UNCHANGED <<remote, made, thread>> /\ Counters
-----------------------------------------------------------------------------
(* The calls to the server *)

Calls == {"delete", "move", "rename", "call"}

\* What the server does for the call t makes: the drives it may leave behind, none
\* when it refuses.
Make(d, n, kind) ==
  IF made < MaxIds /\ Free(d, n)
  THEN {[remote EXCEPT ![made + 1] = [dir |-> d, name |-> n, kind |-> kind, ver |-> 0]]} ELSE {}

NewVersion(i) == IF remote[i] = None THEN {} ELSE {[remote EXCEPT ![i].ver = @ + 1]}

Served(t) ==
  LET req == thread[t]
      i   == req.id IN
  CASE req.at = "delete" -> IF remote[i] = None THEN {} ELSE {[remote EXCEPT ![i] = None]}
    [] req.at = "move" -> IF remote[i] = None \/ ~Free(req.dir2, remote[i].name) THEN {}
                          ELSE {[remote EXCEPT ![i].dir = req.dir2]}
    [] req.at = "rename" -> IF remote[i] = None \/ ~Free(remote[i].dir, req.name2) THEN {}
                            ELSE {[remote EXCEPT ![i].name = req.name2]}
    [] req.op = "mkdir"  -> Make(req.dir, req.name, "dir")
    [] req.op = "create" -> Make(req.dir, req.name, "file")
                              \cup UNION {NewVersion(j) : j \in {k \in At(req.dir, req.name) :
                                                                  remote[k].kind = "file"}}
    [] OTHER -> NewVersion(i)

\* Directories the call changed, by the change it made.
Changed(after) ==
  LET ids == {i \in Ids : remote[i] # after[i]} IN
  {d \in Dirs : \E i \in ids, r \in {remote, after} : r[i] # None /\ r[i].dir = d}

Makes(after) == made' = made + (IF \E i \in Ids : i > made /\ after[i] # None THEN 1 ELSE 0)

\* The directories whose listings the request drops when it is through.
Drops(t) == {thread[t].dir, thread[t].dir2} \ {None}

NextCall(t) == IF In(t, "move") /\ thread[t].name2 # thread[t].name THEN "rename" ELSE "inval"

Call(t) ==
  /\ thread[t].at \in Calls
  /\ \E after \in Served(t) :
       /\ remote' = after /\ Makes(after)
       /\ Doubt(Changed(after) \ Drops(t), [thread EXCEPT ![t].at = NextCall(t)])
  /\ Counters

\* An error returns from the use case, and nothing is dropped: neither when the
\* call was done all the same, nor when a rename has moved its file already.
Moved(t) == In(t, "rename") /\ thread[t].dir2 # thread[t].dir

Errs(t, after) ==
  Doubt(Changed(after) \cup (IF Moved(t) THEN Drops(t) ELSE {}), [thread EXCEPT ![t] = Idle])

Refused(t) ==
  /\ thread[t].at \in Calls
  /\ Served(t) = {}
  /\ Errs(t, remote)
  /\ UNCHANGED <<remote, made>> /\ Counters

CallFails(t) ==
  /\ thread[t].at \in Calls
  /\ Mishap
  /\ \E after \in {remote} \cup Served(t) :
       remote' = after /\ Makes(after) /\ Errs(t, after)
  /\ UNCHANGED ops

\* Invalidate: of the directory, then, for a rename, of the one it went to.  A
\* listing on its way into the cache is overtaken.
Dropped(d, th) ==
  /\ cache' = [cache EXCEPT ![d] = None]
  /\ thread' = [t \in Threads |-> IF th[t].at = "set" /\ th[t].dir = d
                                  THEN [th[t] EXCEPT !.list = Doubtful(@)] ELSE th[t]]

\* Seeded defect: a rename drops the listing of its destination only.
InvalidateDestOnly(t) ==
  /\ In(t, "inval")
  /\ \/ /\ thread[t].op = "rename"
        /\ Goes(t, "inval2") /\ UNCHANGED cache
     \/ /\ thread[t].op # "rename"
        /\ Dropped(thread[t].dir, [thread EXCEPT ![t] = Idle])
  /\ UNCHANGED <<remote, made>> /\ Counters

InvalidateDir(t) ==
  /\ In(t, "inval")
  /\ Dropped(thread[t].dir, [thread EXCEPT ![t] = IF @.op = "rename"
                                                  THEN [@ EXCEPT !.at = "inval2"] ELSE Idle])
  /\ UNCHANGED <<remote, made>> /\ Counters

\* Seeded defect: a rename drops the listing of its source only.
InvalidateSourceOnly(t) ==
  /\ In(t, "inval2")
  /\ Returns(t)
  /\ UNCHANGED <<remote, made, cache>> /\ Counters

InvalidateDest(t) ==
  /\ In(t, "inval2")
  /\ Dropped(thread[t].dir2, [thread EXCEPT ![t] = Idle])
  /\ UNCHANGED <<remote, made>> /\ Counters
-----------------------------------------------------------------------------
(* Other clients of the drive *)

\* The drive becomes another: the mount does not know, and its listings are in doubt.
Becomes(after) ==
  remote' = after /\ Makes(after) /\ Doubt(Changed(after), thread)

Foreign ==
  /\ Mishap
  /\ \/ \E i \in Ids :
          /\ remote[i] # None
          /\ \/ Becomes([remote EXCEPT ![i] = None])
             \/ \E after \in NewVersion(i) : Becomes(after)
             \/ \E d \in Dirs, n \in Names :
                  /\ \A e \in Dirs : Free(e, n)
                  /\ Becomes([remote EXCEPT ![i].dir = d, ![i].name = n])
     \/ \E d \in Dirs, n \in Names : \E after \in Make(d, n, "file") : Becomes(after)
  /\ UNCHANGED ops

Next == \/ \E t \in Threads :
             \/ Lookup(t) \/ Remove(t) \/ Rename(t) \/ Mkdir(t) \/ Commit(t) \/ Touch(t)
             \/ Get(t) \/ Fetch(t) \/ Set(t)
             \/ Call(t) \/ Refused(t) \/ CallFails(t) \/ InvalidateDir(t) \/ InvalidateDest(t)
        \/ \E d \in Dirs : Expire(d)
        \/ Foreign

Spec == Init /\ [][Next]_vars
-----------------------------------------------------------------------------
(* Properties *)

\* "invalidates the parent listing so the new metadata shows up on the next
\* readdir", "Caches for both dirs are invalidated on success": a listing in the
\* cache is the directory as it is, name for name and version for version, unless
\* a request that changed it is about to drop it, or the listing is in doubt:
\* another client or a call that erred changed the directory since, a handle
\* opened elsewhere did, or a drop overtook the fetch.
AboutToDrop(d) == \E t \in Threads :
  \/ thread[t].at \in {"inval", "rename"} /\ d \in Drops(t)
  \/ thread[t].at = "inval2" /\ d = thread[t].dir2

CachedListingsAreTrue ==
  \A d \in Dirs :
    cache[d] # None /\ ~cache[d].doubt /\ ~AboutToDrop(d) => cache[d].files = Here(d).files

\* Unlink, Rmdir and Rename act on the entry that has the name they were given at
\* the moment the server hears of it, however old the listing is they found it
\* in, and whatever the requests beside them do, unless that listing is in doubt.
ActsOnWhatWasNamed ==
  \A t \in Threads :
    /\ thread[t].at \in {"delete", "move", "rename"} /\ ~Moved(t)
    /\ ~thread[t].list.doubt
    => /\ thread[t].id \in At(thread[t].dir, thread[t].name)
       /\ thread[t].op # "rename" => (remote[thread[t].id].kind = "dir") = (thread[t].op = "rmdir")
=============================================================================
