----------------------------- MODULE IndexBuild -----------------------------
(***************************************************************************)
(* remoteindex.Build: the walk of a folder tree that gives a run its view  *)
(* of the remote side.  A goroutine of an errgroup lists each folder, at   *)
(* most Parallelism of them at a time, enters its files in the index and   *)
(* starts a goroutine for each of its folders.  The first to fail cancels  *)
(* the context of the others, and no index is returned.                    *)
(***************************************************************************)
EXTENDS Drive

CONSTANT Parallelism

Walks == Settings[setting].walks  \* a Build is asked for

ASSUME BuildAssumption ==
  /\ Parallelism \in Nat \ {0}
  /\ \A w \in DOMAIN Settings : Settings[w].walks \in BOOLEAN

VARIABLES
  build,    \* "idle", "walking", "ok" or "error"
  walkers,  \* the goroutines: <<folder, path of the folder>> -> progress
  broken,   \* one has failed, and the context is cancelled
  index     \* path -> [id, stamp]

builder == <<build, walkers, broken, index>>

Queued == [at |-> "queued", page |-> 1, got |-> {}]

BuildInit == build = "idle" /\ walkers = [k \in {} |-> Queued] /\ broken = FALSE
             /\ index = [p \in {} |-> 0]

\* The history that is the walk's begins.
Begin ==
  /\ Walks /\ build = "idle"
  /\ build' = "walking"
  /\ walkers' = [k \in {<<Root, <<>>>>} |-> Queued]
  /\ disturbed' = {} /\ shrunk' = {}
  /\ UNCHANGED <<world, node, nextId, foreign, faults, moved, broken, index>>

Listing == {k \in DOMAIN walkers : walkers[k].at = "listing"}

\* `sem <- struct{}{}`
Acquire(k) ==
  /\ walkers[k].at = "queued"
  /\ Cardinality(Listing) < Parallelism
  /\ walkers' = [walkers EXCEPT ![k].at = "listing"]
  /\ UNCHANGED <<drive, build, broken, index>>

WithoutWalker(k) == [j \in DOMAIN walkers \ {k} |-> walkers[j]]

Fail(k) == /\ walkers' = WithoutWalker(k)
           /\ broken' = TRUE
           /\ UNCHANGED <<build, index>>

\* `<-ctx.Done()`
GiveUpWaiting(k) ==
  /\ walkers[k].at = "queued" /\ broken
  /\ Fail(k)
  /\ UNCHANGED drive

\* the files into the index, a walker for each folder
Enter(k, got) ==
  LET Rel(e)  == Append(k[2], e.name)
      files   == {e \in got : ~e.dir}
      last(r) == CHOOSE e \in files : Rel(e) = r /\ \A x \in files : Rel(x) = r => x.id <= e.id
      started == {<<e.id, Rel(e)>> : e \in got \ files}
  IN /\ index' = [r \in DOMAIN index \cup {Rel(e) : e \in files} |->
                    IF r \in {Rel(e) : e \in files}
                    THEN [id |-> last(r).id, stamp |-> last(r).stamp] ELSE index[r]]
     /\ walkers' = [j \in (DOMAIN walkers \ {k}) \cup started |->
                      IF j \in started THEN Queued ELSE walkers[j]]

ReadPage(k) ==
  LET page == Page(k[1], walkers[k].page)
      got  == walkers[k].got \cup Read(page)
  IN /\ walkers[k].at = "listing"
     /\ Unmoved
     /\ \/ Faulty /\ Fail(k)
        \/ (broken \/ ~Exists(k[1])) /\ UNCHANGED faults /\ Fail(k)
        \/ /\ Exists(k[1]) /\ UNCHANGED <<faults, build, broken>>
           /\ IF IsLast(page) THEN Enter(k, got)
              ELSE /\ walkers' = [walkers EXCEPT ![k].page = @ + 1, ![k].got = got]
                   /\ UNCHANGED index

\* g.Wait
End ==
  /\ build = "walking" /\ DOMAIN walkers = {}
  /\ build' = IF broken THEN "error" ELSE "ok"
  /\ UNCHANGED <<drive, walkers, broken, index>>

BuildStep == (\E k \in DOMAIN walkers : Acquire(k) \/ GiveUpWaiting(k) \/ ReadPage(k)) \/ End

BuildNext == Begin \/ BuildStep

-----------------------------------------------------------------------------
(* Properties *)

\* A run takes a path that is not in the index for a file removed from the remote
\* side, and removes its local file.  The walk is no snapshot, yet the index holds
\* every file that stayed where it was and as it was, however other files and folders
\* moved about during the walk, so long as none left a folder it is in (which may
\* shift an entry to a page already read).  And what it holds at a path is a file
\* there, unless the file or a folder it is in was moved meanwhile.
IndexIsTrue ==
  build = "ok" =>
    /\ \A f \in {i \in DOMAIN node : ~node[i].dir} :
         Above(f) \cap (disturbed \cup shrunk) = {} /\ IdsAt(PathOf(f)) = {f} =>
            /\ PathOf(f) \in DOMAIN index
            /\ index[PathOf(f)] = [id |-> f, stamp |-> node[f].stamp]
    /\ \A path \in DOMAIN index :
         LET f == index[path].id IN
         f \in DOMAIN node => Above(f) \cap disturbed # {} \/ PathOf(f) = path
=============================================================================
