------------------------------ MODULE Resolver ------------------------------
(***************************************************************************)
(* remoteindex.Resolver: the workers of a push ask it for the folder of    *)
(* each file they upload, and it finds or makes every folder on the way.   *)
(* Its mutex is held over the whole of a Resolve, requests included; what  *)
(* it has found or made is cached by path for as long as it lives.         *)
(*                                                                         *)
(* The recursion resolve(Dir(path)) is a walk down from the longest prefix *)
(* of the path that is cached: the parent of a cached path is cached.      *)
(***************************************************************************)
EXTENDS Drive

CONSTANTS Workers,     \* the goroutines that ask
          None,        \* nobody
          Wanted,      \* paths they ask for, sequences of names
          MaxRetries   \* repetitions of a request

MaxCalls == Settings[setting].maxCalls  \* bound: calls of Resolve

ASSUME ResolverAssumption ==
  /\ None \notin Workers
  /\ Wanted \subseteq Seq(Names)
  /\ MaxRetries \in Nat
  /\ \A w \in DOMAIN Settings : Settings[w].maxCalls \in Nat

VARIABLES
  mutex,  \* Resolver.mu: the worker that holds it, or None
  cache,  \* Resolver.cache: path -> id
  asks,   \* worker -> its call of Resolve
  calls   \* calls so far

resolver == <<mutex, cache, asks, calls>>

NoCall == [at |-> "idle", path |-> <<>>, depth |-> 0, folder |-> Root, page |-> 1,
           got |-> {}, tries |-> 0]

ResolverInit == /\ mutex = None
                /\ cache = [p \in {<<>>} |-> Root]
                /\ asks = [w \in Workers |-> NoCall]
                /\ calls = 0

Prefix(w, n) == SubSeq(asks[w].path, 1, n)

InResolve(w) == asks[w].at \notin {"idle", "answered", "failed"}

Ask(w, path) ==
  /\ ~InResolve(w)
  /\ calls < MaxCalls /\ calls' = calls + 1
  /\ asks' = [asks EXCEPT ![w] = [NoCall EXCEPT !.at = "lock", !.path = path]]
  /\ UNCHANGED <<drive, mutex, cache>>

\* the next segment, or the answer
Onwards(call, depth, folder) ==
  [call EXCEPT !.at = IF depth = Len(call.path) THEN "return" ELSE "list",
               !.depth = depth, !.folder = folder, !.page = 1, !.got = {}, !.tries = 0]

\* Seeded defect: Resolve takes no lock.
LockNothing(w) ==
  LET cached == {n \in 0..Len(asks[w].path) : Prefix(w, n) \in DOMAIN cache} IN
  /\ asks[w].at = "lock"
  /\ asks' = [asks EXCEPT ![w] = Onwards(@, Max(cached), cache[Prefix(w, Max(cached))])]
  /\ UNCHANGED <<drive, mutex, cache, calls>>

\* r.mu.Lock, then down to the longest cached prefix
Lock(w) ==
  LET cached == {n \in 0..Len(asks[w].path) : Prefix(w, n) \in DOMAIN cache} IN
  /\ asks[w].at = "lock" /\ mutex = None
  /\ mutex' = w
  /\ asks' = [asks EXCEPT ![w] = Onwards(@, Max(cached), cache[Prefix(w, Max(cached))])]
  /\ UNCHANGED <<drive, cache, calls>>

\* Seeded defect: an error is returned with the mutex locked.
GiveUpLocked(w) ==
  /\ asks' = [asks EXCEPT ![w].at = "failed"]
  /\ UNCHANGED <<mutex, cache, calls>>

\* the error is returned, and the deferred Unlock runs
GiveUp(w) ==
  /\ asks' = [asks EXCEPT ![w].at = "failed"]
  /\ mutex' = None
  /\ UNCHANGED <<cache, calls>>

\* r.cache[clean] = id
Found(w, id) ==
  LET depth == asks[w].depth + 1 IN
  /\ cache' = [p \in DOMAIN cache \cup {Prefix(w, depth)} |->
                 IF p = Prefix(w, depth) THEN id ELSE cache[p]]
  /\ asks' = [asks EXCEPT ![w] = Onwards(@, depth, id)]
  /\ UNCHANGED <<mutex, calls>>

\* a file of the name is passed over
DirsNamed(got, name) == {e.id : e \in {x \in got : x.dir /\ x.name = name}}

\* One page of the listing of the folder, and after the last the look at it.
ListPage(w) ==
  LET call == asks[w]
      page == Page(call.folder, call.page)
      got  == call.got \cup Read(page)
      hits == DirsNamed(got, call.path[call.depth + 1])
  IN /\ call.at = "list"
     /\ Unmoved
     /\ \/ Faulty /\ GiveUp(w)
        \/ ~Exists(call.folder) /\ UNCHANGED faults /\ GiveUp(w)
        \/ /\ Exists(call.folder) /\ UNCHANGED faults
           /\ IF ~IsLast(page)
              THEN /\ asks' = [asks EXCEPT ![w].page = @ + 1, ![w].got = got]
                   /\ UNCHANGED <<mutex, cache, calls>>
              ELSE IF hits # {} THEN Found(w, Min(hits))
              ELSE /\ asks' = [asks EXCEPT ![w].at = "mkdir", ![w].got = <<>>]
                   /\ UNCHANGED <<mutex, cache, calls>>

\* doRaw: another attempt, or no more
Retry(w) == IF asks[w].tries < MaxRetries
            THEN /\ asks' = [asks EXCEPT ![w].tries = @ + 1]
                 /\ UNCHANGED <<mutex, cache, calls>>
            ELSE GiveUp(w)

\* One attempt of Mkdir.  It is refused, it fails without effect, or the folder is
\* made; and then the answer arrives or is lost on the way.
Mkdir(w) ==
  LET call == asks[w]
      name == call.path[call.depth + 1]
      Refused == ~Exists(call.folder) \/ (refuses /\ Taken(call.folder, name))
  IN /\ call.at = "mkdir"
     /\ \/ Refused /\ Unmoved /\ UNCHANGED faults /\ GiveUp(w)
        \/ Faulty /\ Unmoved /\ Retry(w)
        \/ /\ ~Refused
           /\ Add(call.folder, name, TRUE)
           /\ UNCHANGED <<world, foreign, moved, disturbed, shrunk>>
           /\ \/ UNCHANGED faults /\ Found(w, nextId)
              \/ Faulty /\ Retry(w)

Return(w) ==
  /\ asks[w].at = "return"
  /\ asks' = [asks EXCEPT ![w].at = "answered"]
  /\ mutex' = None
  /\ UNCHANGED <<drive, cache, calls>>

ResolverStep(w) == Lock(w) \/ ListPage(w) \/ Mkdir(w) \/ Return(w)

ResolverNext == \E w \in Workers : ResolverStep(w) \/ \E path \in Wanted : Ask(w, path)

-----------------------------------------------------------------------------
(* Properties *)

\* "resolution is serialized so a directory is never created twice", though it
\* takes several requests to find that one is missing, and as many workers ask at
\* once as there are.  (An answer that is lost has Mkdir repeated, and another
\* client may make the folder after the listing, or shift it out of the listing:
\* then it is for the server to refuse the second one.)
FoldersMadeOnce ==
  faults = 0 /\ foreign = 0 =>
    \A i, j \in {k \in DOMAIN node : node[k].dir} : PathOf(i) = PathOf(j) => i = j

\* What Resolve has answered for a path, and its cache gives it from then on, is a
\* folder at that path, as long as it exists and no other client has moved it or a
\* folder it is in.
ResolvesToPath ==
  /\ \A path \in DOMAIN cache :
       LET id == cache[path] IN
       id \in DOMAIN node => Above(id) \cap moved # {} \/ (node[id].dir /\ PathOf(id) = path)
  /\ \A w \in Workers : asks[w].at = "answered" => cache[asks[w].path] = asks[w].folder

OneFolderPerPath == FoldersMadeOnce /\ ResolvesToPath
=============================================================================
