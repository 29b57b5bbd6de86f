----------------------------- MODULE RemoteTree -----------------------------
(***************************************************************************)
(* A Resolver and a Build at work on one drive at the same time, as those  *)
(* of two runs are: the folders one makes appear in the other's walk, and  *)
(* other clients change the tree under both.                               *)
(***************************************************************************)
EXTENDS Resolver, IndexBuild

vars == <<drive, resolver, builder>>

Init == DriveInit /\ ResolverInit /\ BuildInit

Next == \/ OtherClients /\ UNCHANGED <<resolver, builder>>
        \/ ResolverNext /\ UNCHANGED builder
        \/ BuildNext /\ UNCHANGED resolver

\* Goroutines that can take a step take one at last, and a request is answered or
\* fails; sync.Mutex starves nobody.
Fairness == /\ \A w \in Workers : WF_vars(ResolverStep(w) /\ UNCHANGED builder)
            /\ WF_vars(BuildStep /\ UNCHANGED resolver)

Spec == Init /\ [][Next]_vars /\ Fairness

-----------------------------------------------------------------------------
(* Properties *)

\* Every Resolve and every Build returns, whatever fails: no error path keeps the
\* mutex or a place in the semaphore, and the retries are counted.
CallsReturn == /\ \A w \in Workers : InResolve(w) ~> ~InResolve(w)
               /\ (build = "walking") ~> (build # "walking")
=============================================================================
