------------------------------ MODULE ItemRun ------------------------------
(***************************************************************************)
(* What a caller of RunPush or RunPull may rely on, with no channels and   *)
(* no goroutines: every planned item is taken at most once, at most `Jobs` *)
(* of them are being executed at a time, each one ends with exactly one    *)
(* verdict, and the call reports when, and only when, every item has one.  *)
(*                                                                         *)
(* RunPool is the detailed specification that implements this one; Push    *)
(* uses it as the scheduling of its items.                                 *)
(***************************************************************************)
EXTENDS Integers, FiniteSets

CONSTANTS N,      \* number of planned items, named 1..N as in the slice
          Jobs    \* the pool size asked for; anything below 1 means 1

VARIABLES waiting,    \* items no worker has received yet
          taken,      \* items a worker holds
          succeeded,  \* items whose executor call succeeded
          failed,     \* items whose executor call failed or was refused
          reported    \* the call has returned its Result

vars == <<waiting, taken, succeeded, failed, reported>>

Items == 1..N

\* `if jobs < 1 { jobs = 1 }`
PoolSize == IF Jobs < 1 THEN 1 ELSE Jobs

Init == /\ waiting = Items
        /\ taken = {}
        /\ succeeded = {}
        /\ failed = {}
        /\ reported = FALSE

Take(i) == /\ i \in waiting
           /\ Cardinality(taken) < PoolSize
           /\ waiting' = waiting \ {i}
           /\ taken' = taken \cup {i}
           /\ UNCHANGED <<succeeded, failed, reported>>

Settle(i) == /\ i \in taken
             /\ taken' = taken \ {i}
             /\ \/ /\ succeeded' = succeeded \cup {i}
                   /\ UNCHANGED failed
                \/ /\ failed' = failed \cup {i}
                   /\ UNCHANGED succeeded
             /\ UNCHANGED <<waiting, reported>>

Report == /\ waiting = {}
          /\ taken = {}
          /\ ~reported
          /\ reported' = TRUE
          /\ UNCHANGED <<waiting, taken, succeeded, failed>>

Next == Report \/ \E i \in Items : Take(i) \/ Settle(i)

Spec == Init /\ [][Next]_vars
=============================================================================
