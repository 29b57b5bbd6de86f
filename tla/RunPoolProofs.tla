--------------------------- MODULE RunPoolProofs ---------------------------
(***************************************************************************)
(* For every number of items, every pool size and every checkpoint         *)
(* interval: the channels of the pool are closed in order, each item is    *)
(* settled exactly once, and a crash loses a bounded amount of work.       *)
(***************************************************************************)
EXTENDS RunPool, FiniteSetTheorems, TLAPS

\* The types, and what makes them inductive: since reaches Interval only where
\* the collector is about to checkpoint; whatever is being worked on or
\* recorded is a real item.
TInv == /\ TypeOK
        /\ col # "checkpoint" => since < Interval
        /\ \A w \in Workers : Busy(w) => item[w] \in Items
        /\ col = "record" => got.item \in Items

\* There is at least one worker, whatever jobs is asked for.
LEMMA SomeWorker == 1 \in Workers
  BY RunPoolAssumption DEF Workers

\* the assumption on the constants as plain inequalities
LEMMA Bounds == N \in Int /\ 0 <= N /\ Interval \in Int /\ 1 <= Interval
  BY RunPoolAssumption

\* The pool starts with every variable of its type.
LEMMA TypeInit == Init => TInv
<1> SUFFICES ASSUME Init PROVE TInv
  OBVIOUS
<1>1. got \in Outcomes
  BY Bounds DEF Init, Outcomes
<1>2. next \in 1..(N + 1) /\ since \in 0..Interval /\ since < Interval
  BY Bounds DEF Init
<1>3. item \in [Workers -> 0..N]
  BY Bounds DEF Init
<1> QED
  BY <1>1, <1>2, <1>3 DEF Init, TInv, TypeOK, Busy

\* one step of the pool keeps the types
LEMMA TypeStep == TInv /\ [Next]_vars => TInv'
<1> SUFFICES ASSUME TInv, [Next]_vars PROVE TInv'
  OBVIOUS
<1> USE Bounds DEF TInv, TypeOK, Items, Outcomes, Busy, feederVars, workerVars,
                              collectorVars
<1>1. ASSUME NEW w \in Workers, Receive(w) PROVE TInv'
  BY <1>1 DEF Receive
<1>2. CASE CloseIn
  BY <1>2 DEF CloseIn
<1>3. ASSUME NEW w \in Workers, CheckContext(w) PROVE TInv'
  BY <1>3 DEF CheckContext
<1>4. ASSUME NEW w \in Workers, Execute(w) PROVE TInv'
  BY <1>4 DEF Execute
<1>5. ASSUME NEW w \in Workers, Send(w) PROVE TInv'
  BY <1>5 DEF Send
<1>6. ASSUME NEW w \in Workers, Exit(w) PROVE TInv'
  BY <1>6 DEF Exit
<1>7. CASE CloseOut
  BY <1>7 DEF CloseOut
<1>8. CASE RecordFailure
  BY <1>8 DEF RecordFailure
<1>9. CASE RecordSuccess
  <2>1. /\ since' \in 0..Interval
        /\ col' # "checkpoint" => since' < Interval
    BY <1>9 DEF RecordSuccess
  <2> QED
    BY <1>9, <2>1 DEF RecordSuccess
<1>10. CASE Checkpoint
  <2>1. since' \in 0..Interval /\ since' < Interval
    BY <1>10 DEF Checkpoint
  <2> QED
    BY <1>10, <2>1 DEF Checkpoint
<1>11. CASE Return
  BY <1>11 DEF Return
<1>12. CASE Cancel
  BY <1>12 DEF Cancel
<1>13. CASE UNCHANGED vars
  BY <1>13 DEF vars
<1> QED
  BY <1>1, <1>2, <1>3, <1>4, <1>5, <1>6, <1>7, <1>8, <1>9, <1>10, <1>11, <1>12,
     <1>13 DEF Next, Feeder, Worker, Collector, Finished

\* Every variable of the pool keeps its type, for any number of items, any pool
\* size and any checkpoint interval.
THEOREM TypeCorrect == Spec => []TypeOK
<1>1. TInv => TypeOK
  BY DEF TInv
<1> QED
  BY <1>1, TypeInit, TypeStep, PTL DEF Spec

\* The strengthened typing invariant holds in every behaviour.
LEMMA TInvHolds == Spec => []TInv
  BY TypeInit, TypeStep, PTL DEF Spec
-----------------------------------------------------------------------------
(* The order in which the channels are closed.                             *)

\* What a worker or the closer has seen before it moves on.
Order == /\ inClosed => next = N + 1
         /\ \A w \in Workers : pc[w] = "exit" => inClosed
         /\ outClosed => \A w \in Workers : pc[w] = "exit"
         /\ col = "returned" => outClosed

\* No step closes a channel while somebody can still send on it.
LEMMA OrderStep == TInv /\ Order /\ [Next]_vars => Order'
<1> SUFFICES ASSUME TInv, Order, [Next]_vars PROVE Order'
  OBVIOUS
<1> USE Bounds DEF TInv, TypeOK, Order, feederVars, workerVars, collectorVars
<1>1. ASSUME NEW w \in Workers, Receive(w) PROVE Order'
  BY <1>1 DEF Receive
<1>2. CASE CloseIn
  BY <1>2 DEF CloseIn
<1>3. ASSUME NEW w \in Workers, CheckContext(w) PROVE Order'
  BY <1>3 DEF CheckContext
<1>4. ASSUME NEW w \in Workers, Execute(w) PROVE Order'
  BY <1>4 DEF Execute
<1>5. ASSUME NEW w \in Workers, Send(w) PROVE Order'
  BY <1>5 DEF Send
<1>6. ASSUME NEW w \in Workers, Exit(w) PROVE Order'
  BY <1>6 DEF Exit
<1>7. CASE CloseOut
  BY <1>7 DEF CloseOut
<1>8. CASE RecordFailure \/ RecordSuccess \/ Checkpoint
  BY <1>8 DEF RecordFailure, RecordSuccess, Checkpoint
<1>9. CASE Return
  BY <1>9 DEF Return
<1>10. CASE Cancel
  BY <1>10 DEF Cancel
<1>11. CASE UNCHANGED vars
  BY <1>11 DEF vars
<1> QED
  BY <1>1, <1>2, <1>3, <1>4, <1>5, <1>6, <1>7, <1>8, <1>9, <1>10, <1>11
     DEF Next, Feeder, Worker, Collector, Finished

\* The order of the two closes holds in every behaviour.
LEMMA OrderHolds == Spec => []Order
<1>1. Init => Order
  BY DEF Init, Order
<1> QED
  BY <1>1, OrderStep, TInvHolds, PTL DEF Spec

\* `out` is closed only when every worker has left its loop, and the call
\* returns only after both channels are closed.
THEOREM ClosedInOrder == Spec => []ChannelsClosedInOrder
<1>1. Order => ChannelsClosedInOrder
  BY SomeWorker DEF Order, ChannelsClosedInOrder
<1> QED
  BY <1>1, OrderHolds, PTL
-----------------------------------------------------------------------------
(* Where every item is.                                                    *)

\* The items the feeder has handed out are exactly those settled and those in
\* a worker's hands, and no item is in two places.
Placed ==
  /\ \A w \in Workers : Busy(w) => item[w] < next
  /\ \A i \in Settled : i < next
  /\ \A i \in Items : i < next =>
       i \in Settled \/ \E w \in Workers : Busy(w) /\ item[w] = i
  /\ \A v, w \in Workers : Busy(v) /\ Busy(w) /\ item[v] = item[w] => v = w
  /\ \A w \in Workers : Busy(w) => item[w] \notin Settled
  /\ applied \cap failed = {}
  /\ col = "record" => got.item \notin applied \cup failed

\* No step loses an item or puts it in two places.
LEMMA PlacedStep == TInv /\ Placed /\ [Next]_vars => Placed'
<1> SUFFICES ASSUME TInv, Placed, [Next]_vars PROVE Placed'
  OBVIOUS
<1> USE Bounds DEF TInv, TypeOK, Items, Busy, feederVars, workerVars, collectorVars
<1>1. ASSUME NEW w \in Workers, Receive(w) PROVE Placed'
  BY <1>1 DEF Receive, Placed, Settled
<1>2. CASE CloseIn
  BY <1>2 DEF CloseIn, Placed, Settled
<1>3. ASSUME NEW w \in Workers, CheckContext(w) PROVE Placed'
  BY <1>3 DEF CheckContext, Placed, Settled
<1>4. ASSUME NEW w \in Workers, Execute(w) PROVE Placed'
  BY <1>4 DEF Execute, Placed, Settled
<1>5. ASSUME NEW w \in Workers, Send(w) PROVE Placed'
  BY <1>5 DEF Send, Placed, Settled
<1>6. ASSUME NEW w \in Workers, Exit(w) PROVE Placed'
  BY <1>6 DEF Exit, Placed, Settled
<1>7. CASE CloseOut
  BY <1>7 DEF CloseOut, Placed, Settled
<1>8. CASE RecordFailure
  <2>1. Settled' = Settled /\ col' # "record"
    BY <1>8 DEF RecordFailure, Settled
  <2>2. applied' \cap failed' = {}
    BY <1>8 DEF RecordFailure, Placed
  <2>3. next' = next /\ pc' = pc /\ item' = item
    BY <1>8 DEF RecordFailure
  <2> QED
    BY <2>1, <2>2, <2>3 DEF Placed
<1>9. CASE RecordSuccess
  <2>1. Settled' = Settled /\ col' # "record"
    BY <1>9 DEF RecordSuccess, Settled
  <2>2. applied' \cap failed' = {}
    BY <1>9 DEF RecordSuccess, Placed
  <2>3. next' = next /\ pc' = pc /\ item' = item
    BY <1>9 DEF RecordSuccess
  <2> QED
    BY <2>1, <2>2, <2>3 DEF Placed
<1>10. CASE Checkpoint
  BY <1>10 DEF Checkpoint, Placed, Settled
<1>11. CASE Return
  BY <1>11 DEF Return, Placed, Settled
<1>12. CASE Cancel
  BY <1>12 DEF Cancel, Placed, Settled
<1>13. CASE UNCHANGED vars
  BY <1>13 DEF vars, Placed, Settled
<1> QED
  BY <1>1, <1>2, <1>3, <1>4, <1>5, <1>6, <1>7, <1>8, <1>9, <1>10, <1>11, <1>12,
     <1>13 DEF Next, Feeder, Worker, Collector, Finished

\* Every item is in exactly one place in every behaviour.
LEMMA PlacedHolds == Spec => []Placed
<1>1. Init => Placed
  BY DEF Init, Placed, Settled, Items, Busy
<1> QED
  BY <1>1, PlacedStep, TInvHolds, PTL DEF Spec

\* No planned item is dropped or done twice, and a Result accounts for all of
\* them: when the collector returns, both channels are closed, so no worker
\* holds an item and the feeder has none left.
THEOREM SettledOnce == Spec => []EveryItemSettledOnce
<1>1. TInv /\ Order /\ Placed => EveryItemSettledOnce
  <2> SUFFICES ASSUME TInv, Order, Placed PROVE EveryItemSettledOnce
    OBVIOUS
  <2>1. ASSUME col = "returned" PROVE applied \cup failed = Items
    <3>1. next = N + 1 /\ \A w \in Workers : ~Busy(w)
      BY <2>1, SomeWorker DEF Order, Busy
    <3>2. Settled = applied \cup failed
      BY <2>1 DEF Settled
    <3>3. \A i \in Items : i < next
      BY <3>1, Bounds DEF Items
    <3> QED
      BY <3>1, <3>2, <3>3 DEF Placed, TInv, TypeOK
  <2> QED
    BY <2>1 DEF Placed, EveryItemSettledOnce
<1> QED
  BY <1>1, TInvHolds, OrderHolds, PlacedHolds, PTL
-----------------------------------------------------------------------------
(* How much a crash can lose.                                              *)

\* since counts exactly what is recorded and not yet on disk.
Lag == /\ saved \subseteq applied
       /\ ~saveFailed => Cardinality(applied \ saved) = since

\* No step lets the file fall further behind than the counter says.
LEMMA LagStep == TInv /\ Placed /\ Lag /\ [Next]_vars => Lag'
<1> SUFFICES ASSUME TInv, Placed, Lag, [Next]_vars PROVE Lag'
  OBVIOUS
<1> USE DEF feederVars, workerVars
<1>1. CASE RecordSuccess
  <2> DEFINE i == got.item
  <2>1. i \notin applied /\ i \notin saved
    BY <1>1 DEF RecordSuccess, Placed, Lag
  <2>2. applied' \ saved' = (applied \ saved) \cup {i}
    BY <1>1, <2>1 DEF RecordSuccess
  <2>3. IsFiniteSet(applied \ saved)
    <3>1. IsFiniteSet(Items)
      BY Bounds, FS_Interval DEF Items
    <3> QED
      BY <3>1, FS_Subset DEF TInv, TypeOK
  <2>4. Cardinality((applied \ saved) \cup {i}) = Cardinality(applied \ saved) + 1
    BY <2>1, <2>3, FS_AddElement
  <2> QED
    BY <1>1, <2>2, <2>4 DEF RecordSuccess, Lag
<1>2. CASE Checkpoint
  <2>1. CASE saved' = applied
    <3>1. applied' \ saved' = {}
      BY <1>2, <2>1 DEF Checkpoint
    <3> QED
      BY <1>2, <2>1, <3>1, FS_EmptySet DEF Checkpoint, Lag
  <2>2. CASE saved' = saved /\ saveFailed' = TRUE
    BY <1>2, <2>2 DEF Checkpoint, Lag
  <2> QED
    BY <1>2, <2>1, <2>2 DEF Checkpoint
<1>3. CASE ~RecordSuccess /\ ~Checkpoint
  <2>1. UNCHANGED <<applied, saved, saveFailed, since>>
    BY <1>3 DEF Next, Feeder, Worker, Collector, Finished, Receive, CloseIn,
       CheckContext, Execute, Send, Exit, CloseOut, RecordFailure, Return, Cancel,
       collectorVars, vars
  <2> QED
    BY <2>1 DEF Lag
<1> QED
  BY <1>1, <1>2, <1>3

\* What the workers are at, or have done and not reported, is at most one item each.
AtWork == {item[w] : w \in {v \in Workers : pc[v] = "exec" \/ (pc[v] = "send" /\ ok[v])}}

\* A worker has one item in hand, so there are no more of them than workers.
LEMMA AtWorkBound ==
  IsFiniteSet(AtWork) /\ Cardinality(AtWork) <= Cardinality(Workers)
<1> DEFINE B == {v \in Workers : pc[v] = "exec" \/ (pc[v] = "send" /\ ok[v])}
           f == [v \in B |-> item[v]]
<1>1. IsFiniteSet(Workers)
  BY RunPoolAssumption, FS_Interval DEF Workers
<1>2. IsFiniteSet(B) /\ Cardinality(B) <= Cardinality(Workers)
  BY <1>1, FS_Subset
<1>3. f \in Surjection(B, AtWork)
  BY DEF Surjection, AtWork
<1>4. IsFiniteSet(AtWork) /\ Cardinality(AtWork) <= Cardinality(B)
  BY <1>2, <1>3, FS_Surjection
<1> QED
  BY <1>1, <1>2, <1>4, FS_CardinalityType

\* Two finite sets together have at most as many elements as both have.
LEMMA UnionBound ==
  ASSUME NEW S, NEW T, IsFiniteSet(S), IsFiniteSet(T)
  PROVE  /\ IsFiniteSet(S \cup T)
         /\ Cardinality(S \cup T) <= Cardinality(S) + Cardinality(T)
<1>1. /\ IsFiniteSet(S \cup T) /\ IsFiniteSet(S \cap T)
      /\ Cardinality(S \cup T) = Cardinality(S) + Cardinality(T) - Cardinality(S \cap T)
  BY FS_Union, FS_Subset
<1> QED
  BY <1>1, FS_CardinalityType

\* Unless the last save failed, a kill leaves the manifest file without the record
\* of at most Interval operations and one for each worker: the successes since the
\* last save are fewer than Interval while the collector holds an outcome.
THEOREM Rework == Spec => []ReworkBounded
<1>1. Init => Lag
  <2>1. Init => applied \ saved = {} /\ since = 0
    BY DEF Init
  <2> QED
    BY <2>1, FS_EmptySet DEF Init, Lag
<1>2. TInv /\ Lag => ReworkBounded
  <2> SUFFICES ASSUME TInv, Lag, ~saveFailed
               PROVE  Cardinality(Unsaved) <= Interval + Cardinality(Workers)
    BY DEF ReworkBounded
  <2> DEFINE R == applied \ saved
             G == IF col = "record" /\ got.ok THEN {got.item} ELSE {}
  <2>1. IsFiniteSet(R) /\ Cardinality(R) = since
    <3>1. IsFiniteSet(Items)
      BY Bounds, FS_Interval DEF Items
    <3> QED
      BY <3>1, FS_Subset DEF TInv, TypeOK, Lag
  <2>2. IsFiniteSet(G) /\ Cardinality(G) = (IF col = "record" /\ got.ok THEN 1 ELSE 0)
    BY FS_EmptySet, FS_Singleton
  <2>3. IsFiniteSet(R \cup G) /\ Cardinality(R \cup G) <= Cardinality(R) + Cardinality(G)
    BY <2>1, <2>2, UnionBound
  <2>4. since + Cardinality(G) <= Interval
    BY <2>2, Bounds DEF TInv, TypeOK
  <2>5. Cardinality(Unsaved) <= Cardinality(R \cup G) + Cardinality(AtWork)
    <3>1. Unsaved = (R \cup G) \cup AtWork
      BY DEF Unsaved, AtWork
    <3> QED
      BY <2>3, <3>1, AtWorkBound, UnionBound
  <2>6. /\ Cardinality(R \cup G) \in Nat /\ Cardinality(G) \in Nat
        /\ Cardinality(AtWork) \in Nat /\ Cardinality(Workers) \in Nat
        /\ Cardinality(Unsaved) \in Nat
    <3>1. Unsaved = (R \cup G) \cup AtWork /\ IsFiniteSet(Workers)
      BY RunPoolAssumption, FS_Interval DEF Unsaved, AtWork, Workers
    <3>2. IsFiniteSet((R \cup G) \cup AtWork)
      BY <2>3, AtWorkBound, UnionBound
    <3> QED
      BY <2>2, <2>3, <3>1, <3>2, AtWorkBound, FS_CardinalityType
  <2> QED
    <3> HIDE DEF R, G
    <3> QED
      BY <2>1, <2>3, <2>4, <2>5, <2>6, AtWorkBound, Bounds DEF TInv, TypeOK
<1> QED
  BY <1>1, <1>2, LagStep, TInvHolds, PlacedHolds, PTL DEF Spec
-----------------------------------------------------------------------------
(* What a step may not do.                                                 *)

\* Once ctx is cancelled no worker enters an Executor call.
THEOREM NoWorkStarted == Spec => NoWorkAfterCancel
<1> DEFINE Quiet == \A w \in Workers : cancelled /\ pc'[w] = "exec" => pc[w] = "exec"
<1>1. TInv /\ [Next]_vars => Quiet
  <2> SUFFICES ASSUME TInv, [Next]_vars PROVE Quiet
    OBVIOUS
  <2> USE DEF TInv, TypeOK, workerVars
  <2>1. ASSUME NEW v \in Workers, CheckContext(v) PROVE Quiet
    BY <2>1 DEF CheckContext
  <2>2. ASSUME NEW v \in Workers, Receive(v) \/ Execute(v) \/ Send(v) \/ Exit(v)
        PROVE Quiet
    BY <2>2 DEF Receive, Execute, Send, Exit
  <2>3. CASE pc' = pc
    BY <2>3
  <2> QED
    BY <2>1, <2>2, <2>3 DEF Next, Feeder, Worker, Collector, Finished, CloseIn,
       CloseOut, RecordFailure, RecordSuccess, Checkpoint, Return, Cancel, vars
<1> QED
  BY <1>1, TInvHolds, PTL DEF Spec, NoWorkAfterCancel
-----------------------------------------------------------------------------
(* The pool implements ItemRun.                                            *)

Held == {item[w] : w \in {v \in Workers : Busy(v)}}

Won  == applied \cup (IF col = "record" /\ got.ok THEN {got.item} ELSE {})

Lost == failed \cup (IF col = "record" /\ ~got.ok THEN {got.item} ELSE {})

\* A worker that is not busy leaves room for one more item.
LEMMA RoomForOne ==
  ASSUME TInv, NEW w \in Workers, ~Busy(w)
  PROVE  Cardinality(Held) < Promise!PoolSize
<1> DEFINE B == {v \in Workers : Busy(v)}
           f == [v \in B |-> item[v]]
<1>1. Workers = 1..Promise!PoolSize /\ Promise!PoolSize \in Nat
  BY RunPoolAssumption DEF Workers, Promise!PoolSize
<1>2. IsFiniteSet(Workers) /\ Cardinality(Workers) = Promise!PoolSize
  BY <1>1, FS_Interval
<1>3. /\ IsFiniteSet(Workers \ {w})
      /\ Cardinality(Workers \ {w}) = Promise!PoolSize - 1
  BY <1>2, FS_RemoveElement
<1>4. IsFiniteSet(B) /\ Cardinality(B) <= Promise!PoolSize - 1
  <2>1. B \in SUBSET (Workers \ {w})
    OBVIOUS
  <2> QED
    BY <1>3, <2>1, FS_Subset
<1>5. f \in Surjection(B, Held)
  BY DEF Surjection, Held
<1>6. IsFiniteSet(Held) /\ Cardinality(Held) <= Cardinality(B)
  BY <1>4, <1>5, FS_Surjection
<1> QED
  BY <1>1, <1>4, <1>6, FS_CardinalityType

\* A worker's receive is the promise's Take.
LEMMA TakeStep ==
  ASSUME TInv, Placed, NEW w \in Workers, Receive(w), NEW i, i = next
  PROVE  Promise!Take(i)
<1> USE Bounds DEF TInv, TypeOK, Busy, Items, collectorVars
<1>1. i \in next..N
  BY DEF Receive
<1>2. Promise!Cardinality(Held) < Promise!PoolSize
  <2>1. Promise!Cardinality(Held) = Cardinality(Held)
    BY DEF Promise!Cardinality, Cardinality
  <2> QED
    BY <2>1, RoomForOne DEF Receive
<1>3. next'..N = (next..N) \ {i}
  BY DEF Receive
<1>4. Held' = Held \cup {i}
  BY DEF Receive, Held
<1>5. UNCHANGED <<Won, Lost, col>>
  BY DEF Receive, Won, Lost
<1> QED
  BY <1>1, <1>2, <1>3, <1>4, <1>5 DEF Promise!Take, Held, Won, Lost

\* The collector's receive is the promise's Settle.
LEMMA SettleStep ==
  ASSUME TInv, Placed, NEW w \in Workers, Send(w), NEW i, i = item[w]
  PROVE  Promise!Settle(i)
<1> USE Bounds DEF TInv, TypeOK, Busy, Items, feederVars
<1>1. i \in Held
  BY DEF Send, Held
<1>2. Held' = Held \ {i}
  BY DEF Send, Held, Placed
<1>3. \/ Won' = Won \cup {i} /\ Lost' = Lost
      \/ Lost' = Lost \cup {i} /\ Won' = Won
  BY DEF Send, Won, Lost
<1>4. UNCHANGED next /\ col # "returned" /\ col' # "returned"
  BY DEF Send
<1> QED
  BY <1>1, <1>2, <1>3, <1>4 DEF Promise!Settle, Held, Won, Lost

\* The collector's return is the promise's Report.
LEMMA ReportStep ==
  ASSUME TInv, Order, Return
  PROVE  Promise!Report
<1> USE Bounds DEF TInv, TypeOK, Busy, feederVars, workerVars
<1>1. next = N + 1 /\ \A w \in Workers : ~Busy(w)
  BY SomeWorker DEF Return, Order
<1>2. next..N = {} /\ Held = {}
  BY <1>1 DEF Held
<1>3. UNCHANGED <<next, Held, Won, Lost>>
  BY DEF Return, Held, Won, Lost
<1> QED
  BY <1>2, <1>3 DEF Return, Promise!Report, Held, Won, Lost

\* A step that moves no item is a stutter of the promise.
LEMMA StutterStep ==
  ASSUME TInv, UNCHANGED <<next, Held, Won, Lost>>, (col = "returned") = (col' = "returned")
  PROVE  UNCHANGED Promise!vars
BY DEF Promise!vars, Held, Won, Lost

\* RunPush, with its four kinds of goroutine and two channels, gives its caller
\* what ItemRun promises: at most Jobs items in flight, each taken and settled
\* once, and a report only when nothing is left.
THEOREM PoolImplementsItemRun == Spec => ImplementsItemRun
<1>1. Init => Promise!Init
  <2> SUFFICES ASSUME Init PROVE Promise!Init
    OBVIOUS
  <2> USE Bounds DEF Init, Busy
  <2>1. Held = {} /\ Won = {} /\ Lost = {}
    BY DEF Held, Won, Lost
  <2>2. next..N = Promise!Items
    BY DEF Promise!Items
  <2> QED
    BY <2>1, <2>2 DEF Promise!Init, Held, Won, Lost
<1>2. TInv /\ Order /\ Placed /\ [Next]_vars => [Promise!Next]_(Promise!vars)
  <2> SUFFICES ASSUME TInv, Order, Placed, [Next]_vars
               PROVE [Promise!Next]_(Promise!vars)
    OBVIOUS
  <2>1. ASSUME NEW w \in Workers, Receive(w) PROVE Promise!Next
    <3>1. PICK i \in Promise!Items : i = next
      BY <2>1, Bounds DEF Receive, Promise!Items, TInv, TypeOK
    <3>2. Promise!Take(i)
      BY <2>1, <3>1, TakeStep
    <3> QED
      BY <3>2 DEF Promise!Next
  <2>2. ASSUME NEW w \in Workers, Send(w) PROVE Promise!Next
    <3>1. PICK i \in Promise!Items : i = item[w]
      BY <2>2 DEF Send, Promise!Items, TInv, Busy, Items
    <3>2. Promise!Settle(i)
      BY <2>2, <3>1, SettleStep
    <3> QED
      BY <3>2 DEF Promise!Next
  <2>3. CASE Return
    BY <2>3, ReportStep DEF Promise!Next
  <2>4. ASSUME NEW w \in Workers, CheckContext(w) \/ Execute(w) \/ Exit(w)
        PROVE UNCHANGED Promise!vars
    <3>1. \A v \in Workers : Busy(v)' <=> Busy(v)
      BY <2>4 DEF CheckContext, Execute, Exit, TInv, TypeOK, Busy
    <3>2. UNCHANGED <<next, item, col, got, applied, failed>>
      BY <2>4 DEF CheckContext, Execute, Exit, feederVars, collectorVars
    <3>3. UNCHANGED <<Held, Won, Lost>>
      BY <3>1, <3>2 DEF Held, Won, Lost
    <3> QED
      BY <3>2, <3>3, StutterStep
  <2>5. CASE RecordFailure \/ RecordSuccess \/ Checkpoint
    <3>1. UNCHANGED <<Held, Won, Lost>>
      BY <2>5 DEF RecordFailure, RecordSuccess, Checkpoint, workerVars, Held, Won,
         Lost, Busy
    <3>2. UNCHANGED next /\ col # "returned" /\ col' # "returned"
      BY <2>5 DEF RecordFailure, RecordSuccess, Checkpoint, feederVars
    <3> QED
      BY <3>1, <3>2, StutterStep
  <2>6. CASE CloseIn \/ CloseOut \/ Cancel \/ UNCHANGED vars
    <3>1. UNCHANGED <<next, Held, Won, Lost, col>>
      BY <2>6 DEF CloseIn, CloseOut, Cancel, vars, feederVars, workerVars,
         collectorVars, Held, Won, Lost, Busy
    <3> QED
      BY <3>1, StutterStep
  <2> QED
    BY <2>1, <2>2, <2>3, <2>4, <2>5, <2>6 DEF Next, Feeder, Worker, Collector, Finished
<1> QED
  BY <1>1, <1>2, TInvHolds, OrderHolds, PlacedHolds, PTL
     DEF Spec, ImplementsItemRun, Promise!Spec
=============================================================================
