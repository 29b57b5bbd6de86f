------------------------------ MODULE RunPool ------------------------------
(***************************************************************************)
(* The worker pool of RunPush (pkg/syncer/run.go); RunPull                 *)
(* (pkg/syncer/run_pull.go) has the same goroutines, channels and          *)
(* checkpoint counter.  Processes:                                         *)
(*   - the feeder goroutine sends the items on `in`, then closes it;       *)
(*   - `Workers` receive an item, look at ctx, call the Executor and send  *)
(*     the outcome on `out`;                                               *)
(*   - the closer goroutine waits for every worker and closes `out`;       *)
(*   - the collector (the calling goroutine) records outcomes in the       *)
(*     manifest, checkpoints it, and returns when `out` is closed.         *)
(* Both channels are unbuffered, so a send and its receive are one step.   *)
(*                                                                         *)
(* Abstracted: an Executor call is one step with a verdict; the manifest   *)
(* is the set of items recorded in it (`applied`) and, on disk, `saved`;   *)
(* Result's counters are the sizes of those sets and of `failed`.          *)
(***************************************************************************)
EXTENDS Integers, FiniteSets

CONSTANTS N,         \* len(items)
          Jobs,      \* the jobs argument
          Interval   \* checkpointInterval (64 in the code)

ASSUME RunPoolAssumption ==
  /\ N \in Nat
  /\ Jobs \in Int
  /\ Interval \in Nat \ {0}

VARIABLES next,        \* feeder: index of the next item to send, N+1 when done
          inClosed,    \* close(in) has happened
          pc,          \* worker: where it is in its loop
          item,        \* worker: the item it holds (0: none yet)
          ok,          \* worker: o.err == nil
          cancelled,   \* ctx.Err() != nil
          outClosed,   \* close(out) has happened
          col,         \* collector: "recv", "record", "checkpoint", "returned"
          got,         \* collector: the outcome received
          since,       \* successes recorded since the last checkpoint
          applied,     \* items recorded in the in-memory manifest
          failed,      \* items counted in res.Failed
          saved,       \* items recorded in the manifest file
          saveFailed   \* history: the last checkpoint could not write the file

vars == <<next, inClosed, pc, item, ok, cancelled, outClosed, col, got, since,
          applied, failed, saved, saveFailed>>

feederVars    == <<next, inClosed>>
workerVars    == <<pc, item, ok>>
collectorVars == <<col, got, since, applied, failed, saved, saveFailed>>

Items == 1..N

\* `if jobs < 1 { jobs = 1 }`, then one goroutine per job
Workers == 1..(IF Jobs < 1 THEN 1 ELSE Jobs)

Outcomes == [item : 0..N, ok : BOOLEAN]

Busy(w) == pc[w] \in {"check", "exec", "send"}

Init == /\ next = 1
        /\ inClosed = FALSE
        /\ pc = [w \in Workers |-> "recv"]
        /\ item = [w \in Workers |-> 0]
        /\ ok = [w \in Workers |-> FALSE]
        /\ cancelled = FALSE
        /\ outClosed = FALSE
        /\ col = "recv"
        /\ got = [item |-> 0, ok |-> FALSE]
        /\ since = 0
        /\ applied = {}
        /\ failed = {}
        /\ saved = {}
        /\ saveFailed = FALSE

-----------------------------------------------------------------------------
(* Seeded defects: each is a plausible mistake in one of the definitions     *)
(* below, kept only to show which property notices it.                       *)

\* the feeder gives up on cancellation and forgets to close `in`
CloseInBug == /\ next = N + 1 /\ ~inClosed /\ ~cancelled
              /\ inClosed' = TRUE
              /\ UNCHANGED <<next, workerVars, cancelled, outClosed, collectorVars>>

\* a cancelled worker skips its item without reporting an outcome
CheckContextDropsItem(w) ==
  /\ pc[w] = "check"
  /\ pc' = [pc EXCEPT ![w] = IF cancelled THEN "recv" ELSE "exec"]
  /\ UNCHANGED <<item, ok, feederVars, cancelled, outClosed, collectorVars>>

\* the ctx.Err() check is missing
CheckContextMissing(w) ==
  /\ pc[w] = "check"
  /\ pc' = [pc EXCEPT ![w] = "exec"]
  /\ UNCHANGED <<item, ok, feederVars, cancelled, outClosed, collectorVars>>

\* a worker reports a failure and then tries the same item again
SendThenRetry(w) ==
  /\ pc[w] = "send" /\ col = "recv"
  /\ got' = [item |-> item[w], ok |-> ok[w]]
  /\ col' = "record"
  /\ pc' = [pc EXCEPT ![w] = IF ok[w] THEN "recv" ELSE "check"]
  /\ UNCHANGED <<item, ok, feederVars, cancelled, outClosed, since, applied,
                 failed, saved, saveFailed>>

\* `out` is closed after the feeder's loop instead of after wg.Wait()
CloseOutEarly == /\ inClosed /\ ~outClosed
                 /\ outClosed' = TRUE
                 /\ UNCHANGED <<feederVars, workerVars, cancelled, collectorVars>>

\* a failure restarts the checkpoint counter
RecordFailureResets ==
  /\ col = "record" /\ ~got.ok
  /\ failed' = failed \cup {got.item}
  /\ col' = "recv"
  /\ since' = 0
  /\ UNCHANGED <<feederVars, workerVars, cancelled, outClosed, got, applied,
                 saved, saveFailed>>

\* `since > checkpointInterval`
RecordSuccessLate ==
  /\ col = "record" /\ got.ok
  /\ applied' = applied \cup {got.item}
  /\ since' = since + 1
  /\ col' = IF since + 1 > Interval THEN "checkpoint" ELSE "recv"
  /\ UNCHANGED <<feederVars, workerVars, cancelled, outClosed, got, failed,
                 saved, saveFailed>>

-----------------------------------------------------------------------------
(* Feeder *)

\* `in <- it` meets `for it := range in` of worker w
Receive(w) == /\ next <= N
              /\ pc[w] = "recv"
              /\ item' = [item EXCEPT ![w] = next]
              /\ pc' = [pc EXCEPT ![w] = "check"]
              /\ next' = next + 1
              /\ UNCHANGED <<inClosed, ok, cancelled, outClosed>>
              /\ UNCHANGED collectorVars

CloseIn == /\ next = N + 1
           /\ ~inClosed
           /\ inClosed' = TRUE
           /\ UNCHANGED <<next, cancelled, outClosed>>
           /\ UNCHANGED workerVars
           /\ UNCHANGED collectorVars

-----------------------------------------------------------------------------
(* Workers *)

\* ctx.Err(): a cancelled run refuses the item without calling the Executor
CheckContext(w) ==
  /\ pc[w] = "check"
  /\ \/ /\ cancelled
        /\ ok' = [ok EXCEPT ![w] = FALSE]
        /\ pc' = [pc EXCEPT ![w] = "send"]
     \/ /\ ~cancelled
        /\ pc' = [pc EXCEPT ![w] = "exec"]
        /\ UNCHANGED ok
  /\ UNCHANGED <<item, cancelled, outClosed>>
  /\ UNCHANGED feederVars
  /\ UNCHANGED collectorVars

\* ex.Upload / Overwrite / Delete / Move returns
Execute(w) == /\ pc[w] = "exec"
              /\ \E verdict \in BOOLEAN : ok' = [ok EXCEPT ![w] = verdict]
              /\ pc' = [pc EXCEPT ![w] = "send"]
              /\ UNCHANGED <<item, cancelled, outClosed>>
              /\ UNCHANGED feederVars
              /\ UNCHANGED collectorVars

\* `out <- o` meets `for o := range out`
Send(w) == /\ pc[w] = "send"
           /\ col = "recv"
           /\ got' = [item |-> item[w], ok |-> ok[w]]
           /\ col' = "record"
           /\ pc' = [pc EXCEPT ![w] = "recv"]
           /\ UNCHANGED <<item, ok, cancelled, outClosed, since, applied,
                          failed, saved, saveFailed>>
           /\ UNCHANGED feederVars

\* the range over the closed channel `in` ends; defer wg.Done()
Exit(w) == /\ pc[w] = "recv"
           /\ inClosed
           /\ pc' = [pc EXCEPT ![w] = "exit"]
           /\ UNCHANGED <<item, ok, cancelled, outClosed>>
           /\ UNCHANGED feederVars
           /\ UNCHANGED collectorVars

-----------------------------------------------------------------------------
(* Closer: wg.Wait(); close(out) *)

CloseOut == /\ \A w \in Workers : pc[w] = "exit"
            /\ ~outClosed
            /\ outClosed' = TRUE
            /\ UNCHANGED cancelled
            /\ UNCHANGED feederVars
            /\ UNCHANGED workerVars
            /\ UNCHANGED collectorVars

-----------------------------------------------------------------------------
(* Collector *)

RecordFailure == /\ col = "record"
                 /\ ~got.ok
                 /\ failed' = failed \cup {got.item}
                 /\ col' = "recv"
                 /\ UNCHANGED <<got, since, applied, saved, saveFailed,
                                cancelled, outClosed>>
                 /\ UNCHANGED feederVars
                 /\ UNCHANGED workerVars

\* m.Set / m.Delete, the Result counter, then maybeCheckpoint's counter
RecordSuccess == /\ col = "record"
                 /\ got.ok
                 /\ applied' = applied \cup {got.item}
                 /\ since' = since + 1
                 /\ col' = IF since + 1 >= Interval THEN "checkpoint" ELSE "recv"
                 /\ UNCHANGED <<got, failed, saved, saveFailed, cancelled,
                                outClosed>>
                 /\ UNCHANGED feederVars
                 /\ UNCHANGED workerVars

\* checkpoint(); since = 0.  The callers pass `_ = m.Save(path)`: a write
\* error is dropped and the counter restarts all the same.
Checkpoint == /\ col = "checkpoint"
              /\ \/ saved' = applied /\ saveFailed' = FALSE
                 \/ saved' = saved /\ saveFailed' = TRUE
              /\ since' = 0
              /\ col' = "recv"
              /\ UNCHANGED <<got, applied, failed, cancelled, outClosed>>
              /\ UNCHANGED feederVars
              /\ UNCHANGED workerVars

\* the range over the closed channel `out` ends; return res
Return == /\ col = "recv"
          /\ outClosed
          /\ col' = "returned"
          /\ UNCHANGED <<got, since, applied, failed, saved, saveFailed,
                         cancelled, outClosed>>
          /\ UNCHANGED feederVars
          /\ UNCHANGED workerVars

-----------------------------------------------------------------------------
\* Ctrl-C: the command's context is cancelled at any moment of the run
Cancel == /\ ~cancelled
          /\ col # "returned"
          /\ cancelled' = TRUE
          /\ UNCHANGED outClosed
          /\ UNCHANGED feederVars
          /\ UNCHANGED workerVars
          /\ UNCHANGED collectorVars

\* The run is over: stuttering here keeps TLC's deadlock check meaningful.
Finished == col = "returned" /\ UNCHANGED vars

Feeder    == CloseIn \/ \E w \in Workers : Receive(w)
Worker(w) == CheckContext(w) \/ Execute(w) \/ Send(w) \/ Exit(w)
Collector == RecordFailure \/ RecordSuccess \/ Checkpoint \/ Return

Next == \/ Feeder
        \/ \E w \in Workers : Worker(w)
        \/ CloseOut
        \/ Collector
        \/ Cancel
        \/ Finished

Spec == Init /\ [][Next]_vars

\* Every goroutine that can run is scheduled eventually, and an Executor call
\* returns (the API client bounds its retries).  Nothing obliges a Cancel.
Fairness == /\ WF_vars(Feeder)
            /\ \A w \in Workers : WF_vars(Worker(w))
            /\ WF_vars(CloseOut)
            /\ WF_vars(Collector)

FairSpec == Spec /\ Fairness
-----------------------------------------------------------------------------
(* Properties *)

TypeOK ==
  /\ next \in 1..(N + 1)
  /\ inClosed \in BOOLEAN
  /\ pc \in [Workers -> {"recv", "check", "exec", "send", "exit"}]
  /\ item \in [Workers -> 0..N]
  /\ ok \in [Workers -> BOOLEAN]
  /\ cancelled \in BOOLEAN
  /\ outClosed \in BOOLEAN
  /\ col \in {"recv", "record", "checkpoint", "returned"}
  /\ got \in Outcomes
  /\ since \in 0..Interval
  /\ applied \in SUBSET Items
  /\ failed \in SUBSET Items
  /\ saved \in SUBSET Items
  /\ saveFailed \in BOOLEAN

\* A worker never sends on the closed channel `out` (Go would panic), and when
\* the call returns no goroutine of the pool is left behind.
ChannelsClosedInOrder ==
  /\ outClosed => \A w \in Workers : pc[w] = "exit"
  /\ col = "returned" => outClosed /\ inClosed

\* No item is lost and none is done twice: what the feeder handed out is, at
\* every moment, with one worker, in the collector's hand, or counted once as
\* a success or as a failure; a Result accounts for the whole plan, cancelled
\* or not.
Settled == applied \cup failed \cup (IF col = "record" THEN {got.item} ELSE {})

EveryItemSettledOnce ==
  /\ applied \cap failed = {}
  /\ col = "record" => got.item \notin applied \cup failed
  /\ \A v, w \in Workers : Busy(v) /\ Busy(w) /\ item[v] = item[w] => v = w
  /\ \A w \in Workers : Busy(w) => item[w] \notin Settled
  /\ col = "returned" => applied \cup failed = Items

\* What the server has done, or may have, and the manifest file would not know
\* of after a kill: successes recorded since the last save, one in the
\* collector's hand, and what the workers are at or wait to report.
Unsaved ==
  (applied \ saved)
    \cup (IF col = "record" /\ got.ok THEN {got.item} ELSE {})
    \cup {item[w] : w \in {v \in Workers : pc[v] = "exec" \/ (pc[v] = "send" /\ ok[v])}}

\* "bounding re-work after a crash": unless the last save of the manifest
\* failed, a kill makes the next run repeat at most Interval operations and one
\* for each worker, whatever failed or was cancelled in between.
ReworkBounded ==
  ~saveFailed => Cardinality(Unsaved) <= Interval + Cardinality(Workers)

\* Once the context is cancelled no further Executor call is started.
NoWorkAfterCancel ==
  [][\A w \in Workers : cancelled /\ pc'[w] = "exec" => pc[w] = "exec"]_vars

\* The run always ends, also when it is cancelled half way: every remaining
\* item is drained through the workers to the collector.
RunReturns == <>(col = "returned")

\* The pool keeps the promise of ItemRun.
Promise == INSTANCE ItemRun WITH
  waiting   <- next..N,
  taken     <- {item[w] : w \in {v \in Workers : Busy(v)}},
  succeeded <- applied \cup (IF col = "record" /\ got.ok THEN {got.item} ELSE {}),
  failed    <- failed \cup (IF col = "record" /\ ~got.ok THEN {got.item} ELSE {}),
  reported  <- (col = "returned")

ImplementsItemRun == Promise!Spec
=============================================================================
