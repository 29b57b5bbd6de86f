------------------------------- MODULE Upload -------------------------------
(***************************************************************************)
(* FilesService.Upload: one file, sent in a single request or, above the   *)
(* threshold, through an upload session, to a server whose answers may be  *)
(* errors or lose their way (kdriveapi/files.go, upload_session.go,        *)
(* errors.go).  The caller may call again when it is told of an error, as  *)
(* Release does after Flush and a later push after a failed one.           *)
(*                                                                         *)
(*   single:   hash the body, then POST it, again after a transient error  *)
(*   session:  start -> chunks, up to Parallelism at a time, or one after  *)
(*             the other when the body can only be read in order           *)
(*             -> finish                                                   *)
(*             (any failure: wait for the chunks, then cancel)             *)
(*                                                                         *)
(* Every request but the cancelling one is repeated up to MaxRetries times *)
(* (doSessionAttempt and the loop of Upload are the same loop).  A fault   *)
(* is a 5xx, a 429 or a broken connection, before or after the server has  *)
(* done what it was asked; an answer that breaks off in its body is not    *)
(* asked for again.                                                        *)
(*                                                                         *)
(* Contents: the body is a version, counted by the edits it gets while it  *)
(* is sent; a stored file is the sequence of the versions of its chunks.   *)
(* The server refuses a single request whose content is not that of the    *)
(* hash, and a finish whose hash is not that of the chunks in order.       *)
(* Not modelled: durations of the backoff, encoding, validation of names.  *)
(***************************************************************************)
EXTENDS Integers, Sequences, FiniteSets

CONSTANTS Chunks,       \* totalChunks
          Parallelism,  \* uploadParallelism
          MaxRetries,   \* maxRetries
          MaxCalls,     \* bound: calls of Upload
          MaxEdits,     \* bound: edits of the body
          MaxFaults,    \* bound: faults
          MayCancel     \* the caller's context may be cancelled

ASSUME UploadAssumption ==
  /\ Chunks \in Nat \ {0} /\ Parallelism \in Nat \ {0}
  /\ {MaxRetries, MaxCalls, MaxEdits, MaxFaults} \subseteq Nat
  /\ MayCancel \in BOOLEAN

VARIABLES
  large,      \* the file is above uploadSessionThreshold
  canParallel, \* its body is an io.ReaderAt
  replaces,   \* the caller gives the id of the file: ExistingFileID > 0
  conflict,   \* or asks for a new one, with this conflict mode
  body,       \* version of the body
  ctxDone,    \* the caller's context is cancelled
  pc,         \* "idle", "single", "start", "chunks", "finish", "cancel"
  result,     \* of the last call: "none", "ok", "error"
  attempt,    \* of the request under way
  hash,       \* what the single request announces
  token,      \* session the client knows, or 0
  chunk,      \* chunk -> [at, attempt, data]
  stored,     \* server: contents of the files of this name
  sessions,   \* server: sequence of [at, got]; got maps chunks to versions
  calls, faults,
  lost        \* history: answers lost, by request

client == <<pc, result, attempt, hash, token, chunk>>
fixed  == <<large, canParallel, replaces, conflict>>
vars   == <<fixed, body, ctxDone, client, stored, sessions, calls, faults, lost>>

N == 1..Chunks

Queued == [n \in N |-> [at |-> "queued", attempt |-> 0, data |-> 0]]

Whole(version) == [n \in N |-> version]

\* A push passes no mode ("unset", the empty string), the mount asks for "rename"
\* when it creates a file.
Init == /\ large \in BOOLEAN
        /\ canParallel \in IF large THEN BOOLEAN ELSE {TRUE}
        /\ replaces \in BOOLEAN
        /\ conflict \in IF replaces THEN {"unset"} ELSE {"unset", "rename"}
        /\ body = 1 /\ ctxDone = FALSE
        /\ pc = "idle" /\ result = "none" /\ attempt = 0 /\ hash = 0 /\ token = 0
        /\ chunk = Queued
        /\ stored = IF replaces THEN <<Whole(0)>> ELSE <<>>
        /\ sessions = <<>>
        /\ calls = 0 /\ faults = 0
        /\ lost = [q \in {"single", "start", "chunk", "finish", "cancel"} |-> 0]
-----------------------------------------------------------------------------
(* The world *)

Edit == /\ body <= MaxEdits
        /\ pc # "idle"
        /\ body' = body + 1
        /\ UNCHANGED <<fixed, ctxDone, client, stored, sessions, calls, faults, lost>>

CancelContext == /\ MayCancel /\ ~ctxDone
                 /\ pc # "idle"
                 /\ ctxDone' = TRUE
                 /\ UNCHANGED <<fixed, body, client, stored, sessions, calls, faults, lost>>

Fault == faults < MaxFaults /\ faults' = faults + 1

Loses(q) == Fault /\ lost' = [lost EXCEPT ![q] = @ + 1]

Answers == UNCHANGED <<faults, lost>>

World == UNCHANGED <<fixed, body, ctxDone, calls>>
-----------------------------------------------------------------------------
(* Upload *)

Begin == /\ pc = "idle" /\ result # "ok" /\ ~ctxDone
         /\ calls < MaxCalls /\ calls' = calls + 1
         /\ pc' = IF large THEN "start" ELSE "single"
         /\ hash' = body
         /\ attempt' = 0 /\ token' = 0 /\ chunk' = Queued /\ result' = "none"
         /\ UNCHANGED <<fixed, body, ctxDone, stored, sessions, faults, lost>>

GoTo(p)   == pc' = p /\ attempt' = 0 /\ UNCHANGED <<result, hash, token, chunk>>
Return(r) == pc' = "idle" /\ result' = r /\ UNCHANGED <<attempt, hash, token, chunk>>

\* an error of a request: Upload returns it, a session is cancelled first
Fails == IF token # 0 THEN GoTo("cancel") ELSE Return("error")

\* Seeded defect: the error of the last attempt is lost.
RetryForgets == IF attempt < MaxRetries
                THEN attempt' = attempt + 1 /\ UNCHANGED <<pc, result, hash, token, chunk>>
                ELSE Return("ok")

\* after a transient error: once more, if attempts are left
Retry == IF attempt < MaxRetries
         THEN attempt' = attempt + 1 /\ UNCHANGED <<pc, result, hash, token, chunk>>
         ELSE Fails

\* A request of a cancelled context, or the backoff before it, ends with the
\* context's error, which is not retried.
Cancelled == ctxDone /\ Answers /\ Fails

\* Seeded defect: a missing mode becomes "rename".
ConflictModeRename(c) == IF c \in {"version", "rename"} THEN c ELSE "rename"

ConflictMode(c) == IF c \in {"version", "rename"} THEN c ELSE "error"

\* the name is in use, and another file of that name not wanted
Taken == ~replaces /\ ConflictMode(conflict) = "error" /\ stored # <<>>

\* the server keeps a content under the name
Put(content) == IF replaces THEN stored' = <<content>>
                ELSE stored' = Append(stored, content)

Single ==
  /\ pc = "single"
  /\ \/ Cancelled /\ UNCHANGED stored
     \/ Fault /\ Retry /\ UNCHANGED <<stored, lost>>
     \/ (Taken \/ body # hash) /\ Answers /\ Fails /\ UNCHANGED stored
     \/ /\ ~Taken /\ body = hash
        /\ Put(Whole(hash))
        /\ \/ Return("ok") /\ Answers
           \/ Loses("single") /\ (Retry \/ Fails)
           \/ Cancelled
  /\ UNCHANGED sessions
  /\ World
-----------------------------------------------------------------------------
(* uploadSession *)

Opened == Append(sessions, [at |-> "open", got |-> [n \in {} |-> 0]])

Start ==
  /\ pc = "start"
  /\ \/ Cancelled /\ UNCHANGED sessions
     \/ Fault /\ Retry /\ UNCHANGED <<sessions, lost>>
     \/ Taken /\ Answers /\ Fails /\ UNCHANGED sessions
     \/ /\ ~Taken
        /\ sessions' = Opened
        /\ \/ /\ pc' = "chunks" /\ token' = Len(sessions') /\ attempt' = 0
              /\ Answers
              /\ UNCHANGED <<result, hash, chunk>>
           \/ Loses("start") /\ (Retry \/ Fails)
           \/ Cancelled
  /\ UNCHANGED stored
  /\ World

At(n, place) == chunk[n].at = place

Sending == {n \in N : At(n, "sending")}

\* gCtx: the caller's context is cancelled, or a chunk has failed
GroupDone == ctxDone \/ \E n \in N : At(n, "failed")

ChunkStep == UNCHANGED <<pc, result, attempt, hash, token, stored>> /\ World

\* g.Go, in the order of the chunks, blocks while Parallelism chunks are under
\* way; it goes on after a failure, whose context then fails the rest.
MayLaunch == canParallel /\ Cardinality(Sending) < Parallelism

\* uploadSessionSequential: the loop ends with the first chunk that fails.
MayLaunchNext == ~canParallel /\ Sending = {} /\ \A k \in N : ~At(k, "failed")

Launch(n) ==
  /\ pc = "chunks"
  /\ At(n, "queued") /\ \A k \in 1..(n - 1) : ~At(k, "queued")
  /\ MayLaunch \/ MayLaunchNext
  /\ \/ /\ chunk' = [chunk EXCEPT ![n] = [at |-> "sending", attempt |-> 0, data |-> body]]
        /\ Answers
     \/ /\ chunk' = [chunk EXCEPT ![n].at = "failed"]
        /\ Fault /\ UNCHANGED lost
  /\ ChunkStep /\ UNCHANGED sessions

ChunkFails(n) == chunk' = [chunk EXCEPT ![n].at = "failed"]

RetryChunk(n) ==
  IF chunk[n].attempt < MaxRetries
  THEN chunk' = [chunk EXCEPT ![n].attempt = @ + 1]
  ELSE ChunkFails(n)

\* Seeded defect: chunks are numbered from 0.
ReceivedFromZero(n) ==
  sessions' = [sessions EXCEPT ![token].got =
                 [k \in DOMAIN @ \cup {n - 1} |-> IF k = n - 1 THEN chunk[n].data ELSE @[k]]]

Received(n) ==
  sessions' = [sessions EXCEPT ![token].got =
                 [k \in DOMAIN @ \cup {n} |-> IF k = n THEN chunk[n].data ELSE @[k]]]

\* sessionChunk
Send(n) ==
  /\ At(n, "sending")
  /\ \/ GroupDone /\ Answers /\ ChunkFails(n) /\ UNCHANGED sessions
     \/ Fault /\ RetryChunk(n) /\ UNCHANGED <<sessions, lost>>
     \/ /\ Received(n)
        /\ \/ chunk' = [chunk EXCEPT ![n].at = "acked"] /\ Answers
           \/ Loses("chunk") /\ RetryChunk(n)
           \/ GroupDone /\ Answers /\ ChunkFails(n)
  /\ ChunkStep

\* Seeded defect: the first failure ends the wait.
WaitFirst ==
  /\ pc = "chunks"
  /\ \/ \E n \in N : At(n, "failed") /\ GoTo("cancel")
     \/ (\A n \in N : At(n, "acked")) /\ GoTo("finish")
  /\ Answers /\ UNCHANGED <<stored, sessions>> /\ World

\* Seeded defect: the wait is for chunks that have been acknowledged.
WaitForAcks ==
  /\ pc = "chunks"
  /\ \A n \in N : At(n, "acked")
  /\ GoTo("finish")
  /\ Answers /\ UNCHANGED <<stored, sessions>> /\ World

\* g.Wait; or the end of the loop
Wait ==
  /\ pc = "chunks"
  /\ \/ \A n \in N : At(n, "acked") \/ At(n, "failed")
     \/ ~canParallel /\ \E n \in N : At(n, "failed")
  /\ GoTo(IF \A n \in N : At(n, "acked") THEN "finish" ELSE "cancel")
  /\ Answers /\ UNCHANGED <<stored, sessions>> /\ World

\* total_chunk_hash, over the chunks in order
Sum == [n \in N |-> chunk[n].data]

\* The server makes the file of the chunks it has, once.  A finish that comes a
\* second time may be refused.
Complete == sessions[token].at = "open" /\ sessions[token].got = Sum

Finish ==
  /\ pc = "finish"
  /\ \/ Cancelled /\ UNCHANGED <<sessions, stored>>
     \/ Fault /\ Retry /\ UNCHANGED <<sessions, stored, lost>>
     \/ ~Complete /\ Answers /\ Fails /\ UNCHANGED <<sessions, stored>>
     \/ sessions[token].at = "finished" /\ Answers /\ Return("ok")
          /\ UNCHANGED <<sessions, stored>>
     \/ /\ Complete
        /\ sessions' = [sessions EXCEPT ![token].at = "finished"]
        /\ Put(sessions[token].got)
        /\ \/ Return("ok") /\ Answers
           \/ Loses("finish") /\ (Retry \/ Fails)
           \/ Cancelled
  /\ World

\* Seeded defect: a session whose finish fails is left alone.
CancelUnlessComplete ==
  /\ pc = "cancel"
  /\ IF \A n \in N : At(n, "acked") THEN UNCHANGED sessions
     ELSE sessions' = [sessions EXCEPT ![token].at = "cancelled"]
  /\ Answers /\ Return("error")
  /\ UNCHANGED stored /\ World

\* sessionCancel: one request, with the caller's context; its answer is not
\* looked at.
Cancel ==
  /\ pc = "cancel"
  /\ \/ /\ ~ctxDone
        /\ sessions' = [sessions EXCEPT ![token].at = IF @ = "open" THEN "cancelled" ELSE @]
        /\ Answers
     \/ UNCHANGED sessions /\ IF ctxDone THEN Answers ELSE Loses("cancel")
  /\ Return("error")
  /\ UNCHANGED stored /\ World

Step == \/ Single \/ Start
        \/ \E n \in N : Launch(n) \/ Send(n)
        \/ Wait \/ Finish \/ Cancel

Next == Edit \/ CancelContext \/ Begin \/ Step

Spec == Init /\ [][Next]_vars

\* Every loop of Upload, and every worker, goes on: requests end, by an answer
\* or the transport's timeout, and backoffs pass.
FairSpec == Spec /\ WF_vars(Single) /\ WF_vars(Start) /\ WF_vars(Wait)
                 /\ WF_vars(Finish) /\ WF_vars(Cancel)
                 /\ \A n \in N : WF_vars(Launch(n)) /\ WF_vars(Send(n))
-----------------------------------------------------------------------------
(* Properties *)

Versions == 0..(MaxEdits + 1)

\* Upload says that it has stored the file only if the file is there, whole:
\* every chunk in its place with the content whose hash was announced, and of one
\* version unless the body was edited while it was read in chunks.
OkMeansStored ==
  result = "ok" =>
    /\ stored # <<>>
    /\ stored[Len(stored)] = IF large THEN Sum ELSE Whole(hash)

\* It fails only for a reason: an upload that meets no fault, no cancellation,
\* no edit of the body and no other file of its name succeeds, in however many
\* chunks and whatever the order in which they arrive.
CalmUploadSucceeds == result = "error" => faults > 0 \/ ctxDone \/ body > 1

\* No worker is left behind: when Upload returns, nothing reads the body any
\* more, which the caller then closes, and no chunk is on its way; until then
\* no more of them than Parallelism are.
NothingLeftRunning == /\ pc # "chunks" => Sending = {}
                      /\ Cardinality(Sending) <= Parallelism

\* "On any unrecoverable failure it best-effort cancels the session": every
\* session whose token the client has learnt is finished or cancelled once Upload
\* has returned, unless the context was cancelled or the cancelling request lost.
SessionsEnd ==
  pc = "idle" /\ ~ctxDone =>
    Cardinality({i \in DOMAIN sessions : sessions[i].at = "open"})
      <= lost["start"] + lost["cancel"]

\* Repeated requests and repeated calls make no second file: none with
\* conflict=error or an id, and with conflict=rename no more than answers to the
\* request that makes the file were lost, or the context cancelled under it.
OneFile ==
  Len(stored) <= IF conflict = "unset" THEN 1
                 ELSE 1 + lost["single"] + lost["finish"] + IF ctxDone THEN 1 ELSE 0

\* Upload returns: retries are counted, and nothing waits for a chunk that has
\* failed.
UploadReturns == (pc # "idle") ~> (pc = "idle")
=============================================================================
