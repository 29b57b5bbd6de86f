---------------------------- MODULE UploadProofs ----------------------------
(***************************************************************************)
(* For every number of chunks, every parallelism and every number of       *)
(* retries, calls, edits and faults: what Upload may leave behind, in its  *)
(* goroutines and on the server, and what its answer is worth.             *)
(***************************************************************************)
EXTENDS Upload, FiniteSetTheorems, SequenceTheorems, TLAPS

Requests == {"single", "start", "chunk", "finish", "cancel"}

Content == [N -> Nat]

Progress == [at : {"queued", "sending", "failed", "acked"}, attempt : Nat, data : Nat]

Session == [at : {"open", "finished", "cancelled"}, got : UNION {[S -> Nat] : S \in SUBSET N}]

\* The types, and where the flow of control can be: a session is open on the
\* client's side exactly in the three places of uploadSession after its start.
Types ==
  /\ large \in BOOLEAN /\ canParallel \in BOOLEAN /\ replaces \in BOOLEAN
  /\ conflict \in {"unset", "rename"}
  /\ replaces => conflict = "unset"
  /\ body \in Nat /\ 1 <= body
  /\ ctxDone \in BOOLEAN
  /\ pc \in {"idle", "single", "start", "chunks", "finish", "cancel"}
  /\ result \in {"none", "ok", "error"}
  /\ attempt \in Nat /\ hash \in Nat /\ token \in Nat
  /\ chunk \in [N -> Progress]
  /\ stored \in Seq(Content)
  /\ sessions \in Seq(Session)
  /\ calls \in Nat /\ faults \in Nat
  /\ lost \in [Requests -> Nat]
  /\ pc # "idle" => result = "none"
  /\ pc = "single" => ~large /\ token = 0
  /\ pc = "start" => large /\ token = 0
  /\ pc \in {"chunks", "finish", "cancel"} => large /\ token \in 1..Len(sessions)

\* Who reads the body: workers of the session, while Upload waits for them; one
\* at a time and none after a failure, when the chunks are sent in a loop.
OneByOne == ~canParallel => /\ \A k, n \in N : At(k, "sending") /\ At(n, "sending") => k = n
                            /\ \A k, n \in N : At(k, "sending") => ~At(n, "failed")

Workers == /\ \A n \in N : At(n, "sending") => pc = "chunks"
           /\ OneByOne
           /\ Cardinality(Sending) <= Parallelism

\* the assumption on the constants as plain inequalities
LEMMA Bounds == /\ Chunks \in Int /\ 1 <= Chunks
                /\ Parallelism \in Int /\ 1 <= Parallelism
                /\ MaxRetries \in Nat
  BY UploadAssumption

\* The chunks queued before a call are of the type of chunks.
LEMMA QueuedType == Queued \in [N -> Progress]
  BY DEF Queued, Progress

\* A whole body is content of the server.
LEMMA WholeType == \A v \in Nat : Whole(v) \in Content
  BY DEF Whole, Content

\* Upload starts with every variable of its type.
LEMMA TypesInit == Init => Types
<1> SUFFICES ASSUME Init PROVE Types
  OBVIOUS
<1>1. stored \in Seq(Content)
  <2>1. Whole(0) \in Content
    BY WholeType
  <2>2. stored = <<Whole(0)>> \/ stored = <<>>
    BY Zenon DEF Init
  <2>3. <<Whole(0)>> \in Seq(Content) /\ <<>> \in Seq(Content)
    BY <2>1
  <2> QED
    BY <2>2, <2>3, Zenon
<1>2. sessions \in Seq(Session)
  <2>1. sessions = <<>>
    BY Zenon DEF Init
  <2> QED
    BY <2>1
<1>3. lost \in [Requests -> Nat]
  BY DEF Init, Requests
<1>4. /\ large \in BOOLEAN /\ canParallel \in BOOLEAN /\ replaces \in BOOLEAN
      /\ conflict \in {"unset", "rename"} /\ (replaces => conflict = "unset")
  BY DEF Init
<1>5. body = 1 /\ pc = "idle" /\ result = "none"
  BY Zenon DEF Init
<1>6. attempt \in Nat /\ hash \in Nat /\ token \in Nat /\ calls \in Nat /\ faults \in Nat
  BY DEF Init
<1>7. chunk \in [N -> Progress]
  BY QueuedType, Zenon DEF Init
<1>8. ctxDone \in BOOLEAN
  BY Zenon DEF Init
<1>9. body \in Nat /\ 1 <= body
  BY <1>5
<1>10. /\ pc \in {"idle", "single", "start", "chunks", "finish", "cancel"}
       /\ result \in {"none", "ok", "error"}
       /\ pc # "idle" => result = "none"
       /\ pc = "single" => ~large /\ token = 0
       /\ pc = "start" => large /\ token = 0
       /\ pc \in {"chunks", "finish", "cancel"} => large /\ token \in 1..Len(sessions)
  BY <1>5
<1> QED
  BY <1>1, <1>2, <1>3, <1>4, <1>6, <1>7, <1>8, <1>9, <1>10, Zenon DEF Types

\* A new session, that of no chunk, is of the type of sessions.
LEMMA OpenedType == Types => /\ Opened \in Seq(Session)
                             /\ Len(Opened) = Len(sessions) + 1
                             /\ Opened[Len(Opened)].at = "open"
                             /\ \A i \in 1..Len(sessions) : Opened[i] = sessions[i]
<1> SUFFICES ASSUME Types PROVE /\ Opened \in Seq(Session)
                                /\ Len(Opened) = Len(sessions) + 1
                                /\ Opened[Len(Opened)].at = "open"
                                /\ \A i \in 1..Len(sessions) : Opened[i] = sessions[i]
  OBVIOUS
<1> DEFINE none == [n \in {} |-> 0]
<1>1. none \in [{} -> Nat]
  OBVIOUS
<1>2. [at |-> "open", got |-> none] \in Session
  BY <1>1 DEF Session
<1> HIDE DEF none
<1> DEFINE new == [at |-> "open", got |-> none]
<1>3. new.at = "open" /\ Opened = Append(sessions, new)
  BY DEF Opened, none
<1>4. sessions \in Seq(Session)
  BY DEF Types
<1> HIDE DEF new
<1> QED
  BY <1>2, <1>3, <1>4 DEF new


\* What the server keeps is content again, and the last file is the one it got.
LEMMA PutFacts ==
  ASSUME Types, NEW content \in Content, Put(content)
  PROVE  /\ stored' \in Seq(Content)
         /\ stored' # <<>> /\ stored'[Len(stored')] = content
         /\ replaces => Len(stored') = 1
         /\ ~replaces => Len(stored') = Len(stored) + 1
<1>1. CASE replaces
  <2>1. stored' = <<content>>
    BY <1>1 DEF Put
  <2>2. <<content>> \in Seq(Content) /\ Len(<<content>>) = 1 /\ <<content>>[1] = content
    OBVIOUS
  <2> QED
    BY <1>1, <2>1, <2>2, EmptySeq
<1>2. CASE ~replaces
  <2>1. stored' = Append(stored, content) /\ stored \in Seq(Content)
    BY <1>2 DEF Put, Types
  <2> QED
    BY <1>2, <2>1, AppendProperties, EmptySeq
<1> QED
  BY <1>1, <1>2 DEF Types

\* A lost answer is counted, once, under its request.
LEMMA LosesFacts ==
  ASSUME Types, NEW q \in Requests, Loses(q)
  PROVE  /\ faults' = faults + 1
         /\ lost' \in [Requests -> Nat] /\ lost'[q] = lost[q] + 1
         /\ \A p \in Requests \ {q} : lost'[p] = lost[p]
  BY DEF Loses, Fault, Types

\* Whatever befalls a request, the counters stay numbers.
LEMMA FaultFacts ==
  ASSUME Types
  PROVE  /\ Answers => faults' = faults /\ lost' = lost /\ faults' \in Nat /\ lost' \in [Requests -> Nat]
         /\ Fault => faults' = faults + 1 /\ faults' \in Nat
         /\ lost' = lost => lost' \in [Requests -> Nat]
         /\ \A q \in Requests : Loses(q) => faults' = faults + 1 /\ faults' \in Nat
                                            /\ lost' \in [Requests -> Nat]
         /\ Requests = {"single", "start", "chunk", "finish", "cancel"}
<1>1. faults \in Nat /\ lost \in [Requests -> Nat]
  BY DEF Types
<1>2. \A q \in Requests : Loses(q) => faults' = faults + 1 /\ lost' \in [Requests -> Nat]
  BY LosesFacts
<1>3. Requests = {"single", "start", "chunk", "finish", "cancel"}
  BY DEF Requests
<1> QED
  BY <1>1, <1>2, <1>3 DEF Answers, Fault

\* The session under way keeps its place, and its type, when it is changed.
LEMMA SessionFacts ==
  ASSUME Types, token \in 1..Len(sessions), NEW new \in Session,
         sessions' = [sessions EXCEPT ![token] = new]
  PROVE  /\ sessions' \in Seq(Session) /\ Len(sessions') = Len(sessions)
         /\ sessions'[token] = new
         /\ \A i \in 1..Len(sessions) \ {token} : sessions'[i] = sessions[i]
  BY DEF Types

\* A request that is given up ends the call, with an error, or the session.
LEMMA FailsFacts ==
  ASSUME Types, Fails
  PROVE  /\ UNCHANGED <<hash, token, chunk>> /\ attempt' \in Nat
         /\ token = 0 => pc' = "idle" /\ result' = "error"
         /\ token # 0 => pc' = "cancel" /\ result' = result
  BY DEF Fails, GoTo, Return, Types

\* One that is repeated is where it was, or it is given up after all.
LEMMA RetryFacts ==
  ASSUME Types, Retry
  PROVE  /\ UNCHANGED <<hash, token, chunk>> /\ attempt' \in Nat
         /\ \/ pc' = pc /\ result' = result
            \/ token = 0 /\ pc' = "idle" /\ result' = "error"
            \/ token # 0 /\ pc' = "cancel" /\ result' = result
  BY FailsFacts DEF Retry, Types

\* An answer for the caller ends the call.
LEMMA ReturnFacts ==
  ASSUME Types, NEW r, Return(r)
  PROVE  /\ UNCHANGED <<attempt, hash, token, chunk>> /\ attempt' \in Nat
         /\ pc' = "idle" /\ result' = r
  BY DEF Return, Types

\* What a step does to one chunk makes a chunk of it again.
LEMMA ChunkFacts ==
  ASSUME Types, NEW n \in N
  PROVE  /\ chunk \in [N -> Progress]
         /\ \A p \in {"acked", "failed"} :
              chunk' = [chunk EXCEPT ![n].at = p] => chunk' \in [N -> Progress]
         /\ chunk' = [chunk EXCEPT ![n].attempt = @ + 1] => chunk' \in [N -> Progress]
<1>1. chunk \in [N -> Progress] /\ chunk[n] \in Progress
  BY DEF Types
<1>2. [chunk[n] EXCEPT !.at = "acked"] \in Progress /\ [chunk[n] EXCEPT !.at = "failed"] \in Progress
  BY <1>1 DEF Progress
<1>3. [chunk[n] EXCEPT !.attempt = @ + 1] \in Progress
  BY <1>1 DEF Progress
<1> QED
  BY <1>1, <1>2, <1>3

\* A chunk that arrives is entered in the session, and nothing else changes there.
LEMMA ReceivedFacts ==
  ASSUME Types, token \in 1..Len(sessions), NEW n \in N, Received(n)
  PROVE  /\ sessions' \in Seq(Session) /\ Len(sessions') = Len(sessions)
         /\ \A i \in 1..Len(sessions) : sessions'[i].at = sessions[i].at
         /\ DOMAIN sessions'[token].got = DOMAIN sessions[token].got \cup {n}
         /\ \A k \in DOMAIN sessions[token].got \cup {n} :
              sessions'[token].got[k] = IF k = n THEN chunk[n].data ELSE sessions[token].got[k]
<1> DEFINE old == sessions[token]
           S   == DOMAIN old.got \cup {n}
           g   == [k \in S |-> IF k = n THEN chunk[n].data ELSE old.got[k]]
           new == [old EXCEPT !.got = g]
<1>1. old \in Session
  BY ElementOfSeq DEF Types
<1>2. old.got \in [DOMAIN old.got -> Nat] /\ DOMAIN old.got \in SUBSET N
  BY <1>1 DEF Session
<1>3. chunk[n].data \in Nat
  BY DEF Types, Progress
<1>4. g \in [S -> Nat] /\ S \in SUBSET N
  BY <1>2, <1>3
<1>5. new \in Session /\ new.at = old.at /\ new.got = g
  BY <1>1, <1>4 DEF Session
<1>6. sessions' = [sessions EXCEPT ![token] = new]
  BY DEF Received
<1> HIDE DEF new, g, old
<1>7. /\ sessions' \in Seq(Session) /\ Len(sessions') = Len(sessions)
      /\ sessions'[token] = new
      /\ \A i \in 1..Len(sessions) \ {token} : sessions'[i] = sessions[i]
  BY <1>5, <1>6, SessionFacts
<1> QED
  BY <1>5, <1>7 DEF g, old

\* Finishing and cancelling change nothing of the session but its state.
LEMMA MarkFacts ==
  ASSUME Types, token \in 1..Len(sessions)
  PROVE  /\ sessions' = [sessions EXCEPT ![token].at = "finished"] =>
              /\ sessions' \in Seq(Session) /\ Len(sessions') = Len(sessions)
              /\ sessions'[token].at = "finished"
              /\ \A i \in 1..Len(sessions) \ {token} : sessions'[i] = sessions[i]
         /\ sessions' = [sessions EXCEPT ![token].at = IF @ = "open" THEN "cancelled" ELSE @] =>
              /\ sessions' \in Seq(Session) /\ Len(sessions') = Len(sessions)
              /\ sessions'[token].at # "open"
              /\ \A i \in 1..Len(sessions) \ {token} : sessions'[i] = sessions[i]
<1> DEFINE old == sessions[token]
           done == [old EXCEPT !.at = "finished"]
           gone == [old EXCEPT !.at = IF @ = "open" THEN "cancelled" ELSE @]
<1>1. old \in Session
  BY ElementOfSeq DEF Types
<1>2. done \in Session /\ done.at = "finished"
  BY <1>1 DEF Session
<1>3. gone \in Session /\ gone.at # "open"
  BY <1>1 DEF Session
<1>4. sessions' = [sessions EXCEPT ![token].at = "finished"] => sessions' = [sessions EXCEPT ![token] = done]
  OBVIOUS
<1>5. sessions' = [sessions EXCEPT ![token].at = IF @ = "open" THEN "cancelled" ELSE @]
        => sessions' = [sessions EXCEPT ![token] = gone]
  OBVIOUS
<1> HIDE DEF done, gone
<1> QED
  BY <1>2, <1>3, <1>4, <1>5, SessionFacts

\* What the hash is taken of is content.
LEMMA SumType == Types => Sum \in Content
  BY DEF Sum, Content, Types, Progress

\* One step of Upload, or of the world around it, keeps the types.
LEMMA TypesStep == Types /\ Workers /\ [Next]_vars => Types'
<1> SUFFICES ASSUME Types, Workers, [Next]_vars PROVE Types'
  OBVIOUS
<1> USE Bounds DEF fixed, client
<1>1. CASE Edit
  BY <1>1 DEF Edit, Types
<1>2. CASE CancelContext
  BY <1>2 DEF CancelContext, Types
<1>3. CASE Begin
  BY <1>3, QueuedType DEF Begin, Types
<1>4. CASE Single
  <2>1. pc = "single" /\ UNCHANGED <<fixed, body, ctxDone, calls, sessions>>
    BY <1>4 DEF Single, World
  <2>2. stored' \in Seq(Content)
    <3>1. stored \in Seq(Content) /\ Whole(hash) \in Content
      BY WholeType DEF Types
    <3> QED
      BY <1>4, <3>1, PutFacts DEF Single
  <2>3. faults' \in Nat /\ lost' \in [Requests -> Nat]
    BY <1>4, <2>1, FaultFacts DEF Single, Cancelled
  <2>4. /\ UNCHANGED <<hash, token, chunk>> /\ attempt' \in Nat
        /\ \/ pc' = pc /\ result' = result
           \/ pc' = "idle" /\ result' \in {"ok", "error"}
    <3>1. token = 0
      BY <2>1 DEF Types
    <3> QED
      BY <1>4, <2>1, <3>1, FailsFacts, RetryFacts, ReturnFacts DEF Single, Cancelled
  <2> QED
    BY <2>1, <2>2, <2>3, <2>4 DEF Types
<1>5. CASE Start
  <2>1. pc = "start" /\ UNCHANGED <<fixed, body, ctxDone, calls, stored, hash, chunk>>
    BY <1>5, FailsFacts, RetryFacts DEF Start, Cancelled, World
  <2>2. sessions' = sessions \/ sessions' = Opened
    BY <1>5 DEF Start
  <2>3. sessions' \in Seq(Session)
    BY <2>2, OpenedType DEF Types
  <2>4. faults' \in Nat /\ lost' \in [Requests -> Nat]
    BY <1>5, <2>1, FaultFacts DEF Start, Cancelled
  <2>5. /\ attempt' \in Nat
        /\ \/ pc' = pc /\ result' = result /\ token' = token
           \/ pc' = "idle" /\ result' = "error" /\ token' = token
           \/ pc' = "chunks" /\ result' = result /\ token' = Len(sessions') /\ sessions' = Opened
    <3>1. token = 0
      BY <2>1 DEF Types
    <3> QED
      BY <1>5, <2>1, <3>1, FailsFacts, RetryFacts DEF Start, Cancelled
  <2> QED
    BY <2>1, <2>3, <2>4, <2>5, OpenedType DEF Types
<1>6. ASSUME NEW n \in N, Launch(n) PROVE Types'
  <2>1. UNCHANGED <<fixed, body, ctxDone, calls, pc, result, attempt, hash, token, stored, sessions>>
    BY <1>6 DEF Launch, ChunkStep, World
  <2>2. faults' \in Nat /\ lost' \in [Requests -> Nat]
    BY <1>6, FaultFacts DEF Launch
  <2>3. chunk' \in [N -> Progress]
    <3>1. [at |-> "sending", attempt |-> 0, data |-> body] \in Progress
      BY DEF Types, Progress
    <3> QED
      BY <1>6, <3>1, ChunkFacts DEF Launch, Types
  <2> QED
    BY <2>1, <2>2, <2>3 DEF Types
<1>7. ASSUME NEW n \in N, Send(n) PROVE Types'
  <2>1. UNCHANGED <<fixed, body, ctxDone, calls, pc, result, attempt, hash, token, stored>>
    BY <1>7 DEF Send, ChunkStep, World
  <2>2. faults' \in Nat /\ lost' \in [Requests -> Nat]
    BY <1>7, FaultFacts DEF Send
  <2>3. chunk' \in [N -> Progress]
    BY <1>7, ChunkFacts DEF Send, RetryChunk, ChunkFails
  <2>4. sessions' \in Seq(Session) /\ Len(sessions') = Len(sessions)
    <3>1. token \in 1..Len(sessions) /\ sessions \in Seq(Session)
      BY <1>7 DEF Send, Workers, Types
    <3> QED
      BY <1>7, <3>1, ReceivedFacts DEF Send
  <2> QED
    BY <2>1, <2>2, <2>3, <2>4 DEF Types
<1>8. CASE Wait
  BY <1>8 DEF Wait, GoTo, Answers, World, Types
<1>9. CASE Finish
  <2>1. /\ pc = "finish" /\ token \in 1..Len(sessions) /\ token # 0
        /\ UNCHANGED <<fixed, body, ctxDone, calls>>
    BY <1>9 DEF Finish, World, Types
  <2>2. stored' \in Seq(Content)
    <3>1. stored \in Seq(Content)
      BY DEF Types
    <3>2. ASSUME Complete, Put(sessions[token].got) PROVE stored' \in Seq(Content)
      BY <3>2, SumType, PutFacts DEF Complete
    <3> QED
      BY <1>9, <3>1, <3>2 DEF Finish
  <2>3. sessions' \in Seq(Session) /\ Len(sessions') = Len(sessions)
    BY <1>9, <2>1, MarkFacts DEF Finish, Types
  <2>4. faults' \in Nat /\ lost' \in [Requests -> Nat]
    BY <1>9, FaultFacts DEF Finish, Cancelled
  <2>5. /\ UNCHANGED <<hash, token, chunk>> /\ attempt' \in Nat
        /\ \/ pc' \in {"finish", "cancel"} /\ result' = result
           \/ pc' = "idle" /\ result' = "ok"
    BY <1>9, <2>1, FailsFacts, RetryFacts, ReturnFacts DEF Finish, Cancelled
  <2> QED
    BY <2>1, <2>2, <2>3, <2>4, <2>5 DEF Types
<1>10. CASE Cancel
  <2>1. /\ pc = "cancel" /\ token \in 1..Len(sessions)
        /\ UNCHANGED <<fixed, body, ctxDone, calls, stored>>
    BY <1>10 DEF Cancel, World, Types
  <2>2. sessions' \in Seq(Session) /\ Len(sessions') = Len(sessions)
    BY <1>10, <2>1, MarkFacts DEF Cancel, Types
  <2>3. faults' \in Nat /\ lost' \in [Requests -> Nat]
    BY <1>10, FaultFacts DEF Cancel
  <2>4. UNCHANGED <<hash, token, chunk, attempt>> /\ pc' = "idle" /\ result' = "error"
    BY <1>10 DEF Cancel, Return
  <2> QED
    BY <2>1, <2>2, <2>3, <2>4 DEF Types
<1>11. CASE UNCHANGED vars
  BY <1>11 DEF vars, Types
<1> QED
  BY <1>1, <1>2, <1>3, <1>4, <1>5, <1>6, <1>7, <1>8, <1>9, <1>10, <1>11 DEF Next, Step

-----------------------------------------------------------------------------
(* The workers of a session.                                                *)

\* The chunks on their way are finitely many.
LEMMA SendingFinite == IsFiniteSet(Sending) /\ Cardinality(Sending) \in Nat
<1>1. IsFiniteSet(N)
  BY Bounds, FS_Interval DEF N
<1>2. IsFiniteSet(Sending)
  BY <1>1, FS_Subset DEF Sending
<1> QED
  BY <1>2, FS_CardinalityType

\* A step that leaves the chunks alone keeps what is known of the workers.
LEMMA WorkersQuiet ==
  ASSUME Workers, UNCHANGED <<chunk, canParallel>>, pc' = pc \/ pc # "chunks"
  PROVE  Workers'
<1>1. Sending' = Sending
  BY DEF Sending, At
<1> QED
  BY <1>1 DEF Workers, OneByOne, At

\* Before the first call there are no workers.
LEMMA WorkersInit == Init => Workers
<1> SUFFICES ASSUME Init PROVE Workers
  OBVIOUS
<1>1. \A n \in N : chunk[n].at # "sending"
  BY DEF Init, Queued
<1>2. Sending = {}
  BY <1>1 DEF Sending, At
<1>3. Cardinality(Sending) <= Parallelism
  BY <1>2, Bounds, FS_EmptySet
<1> QED
  BY <1>1, <1>3 DEF Workers, OneByOne, At

\* Nor are there any when a step leaves no chunk on its way.
LEMMA WorkersNone ==
  ASSUME \A n \in N : chunk'[n].at # "sending"
  PROVE  Workers'
<1>1. Sending' = {}
  BY DEF Sending, At
<1>2. Cardinality(Sending') <= Parallelism
  BY <1>1, Bounds, FS_EmptySet
<1> QED
  BY <1>2 DEF Workers, OneByOne, At

\* The pool of workers is kept within its limit, and in order, by every step.
LEMMA WorkersStep == Types /\ Workers /\ [Next]_vars => Workers'
<1> SUFFICES ASSUME Types, Workers, [Next]_vars PROVE Workers'
  OBVIOUS
<1> USE DEF fixed, client
<1>1. CASE Edit
  BY <1>1, WorkersQuiet DEF Edit
<1>2. CASE CancelContext
  BY <1>2, WorkersQuiet DEF CancelContext
<1>3. CASE Begin
  <2>1. \A n \in N : chunk'[n].at # "sending"
    BY <1>3 DEF Begin, Queued
  <2> QED
    BY <2>1, WorkersNone
<1>4. CASE Single
  BY <1>4, WorkersQuiet, FailsFacts, RetryFacts, ReturnFacts DEF Single, Cancelled, World
<1>5. CASE Start
  BY <1>5, WorkersQuiet, FailsFacts, RetryFacts DEF Start, Cancelled, World
<1>6. ASSUME NEW n \in N, Launch(n) PROVE Workers'
  <2>1. /\ pc = "chunks" /\ At(n, "queued") /\ (MayLaunch \/ MayLaunchNext)
        /\ UNCHANGED <<pc, canParallel>>
        /\ chunk'[n].at \in {"sending", "failed"}
        /\ \A k \in N \ {n} : chunk'[k] = chunk[k]
    BY <1>6 DEF Launch, ChunkStep, World, Types, Progress, At
  <2>2. OneByOne'
    BY <2>1 DEF OneByOne, Workers, MayLaunch, MayLaunchNext, Sending, At
  <2>3. Sending' \subseteq Sending \cup {n}
    BY <2>1 DEF Sending, At
  <2>4. Cardinality(Sending) < Parallelism
    BY <2>1, Bounds, FS_EmptySet DEF MayLaunch, MayLaunchNext
  <2>5. Cardinality(Sending \cup {n}) <= Parallelism /\ IsFiniteSet(Sending \cup {n})
    BY <2>4, SendingFinite, FS_AddElement, Bounds
  <2>6. Cardinality(Sending') <= Parallelism
    BY <2>3, <2>5, FS_Subset, FS_CardinalityType, Bounds
  <2> QED
    BY <2>1, <2>2, <2>6 DEF Workers, At
<1>7. ASSUME NEW n \in N, Send(n) PROVE Workers'
  <2>1. /\ At(n, "sending") /\ UNCHANGED <<pc, canParallel>>
        /\ chunk'[n].at \in {"sending", "failed", "acked"}
        /\ \A k \in N \ {n} : chunk'[k] = chunk[k]
    BY <1>7 DEF Send, ChunkStep, World, RetryChunk, ChunkFails, Types, Progress, At
  <2>2. OneByOne'
    BY <2>1 DEF OneByOne, Workers, At
  <2>3. Sending' \subseteq Sending
    BY <2>1 DEF Sending, At
  <2>4. Cardinality(Sending') <= Parallelism
    BY <2>3, SendingFinite, FS_Subset, FS_CardinalityType, Bounds DEF Workers
  <2> QED
    BY <2>1, <2>2, <2>4 DEF Workers, At
<1>8. CASE Wait
  <2>1. \A n \in N : ~At(n, "sending")
    BY <1>8 DEF Wait, Workers, OneByOne, At, Types
  <2>2. \A n \in N : chunk'[n].at # "sending"
    BY <1>8, <2>1 DEF Wait, GoTo, At
  <2> QED
    BY <2>2, WorkersNone
<1>9. CASE Finish
  BY <1>9, WorkersQuiet, FailsFacts, RetryFacts, ReturnFacts DEF Finish, Cancelled, World
<1>10. CASE Cancel
  BY <1>10, WorkersQuiet DEF Cancel, Return, World
<1>11. CASE UNCHANGED vars
  BY <1>11, WorkersQuiet DEF vars
<1> QED
  BY <1>1, <1>2, <1>3, <1>4, <1>5, <1>6, <1>7, <1>8, <1>9, <1>10, <1>11 DEF Next, Step

\* Every variable of Upload keeps its type, and the pool of workers its limit.
THEOREM TypesAlways == Spec => [](Types /\ Workers)
<1>1. Init => Types /\ Workers
  BY TypesInit, WorkersInit
<1>2. Types /\ Workers /\ [Next]_vars => Types' /\ Workers'
  BY TypesStep, WorkersStep
<1> QED
  BY <1>1, <1>2, PTL DEF Spec

\* No goroutine outlives the call that started it, nor are there more at a time
\* than uploadParallelism.
THEOREM NoWorkerOutlivesItsCall == Spec => []NothingLeftRunning
<1>1. Workers => NothingLeftRunning
  BY DEF Workers, NothingLeftRunning, Sending
<1> QED
  BY <1>1, TypesAlways, PTL
-----------------------------------------------------------------------------
(* What "ok" is worth.                                                      *)

Stored == stored # <<>> /\ stored[Len(stored)] = IF large THEN Sum ELSE Whole(hash)

\* A finish that comes a second time is answered "ok" for a session that is
\* finished: the file it made is still the last one. Nobody else ends a session
\* while its chunks are sent.
Kept == /\ result = "ok" => Stored
        /\ pc = "finish" /\ sessions[token].at = "finished" => Stored
        /\ pc = "chunks" => sessions[token].at = "open"

\* A step that leaves the file, its announced content and the session alone.
LEMMA KeptQuiet ==
  ASSUME Types, Kept, UNCHANGED <<stored, large, chunk, hash, sessions, token>>,
         result' = "ok" => result = "ok" \/ Stored,
         pc' \in {"chunks", "finish"} => pc' = pc
  PROVE  Kept'
  BY DEF Kept, Stored, Sum

\* Neither a lost answer nor a repeated request makes "ok" untrue.
LEMMA KeptStep == Types /\ Workers /\ Kept /\ [Next]_vars => Kept'
<1> SUFFICES ASSUME Types, Workers, Kept, [Next]_vars PROVE Kept'
  OBVIOUS
<1> USE DEF fixed, client
<1>1. CASE Edit
  BY <1>1, KeptQuiet DEF Edit
<1>2. CASE CancelContext
  BY <1>2, KeptQuiet DEF CancelContext
<1>3. CASE Begin
  BY <1>3 DEF Begin, Kept
<1>4. CASE Single
  <2>1. /\ pc = "single" /\ token = 0 /\ ~large
        /\ UNCHANGED <<fixed, sessions>>
    BY <1>4 DEF Single, World, Types
  <2>2. UNCHANGED <<hash, token, chunk>> /\ pc' \in {"single", "idle"}
    BY <1>4, <2>1, FailsFacts, RetryFacts, ReturnFacts DEF Single, Cancelled
  <2>3. result' = "ok" => Put(Whole(hash))
    BY <1>4, <2>1, FailsFacts, RetryFacts DEF Single, Cancelled, Types
  <2>4. result' = "ok" => stored' # <<>> /\ stored'[Len(stored')] = Whole(hash)
    <3>1. Whole(hash) \in Content
      BY WholeType DEF Types
    <3> QED
      BY <2>3, <3>1, PutFacts
  <2> QED
    BY <2>1, <2>2, <2>4 DEF Kept, Stored
<1>5. CASE Start
  <2>1. /\ pc = "start" /\ token = 0 /\ result = "none" /\ UNCHANGED <<fixed, stored, hash, chunk>>
    BY <1>5, FailsFacts, RetryFacts DEF Start, Cancelled, World, Types
  <2>2. /\ result' # "ok" /\ pc' # "finish"
        /\ pc' = "chunks" => sessions' = Opened /\ token' = Len(sessions')
    BY <1>5, <2>1, FailsFacts, RetryFacts DEF Start, Cancelled
  <2> QED
    BY <2>1, <2>2, OpenedType DEF Kept
<1>6. ASSUME NEW n \in N, Launch(n) PROVE Kept'
  <2>1. pc = "chunks" /\ result = "none" /\ UNCHANGED <<pc, result, token, sessions>>
    BY <1>6 DEF Launch, ChunkStep, Types
  <2> QED
    BY <2>1 DEF Kept
<1>7. ASSUME NEW n \in N, Send(n) PROVE Kept'
  <2>1. pc = "chunks" /\ result = "none" /\ UNCHANGED <<pc, result, token>>
    BY <1>7 DEF Send, ChunkStep, Types, Workers
  <2>2. sessions'[token].at = sessions[token].at
    <3>1. token \in 1..Len(sessions)
      BY <2>1 DEF Types
    <3> QED
      BY <1>7, <3>1, ReceivedFacts DEF Send
  <2> QED
    BY <2>1, <2>2 DEF Kept
<1>8. CASE Wait
  BY <1>8 DEF Wait, GoTo, Kept, Types
<1>9. CASE Finish
  <2>1. /\ pc = "finish" /\ token \in 1..Len(sessions) /\ token # 0 /\ large
        /\ result = "none" /\ UNCHANGED fixed
    BY <1>9 DEF Finish, World, Types
  <2>2. UNCHANGED <<hash, token, chunk>> /\ pc' \in {"finish", "cancel", "idle"}
    BY <1>9, <2>1, FailsFacts, RetryFacts, ReturnFacts DEF Finish, Cancelled
  <2>3. \/ UNCHANGED <<sessions, stored>> /\ (result' = "ok" => sessions[token].at = "finished")
        \/ Complete /\ Put(sessions[token].got)
    BY <1>9, <2>1, FailsFacts, RetryFacts, ReturnFacts DEF Finish, Cancelled
  <2>4. CASE UNCHANGED <<sessions, stored>> /\ (result' = "ok" => sessions[token].at = "finished")
    BY <2>1, <2>2, <2>4, KeptQuiet DEF Kept
  <2>5. CASE Complete /\ Put(sessions[token].got)
    <3>1. sessions[token].got = Sum /\ Sum \in Content
      BY <2>5, SumType DEF Complete
    <3>2. stored' # <<>> /\ stored'[Len(stored')] = Sum
      BY <2>5, <3>1, PutFacts
    <3>3. Sum' = Sum
      BY <2>2 DEF Sum
    <3> QED
      BY <2>1, <2>2, <3>2, <3>3 DEF Kept, Stored
  <2> QED
    BY <2>3, <2>4, <2>5
<1>10. CASE Cancel
  <2>1. pc' = "idle" /\ result' = "error"
    BY <1>10 DEF Cancel, Return
  <2> QED
    BY <2>1 DEF Kept
<1>11. CASE UNCHANGED vars
  BY <1>11, KeptQuiet DEF vars
<1> QED
  BY <1>1, <1>2, <1>3, <1>4, <1>5, <1>6, <1>7, <1>8, <1>9, <1>10, <1>11 DEF Next, Step

\* Upload answers "ok" only when the file is stored, whole and in order, whatever
\* was lost or asked again on the way.
THEOREM OkIsTrue == Spec => []OkMeansStored
<1>1. Init => Kept
  BY DEF Init, Kept
<1>2. Kept => OkMeansStored
  BY DEF Kept, Stored, OkMeansStored
<1>3. Types /\ Workers /\ Kept /\ [Next]_vars => Kept'
  BY KeptStep
<1> QED
  BY <1>1, <1>2, <1>3, TypesAlways, PTL DEF Spec
-----------------------------------------------------------------------------
(* The sessions left open on the server.                                    *)

Open == {i \in DOMAIN sessions : sessions[i].at = "open"}

\* the session of the call under way
Mine == IF pc \in {"chunks", "finish", "cancel"} THEN {token} ELSE {}

\* the others that are open: nobody will ever close them
Orphans == Open \ Mine

\* Each orphan is one whose start was never answered, or whose cancelling request
\* was lost.
Accounted == ~ctxDone => Cardinality(Orphans) <= lost["start"] + lost["cancel"]

\* The orphans are finitely many.
LEMMA OrphansFinite == Types => IsFiniteSet(Orphans) /\ Cardinality(Orphans) \in Nat
<1> SUFFICES ASSUME Types PROVE IsFiniteSet(Orphans) /\ Cardinality(Orphans) \in Nat
  OBVIOUS
<1>1. DOMAIN sessions = 1..Len(sessions) /\ Len(sessions) \in Nat
  BY DEF Types
<1>2. IsFiniteSet(DOMAIN sessions)
  BY <1>1, FS_Interval
<1>3. IsFiniteSet(Orphans)
  BY <1>2, FS_Subset DEF Orphans, Open
<1> QED
  BY <1>3, FS_CardinalityType

\* A step that makes no orphan and forgets no lost answer.
LEMMA AccountedQuiet ==
  ASSUME Types, Accounted, Orphans' \subseteq Orphans, ctxDone => ctxDone',
         lost'["start"] >= lost["start"], lost'["cancel"] >= lost["cancel"],
         lost' \in [Requests -> Nat]
  PROVE  Accounted'
<1>1. Cardinality(Orphans') <= Cardinality(Orphans) /\ Cardinality(Orphans') \in Nat
  BY OrphansFinite, FS_Subset, FS_CardinalityType
<1>2. lost["start"] \in Nat /\ lost["cancel"] \in Nat /\ lost'["start"] \in Nat /\ lost'["cancel"] \in Nat
  BY DEF Types, Requests
<1> QED
  BY <1>1, <1>2, OrphansFinite DEF Accounted

\* A step that makes one orphan, and loses the answer that would have told of it.
LEMMA AccountedLoss ==
  ASSUME Types, Accounted, NEW i, Orphans' \subseteq Orphans \cup {i}, ctxDone' = ctxDone,
         NEW q \in {"start", "cancel"}, Loses(q)
  PROVE  Accounted'
<1>1. IsFiniteSet(Orphans \cup {i}) /\ Cardinality(Orphans \cup {i}) <= Cardinality(Orphans) + 1
  BY OrphansFinite, FS_AddElement
<1>2. Cardinality(Orphans') <= Cardinality(Orphans) + 1 /\ Cardinality(Orphans') \in Nat
  BY <1>1, OrphansFinite, FS_Subset, FS_CardinalityType
<1>3. /\ lost["start"] \in Nat /\ lost["cancel"] \in Nat
      /\ lost'["start"] + lost'["cancel"] = lost["start"] + lost["cancel"] + 1
  BY LosesFacts DEF Types, Requests
<1> QED
  BY <1>2, <1>3, OrphansFinite DEF Accounted

\* The counts of lost answers only grow.
LEMMA LostGrows ==
  ASSUME Types, \/ UNCHANGED lost
                \/ \E q \in Requests : Loses(q)
  PROVE  /\ lost' \in [Requests -> Nat]
         /\ \A q \in Requests : lost'[q] \in Nat /\ lost'[q] >= lost[q]
         /\ {"single", "start", "chunk", "finish", "cancel"} = Requests
<1>1. lost \in [Requests -> Nat]
  BY DEF Types
<1>2. CASE UNCHANGED lost
  BY <1>1, <1>2 DEF Requests
<1>3. ASSUME NEW q \in Requests, Loses(q)
      PROVE  lost' \in [Requests -> Nat] /\ \A p \in Requests : lost'[p] \in Nat /\ lost'[p] >= lost[p]
  BY <1>1, <1>3, LosesFacts
<1> QED
  BY <1>2, <1>3 DEF Requests

\* No step makes an orphan that is not accounted for.
LEMMA AccountedStep == Types /\ Workers /\ Kept /\ Accounted /\ [Next]_vars => Accounted'
<1> SUFFICES ASSUME Types, Workers, Kept, Accounted, [Next]_vars PROVE Accounted'
  OBVIOUS
<1> USE DEF fixed, client
<1>1. CASE Edit
  <2>1. UNCHANGED <<sessions, pc, token, ctxDone, lost>>
    BY <1>1 DEF Edit
  <2> QED
    BY <2>1, AccountedQuiet, LostGrows DEF Orphans, Open, Mine
<1>2. CASE CancelContext
  BY <1>2 DEF CancelContext, Accounted
<1>3. CASE Begin
  <2>1. UNCHANGED <<sessions, ctxDone, lost>> /\ Mine' = {} /\ Mine = {}
    BY <1>3 DEF Begin, Mine
  <2> QED
    BY <2>1, AccountedQuiet, LostGrows DEF Orphans, Open
<1>4. CASE Single
  <2>1. pc = "single" /\ token = 0 /\ UNCHANGED <<sessions, ctxDone>>
    BY <1>4 DEF Single, World, Types
  <2>2. pc' \in {"single", "idle"} /\ (UNCHANGED lost \/ \E q \in Requests : Loses(q))
    BY <1>4, <2>1, FailsFacts, RetryFacts, ReturnFacts DEF Single, Cancelled, Answers, Requests
  <2>3. Mine' = {} /\ Mine = {}
    BY <2>1, <2>2 DEF Mine
  <2> QED
    BY <2>1, <2>2, <2>3, AccountedQuiet, LostGrows DEF Orphans, Open
<1>5. CASE Start
  <2>1. pc = "start" /\ token = 0 /\ ctxDone' = ctxDone /\ Mine = {}
    BY <1>5 DEF Start, World, Types, Mine
  <2>2. \/ UNCHANGED <<sessions, lost>> /\ pc' \in {"start", "idle"}
        \/ sessions' = Opened /\ pc' = "chunks" /\ token' = Len(Opened) /\ UNCHANGED lost
        \/ sessions' = Opened /\ pc' \in {"start", "idle"} /\ (Loses("start") \/ ctxDone)
    BY <1>5, <2>1, FailsFacts, RetryFacts DEF Start, Cancelled, Answers
  <2>3. CASE UNCHANGED <<sessions, lost>> /\ pc' \in {"start", "idle"}
    BY <2>1, <2>3, AccountedQuiet, LostGrows DEF Orphans, Open, Mine
  <2>4. CASE sessions' = Opened
    <3>1. Open' \subseteq Open \cup {Len(Opened)}
      BY <2>4, OpenedType DEF Open, Types
    <3>2. CASE pc' = "chunks" /\ token' = Len(Opened) /\ UNCHANGED lost
      <4>1. Orphans' \subseteq Orphans
        BY <2>1, <3>1, <3>2 DEF Orphans, Mine
      <4> QED
        BY <2>1, <3>2, <4>1, AccountedQuiet, LostGrows
    <3>3. CASE Loses("start")
      <4>1. Orphans' \subseteq Orphans \cup {Len(Opened)}
        BY <2>1, <3>1 DEF Orphans, Mine
      <4> QED
        BY <2>1, <3>3, <4>1, AccountedLoss
    <3>4. CASE ctxDone
      BY <2>1, <3>4 DEF Accounted
    <3> QED
      BY <2>2, <2>3, <3>2, <3>3, <3>4
  <2> QED
    BY <2>2, <2>3, <2>4
<1>6. ASSUME NEW n \in N, Launch(n) PROVE Accounted'
  <2>1. UNCHANGED <<sessions, pc, token, ctxDone, lost>>
    BY <1>6 DEF Launch, ChunkStep, World, Answers
  <2> QED
    BY <2>1, AccountedQuiet, LostGrows DEF Orphans, Open, Mine
<1>7. ASSUME NEW n \in N, Send(n) PROVE Accounted'
  <2>1. UNCHANGED <<pc, token, ctxDone>> /\ pc = "chunks" /\ token \in 1..Len(sessions)
    BY <1>7 DEF Send, ChunkStep, World, Workers, Types
  <2>2. UNCHANGED lost \/ \E q \in Requests : Loses(q)
    BY <1>7 DEF Send, Answers, Requests
  <2>3. /\ sessions' \in Seq(Session) /\ Len(sessions') = Len(sessions)
        /\ \A i \in 1..Len(sessions) : sessions'[i].at = sessions[i].at
    <3>1. UNCHANGED sessions \/ Received(n)
      BY <1>7 DEF Send
    <3> QED
      BY <2>1, <3>1, ReceivedFacts DEF Types
  <2>4. Open' = Open
    BY <2>3 DEF Open, Types
  <2> QED
    BY <2>1, <2>2, <2>4, AccountedQuiet, LostGrows DEF Orphans, Mine
<1>8. CASE Wait
  <2>1. UNCHANGED <<sessions, token, ctxDone, lost>> /\ Mine' = Mine
    BY <1>8 DEF Wait, GoTo, World, Answers, Mine
  <2> QED
    BY <2>1, AccountedQuiet, LostGrows DEF Orphans, Open
<1>9. CASE Finish
  <2>1. /\ pc = "finish" /\ token \in 1..Len(sessions) /\ token # 0 /\ ctxDone' = ctxDone
    BY <1>9 DEF Finish, World, Types
  <2>2. UNCHANGED lost \/ \E q \in Requests : Loses(q)
    BY <1>9, <2>1 DEF Finish, Cancelled, Answers, Requests
  <2>3. \/ UNCHANGED sessions /\ token' = token /\ pc' \in {"finish", "cancel"}
        \/ /\ sessions[token].at = "finished" /\ UNCHANGED sessions
        \/ sessions' = [sessions EXCEPT ![token].at = "finished"]
    BY <1>9, <2>1, FailsFacts, RetryFacts, ReturnFacts DEF Finish, Cancelled
  <2>4. Orphans' \subseteq Orphans
    <3>1. CASE UNCHANGED sessions /\ token' = token /\ pc' \in {"finish", "cancel"}
      BY <2>1, <3>1 DEF Orphans, Open, Mine
    <3>2. CASE sessions[token].at = "finished" /\ UNCHANGED sessions
      BY <2>1, <3>2 DEF Orphans, Open, Mine
    <3>3. CASE sessions' = [sessions EXCEPT ![token].at = "finished"]
      BY <2>1, <3>3, MarkFacts DEF Orphans, Open, Mine, Types
    <3> QED
      BY <2>3, <3>1, <3>2, <3>3
  <2> QED
    BY <2>1, <2>2, <2>4, AccountedQuiet, LostGrows
<1>10. CASE Cancel
  <2>1. pc = "cancel" /\ token \in 1..Len(sessions) /\ ctxDone' = ctxDone /\ pc' = "idle"
    BY <1>10 DEF Cancel, World, Return, Types
  <2>2. CASE ctxDone
    BY <2>1, <2>2 DEF Accounted
  <2>3. CASE UNCHANGED lost /\ sessions' = [sessions EXCEPT ![token].at = IF @ = "open" THEN "cancelled" ELSE @]
    <3>1. Orphans' \subseteq Orphans
      BY <2>1, <2>3, MarkFacts DEF Orphans, Open, Mine, Types
    <3> QED
      BY <2>1, <2>3, <3>1, AccountedQuiet, LostGrows
  <2>4. CASE Loses("cancel") /\ UNCHANGED sessions
    <3>1. Orphans' \subseteq Orphans \cup {token}
      BY <2>1, <2>4 DEF Orphans, Open, Mine
    <3> QED
      BY <2>1, <2>4, <3>1, AccountedLoss
  <2> QED
    BY <1>10, <2>2, <2>3, <2>4 DEF Cancel, Answers
<1>11. CASE UNCHANGED vars
  BY <1>11, AccountedQuiet, LostGrows DEF vars, Orphans, Open, Mine
<1> QED
  BY <1>1, <1>2, <1>3, <1>4, <1>5, <1>6, <1>7, <1>8, <1>9, <1>10, <1>11 DEF Next, Step

\* However often requests fail, no session is left open on the server but those
\* whose start or cancellation was not answered.
THEOREM SessionsDoEnd == Spec => []SessionsEnd
<1>1. Init => Accounted
  <2> SUFFICES ASSUME Init PROVE Accounted
    OBVIOUS
  <2>1. Orphans = {}
    BY DEF Init, Orphans, Open
  <2>2. lost["start"] = 0 /\ lost["cancel"] = 0
    BY DEF Init
  <2> QED
    BY <2>1, <2>2, FS_EmptySet DEF Accounted
<1>2. Accounted => SessionsEnd
  <2> SUFFICES ASSUME Accounted, pc = "idle" PROVE SessionsEnd
    BY DEF SessionsEnd
  <2>1. Orphans = {i \in DOMAIN sessions : sessions[i].at = "open"}
    BY DEF Orphans, Open, Mine
  <2> QED
    BY <2>1 DEF Accounted, SessionsEnd
<1>3. Init => Kept
  BY DEF Init, Kept
<1>4. Types /\ Workers /\ Kept /\ Accounted /\ [Next]_vars => Accounted' /\ Kept'
  BY AccountedStep, KeptStep
<1> QED
  BY <1>1, <1>2, <1>3, <1>4, TypesAlways, PTL DEF Spec
-----------------------------------------------------------------------------
(* One file, however often it is asked for.                                 *)

One(b) == IF b THEN 1 ELSE 0

\* With conflict=rename every file stored but one is one whose answer was lost: in
\* the network, or for a caller that went away and will not call again.
Copies ==
  /\ replaces => Len(stored) = 1
  /\ conflict = "unset" /\ ~replaces =>
       /\ Len(stored) <= 1
       /\ pc \in {"chunks", "finish"} /\ sessions[token].at = "open" => stored = <<>>
  /\ conflict = "rename" =>
       Len(stored) <= lost["single"] + lost["finish"] + One(result = "ok")
                      + One(ctxDone /\ pc \in {"idle", "cancel"})

\* A step that stores nothing and enters no session of another file.
LEMMA CopiesQuiet ==
  ASSUME Types, Copies, UNCHANGED <<replaces, conflict, stored>>, ctxDone => ctxDone',
         result = "ok" => result' = "ok",
         ctxDone /\ pc \in {"idle", "cancel"} => pc' \in {"idle", "cancel"},
         \/ stored = <<>> \/ pc' \notin {"chunks", "finish"}
         \/ /\ pc \in {"chunks", "finish"} /\ token' = token
            /\ sessions'[token].at = "open" => sessions[token].at = "open",
         UNCHANGED lost \/ \E q \in Requests : Loses(q)
  PROVE  Copies'
<1>1. lost["single"] \in Nat /\ lost["finish"] \in Nat /\ Len(stored) \in Nat
  BY DEF Types, Requests
<1>2. /\ lost'["single"] \in Nat /\ lost'["finish"] \in Nat
      /\ lost'["single"] >= lost["single"] /\ lost'["finish"] >= lost["finish"]
  BY LostGrows
<1>3. conflict = "rename" =>
        Len(stored) <= lost'["single"] + lost'["finish"] + One(result' = "ok")
                       + One(ctxDone' /\ pc' \in {"idle", "cancel"})
  BY <1>1, <1>2 DEF Copies, One
<1> QED
  BY <1>3 DEF Copies

\* A step that stores the file: it was not there, or it replaces the one of its
\* id, or the answer to the request is seen or lost.
LEMMA CopiesPut ==
  ASSUME Types, Copies, NEW content \in Content, Put(content), result = "none", ~Taken,
         pc \in {"single", "finish"}, UNCHANGED <<replaces, conflict, ctxDone>>,
         conflict = "unset" /\ ~replaces => stored = <<>>,
         pc' \notin {"chunks", "finish"} \/ sessions'[token'].at # "open",
         \/ UNCHANGED lost /\ result' = "ok" /\ pc' = "idle"
         \/ (Loses("single") \/ Loses("finish"))
         \/ UNCHANGED lost /\ ctxDone /\ pc' \in {"idle", "cancel"}
  PROVE  Copies'
<1>1. lost["single"] \in Nat /\ lost["finish"] \in Nat /\ Len(stored) \in Nat
  BY DEF Types, Requests
<1>2. /\ replaces => Len(stored') = 1
      /\ ~replaces => Len(stored') = Len(stored) + 1
  BY PutFacts
<1>3. \/ lost'["single"] + lost'["finish"] = lost["single"] + lost["finish"] + 1
      \/ UNCHANGED lost /\ (result' = "ok" \/ (ctxDone /\ pc' \in {"idle", "cancel"}))
  BY <1>1, LosesFacts DEF Requests
<1>4. lost'["single"] + lost'["finish"] \in Nat
  BY <1>1, <1>3
<1>5. conflict = "rename" => ~replaces
  BY DEF Types
<1>6. conflict = "rename" => Len(stored) <= lost["single"] + lost["finish"]
  BY <1>1 DEF Copies, One
<1>7. conflict = "rename" =>
        Len(stored') <= lost'["single"] + lost'["finish"] + One(result' = "ok")
                        + One(ctxDone' /\ pc' \in {"idle", "cancel"})
  BY <1>1, <1>2, <1>3, <1>4, <1>5, <1>6 DEF One
<1>8. conflict = "unset" /\ ~replaces => Len(stored') <= 1
  <2>1. Len(<<>>) = 0
    OBVIOUS
  <2> SUFFICES ASSUME conflict = "unset", ~replaces PROVE Len(stored') <= 1
    OBVIOUS
  <2>2. Len(stored) = 0 /\ Len(stored') = Len(stored) + 1
    BY <1>2, <2>1
  <2> QED
    BY <2>2
<1>9. (replaces => Len(stored) = 1)'
  BY <1>2
<1>10. (conflict = "unset" /\ ~replaces =>
         /\ Len(stored) <= 1
         /\ pc \in {"chunks", "finish"} /\ sessions[token].at = "open" => stored = <<>>)'
  BY <1>8
<1> QED
  BY <1>7, <1>9, <1>10, Zenon DEF Copies

\* No step stores more files than the answers that were lost excuse.
LEMMA CopiesStep == Types /\ Workers /\ Kept /\ Copies /\ [Next]_vars => Copies'
<1> SUFFICES ASSUME Types, Workers, Kept, Copies, [Next]_vars PROVE Copies'
  OBVIOUS
<1> USE DEF fixed, client
<1>0. conflict \in {"unset", "rename"}
  BY DEF Types
<1>1. CASE Edit
  BY <1>1, CopiesQuiet DEF Edit
<1>2. CASE CancelContext
  BY <1>2, CopiesQuiet DEF CancelContext
<1>3. CASE Begin
  BY <1>3, CopiesQuiet DEF Begin
<1>4. CASE Single
  <2>1. /\ pc = "single" /\ token = 0 /\ result = "none"
        /\ UNCHANGED <<fixed, sessions, ctxDone>>
    BY <1>4 DEF Single, World, Types
  <2>2. pc' \in {"single", "idle"}
    BY <1>4, <2>1, FailsFacts, RetryFacts, ReturnFacts DEF Single, Cancelled
  <2>3. CASE UNCHANGED stored
    <3>1. UNCHANGED lost \/ \E q \in Requests : Loses(q)
      BY <1>4, <2>1 DEF Single, Cancelled, Answers, Requests
    <3> QED
      BY <2>1, <2>2, <2>3, <3>1, CopiesQuiet
  <2>4. CASE ~Taken /\ Put(Whole(hash))
    <3>1. Whole(hash) \in Content
      BY WholeType DEF Types
    <3>2. \/ UNCHANGED lost /\ result' = "ok" /\ pc' = "idle"
          \/ Loses("single")
          \/ UNCHANGED lost /\ ctxDone /\ pc' = "idle"
          \/ UNCHANGED stored
      BY <1>4, <2>1, FailsFacts, ReturnFacts DEF Single, Cancelled, Answers
    <3>3. conflict = "unset" /\ ~replaces => stored = <<>>
      BY <2>4 DEF Taken, ConflictMode
    <3> QED
      BY <2>1, <2>2, <2>3, <2>4, <3>1, <3>2, <3>3, CopiesPut
  <2> QED
    BY <1>4, <2>3, <2>4 DEF Single
<1>5. CASE Start
  <2>1. /\ pc = "start" /\ token = 0 /\ result = "none"
        /\ UNCHANGED <<fixed, stored, ctxDone>>
    BY <1>5 DEF Start, World, Types
  <2>2. /\ pc' \in {"start", "idle"} \/ (pc' = "chunks" /\ ~Taken)
    BY <1>5, <2>1, FailsFacts, RetryFacts DEF Start, Cancelled
  <2>3. UNCHANGED lost \/ \E q \in Requests : Loses(q)
    BY <1>5, <2>1 DEF Start, Cancelled, Answers, Requests
  <2>4. ~Taken /\ conflict = "unset" /\ ~replaces => stored = <<>>
    BY DEF Taken, ConflictMode
  <2>5. CASE pc' # "chunks" \/ stored = <<>>
    BY <2>1, <2>2, <2>3, <2>5, CopiesQuiet
  <2>6. CASE replaces \/ conflict = "rename"
    <3>1. lost["single"] \in Nat /\ lost["finish"] \in Nat /\ Len(stored) \in Nat
      BY DEF Types, Requests
    <3>2. /\ lost'["single"] \in Nat /\ lost'["finish"] \in Nat
          /\ lost'["single"] >= lost["single"] /\ lost'["finish"] >= lost["finish"]
      BY <2>3, LostGrows
    <3> QED
      BY <2>1, <2>6, <3>1, <3>2 DEF Copies, One, Types
  <2> QED
    BY <1>0, <2>2, <2>4, <2>5, <2>6
<1>6. ASSUME NEW n \in N, Launch(n) PROVE Copies'
  <2>1. UNCHANGED <<fixed, sessions, stored, pc, result, token, ctxDone, lost>>
    BY <1>6 DEF Launch, ChunkStep, World, Answers
  <2> QED
    BY <2>1 DEF Copies
<1>7. ASSUME NEW n \in N, Send(n) PROVE Copies'
  <2>1. /\ UNCHANGED <<fixed, stored, pc, result, token, ctxDone>> /\ pc = "chunks"
        /\ token \in 1..Len(sessions)
    BY <1>7 DEF Send, ChunkStep, World, Workers, Types
  <2>2. UNCHANGED lost \/ \E q \in Requests : Loses(q)
    BY <1>7 DEF Send, Answers, Requests
  <2>3. sessions'[token].at = sessions[token].at
    BY <1>7, <2>1, ReceivedFacts DEF Send
  <2> QED
    BY <2>1, <2>2, <2>3, CopiesQuiet
<1>8. CASE Wait
  <2>1. /\ UNCHANGED <<fixed, stored, sessions, token, result, ctxDone, lost>> /\ pc = "chunks"
    BY <1>8 DEF Wait, GoTo, World, Answers
  <2> QED
    BY <2>1, CopiesQuiet
<1>9. CASE Finish
  <2>1. /\ pc = "finish" /\ token \in 1..Len(sessions) /\ token # 0 /\ result = "none"
        /\ UNCHANGED <<fixed, ctxDone>>
    BY <1>9 DEF Finish, World, Types
  <2>2. token' = token /\ pc' \in {"finish", "cancel", "idle"}
    BY <1>9, <2>1, FailsFacts, RetryFacts, ReturnFacts DEF Finish, Cancelled
  <2>3. CASE UNCHANGED <<sessions, stored>>
    <3>1. UNCHANGED lost \/ \E q \in Requests : Loses(q)
      BY <1>9, <2>1 DEF Finish, Cancelled, Answers, Requests
    <3> QED
      BY <2>1, <2>2, <2>3, <3>1, CopiesQuiet
  <2>4. CASE /\ Complete /\ Put(sessions[token].got)
             /\ sessions' = [sessions EXCEPT ![token].at = "finished"]
             /\ \/ Return("ok") /\ Answers
                \/ Loses("finish") /\ (Retry \/ Fails)
                \/ Cancelled
    <3>1. sessions[token].at = "open" /\ sessions[token].got \in Content
      BY <2>4, SumType DEF Complete
    <3>2. conflict = "unset" /\ ~replaces => stored = <<>>
      BY <2>1, <3>1 DEF Copies
    <3>3. ~Taken
      BY <3>2 DEF Taken, ConflictMode, Types
    <3>4. sessions'[token'].at # "open"
      BY <2>1, <2>2, <2>4, MarkFacts
    <3>5. \/ UNCHANGED lost /\ result' = "ok" /\ pc' = "idle"
          \/ Loses("finish")
          \/ UNCHANGED lost /\ ctxDone /\ pc' \in {"idle", "cancel"}
      BY <2>1, <2>4, FailsFacts, ReturnFacts DEF Cancelled, Answers
    <3> QED
      BY <2>1, <2>2, <2>4, <3>1, <3>2, <3>3, <3>4, <3>5, CopiesPut
  <2> QED
    BY <1>9, <2>3, <2>4 DEF Finish
<1>10. CASE Cancel
  <2>1. /\ UNCHANGED <<fixed, stored, ctxDone>> /\ pc = "cancel" /\ pc' = "idle"
        /\ result = "none"
    BY <1>10 DEF Cancel, Return, World, Types
  <2>2. UNCHANGED lost \/ \E q \in Requests : Loses(q)
    BY <1>10 DEF Cancel, Answers, Requests
  <2> QED
    BY <2>1, <2>2, CopiesQuiet
<1>11. CASE UNCHANGED vars
  BY <1>11, CopiesQuiet DEF vars
<1> QED
  BY <1>1, <1>2, <1>3, <1>4, <1>5, <1>6, <1>7, <1>8, <1>9, <1>10, <1>11 DEF Next, Step

\* Repeated requests and repeated calls make no second file, but for the answers
\* that were lost where the server was told to rename.
THEOREM OneFileOnly == Spec => []OneFile
<1>1. Init => Copies
  <2> SUFFICES ASSUME Init PROVE Copies
    OBVIOUS
  <2>1. /\ replaces => Len(stored) = 1
        /\ ~replaces => Len(stored) = 0
        /\ replaces => conflict = "unset"
    <3>1. Len(<<Whole(0)>>) = 1 /\ Len(<<>>) = 0
      OBVIOUS
    <3>2. CASE replaces
      <4>1. stored = <<Whole(0)>> /\ conflict = "unset"
        BY <3>2 DEF Init
      <4> QED
        BY <3>1, <3>2, <4>1
    <3>3. CASE ~replaces
      BY <3>1, <3>3 DEF Init
    <3> QED
      BY <3>2, <3>3
  <2>2. lost["single"] = 0 /\ lost["finish"] = 0 /\ pc = "idle"
    BY DEF Init
  <2> QED
    BY <2>1, <2>2 DEF Copies, One
<1>2. Types /\ Copies => OneFile
  <2> SUFFICES ASSUME Types, Copies PROVE OneFile
    OBVIOUS
  <2>1. lost["single"] \in Nat /\ lost["finish"] \in Nat /\ Len(stored) \in Nat
    BY DEF Types, Requests
  <2>2. CASE conflict = "unset"
    <3>1. PICK k \in Nat : k = Len(stored)
      BY <2>1
    <3>2. replaces => k = 1
      BY <3>1, Zenon DEF Copies
    <3>3. ~replaces => k <= 1
      BY <2>2, <3>1, Zenon DEF Copies
    <3>4. k <= 1
      BY <3>2, <3>3
    <3>5. Len(stored) <= 1
      BY <3>1, <3>4
    <3> QED
      BY <2>2, <3>5 DEF OneFile
  <2>3. CASE conflict = "rename"
    <3>1. /\ Len(stored) <= lost["single"] + lost["finish"] + One(result = "ok")
                            + One(ctxDone /\ pc \in {"idle", "cancel"})
          /\ One(result = "ok") \in 0..1
          /\ One(ctxDone /\ pc \in {"idle", "cancel"}) \in 0..1
          /\ ~ctxDone => One(ctxDone /\ pc \in {"idle", "cancel"}) = 0
      BY <2>3 DEF Copies, One
    <3>2. Len(stored) <= 1 + lost["single"] + lost["finish"] + IF ctxDone THEN 1 ELSE 0
      BY <2>1, <3>1
    <3> QED
      BY <2>3, <3>2 DEF OneFile
  <2> QED
    BY <2>2, <2>3 DEF Types
<1>3. Init => Kept
  BY DEF Init, Kept
<1>4. Types /\ Workers /\ Kept /\ Copies /\ [Next]_vars => Copies' /\ Kept'
  BY CopiesStep, KeptStep
<1> QED
  BY <1>1, <1>2, <1>3, <1>4, TypesAlways, PTL DEF Spec
-----------------------------------------------------------------------------
(* An upload that meets no trouble.                                         *)

\* What a worker was told has arrived is in the session, in its place.
Arrived ==
  pc \in {"chunks", "finish"} =>
    \A n \in N : At(n, "acked") => /\ n \in DOMAIN sessions[token].got
                                   /\ sessions[token].got[n] = chunk[n].data

\* The session is finished when every worker was told so, and starts with none.
AllIn == /\ pc = "finish" => \A n \in N : At(n, "acked")
         /\ pc = "start" => \A n \in N : At(n, "queued")

Calm == faults = 0 /\ ~ctxDone /\ body = 1

\* While all is calm no request fails, and the session stays open to its end.
Smooth ==
  Calm => /\ result # "error" /\ pc # "cancel"
          /\ \A n \in N : ~At(n, "failed")
          /\ pc = "single" => hash = 1
          /\ result = "none" /\ ~replaces => stored = <<>>
          /\ pc \in {"chunks", "finish"} => sessions[token].at = "open"

\* A step that moves no chunk keeps what has arrived; only Wait goes to "finish".
LEMMA ArrivedQuiet ==
  ASSUME Arrived, AllIn, UNCHANGED chunk, pc' = "start" => pc = "start",
         \/ pc' \notin {"chunks", "finish"}
         \/ pc' = pc /\ token' = token /\ sessions'[token].got = sessions[token].got
  PROVE  Arrived' /\ AllIn'
  BY DEF Arrived, AllIn, At

\* Chunks arrive in any order, some of them twice, and each ends in its place.
LEMMA ArrivedStep == Types /\ Workers /\ Arrived /\ AllIn /\ [Next]_vars => Arrived' /\ AllIn'
<1> SUFFICES ASSUME Types, Workers, Arrived, AllIn, [Next]_vars PROVE Arrived' /\ AllIn'
  OBVIOUS
<1> USE DEF fixed, client
<1>1. CASE Edit
  BY <1>1, ArrivedQuiet DEF Edit
<1>2. CASE CancelContext
  BY <1>2, ArrivedQuiet DEF CancelContext
<1>3. CASE Begin
  BY <1>3 DEF Begin, Queued, Arrived, AllIn, At
<1>4. CASE Single
  <2>1. pc = "single" /\ token = 0
    BY <1>4 DEF Single, Types
  <2>2. pc' \in {"single", "idle"} /\ UNCHANGED chunk
    BY <1>4, <2>1, FailsFacts, RetryFacts, ReturnFacts DEF Single, Cancelled
  <2> QED
    BY <2>2, ArrivedQuiet
<1>5. CASE Start
  <2>1. pc = "start" /\ token = 0 /\ result = "none"
    BY <1>5 DEF Start, Types
  <2>2. UNCHANGED chunk /\ pc' \in {"start", "idle", "chunks"}
    BY <1>5, <2>1, FailsFacts, RetryFacts DEF Start, Cancelled
  <2> QED
    BY <2>1, <2>2 DEF Arrived, AllIn, At
<1>6. ASSUME NEW n \in N, Launch(n) PROVE Arrived' /\ AllIn'
  <2>1. /\ pc = "chunks" /\ UNCHANGED <<pc, sessions, token>>
        /\ chunk'[n].at \in {"sending", "failed"}
        /\ \A k \in N \ {n} : chunk'[k] = chunk[k]
    BY <1>6 DEF Launch, ChunkStep, Types, Progress
  <2> QED
    BY <2>1 DEF Arrived, AllIn, At
<1>7. ASSUME NEW n \in N, Send(n) PROVE Arrived' /\ AllIn'
  <2>1. /\ pc = "chunks" /\ UNCHANGED <<pc, token>> /\ At(n, "sending")
        /\ token \in 1..Len(sessions)
    BY <1>7 DEF Send, ChunkStep, World, Workers, Types
  <2>2. /\ \A k \in N \ {n} : chunk'[k] = chunk[k]
        /\ chunk'[n].data = chunk[n].data
    BY <1>7 DEF Send, RetryChunk, ChunkFails, Types, Progress
  <2>3. CASE UNCHANGED sessions
    <3>1. chunk'[n].at # "acked" \/ Received(n)
      BY <1>7, <2>1 DEF Send, RetryChunk, ChunkFails, Types, Progress, At
    <3>2. CASE chunk'[n].at # "acked"
      BY <2>1, <2>2, <2>3, <3>2 DEF Arrived, AllIn, At
    <3>3. CASE Received(n)
      BY <2>1, <2>2, <2>3, <3>3, ReceivedFacts DEF Arrived, AllIn, At
    <3> QED
      BY <3>1, <3>2, <3>3
  <2>4. CASE Received(n)
    <3>1. /\ DOMAIN sessions'[token].got = DOMAIN sessions[token].got \cup {n}
          /\ \A k \in DOMAIN sessions[token].got \cup {n} :
               sessions'[token].got[k] = IF k = n THEN chunk[n].data ELSE sessions[token].got[k]
      BY <2>1, <2>4, ReceivedFacts
    <3> QED
      BY <2>1, <2>2, <3>1 DEF Arrived, AllIn, At
  <2> QED
    BY <1>7, <2>3, <2>4 DEF Send
<1>8. CASE Wait
  <2>1. /\ UNCHANGED <<token, sessions, chunk>> /\ pc = "chunks"
        /\ pc' = IF \A n \in N : At(n, "acked") THEN "finish" ELSE "cancel"
    BY <1>8 DEF Wait, GoTo
  <2> QED
    BY <2>1 DEF Arrived, AllIn, At
<1>9. CASE Finish
  <2>1. pc = "finish" /\ token \in 1..Len(sessions) /\ token # 0
    BY <1>9 DEF Finish, Types
  <2>2. UNCHANGED <<token, chunk>> /\ pc' \in {"finish", "cancel", "idle"}
    BY <1>9, <2>1, FailsFacts, RetryFacts, ReturnFacts DEF Finish, Cancelled
  <2>3. UNCHANGED sessions \/ sessions' = [sessions EXCEPT ![token].at = "finished"]
    BY <1>9 DEF Finish
  <2>4. sessions'[token].got = sessions[token].got
    <3> DEFINE done == [sessions[token] EXCEPT !.at = "finished"]
    <3>1. sessions[token] \in Session
      BY <2>1, ElementOfSeq DEF Types
    <3>2. done \in Session /\ done.got = sessions[token].got
      BY <3>1 DEF Session
    <3>3. UNCHANGED sessions \/ sessions' = [sessions EXCEPT ![token] = done]
      BY <2>3
    <3> HIDE DEF done
    <3> QED
      BY <2>1, <3>2, <3>3, SessionFacts
  <2> QED
    BY <2>1, <2>2, <2>4, ArrivedQuiet
<1>10. CASE Cancel
  BY <1>10, ArrivedQuiet DEF Cancel, Return
<1>11. CASE UNCHANGED vars
  BY <1>11, ArrivedQuiet DEF vars
<1> QED
  BY <1>1, <1>2, <1>3, <1>4, <1>5, <1>6, <1>7, <1>8, <1>9, <1>10, <1>11 DEF Next, Step

\* A finish is complete when every chunk has arrived and the session is open.
LEMMA FinishComplete ==
  ASSUME Types, Arrived, AllIn, pc = "finish", sessions[token].at = "open"
  PROVE  Complete
<1>1. token \in 1..Len(sessions)
  BY DEF Types
<1>2. sessions[token] \in Session
  BY <1>1, ElementOfSeq DEF Types
<1>3. PICK S \in SUBSET N : sessions[token].got \in [S -> Nat]
  BY <1>2 DEF Session
<1>4. \A n \in N : n \in S /\ sessions[token].got[n] = chunk[n].data
  BY <1>3 DEF Arrived, AllIn
<1>5. S = N
  BY <1>4
<1>6. sessions[token].got = Sum
  BY <1>3, <1>4, <1>5 DEF Sum
<1> QED
  BY <1>6 DEF Complete

\* In calm, nothing fails: a fault, a lost answer or a cancellation ends the calm.
LEMMA CalmStep ==
  ASSUME Types, Calm', ctxDone' = ctxDone, faults' = faults \/ Fault, body' = body
  PROVE  Calm /\ ~Fault /\ ~Cancelled /\ \A q : ~Loses(q)
<1>1. faults' = 0 /\ ~ctxDone' /\ body' = 1
  BY DEF Calm
<1>2. ~Fault
  BY <1>1 DEF Fault, Types
<1> QED
  BY <1>1, <1>2 DEF Calm, Loses, Cancelled

\* No step of a calm upload fails.
LEMMA SmoothStep ==
  Types /\ Workers /\ Arrived /\ AllIn /\ Smooth /\ [Next]_vars => Smooth'
<1> SUFFICES ASSUME Types, Workers, Arrived, AllIn, Smooth, [Next]_vars, Calm' PROVE Smooth'
  BY DEF Smooth
<1> USE DEF fixed, client
<1>1. CASE Edit
  BY <1>1 DEF Edit, Calm, Types
<1>2. CASE CancelContext
  BY <1>2 DEF CancelContext, Calm
<1>3. CASE Begin
  <2>1. Calm /\ body = 1
    BY <1>3 DEF Begin, Calm
  <2>2. result = "none" /\ result' = "none" /\ hash' = 1
    BY <1>3, <2>1 DEF Begin, Smooth, Types
  <2> QED
    BY <1>3, <2>1, <2>2 DEF Begin, Smooth, Queued, At
<1>4. CASE Single
  <2>1. /\ pc = "single" /\ result = "none" /\ UNCHANGED <<fixed, ctxDone, body>>
        /\ faults' = faults \/ Fault
    BY <1>4 DEF Single, World, Types, Answers, Cancelled, Loses
  <2>2. Calm /\ ~Fault /\ ~Cancelled /\ \A q : ~Loses(q)
    BY <2>1, CalmStep
  <2>3. hash = 1 /\ body = 1 /\ ~Taken
    BY <2>1, <2>2 DEF Smooth, Calm, Taken
  <2>4. Return("ok")
    BY <1>4, <2>2, <2>3 DEF Single
  <2>5. pc' = "idle" /\ result' = "ok" /\ UNCHANGED chunk
    BY <2>4 DEF Return
  <2> QED
    BY <2>2, <2>5 DEF Smooth, At
<1>5. CASE Start
  <2>1. /\ pc = "start" /\ result = "none" /\ UNCHANGED <<fixed, ctxDone, body, stored>>
        /\ faults' = faults \/ Fault
    BY <1>5 DEF Start, World, Types, Answers, Cancelled, Loses
  <2>2. Calm /\ ~Fault /\ ~Cancelled /\ \A q : ~Loses(q)
    BY <2>1, CalmStep
  <2>3. ~Taken
    BY <2>1, <2>2 DEF Smooth, Taken
  <2>4. /\ sessions' = Opened /\ pc' = "chunks" /\ token' = Len(sessions')
        /\ UNCHANGED <<result, chunk>>
    BY <1>5, <2>2, <2>3 DEF Start
  <2> QED
    BY <2>1, <2>2, <2>4, OpenedType DEF Smooth, At
<1>6. ASSUME NEW n \in N, Launch(n) PROVE Smooth'
  <2>1. /\ UNCHANGED <<fixed, ctxDone, body, stored, pc, result, token, sessions, hash>>
        /\ faults' = faults \/ Fault
    BY <1>6 DEF Launch, ChunkStep, World, Answers
  <2>2. Calm /\ ~Fault
    BY <2>1, CalmStep
  <2>3. /\ chunk'[n].at = "sending"
        /\ \A k \in N \ {n} : chunk'[k] = chunk[k]
    BY <1>6, <2>2 DEF Launch, Types
  <2> QED
    BY <2>1, <2>2, <2>3 DEF Smooth, At
<1>7. ASSUME NEW n \in N, Send(n) PROVE Smooth'
  <2>1. /\ UNCHANGED <<fixed, ctxDone, body, stored, pc, result, token, hash>>
        /\ pc = "chunks" /\ token \in 1..Len(sessions)
        /\ faults' = faults \/ Fault
    BY <1>7 DEF Send, ChunkStep, World, Answers, Workers, Types, Loses
  <2>2. Calm /\ ~Fault /\ \A q : ~Loses(q)
    BY <2>1, CalmStep
  <2>3. ~GroupDone
    BY <2>2 DEF GroupDone, Smooth, Calm
  <2>4. Received(n) /\ chunk' = [chunk EXCEPT ![n].at = "acked"]
    BY <1>7, <2>2, <2>3 DEF Send
  <2>5. /\ chunk'[n].at = "acked"
        /\ \A k \in N \ {n} : chunk'[k] = chunk[k]
    BY <2>4 DEF Types, Progress
  <2>6. sessions'[token].at = sessions[token].at
    BY <2>1, <2>4, ReceivedFacts
  <2> QED
    BY <2>1, <2>2, <2>5, <2>6 DEF Smooth, At
<1>8. CASE Wait
  <2>1. /\ UNCHANGED <<fixed, ctxDone, body, stored, result, token, sessions, chunk, faults>>
        /\ pc = "chunks"
        /\ pc' = IF \A n \in N : At(n, "acked") THEN "finish" ELSE "cancel"
    BY <1>8 DEF Wait, GoTo, World, Answers
  <2>2. Calm
    BY <2>1, CalmStep
  <2>3. \A n \in N : At(n, "acked")
    BY <1>8, <2>2 DEF Wait, Smooth
  <2> QED
    BY <2>1, <2>2, <2>3 DEF Smooth, At
<1>9. CASE Finish
  <2>1. /\ pc = "finish" /\ UNCHANGED <<fixed, ctxDone, body>>
        /\ faults' = faults \/ Fault
    BY <1>9 DEF Finish, World, Answers, Cancelled, Loses
  <2>2. Calm /\ ~Fault /\ ~Cancelled /\ \A q : ~Loses(q)
    BY <2>1, CalmStep
  <2>3. sessions[token].at = "open"
    BY <2>1, <2>2 DEF Smooth
  <2>4. Complete
    BY <2>1, <2>3, FinishComplete
  <2>5. Return("ok")
    BY <1>9, <2>2, <2>4 DEF Finish
  <2>6. pc' = "idle" /\ result' = "ok" /\ UNCHANGED chunk
    BY <2>5 DEF Return
  <2> QED
    BY <2>2, <2>6 DEF Smooth, At
<1>10. CASE Cancel
  <2>1. /\ pc = "cancel" /\ UNCHANGED <<ctxDone, body>>
        /\ faults' = faults \/ Fault
    BY <1>10 DEF Cancel, World, Answers, Loses
  <2>2. Calm
    BY <2>1, CalmStep
  <2> QED
    BY <2>1, <2>2 DEF Smooth
<1>11. CASE UNCHANGED vars
  BY <1>11 DEF vars, Smooth, Calm, At
<1> QED
  BY <1>1, <1>2, <1>3, <1>4, <1>5, <1>6, <1>7, <1>8, <1>9, <1>10, <1>11 DEF Next, Step

\* An upload that meets no fault, no cancellation and no edit of its body does not
\* fail, in however many chunks and in whatever order they arrive.
THEOREM CalmUploadsSucceed == Spec => []CalmUploadSucceeds
<1>1. Init => Arrived /\ AllIn /\ Smooth
  <2> SUFFICES ASSUME Init PROVE Arrived /\ AllIn /\ Smooth
    OBVIOUS
  <2>1. pc = "idle" /\ result = "none"
    BY DEF Init
  <2>2. \A n \in N : ~At(n, "failed")
    BY DEF Init, Queued, At
  <2>3. ~replaces => stored = <<>>
    BY Zenon DEF Init
  <2> QED
    BY <2>1, <2>2, <2>3 DEF Arrived, AllIn, Smooth
<1>2. Types /\ Smooth => CalmUploadSucceeds
  <2> SUFFICES ASSUME Types, Smooth, result = "error" PROVE faults > 0 \/ ctxDone \/ body > 1
    BY DEF CalmUploadSucceeds
  <2>1. ~(faults = 0 /\ ~ctxDone /\ body = 1)
    BY DEF Smooth, Calm
  <2>2. faults \in Nat /\ body \in Nat /\ 1 <= body
    BY DEF Types
  <2> QED
    BY <2>1, <2>2
<1>3. Types /\ Workers /\ Arrived /\ AllIn /\ Smooth /\ [Next]_vars => Arrived' /\ AllIn' /\ Smooth'
  BY ArrivedStep, SmoothStep
<1> QED
  BY <1>1, <1>2, <1>3, TypesAlways, PTL DEF Spec
=============================================================================
