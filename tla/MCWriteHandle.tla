---------------------------- MODULE MCWriteHandle ----------------------------
(* The worlds WriteHandle is checked in.                                     *)
EXTENDS WriteHandle

\* files edited in the plain way, by one application after another
Edits == [usage |-> {}, starts |-> {0, 2}, maxSize |-> 2, maxWrites |-> 3,
          maxCuts |-> 2, maxFaults |-> 1]

\* a file in the hands of several applications at once
Shared == [usage |-> {"share", "race", "flushBetween"}, starts |-> {1}, maxSize |-> 1,
           maxWrites |-> 1, maxCuts |-> 1, maxFaults |-> 1]

\* the plain way, but for duplicates that are closed between writes
Duplicates == [Edits EXCEPT !.usage = {"flushBetween"}]

AllSettings == [edits |-> Edits, shared |-> Shared, dups |-> Duplicates]

\* one handle, of which a duplicate is closed between two writes
Duplicate == [dup |-> [usage |-> {"flushBetween"}, starts |-> {2}, maxSize |-> 2,
                       maxWrites |-> 2, maxCuts |-> 1, maxFaults |-> 0]]
=============================================================================
