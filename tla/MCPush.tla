------------------------------- MODULE MCPush -------------------------------
(* The worlds Push is checked in.                                           *)
EXTENDS Push, TLC

\* two names in one folder, and a third path in another folder
TwoPaths   == {<<"d", "a">>, <<"d", "b">>}
ThreePaths == TwoPaths \cup {<<"e", "a">>}

OneFile  == <<"d", "a">> :> [size |-> 1, mtime |-> 1]
TwoFiles == OneFile @@ (<<"d", "b">> :> [size |-> 1, mtime |-> 2])
Apart    == (<<"e", "a">> :> [size |-> 1, mtime |-> 1]) @@
            (<<"d", "b">> :> [size |-> 1, mtime |-> 2])

\* no flag at all, and one flag at a time
Plain    == [force |-> FALSE, noDelete |-> FALSE, assumeNew |-> FALSE,
             refresh |-> FALSE, detectMoves |-> FALSE, dryRun |-> FALSE]
New      == [Plain EXCEPT !.assumeNew = TRUE]
Moves    == [New EXCEPT !.detectMoves = TRUE]
Forced   == [New EXCEPT !.force = TRUE]
Keep     == [New EXCEPT !.noDelete = TRUE]
Dry      == [New EXCEPT !.dryRun = TRUE]
Reindex  == [Plain EXCEPT !.refresh = TRUE]

\* edits during the runs, failures and kills
Faults == [rels |-> TwoPaths, tree |-> TwoFiles, synced |-> TRUE,
           options |-> {New}, percent |-> 100, reportsParent |-> TRUE,
           mayRename |-> FALSE, localInRun |-> TRUE, foreignInRun |-> FALSE,
           maxEdits |-> 3, maxForeign |-> 1, maxRuns |-> 3, maxFaults |-> 2,
           maxCrashes |-> 1]

\* renames, between folders too, with and without --detect-moves: what goes from e/a to
\* d/b goes through d/a
Renames == [Faults EXCEPT !.rels = ThreePaths, !.tree = Apart, !.options = {New, Moves},
                          !.reportsParent = FALSE, !.mayRename = TRUE,
                          !.localInRun = FALSE, !.maxForeign = 0, !.maxFaults = 1,
                          !.maxCrashes = 0]

\* first runs and runs with a flag
Flags == [Faults EXCEPT !.synced = FALSE, !.options = {Plain, Forced, Keep, Dry, Reindex},
                        !.percent = 50, !.localInRun = FALSE, !.maxEdits = 2,
                        !.maxRuns = 2, !.maxFaults = 1]

AllSettings == [faults |-> Faults, renames |-> Renames, flags |-> Flags]

\* one rename and one new file, one run of --detect-moves
OneCrossing ==
  [crossing |-> [Renames EXCEPT !.tree = <<"e", "a">> :> [size |-> 1, mtime |-> 1],
                                !.options = {Moves}, !.reportsParent = TRUE, !.maxEdits = 2,
                                !.maxRuns = 1, !.maxFaults = 0]]
=============================================================================
