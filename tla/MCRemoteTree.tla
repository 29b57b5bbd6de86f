---------------------------- MODULE MCRemoteTree ----------------------------
(* The worlds RemoteTree is checked in.                                      *)
EXTENDS RemoteTree, TLC

\* the root and the folder in it hold just a page of entries each
SmallTree == 2 :> [parent |-> Root, name |-> "d", dir |-> TRUE, stamp |-> 0]
          @@ 3 :> [parent |-> Root, name |-> "e", dir |-> FALSE, stamp |-> 0]
          @@ 4 :> [parent |-> 2, name |-> "e", dir |-> FALSE, stamp |-> 0]
          @@ 5 :> [parent |-> 2, name |-> "f", dir |-> FALSE, stamp |-> 0]

\* a folder to be made in one that is there, and one whose name a file has
TwoPaths == {<<"d", "d">>, <<"e">>}

Asks  == [maxForeign |-> 1, maxFaults |-> 1, maxCalls |-> 3, walks |-> FALSE]
Walk  == [maxForeign |-> 2, maxFaults |-> 1, maxCalls |-> 0, walks |-> TRUE]
Both  == [maxForeign |-> 1, maxFaults |-> 1, maxCalls |-> 1, walks |-> TRUE]

AllSettings == [asks |-> Asks, walk |-> Walk, both |-> Both]
=============================================================================
