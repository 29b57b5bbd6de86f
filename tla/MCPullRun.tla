------------------------------- MODULE MCPullRun -------------------------------
(* A small instance of PullRun.                                              *)
EXTENDS PullRun

A == <<"a", 0>>
B == <<"b", 0>>

TwoRels == {A, B}

\* a tree in which a file has the name of another's temporary file
TwinRels == {A, <<"a", 1>>}

\* the paths in a directory the walk prunes
Hidden == {B}

BothFiles == <<A, B>>
Twins     == <<A, <<"a", 1>>>>

Plain  == [mode |-> "pull", force |-> FALSE, noDelete |-> FALSE, dryRun |-> FALSE]
TwoWay == [Plain EXCEPT !.mode = "twoWay"]
Forced == [Plain EXCEPT !.force = TRUE]
Keep   == [Plain EXCEPT !.noDelete = TRUE]
Shown  == [TwoWay EXCEPT !.dryRun = TRUE]
Flags  == {Plain, TwoWay, Forced, Keep, Shown}
=============================================================================
