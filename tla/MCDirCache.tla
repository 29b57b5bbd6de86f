----------------------------- MODULE MCDirCache -----------------------------
(***************************************************************************)
(* DirCache on two directories and two names.  Threads, directories and    *)
(* names are interchangeable: no action and no property tells one from     *)
(* another.                                                                *)
(***************************************************************************)
EXTENDS DirCache, TLC

Symmetry == Permutations(Threads) \cup Permutations(Dirs) \cup Permutations(Names)
=============================================================================
