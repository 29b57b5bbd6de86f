--------------------------- MODULE MCManifestFile ---------------------------
(* A small instance of ManifestFile.                                         *)
EXTENDS ManifestFile, TLC

\* a name that begins another, one with a tab, and two the format cannot hold
SomeNames == << <<"a">>, <<"a", Tab, "b">>, <<"a", LF, Hash>>, <<"a", CR>> >>

\* from nothing to a name and another that it begins
SomeManifests ==
  {Empty, <<"a">> :> "1", <<"a">> :> "0" @@ <<"a", Tab, "b">> :> "1", <<"a", CR>> :> "0"}
=============================================================================
