----------------------------- MODULE MCRecovery -----------------------------
(* Two directories d and e below the root r, and a file f that is in either, *)
(* or a single directory d with its file, or a directory e below d that may  *)
(* also sit beside it.                                                       *)
EXTENDS Recovery

MCNames == {"r", "d", "e", "f"}
MCGrams == {"d", "e", "f"}
MCGramsOf == [n \in MCNames |-> {n} \ {"r"}]
MCRoot == <<"r">>
OneDir == {<<"r", "d">>}
Nested == OneDir \cup {<<"r", "d", "e">>, <<"r", "e">>}
OneFile == {<<"r", "d", "f">>}
TwoDirs == {<<"r", "d">>, <<"r", "e">>}
TwoFiles == {<<"r", "d", "f">>, <<"r", "e", "f">>}
=============================================================================
