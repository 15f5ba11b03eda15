---------------------------- MODULE MCFileIndex ----------------------------
(* Two layouts below the root r.  Flat: directories d and e and a name x below either, where *)
(* r/d and r/d/x may show up as a file or as a directory.  Deep: a directory s   *)
(* below d that can become the top directory e and back, one file below s   *)
(* wherever it is, and kinds that never change.                             *)
EXTENDS FileIndex

MCNames == {"r", "d", "e", "x"}
MCGrams == {"d", "e", "x"}
MCGramsOf == [n \in MCNames |-> {n} \ {"r"}]
MCRoot == <<"r">>
Below(rest) == {MCRoot \o p : p \in rest}

FlatPaths == Below({<<"d">>, <<"e">>, <<"d", "x">>, <<"e", "x">>})
MixedKind ==
  [p \in FlatPaths |-> CASE p = <<"r", "e">> -> {TRUE}
                       [] p = <<"r", "e", "x">> -> {FALSE}
                       [] OTHER -> BOOLEAN]

DeepPaths == Below({<<"d">>, <<"e">>, <<"d", "e">>, <<"d", "e", "x">>, <<"e", "x">>})
FixedKind == [p \in DeepPaths |-> {Base(p) # "x"}]
=============================================================================
