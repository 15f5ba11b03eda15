--------------------------- MODULE MCStringStore ---------------------------
(* A directory r/d that can become r/e and back, and a name x below either. *)
EXTENDS StringStore

MCNames == {"r", "d", "e", "x"}
MCGrams == {"x"}
MCGramsOf == [n \in MCNames |-> {n} \cap MCGrams]
MCRoot == <<"r">>
MCPaths == {MCRoot \o p : p \in {<<"d">>, <<"e">>, <<"d", "x">>, <<"e", "x">>}}
MCKind == [p \in MCPaths |-> {Base(p) # "x"}]
=============================================================================
