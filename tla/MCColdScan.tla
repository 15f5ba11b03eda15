----------------------------- MODULE MCColdScan -----------------------------
(* Two roots, r and the directory r/d in it, which may hold a file.  Both the *)
(* inner root and the file may be created and deleted, and the inner root may *)
(* come back after a deletion or be refused a watch.                          *)
EXTENDS ColdScan

MCNames == {"r", "d", "x"}
MCGramsOf == [n \in MCNames |-> {}]
R == <<"r">>
D == <<"r", "d">>
MCRoots == <<R, D>>
SmallTree == {R, D, <<"r", "d", "x">>}
MCDirs == {R, D}
MCChanging == SmallTree \ {R}
MCLossy == {D}
=============================================================================
