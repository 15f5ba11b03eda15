---------------------------- MODULE MCFsWatcher ----------------------------
EXTENDS FsWatcher
MCNames == {"r", "o", "d", "e", "x", "t"}
MCSpots == {<<"r", "d">>, <<"r", "e">>, <<"r", "d", "x">>, <<"r", "e", "x">>, <<"r", "d", "t">>, <<"r", "d", "e">>,
            <<"o", "d">>, <<"o", "x">>}
MCGramsOf == [n \in MCNames |-> {}]
MCRoot == <<"r">>
MCOutside == <<"o">>
MCIgnored == {"t"}
MCDirNames == {"r", "o", "d", "e"}
MCPlaced == <<<<0, "d">>, <<1, "x">>>>
=============================================================================
