--------------------------- MODULE MCSearchCache ---------------------------
(* Single letters as n-grams: longer ones behave alike.  Either two keyword  *)
(* lists and names of one and two n-grams, or one list, which one name       *)
(* matches and the other does not.                                           *)
EXTENDS SearchCache

MCNames == {"ab", "b"}
MCGramsOf == [n \in MCNames |-> IF n = "ab" THEN <<"a", "b">> ELSE <<"b">>]
TwoKeys == {<<"b">>, <<"a", "b">>}

ShortNames == {"a", "b"}
ShortGramsOf == [n \in ShortNames |-> <<n>>]
OneKey == {<<"b">>}

AnySearcher == Permutations(Searchers)
=============================================================================
