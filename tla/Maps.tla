-------------------------------- MODULE Maps --------------------------------
(* Go maps as functions with a changing domain. *)

\* m[x] = v, and delete(m, x) for every x in S.
Put(m, x, v) == [y \in DOMAIN m \cup {x} |-> IF y = x THEN v ELSE m[y]]
Without(m, S) == [y \in DOMAIN m \ S |-> m[y]]

\* m[x] for a map of sets: nil reads as the empty set.
At(m, x) == IF x \in DOMAIN m THEN m[x] ELSE {}
=============================================================================
