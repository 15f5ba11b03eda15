---------------------------- MODULE MCSearchPage ----------------------------
(* The keyword finds the name 1 and not the name 0. *)
EXTENDS SearchPage

MCOrders == {<<"size", TRUE>>}
MCNames == {0, 1}
MCMatching == {1}
=============================================================================
