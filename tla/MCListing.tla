----------------------------- MODULE MCListing -----------------------------
(* Instances of Listing for TLC: of three rows the second matches by its *)
(* status only.                                                          *)
EXTENDS Listing

CONSTANTS x1, x2, x3

Three ==
  [x \in {x1, x2, x3} |->
     IF x = x2 THEN [created |-> -1, fields |-> {"status"}]
     ELSE [created |-> IF x = x3 THEN -2 ELSE 0, fields |-> Fields]]
=============================================================================
