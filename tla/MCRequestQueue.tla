--------------------------- MODULE MCRequestQueue ---------------------------
(* Instances of RequestQueue for TLC: two curators and three requests. *)
EXTENDS RequestQueue

CONSTANTS c1, c2
=============================================================================
