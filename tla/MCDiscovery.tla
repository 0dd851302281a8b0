----------------------------- MODULE MCDiscovery -----------------------------
(* A small instance of Discovery for TLC. *)
EXTENDS Discovery

CONSTANTS a, b, c

(* Unit identifiers that differ in the last bit, in the first and in       *)
(* length.  In the second bench the identifier of a, 1 1 with its vendor,  *)
(* is the end of the one of b, 1 1 1.                                      *)
MCBenches ==
  {(a :> <<1, 1, 0>>) @@ (b :> <<1, 1, 1>>) @@ (c :> <<0, 1, 1>>),
   (a :> <<1>>) @@ (b :> <<1, 1>>) @@ (c :> <<1, 0, 0>>)}
=============================================================================
