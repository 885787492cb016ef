------------------------- MODULE MCRequestCorrelation -------------------------
(***************************************************************************)
(* Three requests that may be created out of one another, with ids of      *)
(* their own, the same id, an unsafe one, two at once, or none.  The       *)
(* generator fails the policy for the third request.                       *)
(***************************************************************************)
EXTENDS RequestCorrelation, TLC

CONSTANTS r1, r2, r3, wanted, unsafe, g1, g2

MCGenerator == (r1 :> g1) @@ (r2 :> g2) @@ (r3 :> unsafe)
MCReceived == {<<>>, <<wanted>>, <<unsafe>>, <<wanted, wanted>>, <<g1>>}
==============================================================================
