--------------------------------- MODULE Sums ---------------------------------
(***************************************************************************)
(* The sum of a function to the naturals, as the number of points below    *)
(* it.  A fold would say the same, but its value for an arbitrary set can  *)
(* only be found by induction; a count can be compared with other counts   *)
(* by a bijection.                                                         *)
(***************************************************************************)
EXTENDS Integers, FiniteSets

SumOf(f) == Cardinality(UNION {{k} \X (1..f[k]) : k \in DOMAIN f})
=============================================================================
