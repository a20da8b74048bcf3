------------------------- MODULE MCOperatorSurface -------------------------
(* Three texts: the empty one, which has no n-gram, and two that share an ordering term  *)
(* and of which one has the n-grams of the other and more.                              *)
EXTENDS OperatorSurface, TLC

ThreeTexts == 0 .. 2
CoarseTerm == 0 :> 0 @@ 1 :> 1 @@ 2 :> 1
TextGrams == 0 :> {} @@ 1 :> {"a"} @@ 2 :> {"a", "b"}

=============================================================================
