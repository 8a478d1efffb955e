-------------------------------- MODULE Sums --------------------------------
(***************************************************************************)
(* Sums of a Nat-valued function over a finite set.  The sum is written as *)
(* the number of units the function hands out: unit <<x, i>> exists for    *)
(* every x of S and every i in 1..f[x].  The community modules' folds give *)
(* the same number; this form can also be reasoned about with the library  *)
(* facts on cardinalities, which are not stated by induction.              *)
(***************************************************************************)
EXTENDS Naturals, FiniteSets

Units(f, S) == UNION {{x} \X (1..f[x]) : x \in S}

Sum(f, S) == Cardinality(Units(f, S))
=============================================================================
