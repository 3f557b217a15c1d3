-------------------------------- MODULE Totals --------------------------------
(***************************************************************************)
(* The sum of numbers over a finite set, counted unit by unit: each x of S *)
(* has f[x] units of its own.  A fold gives the same number, but what it   *)
(* does with one more element is provable only by induction.               *)
(***************************************************************************)
EXTENDS Integers, FiniteSets

Units(f, S) == UNION { {x} \X (1..f[x]) : x \in S }
Total(f, S) == Cardinality(Units(f, S))
=============================================================================
