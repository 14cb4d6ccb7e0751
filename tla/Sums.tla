-------------------------------- MODULE Sums --------------------------------
(***************************************************************************)
(* What a counter kept beside a table of counts must be worth: the values  *)
(* of a function over a finite set, added up.                              *)
(***************************************************************************)
EXTENDS Integers, FiniteSetsExt

Total(f) == MapThenSumSet(LAMBDA x : f[x], DOMAIN f)
=============================================================================
