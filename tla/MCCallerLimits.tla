---------------------------- MODULE MCCallerLimits ----------------------------
(* An instance of CallerLimits; callers are interchangeable. *)
EXTENDS CallerLimits, TLC

CallerSymmetry == Permutations(Callers)
=============================================================================
