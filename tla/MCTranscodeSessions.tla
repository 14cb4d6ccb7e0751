------------------------ MODULE MCTranscodeSessions ------------------------
(* Instances of TranscodeSessions for TLC. *)
EXTENDS TranscodeSessions, TLC

CONSTANTS film, remux, k3

\* A film of four segments, and two keys of one segment each.
OneLongFilm == [k \in Keys |-> IF k = film THEN 3 ELSE 0]
SessionSymmetry == Permutations(SessionIds)
=============================================================================
