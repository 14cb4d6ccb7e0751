-------------------------- MODULE MCRequestWorker --------------------------
(* Instances of RequestWorker for TLC. *)
EXTENDS RequestWorker

BothServices == {Services}
AnyService == {Services, {"radarr"}}
=============================================================================
