------------------------- MODULE MCRequestLifecycle -------------------------
(* Instances of RequestLifecycle for TLC. *)
EXTENDS RequestLifecycle

BothServices == {Services}
OnlyRadarr == {{"radarr"}}
OnlySonarr == {{"sonarr"}}
=============================================================================
