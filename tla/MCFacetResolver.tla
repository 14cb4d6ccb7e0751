-------------------------- MODULE MCFacetResolver --------------------------
(***************************************************************************)
(* Two addons that answer one facet of a title together, and one of them   *)
(* another as well: Radarr's, by whose document the title is a film of a   *)
(* collection, and TMDB's, which looks its id up first.                    *)
(***************************************************************************)
EXTENDS FacetResolver, TLC

CONSTANTS radarr, tmdb, cast, trailer, t1, c1

TwoAddons == (radarr :> {cast, trailer}) @@ (tmdb :> {cast})
OneFilm == <<radarr, t1>> :> c1
=============================================================================
