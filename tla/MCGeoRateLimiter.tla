-------------------------- MODULE MCGeoRateLimiter ---------------------------
(* GeoRateLimiter on a small instance.                                     *)
EXTENDS GeoRateLimiter, TLC

\* Callers are interchangeable.
Symmetry == Permutations(Callers)
=============================================================================
