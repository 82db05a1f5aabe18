--------------------------- MODULE MCRequestNonce ---------------------------
(* RequestNonce with the proportions of the defaults: the time to live is  *)
(* one unit more than twice the skew plus the latency.                     *)
EXTENDS RequestNonce
ASSUME OverlapAssumption == WindowsOverlap
=============================================================================
