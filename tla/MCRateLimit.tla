---------------------------- MODULE MCRateLimit ----------------------------
(* Three clients for two buckets, so that eviction happens; two admissions  *)
(* per window; the window is one second of two ticks, so that Retry-After   *)
(* is rounded.                                                              *)
EXTENDS RateLimit

CONSTANTS c1, c2, c3

MCClients == {c1, c2, c3}
=============================================================================
