------------------------- MODULE MCRateLimitFetcher -------------------------
(* A small instance of RateLimitFetcher for TLC: gh can be slower than the  *)
(* interval of the polls, as with the intervals the tests set.              *)
EXTENDS RateLimitFetcher

NoSnapshot == -1
=============================================================================
