---------------------------- MODULE MCRateLimiter ----------------------------
(* One or two users; windows long enough for a burst at the end of one and *)
(* another at the beginning of the next.                                   *)
EXTENDS RateLimiter
=============================================================================
