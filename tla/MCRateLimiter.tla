---------------------------- MODULE MCRateLimiter ----------------------------
(* The sliding window with a short minute: what matters is that the clock runs *)
(* finer than a second, and past several windows.                             *)
EXTENDS RateLimiter
=============================================================================
