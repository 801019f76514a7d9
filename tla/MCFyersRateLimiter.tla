------------------------- MODULE MCFyersRateLimiter -------------------------
(* The limiter with the constants of RateLimiter.cfg: short windows, so that *)
(* a behaviour fills and leaves both of them.                               *)
EXTENDS FyersRateLimiter
=============================================================================
