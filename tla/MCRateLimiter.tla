--------------------------- MODULE MCRateLimiter ---------------------------
(* RateLimiter for TLC; RateLimiter.cfg gives the constants: a wallet of   *)
(* two requests and a clock of one and a half times the wallet.            *)
EXTENDS RateLimiter
=============================================================================
