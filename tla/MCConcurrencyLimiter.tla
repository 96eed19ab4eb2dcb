------------------------ MODULE MCConcurrencyLimiter ------------------------
(* ConcurrencyLimiter on a small instance.                                 *)
EXTENDS ConcurrencyLimiter
=============================================================================
