------------------------------ MODULE MCQuotas ------------------------------
(* Quotas on a small instance.                                             *)
EXTENDS Quotas
=============================================================================
