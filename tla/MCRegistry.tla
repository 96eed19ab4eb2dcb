----------------------------- MODULE MCRegistry -----------------------------
(* Registry on a small instance.                                           *)
EXTENDS Registry
=============================================================================
