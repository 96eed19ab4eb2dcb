---------------------------- MODULE MCAsyncAudit ----------------------------
(* AsyncAudit on a small instance.                                         *)
EXTENDS AsyncAudit
=============================================================================
