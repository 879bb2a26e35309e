---------------------------- MODULE MCIdempotency ----------------------------
(* Idempotency on a small instance: the values of its constants are in the    *)
(* configuration.  No symmetry, since CallersEnd is a liveness property.      *)
EXTENDS Idempotency
=============================================================================
