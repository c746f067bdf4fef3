-------------------------- MODULE MCIdempotencyKey --------------------------
(* IdempotencyKey on small instances. *)
EXTENDS IdempotencyKey
=============================================================================
