------------------------ MODULE MCRepromiseConsumer ------------------------
(* RepromiseConsumer on a short partition. *)
EXTENDS RepromiseConsumer, TLC
=============================================================================
