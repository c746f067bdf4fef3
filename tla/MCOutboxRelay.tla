--------------------------- MODULE MCOutboxRelay ---------------------------
(* OutboxRelay on small instances; the configurations give the sets. *)
EXTENDS OutboxRelay
=============================================================================
