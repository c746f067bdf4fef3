------------------------ MODULE MCAnalyticsProjector ------------------------
(* AnalyticsProjector on a short partition. *)
EXTENDS AnalyticsProjector
=============================================================================
