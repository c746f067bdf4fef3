--------------------------- MODULE MCReplayCaches ---------------------------
(* ReplayCaches as cmd/order wires it: the catalogue and the schedules     *)
(* read one topic, here of two partitions, the capacities another.         *)
EXTENDS ReplayCaches

BootOrder == <<"catalogue", "schedule", "capacity">>

BootReadBy ==
  [p1 |-> {"catalogue", "schedule"}, p2 |-> {"catalogue", "schedule"},
   q1 |-> {"capacity"}]

BootKeys == [p1 |-> {"k1"}, p2 |-> {"k2"}, q1 |-> {"c"}]
=============================================================================
