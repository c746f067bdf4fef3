-------------------------- MODULE MCIntakePlanning --------------------------
(* IntakePlanning for TLC: three paths, two of them published with either  *)
(* of two definitions, three schedules of two carriers, and requests of    *)
(* one or two lines.                                                       *)
EXTENDS IntakePlanning

Pick == <<"pick">>
Heavy == <<"pick", "heavy">>
Singles == <<"singles">>

MCPathOrder == <<Pick, Heavy, Singles>>

Def(id, prefix, cycle, max, excluded) ==
  [id |-> id, prefix |-> prefix, cycle |-> cycle, max |-> max, required |-> {},
   excluded |-> excluded]

(* A revision may leave a path's id outside its own family, in no family   *)
(* or in another definition's, and two definitions may share a prefix.     *)
MCDefinitions ==
  {Def(Pick, Pick, 3, Unknown, {"hazmat"}), Def(Pick, <<"pick", "zone">>, 9, Unknown, {}),
   Def(Heavy, Heavy, Unknown, Unknown, {}), Def(Heavy, Pick, 6, Unknown, {}),
   Def(Singles, Singles, 1, 1, {"giftWrap"})}

Carriers ==
  <<[cpt |-> "A", at |-> 2, days |-> {}, eligible |-> {Pick, Singles}],
    [cpt |-> "B", at |-> 2, days |-> {2}, eligible |-> {Pick, Singles, Heavy}]>>

MCSchedules ==
  {[zone |-> [utc |-> TRUE, offset |-> 0], cutoffs |-> Carriers],
   [zone |-> [utc |-> FALSE, offset |-> -3], cutoffs |-> Carriers],
   Malformed}

MCCapacities ==
  {[path |-> Pick, at |-> 10, left |-> 1], [path |-> Pick, at |-> 10, left |-> Unknown]}

MCLeadTimeFor == [p \in {Pick, Heavy, Singles, <<"pick", "7">>} |-> IF p = Pick THEN 8 ELSE 6]

L(path, qty, attributes, gift) ==
  [path |-> path, qty |-> qty, tags |-> attributes, gift |-> gift]

Small == L(NoPath, 1, {}, FALSE)
Large == L(NoPath, 2, {}, TRUE)
Hazard == L(NoPath, 1, {"hazmat"}, FALSE)
Named == L(<<"pick", "7">>, 1, {}, FALSE)
Nothing == L(Pick, 0, {}, FALSE)

O(partial, deadline, lines) == [partial |-> partial, deadline |-> deadline, lines |-> lines]

MCOrders ==
  {O(TRUE, Unknown, <<Small, Small>>), O(TRUE, Unknown, <<Large, Hazard>>),
   O(FALSE, Unknown, <<Small, Large>>), O(FALSE, 10, <<Small, Large>>),
   O(TRUE, 20, <<Large, Small>>), O(FALSE, Unknown, <<Nothing>>),
   O(FALSE, Unknown, <<Named>>)}
=============================================================================
