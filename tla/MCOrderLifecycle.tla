------------------------- MODULE MCOrderLifecycle -------------------------
(* OrderLifecycle on small instances: two or three lines, a few requests. *)
EXTENDS OrderLifecycle, TLC

ShipComplete == [partial |-> FALSE, held |-> FALSE, deadline |-> FALSE]

(* Every intent, the ones intake rejects included. *)
AllIntents == [partial : BOOLEAN, held : BOOLEAN, deadline : BOOLEAN]

(* The orders whose lines wait for each other, held or not. *)
ShipCompleteIntents == {ShipComplete, [ShipComplete EXCEPT !.held = TRUE]}

(* No two lines ask for the same, or all lines but the last do. *)
DifferentGoods == [l \in Lines |-> l]
SharedGoods == [l \in Lines |-> IF \E m \in Lines : l < m THEN 1 ELSE l]

(* Requests differ only in what they are asked for. *)
RequestSymmetry == Permutations(Requests)
=============================================================================
