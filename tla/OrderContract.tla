--------------------------- MODULE OrderContract ---------------------------
(***************************************************************************)
(* What the order-management service promises about one order, whoever     *)
(* calls it and in whatever order: the status of each line as a reader of  *)
(* the database sees it, and the lines announced to wes-work-planning as   *)
(* released.  Every change is one atomic step of the whole order.          *)
(***************************************************************************)
CONSTANT Lines

VARIABLES
  exists,     \* the order was taken in
  partial,    \* the order allows partial shipment
  status,     \* the stored status of each line
  announced   \* the lines announced as released

contractVars == <<exists, partial, status, announced>>

(* Where an allocation pass may take a line: a Released or a Cancelled     *)
(* line stays what it is, only an allocated line can be released and       *)
(* nothing goes back to Pending.                                           *)
PassMoves(s) ==
  CASE s = "Pending"     -> {"Pending", "Backordered", "Allocated", "Released"}
    [] s = "Backordered" -> {"Backordered", "Allocated", "Released"}
    [] s = "Allocated"   -> {"Allocated", "Backordered", "Released"}
    [] OTHER             -> {s}

Newly(s, new) == {l \in Lines : new[l] = "Released" /\ s[l] # "Released"}

ContractInit ==
  /\ exists = FALSE
  /\ partial = FALSE
  /\ status = [l \in Lines |-> "Pending"]
  /\ announced = {}

(* A pass moves lines and announces exactly the lines it releases; it      *)
(* releases part of a ship-complete order never (BR3).                     *)
MoveLines(inParts) ==
  \E new \in [Lines -> {"Pending", "Allocated", "Backordered", "Released", "Cancelled"}] :
    /\ \A l \in Lines : new[l] \in PassMoves(status[l])
    /\ inParts \/ Newly(status, new) = {} \/ \A l \in Lines : new[l] = "Released"
    /\ status' = new
    /\ announced' = announced \cup Newly(status, new)

(* Intake fixes whether the order may ship in parts and makes the first    *)
(* pass, in one step.                                                      *)
Intake ==
  /\ ~exists
  /\ exists' = TRUE
  /\ partial' \in BOOLEAN
  /\ MoveLines(partial')

Pass == exists /\ MoveLines(partial) /\ UNCHANGED <<exists, partial>>

(* BR6: an order is cancelled as a whole and only while nothing is released. *)
CancelAll ==
  /\ exists
  /\ \A l \in Lines : status[l] # "Released"
  /\ status' = [l \in Lines |-> "Cancelled"]
  /\ UNCHANGED <<exists, partial, announced>>

ContractNext == Intake \/ Pass \/ CancelAll

ContractSpec == ContractInit /\ [][ContractNext]_contractVars
=============================================================================
