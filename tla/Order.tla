------------------------------- MODULE Order -------------------------------
(***************************************************************************)
(* The Order aggregate (internal/domain/order): its lines, the transitions *)
(* its methods allow, the status derived from the lines, and the two       *)
(* boundary checks, BR3 (release) and BR6 (cancellation).                  *)
(*                                                                         *)
(* An order is a record.  SKU, quantity, path and gift wrap are fixed at   *)
(* intake, and no method of the aggregate reads them, so a line is its     *)
(* status, its reservation id (0 is Go's nil pointer) and the promise of   *)
(* the promise group it belongs to; OrderLifecycle has the SKU and the     *)
(* quantity as a constant.  A method that mutates the aggregate is an      *)
(* operator that returns the mutated record; the state it demands is a     *)
(* separate "Can" operator, and the callers put it in their guards.        *)
(***************************************************************************)
EXTENDS Integers

CONSTANTS
  Lines,      \* the 1-based line numbers of the order
  Promises,   \* the promises (basis, CPT, cutoff) a promise policy can answer
  OnTime,     \* those whose cutoff is at or before requiredShipBy
  NoPromise   \* the line belongs to no promise group

(* New rejects an order with no lines (ErrNoLines) and numbers them from 1. *)
ASSUME LinesAssumption == Lines # {} /\ Lines \subseteq Nat \ {0}
ASSUME PromisesAssumption == Promises # {} /\ NoPromise \notin Promises
ASSUME OnTimeAssumption == OnTime \subseteq Promises

LineStatus == {"Pending", "Allocated", "Backordered", "Released", "Cancelled"}

OrderStatus == {"Received", "PartiallyAllocated", "Allocated", "Backordered",
                "PartiallyReleased", "Released", "Cancelled"}

(* What the caller asks for at intake: partial shipment allowed, release  *)
(* held back, an externally dictated requiredShipBy deadline.             *)
Intent == [partial : BOOLEAN, held : BOOLEAN, deadline : BOOLEAN]

Order ==
  [version : Nat, intent : Intent, status : [Lines -> LineStatus],
   reservation : [Lines -> Nat], promise : [Lines -> Promises \cup {NoPromise}]]

(* A held order must be ship-complete. *)
ValidateIntakeIntent(intent) == ~(intent.held /\ intent.partial)

New(intent) ==
  [version |-> 1, intent |-> intent,
   status |-> [l \in Lines |-> "Pending"],
   reservation |-> [l \in Lines |-> 0],
   promise |-> [l \in Lines |-> NoPromise]]

LinesWithStatus(o, s) == {l \in Lines : o.status[l] = s}

(* Mistake: the hold recorded at intake is not read back. *)
ReleaseOnAllocationAlways(o) == TRUE

ReleaseOnAllocation(o) == ~o.intent.held

(* The status derived from the lines, in the code's precedence order. *)
Status(o) ==
  LET Some(s) == LinesWithStatus(o, s) # {}
      All(s)  == LinesWithStatus(o, s) = Lines
  IN  IF All("Cancelled") THEN "Cancelled"
      ELSE IF All("Released") THEN "Released"
      ELSE IF Some("Released") THEN "PartiallyReleased"
      ELSE IF Some("Backordered") THEN
             IF o.intent.partial /\ Some("Allocated")
             THEN "PartiallyAllocated" ELSE "Backordered"
      ELSE IF All("Allocated") THEN "Allocated"
      ELSE IF Some("Allocated") THEN "PartiallyAllocated"
      ELSE "Received"

----------------------------------------------------------------------------
(* Transitions of one line. *)

CanAllocate(o, l) == o.status[l] = "Pending"
Allocate(o, l, id) ==
  [o EXCEPT !.status = [@ EXCEPT ![l] = "Allocated"],
            !.reservation = [@ EXCEPT ![l] = id]]

(* The only transition from Backordered back to Allocated. *)
CanRetryAllocate(o, l) == o.status[l] = "Backordered"
RetryAllocate(o, l, id) ==
  [o EXCEPT !.status = [@ EXCEPT ![l] = "Allocated"],
            !.reservation = [@ EXCEPT ![l] = id]]

(* Mistake: the line is found by its status and not by its number. *)
ReconfirmFirstAllocated(o, l, id) ==
  LET first == CHOOSE k \in LinesWithStatus(o, "Allocated") :
                 \A m \in LinesWithStatus(o, "Allocated") : k <= m
  IN  [o EXCEPT !.reservation[first] = id]

CanReconfirm(o, l) == o.status[l] = "Allocated"
ReconfirmReservation(o, l, id) == [o EXCEPT !.reservation[l] = id]

(* The only transition from Allocated to Backordered. *)
LoseReservation(o, l) ==
  [o EXCEPT !.status = [@ EXCEPT ![l] = "Backordered"],
            !.reservation = [@ EXCEPT ![l] = 0]]

(* Mistake: an order-level status is written to the line. *)
MarkBackorderedOrderStatus(o, l) == [o EXCEPT !.status[l] = "PartiallyAllocated"]

CanBackorder(o, l) == o.status[l] \in {"Pending", "Backordered"}
MarkBackordered(o, l) == [o EXCEPT !.status[l] = "Backordered"]

----------------------------------------------------------------------------
(* Transitions of the whole order. *)

(* Mistake: one allocated line is taken to be enough. *)
EnsureReleasableAny(o) ==
  o.intent.partial \/ \E l \in Lines : o.status[l] \in {"Allocated", "Released"}

(* BR3: a ship-complete order releases nothing until every line is        *)
(* Allocated (or already Released).                                       *)
EnsureReleasable(o) ==
  \/ o.intent.partial
  \/ \A l \in Lines : o.status[l] \in {"Allocated", "Released"}

(* Release, applied to every line of the set. *)
Release(o, S) ==
  [o EXCEPT !.status = [l \in Lines |-> IF l \in S THEN "Released" ELSE @[l]]]

(* BR6: an order with a Released line cannot be cancelled. *)
EnsureCancellable(o) == \A l \in Lines : o.status[l] # "Released"

(* Every line is cancelled; reservation ids and promises stay recorded. *)
Cancel(o) == [o EXCEPT !.status = [l \in Lines |-> "Cancelled"]]

(* Mistake: the reservations are looked up after Cancel changed the lines. *)
AllocatedReservationsAfterCancel(o) ==
  {l \in LinesWithStatus(Cancel(o), "Allocated") : o.reservation[l] # 0}

(* The lines whose reservation CancelOrder must revoke. *)
AllocatedReservations(o) ==
  {l \in LinesWithStatus(o, "Allocated") : o.reservation[l] # 0}

SetPromiseGroups(o, groups) == [o EXCEPT !.promise = groups]

----------------------------------------------------------------------------
(* Promises.  The policy's answer depends on caches that are not part of   *)
(* the aggregate, so it is any answer of the right shape; IntakePlanning   *)
(* computes it.                                                            *)

(* Mistake: the lines released by an earlier pass are forgotten. *)
PromisedLinesAllocatedOnly(o) == LinesWithStatus(o, "Allocated")

(* The lines a promise covers: Allocated, and those already Released. *)
PromisedLines(o) == LinesWithStatus(o, "Allocated") \cup LinesWithStatus(o, "Released")

(* PromisePolicy.PromiseGroups: one group for a ship-complete order, each  *)
(* line on its own when partial shipment is allowed; no answer while       *)
(* nothing is allocated.                                                   *)
PromiseGroups(o) ==
  LET Groups(f) == [l \in Lines |-> IF l \in PromisedLines(o) THEN f[l] ELSE NoPromise]
  IN  IF PromisedLines(o) = {} THEN {}
      ELSE IF o.intent.partial THEN {Groups(f) : f \in [Lines -> Promises]}
      ELSE {Groups([l \in Lines |-> p]) : p \in Promises}

(* Mistake: the fallback is not held to the deadline. *)
FeasibleGroupsAnyTime(o) ==
  IF PromisedLines(o) = {} THEN {}
  ELSE {[l \in Lines |-> IF o.status[l] = "Allocated" THEN p ELSE NoPromise] : p \in Promises}

(* PromisePolicy.FeasibleBy, wrapped in the single group setPromiseDate    *)
(* builds from the lines still Allocated.                                  *)
FeasibleGroups(o) ==
  IF PromisedLines(o) = {} THEN {}
  ELSE {[l \in Lines |-> IF o.status[l] = "Allocated" THEN p ELSE NoPromise] : p \in OnTime}

(* setPromiseDate: with a deadline the order gets a feasible promise or    *)
(* keeps what it had; without one it gets the policy's groups.             *)
SetPromiseDate(o) ==
  IF o.intent.deadline
  THEN {o} \cup {SetPromiseGroups(o, g) : g \in FeasibleGroups(o)}
  ELSE IF PromiseGroups(o) = {} THEN {o}
  ELSE {SetPromiseGroups(o, g) : g \in PromiseGroups(o)}
=============================================================================
