--------------------------- MODULE OrderLifecycle ---------------------------
(***************************************************************************)
(* One order served by concurrent requests: ReceiveOrder, RetryAllocation, *)
(* ReleaseHeldOrder, CancelOrder and RepromiseOrder                        *)
(* (internal/application/usecases) over the Postgres repository, unit of   *)
(* work and outbox (internal/adapters/outbound/postgres) and the           *)
(* inventory-storage client.                                               *)
(*                                                                         *)
(* A request works on a private copy of the aggregate, calls               *)
(* inventory-storage once per line and ends by saving that copy under the  *)
(* version guard.  Every network call and every database statement whose   *)
(* interleaving with another request can be observed is a step of its own. *)
(* What a request writes inside its transaction stays in tx[r] until the   *)
(* commit; the row lock taken by Save is held until the commit, so Save,   *)
(* the publish calls after it and the commit are one step.                 *)
(*                                                                         *)
(* POST /orders runs inside the transaction of the Idempotency-Key         *)
(* middleware, which both units of work of ReceiveOrder join: the order    *)
(* and everything its first allocation pass did become visible in one      *)
(* commit, at the end.                                                     *)
(*                                                                         *)
(* Left out: the request's response, metrics and logs, and the analytics   *)
(* copy of each outbox row.                                                *)
(***************************************************************************)
EXTENDS Order, Sequences

CONSTANTS
  Goods,      \* what each line asks for: its SKU and its quantity
  Requests,   \* the requests that may reach the order, each served once
  Ops,        \* what a request on an existing order may ask for
  Intents,    \* the intake intents to consider
  MayCrash    \* whether a request may die half way

(* Two lines of an order may ask for the same: New compares no lines. *)
ASSUME GoodsAssumption == DOMAIN Goods = Lines
ASSUME OpsAssumption == Ops \subseteq {"retry", "releaseHeld", "cancel", "repromise"}
ASSUME IntentsAssumption == Intents # {} /\ Intents \subseteq Intent
ASSUME MayCrashAssumption == MayCrash \in BOOLEAN

VARIABLES
  row,          \* the stored order; version 0 until it is inserted
  outbox,       \* the committed outbox rows, in commit order
  pc,           \* where each request stands
  op,           \* the use case it runs
  ord,          \* its in-memory copy of the aggregate
  todo,         \* the lines its current loop still has to visit
  tx,           \* the events its open transaction has inserted
  reservations, \* inventory-storage: reservation id -> goods and state
  answers,      \* inventory-storage: responses cached by Idempotency-Key
  late          \* reserve calls given up by the caller and still travelling

requestVars == <<pc, op, ord, todo, tx>>
inventoryVars == <<reservations, answers, late>>
vars == <<row, outbox, requestVars, inventoryVars>>

EventType == {"OrderReceived", "OrderLineAllocated", "OrderLineBackordered",
              "OrderAllocated", "OrderPartiallyAllocated",
              "OrderAllocationPartiallyFailed", "OrderCancelled", "OrderRepromised"}

(* An event names the lines it is about: the line of a line event, the    *)
(* released lines of an order-level outcome, the line of a re-promise.     *)
Event == [type : EventType, lines : SUBSET Lines]

Ev(t, S) == [type |-> t, lines |-> S]

Stage == {"idle", "lines", "groups", "reserve", "reconfirm", "revoke", "save", "done"}

(* No row yet, or no copy in memory. *)
NoOrder ==
  [New([partial |-> FALSE, held |-> FALSE, deadline |-> FALSE])
     EXCEPT !.version = 0]

Init ==
  /\ row = NoOrder
  /\ outbox = <<>>
  /\ pc = [r \in Requests |-> "idle"]
  /\ op = [r \in Requests |-> "none"]
  /\ ord = [r \in Requests |-> NoOrder]
  /\ todo = [r \in Requests |-> {}]
  /\ tx = [r \in Requests |-> <<>>]
  /\ reservations = <<>>
  /\ answers = {}
  /\ late = {}

----------------------------------------------------------------------------
(* inventory-storage, external: modelled from what the client sends and    *)
(* from what this repository's code relies on.                             *)

(* The active reservations for what l asks for.  The request body has the  *)
(* order (demandRef), the SKU and the quantity, and no line number.        *)
Active(l) ==
  {k \in DOMAIN reservations :
     reservations[k].goods = Goods[l] /\ reservations[k].state = "active"}

Cached(l, attempt) == {a \in answers : a.line = l /\ a.attempt = attempt}

(* POST /reservations under the key (order, line, attempt).  A key already *)
(* answered gets the same answer again; otherwise an active reservation of *)
(* the order for that SKU and quantity is handed back, even one that       *)
(* another line holds, or a new one is made, or the answer is 409 (id 0),  *)
(* whatever stock the rest of the world has left.                          *)
InventoryReserve(l, attempt, id) ==
  \/ /\ \E a \in Cached(l, attempt) : id = a.id
     /\ UNCHANGED <<reservations, answers>>
  \/ /\ Cached(l, attempt) = {}
     /\ answers' = answers \cup {[line |-> l, attempt |-> attempt, id |-> id]}
     /\ \/ id \in Active(l) /\ UNCHANGED reservations
        \/ /\ Active(l) = {}
           /\ id = Len(reservations) + 1
           /\ reservations' = Append(reservations, [goods |-> Goods[l], state |-> "active"])
        \/ Active(l) = {} /\ id = 0 /\ UNCHANGED reservations

(* DELETE /reservations/{id}: only an active reservation changes state; a  *)
(* 404 counts as success.                                                  *)
InventoryRevoke(id) ==
  IF id \in DOMAIN reservations /\ reservations[id].state = "active"
  THEN [reservations EXCEPT ![id].state = "revoked"]
  ELSE reservations

(* The reservation TTL lapses. *)
ExpireReservation ==
  /\ \E k \in DOMAIN reservations :
       /\ reservations[k].state = "active"
       /\ reservations' = [reservations EXCEPT ![k].state = "expired"]
  /\ UNCHANGED <<row, outbox, requestVars, answers, late>>

(* A reserve call its caller gave up on reaches inventory-storage. *)
LateReserve ==
  /\ \E c \in late, id \in 0..(Len(reservations) + 1) :
       /\ InventoryReserve(c.line, c.attempt, id)
       /\ late' = late \ {c}
  /\ UNCHANGED <<row, outbox, requestVars>>

----------------------------------------------------------------------------
(* How a request ends, and how it commits. *)

(* The request's transaction and memory are gone. *)
Finish(r) ==
  /\ pc' = [pc EXCEPT ![r] = "done"]
  /\ ord' = [ord EXCEPT ![r] = NoOrder]
  /\ todo' = [todo EXCEPT ![r] = {}]
  /\ tx' = [tx EXCEPT ![r] = <<>>]
  /\ UNCHANGED op

(* The line the loop visits next: lines go in line order. *)
IsNextLine(r, l) == l \in todo[r] /\ \A m \in todo[r] : l <= m

Goto(r, stage, o, S, events) ==
  /\ pc' = [pc EXCEPT ![r] = stage]
  /\ ord' = [ord EXCEPT ![r] = o]
  /\ todo' = [todo EXCEPT ![r] = S]
  /\ tx' = [tx EXCEPT ![r] = events]

(* The row as the transaction of r sees it: intake reads its own insert. *)
Seen(r) == IF op[r] = "receive" THEN New(ord[r].intent) ELSE row

(* Mistake: the UPDATE has no version predicate. *)
VersionIgnored(r) == TRUE

(* The version-guarded UPDATE matches the row. *)
VersionMatches(r) == ord[r].version = Seen(r).version

(* Mistake: the events are not written in the transaction of the Save. *)
SaveWithoutOutbox(r) ==
  /\ pc[r] = "save"
  /\ row' = IF VersionMatches(r) THEN [ord[r] EXCEPT !.version = @ + 1] ELSE row
  /\ Finish(r)
  /\ UNCHANGED <<outbox, inventoryVars>>

(* Mistake: the UPDATE checks the version and leaves it as it was. *)
SaveKeepsVersion(r) ==
  /\ pc[r] = "save"
  /\ IF VersionMatches(r)
     THEN row' = ord[r] /\ outbox' = outbox \o tx[r]
     ELSE UNCHANGED <<row, outbox>>
  /\ Finish(r)
  /\ UNCHANGED inventoryVars

(* OrderRepo.Save inside the unit of work, the publishes after it and the  *)
(* commit.  The UPDATE matches the row only at the version the request     *)
(* loaded; otherwise ErrConcurrentModification rolls everything back.      *)
Save(r) ==
  /\ pc[r] = "save"
  /\ IF VersionMatches(r)
     THEN /\ row' = [ord[r] EXCEPT !.version = Seen(r).version + 1]
          /\ outbox' = outbox \o tx[r]
     ELSE UNCHANGED <<row, outbox>>
  /\ Finish(r)
  /\ UNCHANGED inventoryVars

(* The process dies, a statement or the commit fails, or the request's     *)
(* context is cancelled: the database rolls the transaction back, and a    *)
(* reserve call may still be travelling.                                   *)
Crash(r) ==
  /\ MayCrash
  /\ pc[r] \notin {"idle", "done"}
  /\ Finish(r)
  /\ \/ UNCHANGED late
     \/ /\ pc[r] \in {"reserve", "reconfirm"}
        /\ \E l \in todo[r] :
             /\ IsNextLine(r, l)
             /\ late' = late \cup {[line |-> l, attempt |-> ord[r].version]}
  /\ UNCHANGED <<row, outbox, reservations, answers>>

----------------------------------------------------------------------------
(* Loading: FindByID reads the header, the lines and the promise groups in *)
(* three statements, each of which sees the latest commit.                 *)

LoadHeader(r, use) ==
  /\ pc[r] = "idle"
  /\ row.version > 0
  /\ op' = [op EXCEPT ![r] = use]
  /\ Goto(r, "lines", [New(row.intent) EXCEPT !.version = row.version], {}, <<>>)
  /\ UNCHANGED <<row, outbox, inventoryVars>>

LoadLines(r) ==
  /\ pc[r] = "lines"
  /\ Goto(r, "groups",
          [ord[r] EXCEPT !.status = row.status, !.reservation = row.reservation],
          {}, <<>>)
  /\ UNCHANGED <<row, outbox, op, inventoryVars>>

(* The aggregate once the promise groups are read too. *)
Loaded(r) == SetPromiseGroups(ord[r], row.promise)

----------------------------------------------------------------------------
(* The use cases, up to their first call to inventory-storage or to Save.  *)

(* ReceiveOrder: the order is inserted under a freshly minted id and       *)
(* OrderReceived published, both still uncommitted; the allocation pass    *)
(* over its Pending lines follows.                                         *)
ReceiveOrder(r) ==
  /\ pc[r] = "idle"
  /\ row.version = 0
  /\ \A q \in Requests : op[q] # "receive"
  /\ \E intent \in Intents :
       /\ ValidateIntakeIntent(intent)
       /\ Goto(r, "reserve", New(intent), LinesWithStatus(New(intent), "Pending"),
               <<Ev("OrderReceived", {})>>)
  /\ op' = [op EXCEPT ![r] = "receive"]
  /\ UNCHANGED <<row, outbox, inventoryVars>>

RetryLines(o) == LinesWithStatus(o, "Backordered")

(* RetryAllocation: a pass over the Backordered lines; ErrNoBackorderedLines *)
(* when there are none.                                                      *)
RetryAllocation(r) ==
  /\ pc[r] = "groups" /\ op[r] = "retry"
  /\ LET back == RetryLines(Loaded(r))
     IN  IF back = {}
         THEN Finish(r)
         ELSE Goto(r, "reserve", Loaded(r), back, <<>>) /\ UNCHANGED op
  /\ UNCHANGED <<row, outbox, inventoryVars>>

(* ReleaseHeldOrder: a pass with nothing to allocate.  ErrOrderNotHeld for *)
(* an order that was not held; a success without effect when no line is    *)
(* Allocated.                                                              *)
ReleaseHeldOrder(r) ==
  /\ pc[r] = "groups" /\ op[r] = "releaseHeld"
  /\ IF ReleaseOnAllocation(Loaded(r)) \/ LinesWithStatus(Loaded(r), "Allocated") = {}
     THEN Finish(r)
     ELSE Goto(r, "reserve", Loaded(r), {}, <<>>) /\ UNCHANGED op
  /\ UNCHANGED <<row, outbox, inventoryVars>>

(* CancelOrder: BR6 is checked on the loaded copy before anything is       *)
(* revoked.                                                                *)
CancelOrder(r) ==
  /\ pc[r] = "groups" /\ op[r] = "cancel"
  /\ IF EnsureCancellable(Loaded(r))
     THEN /\ Goto(r, "revoke", Loaded(r), AllocatedReservations(Loaded(r)), <<>>)
          /\ UNCHANGED op
     ELSE Finish(r)
  /\ UNCHANGED <<row, outbox, inventoryVars>>

(* A different CPT, basis or cutoff. *)
PromiseMoved(current, fresh) == current # fresh

(* RepromiseOrder, for a fulfillment event about line l that was not        *)
(* processed before: it stops unless l has a promise, a fresh one is        *)
(* available for it and the two differ.  A deadline plays no part.          *)
RepromiseOrder(r) ==
  /\ pc[r] = "groups" /\ op[r] = "repromise"
  /\ \E l \in Lines :
       \/ /\ row.promise[l] = NoPromise \/ PromiseGroups(Loaded(r)) = {}
          /\ Finish(r)
       \/ /\ row.promise[l] # NoPromise
          /\ \E g \in PromiseGroups(Loaded(r)) :
               IF g[l] = NoPromise \/ ~PromiseMoved(row.promise[l], g[l])
               THEN Finish(r)
               ELSE /\ Goto(r, "save", SetPromiseGroups(Loaded(r), g), {},
                            <<Ev("OrderRepromised", {l})>>)
                    /\ UNCHANGED op
  /\ UNCHANGED <<row, outbox, inventoryVars>>

----------------------------------------------------------------------------
(* allocateAndRelease, inside one unit of work. *)

Announces(events, t) == \E i \in DOMAIN events : events[i].type = t

(* outcome.allocated > 0 *)
AnyAllocated(r) == Announces(tx[r], "OrderLineAllocated")

(* The lines this pass reserved itself, as opposed to reconfirmed. *)
JustReserved(r) ==
  {l \in Lines : \E i \in DOMAIN tx[r] :
     tx[r][i].type = "OrderLineAllocated" /\ l \in tx[r][i].lines}

(* allocateLines, one line: 409 backorders it, a reservation allocates it. *)
ReserveLine(r) ==
  /\ pc[r] = "reserve"
  /\ \E l \in todo[r], id \in 0..(Len(reservations) + 1) :
       /\ IsNextLine(r, l)
       /\ InventoryReserve(l, ord[r].version, id)
       /\ \/ /\ id = 0 /\ CanBackorder(ord[r], l)
             /\ Goto(r, "reserve", MarkBackordered(ord[r], l), todo[r] \ {l},
                     Append(tx[r], Ev("OrderLineBackordered", {l})))
          \/ /\ id # 0 /\ op[r] = "receive" /\ CanAllocate(ord[r], l)
             /\ Goto(r, "reserve", Allocate(ord[r], l, id), todo[r] \ {l},
                     Append(tx[r], Ev("OrderLineAllocated", {l})))
          \/ /\ id # 0 /\ op[r] = "retry" /\ CanRetryAllocate(ord[r], l)
             /\ Goto(r, "reserve", RetryAllocate(ord[r], l, id), todo[r] \ {l},
                     Append(tx[r], Ev("OrderLineAllocated", {l})))
  /\ UNCHANGED <<row, outbox, op, late>>

(* allocateLines fails hard: a transport error, a timeout, an open breaker *)
(* or a status it does not know.  The call may or may not take effect.     *)
(* With nothing allocated the closure returns nil, so the transaction      *)
(* commits its event rows without a Save, at intake together with the      *)
(* order as it was inserted; otherwise salvage saves.                      *)
ReserveFails(r) ==
  /\ pc[r] = "reserve"
  /\ \E l \in todo[r] :
       /\ IsNextLine(r, l)
       /\ late' \in {late, late \cup {[line |-> l, attempt |-> ord[r].version]}}
  /\ IF AnyAllocated(r)
     THEN /\ \E o \in SetPromiseDate(ord[r]) :
               Goto(r, "save", o, {},
                    Append(tx[r], Ev("OrderAllocationPartiallyFailed", {})))
          /\ UNCHANGED <<row, outbox, op>>
     ELSE /\ row' = Seen(r)
          /\ outbox' = outbox \o tx[r]
          /\ Finish(r)
  /\ UNCHANGED <<reservations, answers>>

(* Mistake: a pass that allocated nothing is silent, even if it released. *)
OutcomeOnlyIfAllocated(o, events, released) ==
  IF ~Announces(events, "OrderLineAllocated") THEN <<>>
  ELSE <<Ev(IF Status(o) \in {"Allocated", "Released"}
            THEN "OrderAllocated" ELSE "OrderPartiallyAllocated", released)>>

(* publishOrderAllocationOutcome: silent only when the pass changed nothing. *)
Outcome(o, events, released) ==
  IF /\ ~Announces(events, "OrderLineAllocated")
     /\ ~Announces(events, "OrderLineBackordered")
     /\ released = {}
  THEN <<>>
  ELSE IF Status(o) \in {"Allocated", "Released"}
       THEN <<Ev("OrderAllocated", released)>>
  ELSE IF Status(o) \in {"PartiallyAllocated", "PartiallyReleased"}
       THEN <<Ev("OrderPartiallyAllocated", released)>>
  ELSE <<>>

(* Mistake: lines allocated by an earlier pass are released unconfirmed. *)
ToReconfirmNone(r, o) == {}

(* The lines about to be released that this pass did not just reserve. *)
ToReconfirm(r, o) == LinesWithStatus(o, "Allocated") \ JustReserved(r)

(* Every line was answered: the promise is set, and the pass either saves  *)
(* at once (held order) or goes on to reconfirm the lines it is about to   *)
(* release and did not just reserve.                                       *)
AllocationDone(r) ==
  /\ pc[r] = "reserve" /\ todo[r] = {}
  /\ \E o \in SetPromiseDate(ord[r]) :
       IF op[r] = "releaseHeld" \/ ReleaseOnAllocation(o)
       THEN Goto(r, "reconfirm", o, ToReconfirm(r, o), tx[r])
       ELSE Goto(r, "save", o, {}, tx[r] \o Outcome(o, tx[r], {}))
  /\ UNCHANGED <<row, outbox, op, inventoryVars>>

(* reconfirmAllocatedLines, one line: 409 loses the reservation. *)
ReconfirmLine(r) ==
  /\ pc[r] = "reconfirm"
  /\ \E l \in todo[r], id \in 0..(Len(reservations) + 1) :
       /\ IsNextLine(r, l)
       /\ CanReconfirm(ord[r], l)
       /\ InventoryReserve(l, ord[r].version, id)
       /\ IF id = 0
          THEN Goto(r, "reconfirm", LoseReservation(ord[r], l), todo[r] \ {l},
                    Append(tx[r], Ev("OrderLineBackordered", {l})))
          ELSE Goto(r, "reconfirm", ReconfirmReservation(ord[r], l, id), todo[r] \ {l}, tx[r])
  /\ UNCHANGED <<row, outbox, op, late>>

(* A reconfirmation fails hard: the whole pass is rolled back. *)
ReconfirmFails(r) ==
  /\ pc[r] = "reconfirm"
  /\ \E l \in todo[r] :
       /\ IsNextLine(r, l)
       /\ late' \in {late, late \cup {[line |-> l, attempt |-> ord[r].version]}}
  /\ Finish(r)
  /\ UNCHANGED <<row, outbox, reservations, answers>>

(* releaseAllocatedLines behind the BR3 gate.  A ship-complete order that  *)
(* lost a reservation does not pass the gate, so its separate early Save   *)
(* is the case released = {}.                                              *)
ReleaseLines(r) ==
  /\ pc[r] = "reconfirm" /\ todo[r] = {}
  /\ LET released == IF EnsureReleasable(ord[r])
                     THEN LinesWithStatus(ord[r], "Allocated") ELSE {}
         o == Release(ord[r], released)
     IN  Goto(r, "save", o, {}, tx[r] \o Outcome(o, tx[r], released))
  /\ UNCHANGED <<row, outbox, op, inventoryVars>>

----------------------------------------------------------------------------
(* The rest of CancelOrder, outside any transaction until its Save. *)

RevokeReservation(r) ==
  /\ pc[r] = "revoke"
  /\ \E l \in todo[r] :
       /\ IsNextLine(r, l)
       /\ reservations' = InventoryRevoke(ord[r].reservation[l])
       /\ Goto(r, "revoke", ord[r], todo[r] \ {l}, tx[r])
  /\ UNCHANGED <<row, outbox, op, answers, late>>

(* A revocation fails: the cancellation stops with the order untouched,    *)
(* whether or not inventory-storage carried the call out.                  *)
RevokeFails(r) ==
  /\ pc[r] = "revoke"
  /\ \E l \in todo[r] :
       /\ IsNextLine(r, l)
       /\ reservations' \in {reservations, InventoryRevoke(ord[r].reservation[l])}
  /\ Finish(r)
  /\ UNCHANGED <<row, outbox, answers, late>>

CancelLines(r) ==
  /\ pc[r] = "revoke" /\ todo[r] = {}
  /\ EnsureCancellable(ord[r])
  /\ Goto(r, "save", Cancel(ord[r]), {}, <<Ev("OrderCancelled", {})>>)
  /\ UNCHANGED <<row, outbox, op, inventoryVars>>

----------------------------------------------------------------------------
(* A request's own step: everything but the crash. *)
Step(r) ==
  \/ LoadLines(r)
  \/ RetryAllocation(r) \/ ReleaseHeldOrder(r) \/ CancelOrder(r) \/ RepromiseOrder(r)
  \/ ReserveLine(r) \/ ReserveFails(r) \/ AllocationDone(r)
  \/ ReconfirmLine(r) \/ ReconfirmFails(r) \/ ReleaseLines(r)
  \/ RevokeReservation(r) \/ RevokeFails(r) \/ CancelLines(r)
  \/ Save(r)

Next ==
  \/ \E r \in Requests :
       \/ ReceiveOrder(r)
       \/ \E use \in Ops : LoadHeader(r, use)
       \/ Step(r)
       \/ Crash(r)
  \/ ExpireReservation
  \/ LateReserve

Spec == Init /\ [][Next]_vars

----------------------------------------------------------------------------
TypeOK ==
  /\ row \in Order
  /\ outbox \in Seq(Event)
  /\ pc \in [Requests -> Stage]
  /\ op \in [Requests -> Ops \cup {"none", "receive"}]
  /\ ord \in [Requests -> Order]
  /\ todo \in [Requests -> SUBSET Lines]
  /\ tx \in [Requests -> Seq(Event)]
  /\ reservations \in Seq([goods : {Goods[l] : l \in Lines},
                           state : {"active", "expired", "revoked"}])
  /\ answers \subseteq [line : Lines, attempt : Nat, id : Nat]
  /\ late \subseteq [line : Lines, attempt : Nat]

----------------------------------------------------------------------------
(* Safety *)

ReleasedLines == LinesWithStatus(row, "Released")

(* Whether the i-th outbox row tells wes-work-planning that l is released. *)
AnnouncesRelease(e, l) ==
  e.type \in {"OrderAllocated", "OrderPartiallyAllocated"} /\ l \in e.lines

(* BR3 on the stored order: a ship-complete order is released as a whole   *)
(* or not at all, whatever passes raced each other (EnsureReleasable runs  *)
(* on a private copy; only the version guard of Save makes it binding).    *)
ShipCompleteTogether ==
  row.intent.partial \/ ReleasedLines \in {{}, Lines}

(* wes-work-planning learns of released lines only from the outcome event: *)
(* a line is announced as released exactly when the stored order says so,  *)
(* and never twice (publishOrderAllocationOutcome commits with the Save).  *)
ReleasedAnnouncedOnce ==
  \A l \in Lines :
    /\ l \in ReleasedLines <=> \E i \in DOMAIN outbox : AnnouncesRelease(outbox[i], l)
    /\ \A i, j \in DOMAIN outbox :
         AnnouncesRelease(outbox[i], l) /\ AnnouncesRelease(outbox[j], l) => i = j

(* A held order (releaseOnAllocation = false) reaches the floor only after *)
(* a ReleaseHeldOrder request: no retry or intake pass releases it.        *)
HeldUntilReleased ==
  row.intent.held /\ ReleasedLines # {} =>
    \E r \in Requests : op[r] = "releaseHeld" /\ pc[r] = "done"

(* An Allocated or Released line records a reservation that was made for   *)
(* its SKU and quantity, whichever calls raced, failed or came late: no    *)
(* two lines that ask for different goods record the same one.  A Pending  *)
(* or Backordered line records none.                                       *)
ReservationsBelong ==
  \A l \in Lines :
    LET id == row.reservation[l]
    IN  /\ row.status[l] \in {"Allocated", "Released"} =>
             id \in DOMAIN reservations /\ reservations[id].goods = Goods[l]
        /\ row.status[l] \in {"Pending", "Backordered"} => id = 0

(* CancelOrder gives the stock back: no reservation a cancelled order      *)
(* still records is active upstream, even when the cancellation raced a    *)
(* retry or a release.                                                     *)
CancelledHoldsNoStock ==
  \A l \in Lines :
    row.status[l] = "Cancelled" /\ row.reservation[l] # 0 =>
      reservations[row.reservation[l]].state # "active"

(* Every Allocated or Released line of an order without a deadline has a   *)
(* promise, and a ship-complete order has one promise for all its lines    *)
(* (setPromiseDate runs before the release leg and before salvage saves).  *)
AllocatedLinesPromised ==
  /\ ~row.intent.deadline =>
       \A l \in Lines : row.status[l] \in {"Allocated", "Released"} =>
                         row.promise[l] # NoPromise
  /\ ~row.intent.partial =>
       \A l, m \in Lines :
         NoPromise \in {row.promise[l], row.promise[m]} \/ row.promise[l] = row.promise[m]

(* Intake and retries keep to requiredShipBy: until RepromiseOrder first   *)
(* commits, an order with a deadline is promised a window at or before it  *)
(* or nothing (setPromiseDate asks FeasibleBy in every pass, salvage       *)
(* included).  RepromiseOrder does not look at the deadline.               *)
DeadlineKept ==
  row.intent.deadline /\ ~Announces(outbox, "OrderRepromised") =>
    \A l \in Lines : row.promise[l] \in OnTime \cup {NoPromise}

(* A change of the stored order and its events commit together: a line     *)
(* that becomes Allocated or Released brings OrderLineAllocated unless it  *)
(* was Allocated already, a line that becomes Backordered brings           *)
(* OrderLineBackordered, and OrderRepromised comes only with a promise     *)
(* that moved: what RepromiseOrder compared is what Save replaces.         *)
EventsMatchChanges ==
  LET new == (Len(outbox) + 1)..Len(outbox')
      Carries(t, l) == \E i \in new : outbox'[i] = Ev(t, {l})
  IN  \A l \in Lines :
        /\ /\ row.status[l] \in {"Pending", "Backordered"}
           /\ row'.status[l] \in {"Allocated", "Released"}
           => Carries("OrderLineAllocated", l)
        /\ row.status[l] # "Backordered" /\ row'.status[l] = "Backordered"
           => Carries("OrderLineBackordered", l)
        /\ Carries("OrderRepromised", l) =>
             /\ NoPromise \notin {row.promise[l], row'.promise[l]}
             /\ row'.promise[l] # row.promise[l]

(* No commit of the order goes without the events EventsMatchChanges asks  *)
(* for (Save and its publishes share one transaction).                     *)
ChangesCarryEvents == [][EventsMatchChanges]_vars

(* No line is released on a reservation taken by an earlier pass: the pass *)
(* that releases it asked inventory-storage again, under its own attempt   *)
(* (reconfirmAllocatedLines covers what allocateLines did not).            *)
ReleasesReconfirmed ==
  \A l \in Lines :
    row.status[l] # "Released" /\ row'.status[l] = "Released" =>
      [line |-> l, attempt |-> row'.version - 1, id |-> row'.reservation[l]] \in answers

(* Every commit that releases a line is one ReleasesReconfirmed allows. *)
ReleasedLinesReconfirmed == [][ReleasesReconfirmed]_vars

(* What the contract sees of the state. *)
AnnouncedLines ==
  {l \in Lines : \E i \in DOMAIN outbox : AnnouncesRelease(outbox[i], l)}

Contract == INSTANCE OrderContract WITH
  exists <- row.version > 0, partial <- row.intent.partial, status <- row.status, announced <- AnnouncedLines

(* The service keeps its contract: each step of the stored order and its   *)
(* announcements is one atomic pass, cancellation or intake, although the  *)
(* use cases take many steps on private copies.                            *)
ImplementsContract == Contract!ContractSpec

----------------------------------------------------------------------------
(* Why the version guard is enough: the inductive invariant.               *)

Busy(r) == pc[r] \notin {"idle", "done"}

(* The release announcements in a list of events: for which lines, and     *)
(* never twice for one.                                                    *)
Releases(events, S) ==
  \A l \in Lines :
    /\ l \in S <=> \E i \in DOMAIN events : AnnouncesRelease(events[i], l)
    /\ \A i, j \in DOMAIN events :
         AnnouncesRelease(events[i], l) /\ AnnouncesRelease(events[j], l) => i = j

(* o could be what a pass makes of the stored order. *)
MovesLegally(o) ==
  \A l \in Lines : o.status[l] \in Contract!PassMoves(row.status[l])

(* o is what a pass makes of the stored order before it releases lines. *)
ReleasesNothing(o) ==
  \A l \in Lines : o.status[l] = "Released" <=> row.status[l] = "Released"

PassToSave(o, events) ==
  /\ MovesLegally(o)
  /\ \/ o.intent.partial \/ ReleasesNothing(o)
     \/ \A l \in Lines : o.status[l] = "Released"
  /\ Releases(events, Contract!Newly(row.status, o.status))

CancelToSave(o, events) ==
  /\ row.version > 0
  /\ ReleasedLines = {}
  /\ o.status = [l \in Lines |-> "Cancelled"]
  /\ Releases(events, {})

(* A copy of the order is never ahead of the row its transaction sees, and *)
(* as long as it is at that row's version, what its request has done to it *)
(* so far is a legal pass or cancellation of the stored order, with the    *)
(* announcements that go with it.  A copy at an older version may be       *)
(* anything: Save rejects it (the optimistic lock of order_repo.go).       *)
CopyTracksRow(seen, stage, o, events) ==
  /\ o.version \in 1..seen.version
  /\ o.intent = seen.intent
  /\ stage \in {"reserve", "reconfirm"} => Releases(events, {})
  /\ o.version = seen.version =>
       /\ stage \in {"groups", "revoke"} => o.status = row.status
       /\ stage \in {"reserve", "reconfirm"} => MovesLegally(o) /\ ReleasesNothing(o)
       /\ stage = "save" => PassToSave(o, events) \/ CancelToSave(o, events)

(* Until intake commits there is no row, and only one request knows the    *)
(* order; from then on every request under way tracks the row.             *)
VersionGuardSuffices ==
  /\ row.version = 0 => row = NoOrder
  /\ \A r \in Requests : Busy(r) => CopyTracksRow(Seen(r), pc[r], ord[r], tx[r])
  /\ \A r \in Requests :
       op[r] = "receive" =>
         /\ Busy(r) => row.version = 0 /\ pc[r] \in {"reserve", "reconfirm", "save"}
         /\ \A q \in Requests : op[q] = "receive" => q = r

----------------------------------------------------------------------------
(* What the repository's comments say of the code, and the code does not do. *)

(* ReceiveOrder: "A human/operator can always drive further progress via   *)
(* RetryAllocation".  Once every request has ended, an order with a line   *)
(* left Pending has a Backordered line, without which RetryAllocation      *)
(* answers ErrNoBackorderedLines.                                          *)
PendingOrdersRetriable ==
  /\ \A r \in Requests : pc[r] \in {"idle", "done"}
  /\ row.version > 0
  /\ LinesWithStatus(row, "Pending") # {}
  => LinesWithStatus(row, "Backordered") # {}

(* CancelOrder: "a rejected cancellation leaves inventory-storage          *)
(* completely untouched".  A cancellation that does not cancel the order   *)
(* never leaves a released line on a reservation it revoked.               *)
ReleasedNotRevoked ==
  \A l \in ReleasedLines : reservations[row.reservation[l]].state # "revoked"
=============================================================================
