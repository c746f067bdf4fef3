----------------------- MODULE OrderLifecycleProofs -----------------------
(***************************************************************************)
(* Proofs about OrderLifecycle, for any set of lines, any set of requests  *)
(* and any promises: its types, and with StockInv what becomes of the      *)
(* reservations at inventory-storage.                                      *)
(*                                                                         *)
(* Then the stored order is safe.  BR3 holds of the row, released lines    *)
(* are announced exactly once, and OrderLifecycle implements               *)
(* OrderContract: these follow from the inductive invariant                *)
(* VersionGuardSuffices.  Beside it PromiseInv gives the theorems about    *)
(* promises and deadlines, and PassInv those about held orders,            *)
(* reconfirmed reservations and the events of a change.                    *)
(***************************************************************************)
EXTENDS OrderLifecycle, SequenceTheorems, TLAPS

----------------------------------------------------------------------------
(* The aggregate's methods keep an order an order, and touch nothing but   *)
(* what they name (internal/domain/order/order.go).                        *)

LEMMA NewOrder ==
  ASSUME NEW intent \in Intent
  PROVE  /\ New(intent) \in Order
         /\ New(intent).version = 1
         /\ New(intent).intent = intent
         /\ New(intent).status = [l \in Lines |-> "Pending"]
         /\ New(intent).reservation = [l \in Lines |-> 0]
         /\ New(intent).promise = [l \in Lines |-> NoPromise]
BY PromisesAssumption DEF New, Order, LineStatus

LEMMA NoOrderType ==
  /\ NoOrder \in Order
  /\ NoOrder.version = 0
  /\ NoOrder.intent \in Intent
  /\ NoOrder.intent.partial = FALSE
  /\ NoOrder.status = [l \in Lines |-> "Pending"]
  /\ NoOrder.reservation = [l \in Lines |-> 0]
  /\ NoOrder.promise = [l \in Lines |-> NoPromise]
<1> DEFINE intent == [partial |-> FALSE, held |-> FALSE, deadline |-> FALSE]
<1>1. intent \in Intent
  BY DEF Intent
<1>2. New(intent) \in Order /\ New(intent).intent = intent
      /\ New(intent).status = [l \in Lines |-> "Pending"]
      /\ New(intent).reservation = [l \in Lines |-> 0]
      /\ New(intent).promise = [l \in Lines |-> NoPromise]
  BY <1>1, NewOrder
<1> HIDE DEF intent
<1>3. NoOrder = [New(intent) EXCEPT !.version = 0]
  BY DEF NoOrder, intent
<1>4. NoOrder \in Order /\ NoOrder.version = 0 /\ NoOrder.intent = intent
      /\ NoOrder.status = New(intent).status
      /\ NoOrder.reservation = New(intent).reservation
      /\ NoOrder.promise = New(intent).promise
  BY <1>2, <1>3 DEF Order
<1>5. intent.partial = FALSE
  BY DEF intent
<1> QED BY <1>1, <1>2, <1>4, <1>5

(* A method that answers a reserve call changes the status and the         *)
(* reservation of its line only.                                           *)
LEMMA AllocateKeeps ==
  ASSUME NEW o \in Order, NEW l \in Lines, NEW id \in Nat
  PROVE  /\ Allocate(o, l, id) \in Order
         /\ Allocate(o, l, id).version = o.version
         /\ Allocate(o, l, id).intent = o.intent
         /\ Allocate(o, l, id).status = [o.status EXCEPT ![l] = "Allocated"]
         /\ Allocate(o, l, id).reservation = [o.reservation EXCEPT ![l] = id]
         /\ Allocate(o, l, id).promise = o.promise
<1> DEFINE S == [o.status EXCEPT ![l] = "Allocated"]
           R == [o.reservation EXCEPT ![l] = id]
<1>1. S \in [Lines -> LineStatus] /\ R \in [Lines -> Nat]
  BY DEF Order, LineStatus
<1>2. Allocate(o, l, id) = [o EXCEPT !.status = S, !.reservation = R]
  BY DEF Allocate, Order
<1> HIDE DEF S, R
<1>3. /\ Allocate(o, l, id) \in Order /\ Allocate(o, l, id).version = o.version
      /\ Allocate(o, l, id).intent = o.intent /\ Allocate(o, l, id).status = S
      /\ Allocate(o, l, id).reservation = R /\ Allocate(o, l, id).promise = o.promise
  BY <1>1, <1>2 DEF Order
<1> QED BY <1>3 DEF S, R

LEMMA ReconfirmKeeps ==
  ASSUME NEW o \in Order, NEW l \in Lines, NEW id \in Nat
  PROVE  /\ ReconfirmReservation(o, l, id) \in Order
         /\ ReconfirmReservation(o, l, id).version = o.version
         /\ ReconfirmReservation(o, l, id).intent = o.intent
         /\ ReconfirmReservation(o, l, id).status = o.status
         /\ ReconfirmReservation(o, l, id).reservation = [o.reservation EXCEPT ![l] = id]
         /\ ReconfirmReservation(o, l, id).promise = o.promise
<1> DEFINE R == [o.reservation EXCEPT ![l] = id]
<1>1. R \in [Lines -> Nat]
  BY DEF Order
<1>2. ReconfirmReservation(o, l, id) = [o EXCEPT !.reservation = R]
  BY DEF ReconfirmReservation, Order
<1> HIDE DEF R
<1>3. LET p == ReconfirmReservation(o, l, id)
      IN  /\ p \in Order /\ p.version = o.version /\ p.intent = o.intent /\ p.status = o.status
          /\ p.reservation = R /\ p.promise = o.promise
  BY <1>1, <1>2 DEF Order
<1> QED BY <1>3 DEF R

LEMMA LoseKeeps ==
  ASSUME NEW o \in Order, NEW l \in Lines
  PROVE  /\ LoseReservation(o, l) \in Order
         /\ LoseReservation(o, l).version = o.version
         /\ LoseReservation(o, l).intent = o.intent
         /\ LoseReservation(o, l).status = [o.status EXCEPT ![l] = "Backordered"]
         /\ LoseReservation(o, l).reservation = [o.reservation EXCEPT ![l] = 0]
         /\ LoseReservation(o, l).promise = o.promise
<1> DEFINE S == [o.status EXCEPT ![l] = "Backordered"]
           R == [o.reservation EXCEPT ![l] = 0]
<1>1. S \in [Lines -> LineStatus] /\ R \in [Lines -> Nat]
  BY DEF Order, LineStatus
<1>2. LoseReservation(o, l) = [o EXCEPT !.status = S, !.reservation = R]
  BY DEF LoseReservation, Order
<1> HIDE DEF S, R
<1>3. /\ LoseReservation(o, l) \in Order /\ LoseReservation(o, l).version = o.version
      /\ LoseReservation(o, l).intent = o.intent /\ LoseReservation(o, l).status = S
      /\ LoseReservation(o, l).reservation = R /\ LoseReservation(o, l).promise = o.promise
  BY <1>1, <1>2 DEF Order
<1> QED BY <1>3 DEF S, R

LEMMA BackorderKeeps ==
  ASSUME NEW o \in Order, NEW l \in Lines
  PROVE  /\ MarkBackordered(o, l) \in Order
         /\ MarkBackordered(o, l).version = o.version
         /\ MarkBackordered(o, l).intent = o.intent
         /\ MarkBackordered(o, l).status = [o.status EXCEPT ![l] = "Backordered"]
         /\ MarkBackordered(o, l).reservation = o.reservation
         /\ MarkBackordered(o, l).promise = o.promise
<1> DEFINE S == [o.status EXCEPT ![l] = "Backordered"]
<1>1. S \in [Lines -> LineStatus]
  BY DEF Order, LineStatus
<1>2. MarkBackordered(o, l) = [o EXCEPT !.status = S]
  BY DEF MarkBackordered, Order
<1> HIDE DEF S
<1>3. /\ MarkBackordered(o, l) \in Order /\ MarkBackordered(o, l).version = o.version
      /\ MarkBackordered(o, l).intent = o.intent /\ MarkBackordered(o, l).status = S
      /\ MarkBackordered(o, l).reservation = o.reservation /\ MarkBackordered(o, l).promise = o.promise
  BY <1>1, <1>2 DEF Order
<1> QED BY <1>3 DEF S

(* Release, Cancel and SetPromiseGroups. *)
LEMMA ReleaseKeeps ==
  ASSUME NEW o \in Order, NEW S \in SUBSET Lines
  PROVE  /\ Release(o, S) \in Order
         /\ Release(o, S).version = o.version
         /\ Release(o, S).intent = o.intent
         /\ Release(o, S).status = [l \in Lines |-> IF l \in S THEN "Released" ELSE o.status[l]]
         /\ Release(o, S).reservation = o.reservation
         /\ Release(o, S).promise = o.promise
<1> DEFINE status == [l \in Lines |-> IF l \in S THEN "Released" ELSE o.status[l]]
<1>1. status \in [Lines -> LineStatus]
  BY DEF Order, LineStatus
<1>2. Release(o, S) = [o EXCEPT !.status = status]
  BY DEF Release, Order
<1> HIDE DEF status
<1>3. /\ [o EXCEPT !.status = status] \in Order
      /\ [o EXCEPT !.status = status].status = status
  BY <1>1 DEF Order
<1> QED BY <1>2, <1>3 DEF Order, status

LEMMA CancelKeeps ==
  ASSUME NEW o \in Order
  PROVE  /\ Cancel(o) \in Order
         /\ Cancel(o).version = o.version
         /\ Cancel(o).intent = o.intent
         /\ Cancel(o).status = [l \in Lines |-> "Cancelled"]
         /\ Cancel(o).reservation = o.reservation
         /\ Cancel(o).promise = o.promise
<1>1. [l \in Lines |-> "Cancelled"] \in [Lines -> LineStatus]
  BY DEF LineStatus
<1> QED BY <1>1 DEF Order, Cancel

LEMMA SetPromiseGroupsKeeps ==
  ASSUME NEW o \in Order, NEW g \in [Lines -> Promises \cup {NoPromise}]
  PROVE  /\ SetPromiseGroups(o, g) \in Order
         /\ SetPromiseGroups(o, g).version = o.version
         /\ SetPromiseGroups(o, g).intent = o.intent
         /\ SetPromiseGroups(o, g).status = o.status
         /\ SetPromiseGroups(o, g).reservation = o.reservation
         /\ SetPromiseGroups(o, g).promise = g
BY DEF Order, SetPromiseGroups

(* The promise policies answer with promise groups over the lines, so      *)
(* setting a promise changes no line's status (setPromiseDate).            *)
LEMMA PromiseGroupsType ==
  ASSUME NEW o \in Order
  PROVE  /\ PromiseGroups(o) \subseteq [Lines -> Promises \cup {NoPromise}]
         /\ FeasibleGroups(o) \subseteq [Lines -> Promises \cup {NoPromise}]
<1>1. ASSUME NEW g \in PromiseGroups(o) PROVE g \in [Lines -> Promises \cup {NoPromise}]
  BY <1>1 DEF PromiseGroups
<1>2. ASSUME NEW g \in FeasibleGroups(o) PROVE g \in [Lines -> Promises \cup {NoPromise}]
  BY <1>2, OnTimeAssumption DEF FeasibleGroups
<1> QED BY <1>1, <1>2

LEMMA SetPromiseDateKeeps ==
  ASSUME NEW o \in Order, NEW p \in SetPromiseDate(o)
  PROVE  p \in Order /\ p.version = o.version /\ p.intent = o.intent /\ p.status = o.status
         /\ p.reservation = o.reservation
<1>1. CASE p = o
  BY <1>1
<1>2. CASE \E g \in PromiseGroups(o) \cup FeasibleGroups(o) : p = SetPromiseGroups(o, g)
  <2>1. PICK g \in [Lines -> Promises \cup {NoPromise}] : p = SetPromiseGroups(o, g)
    BY <1>2, PromiseGroupsType
  <2> QED BY <2>1, SetPromiseGroupsKeeps
<1> QED BY <1>1, <1>2 DEF SetPromiseDate

(* The outcome event is an event, and names only released lines. *)
LEMMA OutcomeType ==
  ASSUME NEW o, NEW events, NEW S \in SUBSET Lines
  PROVE  Outcome(o, events, S) \in Seq(Event)
<1>1. Ev("OrderAllocated", S) \in Event /\ Ev("OrderPartiallyAllocated", S) \in Event
  BY DEF Ev, Event, EventType
<1> QED BY <1>1 DEF Outcome

----------------------------------------------------------------------------
(* Type correctness *)

(* The part of TypeOK about one request. *)
RequestTypes ==
  /\ pc \in [Requests -> Stage]
  /\ op \in [Requests -> Ops \cup {"none", "receive"}]
  /\ ord \in [Requests -> Order]
  /\ todo \in [Requests -> SUBSET Lines]
  /\ tx \in [Requests -> Seq(Event)]

LEMMA GotoType ==
  ASSUME RequestTypes, NEW r \in Requests, NEW stage \in Stage, NEW o \in Order,
         NEW S \in SUBSET Lines, NEW events \in Seq(Event),
         Goto(r, stage, o, S, events),
         op' \in [Requests -> Ops \cup {"none", "receive"}]
  PROVE  RequestTypes'
BY DEF RequestTypes, Goto

LEMMA FinishType ==
  ASSUME RequestTypes, NEW r \in Requests, Finish(r)
  PROVE  RequestTypes'
BY NoOrderType, EmptySeq DEF RequestTypes, Finish, Stage

Reservation == [goods : {Goods[l] : l \in Lines}, state : {"active", "expired", "revoked"}]
Answer == [line : Lines, attempt : Nat, id : Nat]

LEMMA ReservationState ==
  ASSUME NEW e \in Reservation, NEW x \in {"active", "expired", "revoked"}
  PROVE  [e EXCEPT !.state = x] \in Reservation
BY DEF Reservation

(* A reservation changes state (revocation, expiry). *)
LEMMA ReservationsExcept ==
  ASSUME reservations \in Seq(Reservation), NEW id \in DOMAIN reservations,
         NEW x \in {"active", "expired", "revoked"}
  PROVE  [reservations EXCEPT ![id].state = x] \in Seq(Reservation)
<1>1. id \in 1..Len(reservations) /\ reservations[id] \in Reservation
  BY LenProperties, ElementOfSeq
<1>2. [reservations[id] EXCEPT !.state = x] \in Reservation
  BY <1>1, ReservationState
<1> QED BY <1>1, <1>2, ExceptSeq

LEMMA InventoryType ==
  ASSUME reservations \in Seq(Reservation), answers \subseteq Answer,
         NEW l \in Lines, NEW attempt \in Nat, NEW id \in Nat,
         InventoryReserve(l, attempt, id)
  PROVE  reservations' \in Seq(Reservation) /\ answers' \subseteq Answer
<1>1. [goods |-> Goods[l], state |-> "active"] \in Reservation
  BY DEF Reservation
<1>2. Append(reservations, [goods |-> Goods[l], state |-> "active"]) \in Seq(Reservation)
  BY <1>1, AppendProperties
<1>3. [line |-> l, attempt |-> attempt, id |-> id] \in Answer
  BY DEF Answer
<1>4. answers' = answers \/ answers' = answers \cup {[line |-> l, attempt |-> attempt, id |-> id]}
  BY DEF InventoryReserve
<1>5. reservations' = reservations
      \/ reservations' = Append(reservations, [goods |-> Goods[l], state |-> "active"])
  BY DEF InventoryReserve
<1>6. answers' \subseteq Answer
  BY <1>3, <1>4
<1> QED BY <1>2, <1>5, <1>6

LEMMA RevokeType ==
  ASSUME reservations \in Seq(Reservation), NEW id
  PROVE  InventoryRevoke(id) \in Seq(Reservation)
BY ReservationsExcept DEF InventoryRevoke

StoreTypes == row \in Order /\ outbox \in Seq(Event)

InventoryTypes ==
  /\ reservations \in Seq(Reservation)
  /\ answers \subseteq Answer
  /\ late \subseteq [line : Lines, attempt : Nat]

LEMMA TypeParts ==
  /\ TypeOK <=> RequestTypes /\ StoreTypes /\ InventoryTypes
  /\ TypeOK' <=> RequestTypes' /\ StoreTypes' /\ InventoryTypes'
BY DEF TypeOK, RequestTypes, StoreTypes, InventoryTypes, Reservation, Answer

LEMMA RequestFacts ==
  ASSUME RequestTypes, NEW r \in Requests
  PROVE  /\ ord[r] \in Order /\ todo[r] \in SUBSET Lines /\ tx[r] \in Seq(Event)
         /\ ord[r].version \in Nat /\ op \in [Requests -> Ops \cup {"none", "receive"}]
BY DEF RequestTypes, Order

LEMMA EventFacts ==
  ASSUME NEW t \in EventType, NEW S \in SUBSET Lines
  PROVE  Ev(t, S) \in Event /\ <<Ev(t, S)>> \in Seq(Event)
BY DEF Ev, Event

LEMMA AppendEvent ==
  ASSUME NEW events \in Seq(Event), NEW t \in EventType, NEW S \in SUBSET Lines
  PROVE  Append(events, Ev(t, S)) \in Seq(Event)
BY EventFacts, AppendProperties

(* Intake and loading. *)
LEMMA IntakeType ==
  ASSUME TypeOK, NEW r \in Requests,
         ReceiveOrder(r) \/ (\E use \in Ops : LoadHeader(r, use)) \/ LoadLines(r)
  PROVE  TypeOK'
<1> USE TypeParts
<1>1. CASE ReceiveOrder(r)
  <2>1. PICK intent \in Intents :
          Goto(r, "reserve", New(intent), LinesWithStatus(New(intent), "Pending"),
               <<Ev("OrderReceived", {})>>)
    BY <1>1 DEF ReceiveOrder
  <2>2. New(intent) \in Order /\ LinesWithStatus(New(intent), "Pending") \in SUBSET Lines
    BY IntentsAssumption, NewOrder DEF LinesWithStatus
  <2>3. op' \in [Requests -> Ops \cup {"none", "receive"}]
    BY <1>1, RequestFacts DEF ReceiveOrder
  <2>4. <<Ev("OrderReceived", {})>> \in Seq(Event)
    BY EventFacts DEF EventType
  <2>5. RequestTypes'
    BY <2>1, <2>2, <2>3, <2>4, GotoType DEF Stage
  <2> QED BY <1>1, <2>5 DEF ReceiveOrder, inventoryVars, StoreTypes, InventoryTypes
<1>2. CASE \E use \in Ops : LoadHeader(r, use)
  <2>1. PICK use \in Ops : LoadHeader(r, use)
    BY <1>2
  <2> DEFINE o == [New(row.intent) EXCEPT !.version = row.version]
  <2>2. row.intent \in Intent /\ row.version \in Nat
    BY DEF StoreTypes, Order
  <2>3. o \in Order
    BY <2>2, NewOrder DEF Order
  <2>4. op' \in [Requests -> Ops \cup {"none", "receive"}]
    BY <2>1, RequestFacts DEF LoadHeader
  <2>5. Goto(r, "lines", o, {}, <<>>)
    BY <2>1 DEF LoadHeader
  <2>6. RequestTypes'
    BY <2>3, <2>4, <2>5, GotoType, EmptySeq DEF Stage
  <2> QED BY <2>1, <2>6 DEF LoadHeader, inventoryVars, StoreTypes, InventoryTypes
<1>3. CASE LoadLines(r)
  <2> DEFINE o == [ord[r] EXCEPT !.status = row.status, !.reservation = row.reservation]
  <2>1. o \in Order
    BY RequestFacts DEF StoreTypes, Order
  <2>2. Goto(r, "groups", o, {}, <<>>) /\ op' = op
    BY <1>3 DEF LoadLines
  <2>3. RequestTypes'
    BY <2>1, <2>2, RequestFacts, GotoType, EmptySeq DEF Stage
  <2> QED BY <1>3, <2>3 DEF LoadLines, inventoryVars, StoreTypes, InventoryTypes
<1> QED BY <1>1, <1>2, <1>3

LEMMA LoadedType ==
  ASSUME TypeOK, NEW r \in Requests
  PROVE  /\ Loaded(r) \in Order
         /\ Loaded(r).version = ord[r].version
         /\ Loaded(r).intent = ord[r].intent
         /\ Loaded(r).status = ord[r].status
         /\ Loaded(r).reservation = ord[r].reservation
         /\ Loaded(r).promise = row.promise
<1>1. row.promise \in [Lines -> Promises \cup {NoPromise}] /\ ord[r] \in Order
  BY TypeParts, RequestFacts DEF StoreTypes, Order
<1> QED BY <1>1, SetPromiseGroupsKeeps DEF Loaded

(* The use cases up to their first call or their Save. *)
LEMMA UseCaseType ==
  ASSUME TypeOK, NEW r \in Requests,
         RetryAllocation(r) \/ ReleaseHeldOrder(r) \/ CancelOrder(r) \/ RepromiseOrder(r)
  PROVE  TypeOK'
<1> USE TypeParts
<1>1. Loaded(r) \in Order
  BY LoadedType
<1>2. StoreTypes' /\ InventoryTypes'
  BY DEF RetryAllocation, ReleaseHeldOrder, CancelOrder, RepromiseOrder, inventoryVars,
         StoreTypes, InventoryTypes
<1>3. CASE Finish(r)
  BY <1>2, <1>3, FinishType
<1>4. CASE /\ op' = op
           /\ \E stage \in Stage, o \in Order, S \in SUBSET Lines, events \in Seq(Event) :
                Goto(r, stage, o, S, events)
  BY <1>2, <1>4, RequestFacts, GotoType
<1>5. CASE RetryAllocation(r) /\ ~Finish(r)
  <2>1. Goto(r, "reserve", Loaded(r), RetryLines(Loaded(r)), <<>>) /\ op' = op
    BY <1>5 DEF RetryAllocation
  <2>2. RetryLines(Loaded(r)) \in SUBSET Lines
    BY DEF RetryLines, LinesWithStatus
  <2> QED BY <1>1, <1>4, <2>1, <2>2, EmptySeq DEF Stage
<1>6. CASE ReleaseHeldOrder(r) /\ ~Finish(r)
  <2>1. Goto(r, "reserve", Loaded(r), {}, <<>>) /\ op' = op
    BY <1>6 DEF ReleaseHeldOrder
  <2> QED BY <1>1, <1>4, <2>1, EmptySeq DEF Stage
<1>7. CASE CancelOrder(r) /\ ~Finish(r)
  <2>1. Goto(r, "revoke", Loaded(r), AllocatedReservations(Loaded(r)), <<>>) /\ op' = op
    BY <1>7 DEF CancelOrder
  <2>2. AllocatedReservations(Loaded(r)) \in SUBSET Lines
    BY DEF AllocatedReservations, LinesWithStatus
  <2> QED BY <1>1, <1>4, <2>1, <2>2, EmptySeq DEF Stage
<1>8. CASE RepromiseOrder(r) /\ ~Finish(r)
  <2>1. PICK l \in Lines, g \in PromiseGroups(Loaded(r)) :
          /\ Goto(r, "save", SetPromiseGroups(Loaded(r), g), {}, <<Ev("OrderRepromised", {l})>>)
          /\ op' = op
    BY <1>8 DEF RepromiseOrder
  <2>2. g \in [Lines -> Promises \cup {NoPromise}]
    BY <1>1, PromiseGroupsType
  <2>3. SetPromiseGroups(Loaded(r), g) \in Order
    BY <1>1, <2>2, SetPromiseGroupsKeeps
  <2>4. <<Ev("OrderRepromised", {l})>> \in Seq(Event)
    BY EventFacts DEF EventType
  <2> QED BY <1>4, <2>1, <2>3, <2>4 DEF Stage
<1> QED BY <1>3, <1>5, <1>6, <1>7, <1>8

LEMMA SeenType ==
  ASSUME TypeOK, NEW r \in Requests
  PROVE  Seen(r) \in Order
<1>1. ord[r].intent \in Intent /\ row \in Order
  BY TypeParts, RequestFacts DEF StoreTypes, Order
<1> QED BY <1>1, NewOrder DEF Seen

LEMMA LateType ==
  ASSUME InventoryTypes, RequestTypes, NEW r \in Requests, NEW l \in todo[r],
         late' \in {late, late \cup {[line |-> l, attempt |-> ord[r].version]}}
  PROVE  late' \subseteq [line : Lines, attempt : Nat]
<1>1. l \in Lines /\ ord[r].version \in Nat
  BY RequestFacts
<1>2. [line |-> l, attempt |-> ord[r].version] \in [line : Lines, attempt : Nat]
  BY <1>1
<1> QED BY <1>2 DEF InventoryTypes

(* The pass. *)
LEMMA PassType ==
  ASSUME TypeOK, NEW r \in Requests,
         \/ ReserveLine(r) \/ ReserveFails(r) \/ AllocationDone(r)
         \/ ReconfirmLine(r) \/ ReconfirmFails(r) \/ ReleaseLines(r)
  PROVE  TypeOK'
<1> USE TypeParts
<1>0. ord[r] \in Order /\ todo[r] \in SUBSET Lines /\ tx[r] \in Seq(Event)
  BY RequestFacts
<1>1. ASSUME op' = op,
             NEW stage \in Stage, NEW o \in Order, NEW S \in SUBSET Lines, NEW events \in Seq(Event),
             Goto(r, stage, o, S, events)
      PROVE  RequestTypes'
  BY <1>1, RequestFacts, GotoType
<1>2. ASSUME NEW l \in todo[r], NEW id \in 0..(Len(reservations) + 1)
      PROVE  /\ l \in Lines /\ id \in Nat /\ todo[r] \ {l} \in SUBSET Lines
             /\ Append(tx[r], Ev("OrderLineBackordered", {l})) \in Seq(Event)
             /\ Append(tx[r], Ev("OrderLineAllocated", {l})) \in Seq(Event)
             /\ InventoryReserve(l, ord[r].version, id) /\ late' = late => InventoryTypes'
  <2>1. l \in Lines /\ id \in Nat /\ todo[r] \ {l} \in SUBSET Lines
    BY <1>0, <1>2, LenProperties DEF InventoryTypes
  <2>2. /\ Append(tx[r], Ev("OrderLineBackordered", {l})) \in Seq(Event)
        /\ Append(tx[r], Ev("OrderLineAllocated", {l})) \in Seq(Event)
    BY <1>0, <2>1, AppendEvent DEF EventType
  <2>3. InventoryReserve(l, ord[r].version, id) /\ late' = late => InventoryTypes'
    BY <2>1, RequestFacts, InventoryType DEF InventoryTypes
  <2> QED BY <2>1, <2>2, <2>3
<1>3. CASE ReserveLine(r)
  <2>1. PICK l \in todo[r], id \in 0..(Len(reservations) + 1) :
          /\ InventoryReserve(l, ord[r].version, id)
          /\ \/ Goto(r, "reserve", MarkBackordered(ord[r], l), todo[r] \ {l},
                     Append(tx[r], Ev("OrderLineBackordered", {l})))
             \/ Goto(r, "reserve", Allocate(ord[r], l, id), todo[r] \ {l},
                     Append(tx[r], Ev("OrderLineAllocated", {l})))
             \/ Goto(r, "reserve", RetryAllocate(ord[r], l, id), todo[r] \ {l},
                     Append(tx[r], Ev("OrderLineAllocated", {l})))
    BY <1>3 DEF ReserveLine
  <2>2. MarkBackordered(ord[r], l) \in Order /\ Allocate(ord[r], l, id) \in Order
        /\ RetryAllocate(ord[r], l, id) \in Order
    <3>1. l \in Lines /\ id \in Nat
      BY <1>2
    <3>2. MarkBackordered(ord[r], l) \in Order /\ Allocate(ord[r], l, id) \in Order
      BY <1>0, <3>1, BackorderKeeps, AllocateKeeps
    <3>3. RetryAllocate(ord[r], l, id) = Allocate(ord[r], l, id)
      BY DEF RetryAllocate, Allocate
    <3> QED BY <3>2, <3>3
  <2>3. op' = op /\ late' = late /\ row' = row /\ outbox' = outbox
    BY <1>3 DEF ReserveLine
  <2>4. "reserve" \in Stage
    BY DEF Stage
  <2>5. RequestTypes'
    BY <1>1, <1>2, <2>1, <2>2, <2>3, <2>4
  <2> QED BY <1>2, <2>1, <2>3, <2>5 DEF StoreTypes
<1>4. CASE ReserveFails(r)
  <2>1. PICK l \in todo[r] : late' \in {late, late \cup {[line |-> l, attempt |-> ord[r].version]}}
    BY <1>4 DEF ReserveFails
  <2>2. InventoryTypes'
    BY <1>4, <2>1, LateType DEF ReserveFails, InventoryTypes
  <2>3. CASE AnyAllocated(r)
    <3>1. PICK o \in SetPromiseDate(ord[r]) :
            Goto(r, "save", o, {}, Append(tx[r], Ev("OrderAllocationPartiallyFailed", {})))
      BY <1>4, <2>3 DEF ReserveFails
    <3>2. o \in Order
      BY <1>0, SetPromiseDateKeeps
    <3>3. Append(tx[r], Ev("OrderAllocationPartiallyFailed", {})) \in Seq(Event)
      BY <1>0, AppendEvent DEF EventType
    <3>4. op' = op /\ row' = row /\ outbox' = outbox /\ "save" \in Stage
      BY <1>4, <2>3 DEF ReserveFails, Stage
    <3> QED BY <1>1, <2>2, <3>1, <3>2, <3>3, <3>4 DEF StoreTypes
  <2>4. CASE ~AnyAllocated(r)
    <3>1. outbox' = outbox \o tx[r] /\ row' = Seen(r) /\ Finish(r)
      BY <1>4, <2>4 DEF ReserveFails
    <3>2. outbox' \in Seq(Event)
      BY <1>0, <3>1, ConcatProperties DEF StoreTypes
    <3>3. Seen(r) \in Order
      BY SeenType
    <3> QED BY <2>2, <3>1, <3>2, <3>3, FinishType DEF StoreTypes
  <2> QED BY <2>3, <2>4
<1>5. CASE AllocationDone(r)
  <2>1. PICK o \in SetPromiseDate(ord[r]) :
          \/ Goto(r, "reconfirm", o, ToReconfirm(r, o), tx[r])
          \/ Goto(r, "save", o, {}, tx[r] \o Outcome(o, tx[r], {}))
    BY <1>5 DEF AllocationDone
  <2>2. o \in Order /\ ToReconfirm(r, o) \in SUBSET Lines
    BY <1>0, SetPromiseDateKeeps DEF ToReconfirm, LinesWithStatus
  <2>3. tx[r] \o Outcome(o, tx[r], {}) \in Seq(Event)
    BY <1>0, OutcomeType, ConcatProperties
  <2>4. "reconfirm" \in Stage /\ "save" \in Stage
    BY DEF Stage
  <2>5. op' = op /\ row' = row /\ outbox' = outbox /\ InventoryTypes'
    BY <1>5 DEF AllocationDone, inventoryVars, InventoryTypes
  <2> QED BY <1>0, <1>1, <2>1, <2>2, <2>3, <2>4, <2>5 DEF StoreTypes
<1>6. CASE ReconfirmLine(r)
  <2>1. PICK l \in todo[r], id \in 0..(Len(reservations) + 1) :
          /\ InventoryReserve(l, ord[r].version, id)
          /\ \/ Goto(r, "reconfirm", LoseReservation(ord[r], l), todo[r] \ {l},
                     Append(tx[r], Ev("OrderLineBackordered", {l})))
             \/ Goto(r, "reconfirm", ReconfirmReservation(ord[r], l, id), todo[r] \ {l}, tx[r])
    BY <1>6 DEF ReconfirmLine
  <2>2. LoseReservation(ord[r], l) \in Order /\ ReconfirmReservation(ord[r], l, id) \in Order
    BY <1>0, <1>2, LoseKeeps, ReconfirmKeeps
  <2>3. op' = op /\ late' = late /\ row' = row /\ outbox' = outbox
    BY <1>6 DEF ReconfirmLine
  <2>4. "reconfirm" \in Stage
    BY DEF Stage
  <2>5. RequestTypes'
    BY <1>0, <1>1, <1>2, <2>1, <2>2, <2>3, <2>4
  <2> QED BY <1>2, <2>1, <2>3, <2>5 DEF StoreTypes
<1>7. CASE ReconfirmFails(r)
  <2>1. PICK l \in todo[r] : late' \in {late, late \cup {[line |-> l, attempt |-> ord[r].version]}}
    BY <1>7 DEF ReconfirmFails
  <2>2. InventoryTypes'
    BY <1>7, <2>1, LateType DEF ReconfirmFails, InventoryTypes
  <2> QED BY <1>7, <2>2, FinishType DEF ReconfirmFails, StoreTypes
<1>8. CASE ReleaseLines(r)
  <2>1. PICK S \in SUBSET Lines :
          Goto(r, "save", Release(ord[r], S), {},
               tx[r] \o Outcome(Release(ord[r], S), tx[r], S))
    BY <1>8 DEF ReleaseLines, LinesWithStatus
  <2>2. Release(ord[r], S) \in Order
    BY <1>0, <2>1, ReleaseKeeps
  <2>3. tx[r] \o Outcome(Release(ord[r], S), tx[r], S) \in Seq(Event)
    BY <1>0, OutcomeType, ConcatProperties
  <2>4. op' = op /\ row' = row /\ outbox' = outbox /\ InventoryTypes' /\ "save" \in Stage
    BY <1>8 DEF ReleaseLines, inventoryVars, InventoryTypes, Stage
  <2> QED BY <1>1, <2>1, <2>2, <2>3, <2>4 DEF StoreTypes
<1> QED BY <1>3, <1>4, <1>5, <1>6, <1>7, <1>8

(* The cancellation, the commit and the crash. *)
LEMMA RestType ==
  ASSUME TypeOK, NEW r \in Requests,
         \/ RevokeReservation(r) \/ RevokeFails(r) \/ CancelLines(r)
         \/ Save(r) \/ Crash(r)
  PROVE  TypeOK'
<1> USE TypeParts
<1>0. ord[r] \in Order /\ todo[r] \in SUBSET Lines /\ tx[r] \in Seq(Event)
  BY RequestFacts
<1>1. ASSUME op' = op,
             NEW stage \in Stage, NEW o \in Order, NEW S \in SUBSET Lines, NEW events \in Seq(Event),
             Goto(r, stage, o, S, events)
      PROVE  RequestTypes'
  BY <1>1, RequestFacts, GotoType
<1>2. CASE RevokeReservation(r)
  <2>1. PICK l \in todo[r] :
          /\ reservations' = InventoryRevoke(ord[r].reservation[l])
          /\ Goto(r, "revoke", ord[r], todo[r] \ {l}, tx[r])
    BY <1>2 DEF RevokeReservation
  <2>2. InventoryTypes'
    BY <1>2, <2>1, RevokeType DEF RevokeReservation, InventoryTypes
  <2>3. op' = op /\ row' = row /\ outbox' = outbox /\ "revoke" \in Stage
    BY <1>2 DEF RevokeReservation, Stage
  <2> QED BY <1>0, <1>1, <2>1, <2>2, <2>3 DEF StoreTypes
<1>3. CASE RevokeFails(r)
  <2>1. PICK l \in todo[r] :
          reservations' \in {reservations, InventoryRevoke(ord[r].reservation[l])}
    BY <1>3 DEF RevokeFails
  <2>2. InventoryTypes'
    BY <1>3, <2>1, RevokeType DEF RevokeFails, InventoryTypes
  <2> QED BY <1>3, <2>2, FinishType DEF RevokeFails, StoreTypes
<1>4. CASE CancelLines(r)
  <2>1. Goto(r, "save", Cancel(ord[r]), {}, <<Ev("OrderCancelled", {})>>) /\ op' = op
    BY <1>4 DEF CancelLines
  <2>2. Cancel(ord[r]) \in Order
    BY <1>0, CancelKeeps
  <2>3. <<Ev("OrderCancelled", {})>> \in Seq(Event) /\ "save" \in Stage
    BY EventFacts DEF EventType, Stage
  <2>4. StoreTypes' /\ InventoryTypes'
    BY <1>4 DEF CancelLines, inventoryVars, StoreTypes, InventoryTypes
  <2> QED BY <1>1, <2>1, <2>2, <2>3, <2>4
<1>5. CASE Save(r)
  <2>1. Finish(r) /\ InventoryTypes'
    BY <1>5 DEF Save, inventoryVars, InventoryTypes
  <2>2. [ord[r] EXCEPT !.version = Seen(r).version + 1] \in Order
    <3>1. Seen(r).version + 1 \in Nat
      BY SeenType DEF Order
    <3> QED BY <1>0, <3>1 DEF Order
  <2>3. outbox \o tx[r] \in Seq(Event)
    BY <1>0, ConcatProperties DEF StoreTypes
  <2>4. StoreTypes'
    BY <1>5, <2>2, <2>3 DEF Save, StoreTypes
  <2> QED BY <2>1, <2>4, FinishType
<1>6. CASE Crash(r)
  <2>1. late' = late \/ \E l \in todo[r] : late' = late \cup {[line |-> l, attempt |-> ord[r].version]}
    BY <1>6 DEF Crash
  <2>2. late' \subseteq [line : Lines, attempt : Nat]
    BY <2>1, LateType DEF InventoryTypes
  <2> QED BY <1>6, <2>2, FinishType DEF Crash, StoreTypes, InventoryTypes
<1> QED BY <1>2, <1>3, <1>4, <1>5, <1>6

(* inventory-storage on its own: a TTL lapses, a late call arrives. *)
LEMMA InventoryStepType ==
  ASSUME TypeOK, ExpireReservation \/ LateReserve
  PROVE  TypeOK'
<1> USE TypeParts
<1>1. CASE ExpireReservation
  <2>1. reservations' \in Seq(Reservation)
    BY <1>1, ReservationsExcept DEF ExpireReservation, InventoryTypes
  <2> QED BY <1>1, <2>1 DEF ExpireReservation, requestVars, RequestTypes, StoreTypes, InventoryTypes
<1>2. CASE LateReserve
  <2>1. PICK c \in late, id \in 0..(Len(reservations) + 1) :
          InventoryReserve(c.line, c.attempt, id) /\ late' = late \ {c}
    BY <1>2 DEF LateReserve
  <2>2. c.line \in Lines /\ c.attempt \in Nat /\ id \in Nat
    BY LenProperties DEF InventoryTypes
  <2>3. InventoryTypes'
    BY <2>1, <2>2, InventoryType DEF InventoryTypes
  <2> QED BY <1>2, <2>3 DEF LateReserve, requestVars, RequestTypes, StoreTypes
<1> QED BY <1>1, <1>2

LEMMA TypeInit == Init => TypeOK
BY NoOrderType, EmptySeq DEF Init, TypeOK, Stage

LEMMA TypeStep == TypeOK /\ [Next]_vars => TypeOK'
<1> SUFFICES ASSUME TypeOK, [Next]_vars PROVE TypeOK'
  OBVIOUS
<1>1. CASE UNCHANGED vars
  BY <1>1 DEF TypeOK, vars, requestVars, inventoryVars
<1>2. ASSUME NEW r \in Requests,
             ReceiveOrder(r) \/ (\E use \in Ops : LoadHeader(r, use)) \/ Step(r) \/ Crash(r)
      PROVE  TypeOK'
  BY <1>2, IntakeType, UseCaseType, PassType, RestType DEF Step
<1>3. CASE ExpireReservation \/ LateReserve
  BY <1>3, InventoryStepType
<1> QED BY <1>1, <1>2, <1>3 DEF Next

(* Every variable keeps its type, whatever the lines, the requests and the *)
(* promises: in particular the aggregate only ever holds line statuses and *)
(* the outbox only events a consumer knows.                                *)
THEOREM TypeCorrect == Spec => []TypeOK
BY TypeInit, TypeStep, PTL DEF Spec

----------------------------------------------------------------------------
(* A step of one request leaves the others where they stand. *)

RequestStep(r) ==
  ReceiveOrder(r) \/ (\E use \in Ops : LoadHeader(r, use)) \/ Step(r) \/ Crash(r)

OthersStay(r) ==
  \A q \in Requests \ {r} :
    /\ pc'[q] = pc[q] /\ op'[q] = op[q] /\ ord'[q] = ord[q]
    /\ todo'[q] = todo[q] /\ tx'[q] = tx[q]

LEMMA GotoStays ==
  ASSUME TypeOK, NEW r \in Requests, NEW stage, NEW o, NEW S, NEW events,
         Goto(r, stage, o, S, events)
  PROVE  /\ pc'[r] = stage /\ ord'[r] = o /\ todo'[r] = S /\ tx'[r] = events
         /\ \A q \in Requests \ {r} :
              pc'[q] = pc[q] /\ ord'[q] = ord[q] /\ todo'[q] = todo[q] /\ tx'[q] = tx[q]
         /\ op' = op => OthersStay(r)
BY DEF Goto, TypeOK, OthersStay

LEMMA FinishStays ==
  ASSUME TypeOK, NEW r \in Requests, Finish(r)
  PROVE  /\ pc'[r] = "done" /\ ord'[r] = NoOrder /\ todo'[r] = {} /\ tx'[r] = <<>> /\ op' = op
         /\ OthersStay(r)
BY DEF Finish, TypeOK, OthersStay

LEMMA RequestStays ==
  ASSUME TypeOK, NEW r \in Requests, RequestStep(r)
  PROVE  OthersStay(r)
<1> DEFINE Moves == \E stage, o, S, events : Goto(r, stage, o, S, events)
<1>1. Moves /\ op' = op => OthersStay(r)
  BY GotoStays
<1>2. Finish(r) => OthersStay(r)
  BY FinishStays
<1>3. ASSUME NEW x, Moves, op' = [op EXCEPT ![r] = x] PROVE OthersStay(r)
  <2>1. PICK stage, o, S, events : Goto(r, stage, o, S, events)
    BY <1>3
  <2>2. \A q \in Requests \ {r} :
          pc'[q] = pc[q] /\ ord'[q] = ord[q] /\ todo'[q] = todo[q] /\ tx'[q] = tx[q]
    BY <2>1, GotoStays
  <2>3. \A q \in Requests \ {r} : op'[q] = op[q]
    BY <1>3 DEF TypeOK
  <2> QED BY <2>2, <2>3 DEF OthersStay
<1>4. ASSUME NEW stage, NEW o, NEW S, NEW events, Goto(r, stage, o, S, events) PROVE Moves
  BY <1>4
<1> HIDE DEF Moves
<1>5. CASE ReceiveOrder(r)
  BY <1>3, <1>4, <1>5 DEF ReceiveOrder
<1>6. CASE \E use \in Ops : LoadHeader(r, use)
  BY <1>3, <1>4, <1>6 DEF LoadHeader
<1>7. CASE Crash(r) \/ Save(r) \/ ReconfirmFails(r) \/ RevokeFails(r)
  BY <1>2, <1>7 DEF Crash, Save, ReconfirmFails, RevokeFails
<1>8. CASE LoadLines(r) \/ RetryAllocation(r) \/ ReleaseHeldOrder(r) \/ CancelOrder(r)
  BY <1>1, <1>2, <1>4, <1>8 DEF LoadLines, RetryAllocation, ReleaseHeldOrder, CancelOrder
<1>9. CASE RepromiseOrder(r)
  BY <1>1, <1>2, <1>4, <1>9 DEF RepromiseOrder
<1>10. CASE ReserveLine(r) \/ ReserveFails(r)
  BY <1>1, <1>2, <1>4, <1>10 DEF ReserveLine, ReserveFails
<1>11. CASE AllocationDone(r) \/ ReconfirmLine(r) \/ ReleaseLines(r)
  BY <1>1, <1>4, <1>11 DEF AllocationDone, ReconfirmLine, ReleaseLines
<1>12. CASE RevokeReservation(r) \/ CancelLines(r)
  BY <1>1, <1>4, <1>12 DEF RevokeReservation, CancelLines
<1> QED BY <1>5, <1>6, <1>7, <1>8, <1>9, <1>10, <1>11, <1>12 DEF RequestStep, Step

----------------------------------------------------------------------------
(* The reservations an order records.                                      *)

(* A reservation that line l records was made for its goods; an Allocated  *)
(* or Released line records one, a Pending or Backordered line none, and   *)
(* what a Cancelled line records is no longer active.                      *)
LineAccounted(l, status, id, R) ==
  /\ id # 0 => id \in DOMAIN R /\ R[id].goods = Goods[l]
  /\ status \in {"Allocated", "Released"} => id # 0
  /\ status \in {"Pending", "Backordered"} => id = 0
  /\ status = "Cancelled" /\ id # 0 => R[id].state # "active"

Accounted(o, R) == \A l \in Lines : LineAccounted(l, o.status[l], o.reservation[l], R)

(* inventory-storage answers a line with a reservation for its goods. *)
AnswersBelong(A, R) ==
  \A a \in A : a.id # 0 => a.id \in DOMAIN R /\ R[a.id].goods = Goods[a.line]

(* What a cancellation has visited is given back. *)
RevokedSoFar(o, S, R) ==
  \A l \in Lines \ S :
    o.status[l] = "Allocated" => R[o.reservation[l]].state # "active"

(* The row and every copy, stale ones included, account for their stock. *)
StockInv ==
  /\ AnswersBelong(answers, reservations)
  /\ Accounted(row, reservations)
  /\ \A r \in Requests : Accounted(ord[r], reservations)
  /\ \A r \in Requests :
       pc[r] = "revoke" => RevokedSoFar(ord[r], todo[r], reservations)

(* Reservations are never forgotten, never change goods, and never become  *)
(* active again.                                                           *)
Outlives(S, R) ==
  /\ DOMAIN R \subseteq DOMAIN S
  /\ \A k \in DOMAIN R :
       S[k].goods = R[k].goods /\ (R[k].state # "active" => S[k].state # "active")

LEMMA AccountedOutlives ==
  ASSUME NEW o, NEW R, NEW S, Accounted(o, R), Outlives(S, R)
  PROVE  Accounted(o, S)
BY DEF Accounted, LineAccounted, Outlives

LEMMA RevokedOutlives ==
  ASSUME NEW o, NEW T, NEW R, NEW S, Accounted(o, R), RevokedSoFar(o, T, R), Outlives(S, R)
  PROVE  RevokedSoFar(o, T, S)
BY DEF Accounted, LineAccounted, Outlives, RevokedSoFar

LEMMA AnswersOutlive ==
  ASSUME NEW A, NEW R, NEW S, AnswersBelong(A, R), Outlives(S, R)
  PROVE  AnswersBelong(A, S)
BY DEF AnswersBelong, Outlives

LEMMA OutlivesItself ==
  ASSUME NEW R
  PROVE  Outlives(R, R)
BY DEF Outlives

LEMMA ReserveOutlives ==
  ASSUME TypeOK, AnswersBelong(answers, reservations),
         NEW l \in Lines, NEW attempt \in Nat, NEW id \in Nat,
         InventoryReserve(l, attempt, id)
  PROVE  /\ Outlives(reservations', reservations)
         /\ AnswersBelong(answers', reservations')
         /\ answers \subseteq answers'
         /\ [line |-> l, attempt |-> attempt, id |-> id] \in answers'
         /\ id # 0 => id \in DOMAIN reservations' /\ reservations'[id].goods = Goods[l]
<1> DEFINE new == [goods |-> Goods[l], state |-> "active"]
           answer == [line |-> l, attempt |-> attempt, id |-> id]
<1>1. reservations \in Seq(Reservation) /\ answers \subseteq Answer
  BY TypeParts DEF InventoryTypes
<1>2. new \in Reservation /\ new.goods = Goods[l] /\ answer.id = id /\ answer.line = l
  BY DEF Reservation
<1>3. CASE \E a \in Cached(l, attempt) : id = a.id /\ UNCHANGED <<reservations, answers>>
  <2>1. PICK a \in Cached(l, attempt) : id = a.id
    BY <1>3
  <2>2. a \in answers /\ a \in Answer /\ a.line = l /\ a.attempt = attempt
    BY <1>1, <2>1 DEF Cached
  <2>3. a = answer
    BY <2>1, <2>2 DEF Answer
  <2>4. reservations' = reservations /\ answers' = answers
    BY <1>3
  <2> QED BY <1>2, <2>2, <2>3, <2>4, OutlivesItself DEF AnswersBelong
<1>4. CASE answers' = answers \cup {answer}
  <2>1. CASE id \in Active(l) /\ reservations' = reservations
    <3>1. id \in DOMAIN reservations /\ reservations[id].goods = Goods[l]
      BY <2>1 DEF Active
    <3> QED BY <1>2, <1>4, <2>1, <3>1, OutlivesItself DEF AnswersBelong
  <2>2. CASE id = Len(reservations) + 1 /\ reservations' = Append(reservations, new)
    <3> HIDE DEF new
    <3>1. /\ Len(reservations) \in Nat /\ DOMAIN reservations = 1..Len(reservations)
          /\ DOMAIN reservations' = 1..(Len(reservations) + 1)
          /\ \A k \in 1..Len(reservations) : reservations'[k] = reservations[k]
          /\ reservations'[Len(reservations) + 1] = new
      BY <1>1, <1>2, <2>2, AppendProperties, LenProperties
    <3>2. Outlives(reservations', reservations)
      BY <3>1 DEF Outlives
    <3>3. id \in DOMAIN reservations' /\ reservations'[id].goods = Goods[l]
      BY <1>2, <2>2, <3>1
    <3>4. AnswersBelong(answers, reservations')
      BY <3>2, AnswersOutlive
    <3> QED BY <1>2, <1>4, <3>2, <3>3, <3>4 DEF AnswersBelong
  <2>3. CASE id = 0 /\ reservations' = reservations
    BY <1>2, <1>4, <2>3, OutlivesItself DEF AnswersBelong
  <2> QED BY <1>4, <2>1, <2>2, <2>3, <1>3 DEF InventoryReserve
<1> QED BY <1>3, <1>4 DEF InventoryReserve

LEMMA StateOutlives ==
  ASSUME TypeOK, NEW k \in DOMAIN reservations, NEW x \in {"expired", "revoked"}
  PROVE  /\ Outlives([reservations EXCEPT ![k].state = x], reservations)
         /\ [reservations EXCEPT ![k].state = x][k].state # "active"
<1>1. reservations \in Seq(Reservation) /\ reservations[k] \in Reservation
  BY TypeParts, ElementOfSeq, LenProperties DEF InventoryTypes
<1> DEFINE e == [reservations[k] EXCEPT !.state = x]
<1>2. e.goods = reservations[k].goods /\ e.state = x
  BY <1>1 DEF Reservation
<1>3. [reservations EXCEPT ![k].state = x] = [reservations EXCEPT ![k] = e]
  OBVIOUS
<1> HIDE DEF e
<1> QED BY <1>1, <1>2, <1>3 DEF Outlives

LEMMA RevokeOutlives ==
  ASSUME TypeOK, NEW id
  PROVE  /\ Outlives(InventoryRevoke(id), reservations)
         /\ id \in DOMAIN reservations => InventoryRevoke(id)[id].state # "active"
BY StateOutlives, OutlivesItself DEF InventoryRevoke

(* One request moves, and its new copy accounts for its stock. *)
LEMMA StockFrame ==
  ASSUME StockInv, NEW r \in Requests, OthersStay(r),
         Outlives(reservations', reservations), AnswersBelong(answers', reservations'),
         Accounted(row', reservations'), Accounted(ord'[r], reservations'),
         pc'[r] = "revoke" => RevokedSoFar(ord'[r], todo'[r], reservations')
  PROVE  StockInv'
<1>1. ASSUME NEW q \in Requests
      PROVE  /\ Accounted(ord'[q], reservations')
             /\ pc'[q] = "revoke" => RevokedSoFar(ord'[q], todo'[q], reservations')
  <2>1. CASE q = r
    BY <2>1
  <2>2. CASE q # r
    <3>1. pc'[q] = pc[q] /\ ord'[q] = ord[q] /\ todo'[q] = todo[q]
      BY <2>2 DEF OthersStay
    <3>2. Accounted(ord[q], reservations)
          /\ (pc[q] = "revoke" => RevokedSoFar(ord[q], todo[q], reservations))
      BY DEF StockInv
    <3> QED BY <3>1, <3>2, AccountedOutlives, RevokedOutlives
  <2> QED BY <2>1, <2>2
<1> QED BY <1>1 DEF StockInv

(* The frame of a step that calls no one: inventory-storage stays. *)
LEMMA StockQuiet ==
  ASSUME StockInv, NEW r \in Requests, OthersStay(r),
         reservations' = reservations, answers' = answers,
         Accounted(row', reservations), Accounted(ord'[r], reservations),
         pc'[r] # "revoke"
  PROVE  StockInv'
BY StockFrame, OutlivesItself DEF StockInv

LEMMA NothingAccounted ==
  ASSUME NEW o, NEW R, o.status = [l \in Lines |-> "Pending"],
         o.reservation = [l \in Lines |-> 0]
  PROVE  Accounted(o, R)
BY DEF Accounted, LineAccounted

LEMMA NoOrderAccounted ==
  ASSUME NEW R
  PROVE  Accounted(NoOrder, R)
BY NoOrderType, NothingAccounted

LEMMA SameAccounted ==
  ASSUME NEW o, NEW p, NEW R, Accounted(o, R),
         p.status = o.status, p.reservation = o.reservation
  PROVE  Accounted(p, R)
BY DEF Accounted

(* A request that ends. *)
LEMMA StockFinish ==
  ASSUME TypeOK, StockInv, NEW r \in Requests, Finish(r), Accounted(row', reservations'),
         Outlives(reservations', reservations), answers' = answers
  PROVE  StockInv'
<1>1. OthersStay(r) /\ ord'[r] = NoOrder /\ pc'[r] = "done"
  BY FinishStays
<1>2. AnswersBelong(answers', reservations')
  BY AnswersOutlive DEF StockInv
<1> QED BY <1>1, <1>2, NoOrderAccounted, StockFrame

(* A request that moves on with the reservations it had. *)
LEMMA StockGoto ==
  ASSUME TypeOK, StockInv, NEW r \in Requests, NEW stage, NEW o, NEW S, NEW events,
         Goto(r, stage, o, S, events), op' = op, row' = row,
         reservations' = reservations, answers' = answers,
         stage # "revoke", Accounted(o, reservations)
  PROVE  StockInv'
<1>1. OthersStay(r) /\ ord'[r] = o /\ pc'[r] = stage
  BY GotoStays
<1> QED BY <1>1, StockQuiet DEF StockInv

(* Intake and loading. *)
LEMMA StockLoad ==
  ASSUME TypeOK, StockInv, NEW r \in Requests,
         ReceiveOrder(r) \/ (\E use \in Ops : LoadHeader(r, use)) \/ LoadLines(r)
  PROVE  StockInv'
<1>0. OthersStay(r)
  BY RequestStays DEF RequestStep, Step
<1>1. CASE ReceiveOrder(r)
  <2>1. PICK intent \in Intents :
          Goto(r, "reserve", New(intent), LinesWithStatus(New(intent), "Pending"),
               <<Ev("OrderReceived", {})>>)
    BY <1>1 DEF ReceiveOrder
  <2>2. ord'[r] = New(intent) /\ pc'[r] = "reserve" /\ intent \in Intent
    BY <2>1, GotoStays, IntentsAssumption
  <2>3. row' = row /\ reservations' = reservations /\ answers' = answers
    BY <1>1 DEF ReceiveOrder, inventoryVars
  <2>4. Accounted(New(intent), reservations)
    BY <2>2, NewOrder, NothingAccounted
  <2> QED BY <1>0, <2>2, <2>3, <2>4, StockQuiet DEF StockInv
<1>2. CASE \E use \in Ops : LoadHeader(r, use)
  <2> DEFINE o == [New(row.intent) EXCEPT !.version = row.version]
  <2>1. Goto(r, "lines", o, {}, <<>>)
    BY <1>2 DEF LoadHeader
  <2>2. row.intent \in Intent
    BY DEF TypeOK, Order
  <2>3. o.status = New(row.intent).status /\ o.reservation = New(row.intent).reservation
    BY <2>2, NewOrder DEF Order
  <2>4. Accounted(o, reservations)
    BY <2>2, <2>3, NewOrder, NothingAccounted
  <2> HIDE DEF o
  <2>5. ord'[r] = o /\ pc'[r] = "lines"
    BY <2>1, GotoStays
  <2>6. row' = row /\ reservations' = reservations /\ answers' = answers
    BY <1>2 DEF LoadHeader, inventoryVars
  <2> QED BY <1>0, <2>4, <2>5, <2>6, StockQuiet DEF StockInv
<1>3. CASE LoadLines(r)
  <2> DEFINE o == [ord[r] EXCEPT !.status = row.status, !.reservation = row.reservation]
  <2>1. Goto(r, "groups", o, {}, <<>>)
    BY <1>3 DEF LoadLines
  <2>2. ord[r] \in Order
    BY DEF TypeOK
  <2>3. o.status = row.status /\ o.reservation = row.reservation
    BY <2>2 DEF Order
  <2> HIDE DEF o
  <2>4. Accounted(o, reservations)
    BY <2>3, SameAccounted DEF StockInv
  <2>5. ord'[r] = o /\ pc'[r] = "groups"
    BY <2>1, GotoStays
  <2>6. row' = row /\ reservations' = reservations /\ answers' = answers
    BY <1>3 DEF LoadLines, inventoryVars
  <2> QED BY <1>0, <2>4, <2>5, <2>6, StockQuiet DEF StockInv
<1> QED BY <1>1, <1>2, <1>3

(* The use cases; a cancellation has yet to visit every Allocated line.    *)
LEMMA StockUseCase ==
  ASSUME TypeOK, StockInv, NEW r \in Requests,
         RetryAllocation(r) \/ ReleaseHeldOrder(r) \/ CancelOrder(r) \/ RepromiseOrder(r)
  PROVE  StockInv'
<1>1. row' = row /\ reservations' = reservations /\ answers' = answers
  BY DEF RetryAllocation, ReleaseHeldOrder, CancelOrder, RepromiseOrder, inventoryVars
<1>2. Loaded(r) \in Order /\ Accounted(Loaded(r), reservations)
  BY LoadedType, SameAccounted DEF StockInv
<1>3. CASE Finish(r)
  BY <1>1, <1>3, OutlivesItself, StockFinish DEF StockInv
<1>4. CASE RetryAllocation(r) /\ ~Finish(r)
  BY <1>1, <1>2, <1>4, StockGoto DEF RetryAllocation
<1>5. CASE ReleaseHeldOrder(r) /\ ~Finish(r)
  BY <1>1, <1>2, <1>5, StockGoto DEF ReleaseHeldOrder
<1>6. CASE CancelOrder(r) /\ ~Finish(r)
  <2>1. Goto(r, "revoke", Loaded(r), AllocatedReservations(Loaded(r)), <<>>) /\ op' = op
    BY <1>6 DEF CancelOrder
  <2>2. OthersStay(r) /\ ord'[r] = Loaded(r) /\ todo'[r] = AllocatedReservations(Loaded(r))
    BY <2>1, GotoStays
  <2>3. RevokedSoFar(Loaded(r), AllocatedReservations(Loaded(r)), reservations)
    BY <1>2 DEF RevokedSoFar, AllocatedReservations, LinesWithStatus, Accounted, LineAccounted
  <2> QED BY <1>1, <1>2, <2>2, <2>3, OutlivesItself, StockFrame DEF StockInv
<1>7. CASE RepromiseOrder(r) /\ ~Finish(r)
  <2>1. PICK l \in Lines, g \in PromiseGroups(Loaded(r)) :
          /\ Goto(r, "save", SetPromiseGroups(Loaded(r), g), {}, <<Ev("OrderRepromised", {l})>>)
          /\ op' = op
    BY <1>7 DEF RepromiseOrder
  <2>2. g \in [Lines -> Promises \cup {NoPromise}]
    BY <1>2, PromiseGroupsType
  <2>3. Accounted(SetPromiseGroups(Loaded(r), g), reservations)
    <3> DEFINE o == SetPromiseGroups(Loaded(r), g)
    <3>1. o.status = Loaded(r).status /\ o.reservation = Loaded(r).reservation
      BY <1>2, <2>2, SetPromiseGroupsKeeps
    <3> QED BY <1>2, <3>1, SameAccounted
  <2> QED BY <1>1, <2>1, <2>3, StockGoto
<1> QED BY <1>3, <1>4, <1>5, <1>6, <1>7

(* Setting a promise touches no reservation. *)
LEMMA StockPromise ==
  ASSUME NEW o \in Order, NEW R, Accounted(o, R), NEW p \in SetPromiseDate(o)
  PROVE  Accounted(p, R)
BY SetPromiseDateKeeps, SameAccounted

(* A line whose reserve call was answered: with a reservation for its      *)
(* goods, or with none.                                                    *)
LEMMA StockAllocated ==
  ASSUME NEW o \in Order, NEW p, NEW R, NEW l \in Lines, Accounted(o, R), NEW id,
         p.status = [o.status EXCEPT ![l] = "Allocated"],
         p.reservation = [o.reservation EXCEPT ![l] = id],
         id # 0, id \in DOMAIN R, R[id].goods = Goods[l]
  PROVE  Accounted(p, R)
<1>1. p.status[l] = "Allocated" /\ p.reservation[l] = id
  BY DEF Order
<1>2. ASSUME NEW m \in Lines, m # l
      PROVE  p.status[m] = o.status[m] /\ p.reservation[m] = o.reservation[m]
  BY <1>2 DEF Order
<1>3. LineAccounted(l, "Allocated", id, R)
  BY DEF LineAccounted
<1> QED BY <1>1, <1>2, <1>3 DEF Accounted

LEMMA StockBackordered ==
  ASSUME NEW o \in Order, NEW p, NEW R, NEW l \in Lines, Accounted(o, R),
         p.status = [o.status EXCEPT ![l] = "Backordered"],
         p.reservation = [o.reservation EXCEPT ![l] = 0]
  PROVE  Accounted(p, R)
<1>1. p.status[l] = "Backordered" /\ p.reservation[l] = 0
  BY DEF Order
<1>2. ASSUME NEW m \in Lines, m # l
      PROVE  p.status[m] = o.status[m] /\ p.reservation[m] = o.reservation[m]
  BY <1>2 DEF Order
<1>3. LineAccounted(l, "Backordered", 0, R)
  BY DEF LineAccounted
<1> QED BY <1>1, <1>2, <1>3 DEF Accounted

(* The answers of allocateLines and reconfirmAllocatedLines. *)
LEMMA StockAnswer ==
  ASSUME TypeOK, StockInv, NEW r \in Requests, ReserveLine(r) \/ ReconfirmLine(r)
  PROVE  StockInv'
<1>0. PICK o : o = ord[r]
  OBVIOUS
<1>1. PICK l \in todo[r], id \in 0..(Len(reservations) + 1) :
        /\ InventoryReserve(l, o.version, id)
        /\ \/ /\ id = 0 /\ CanBackorder(o, l)
              /\ Goto(r, "reserve", MarkBackordered(o, l), todo[r] \ {l},
                      Append(tx[r], Ev("OrderLineBackordered", {l})))
           \/ /\ id # 0
              /\ Goto(r, "reserve", Allocate(o, l, id), todo[r] \ {l},
                      Append(tx[r], Ev("OrderLineAllocated", {l})))
           \/ /\ id = 0
              /\ Goto(r, "reconfirm", LoseReservation(o, l), todo[r] \ {l},
                      Append(tx[r], Ev("OrderLineBackordered", {l})))
           \/ /\ id # 0 /\ CanReconfirm(o, l)
              /\ Goto(r, "reconfirm", ReconfirmReservation(o, l, id), todo[r] \ {l}, tx[r])
  BY <1>0 DEF ReserveLine, ReconfirmLine, Allocate, RetryAllocate
<1>2. o \in Order /\ l \in Lines /\ o.version \in Nat /\ row' = row
  BY <1>0, TypeParts, RequestFacts DEF ReserveLine, ReconfirmLine
<1>3. id \in Nat
  <2>1. Len(reservations) \in Nat
    BY TypeParts, LenProperties DEF InventoryTypes
  <2> QED BY <2>1
<1>4. /\ Outlives(reservations', reservations) /\ AnswersBelong(answers', reservations')
      /\ id # 0 => id \in DOMAIN reservations' /\ reservations'[id].goods = Goods[l]
  BY <1>1, <1>2, <1>3, ReserveOutlives DEF StockInv
<1>5. Accounted(o, reservations') /\ Accounted(row', reservations') /\ Accounted(o, reservations)
  BY <1>0, <1>2, <1>4, AccountedOutlives DEF StockInv
<1>6. OthersStay(r)
  BY RequestStays DEF RequestStep, Step
<1>7. CASE /\ id = 0 /\ CanBackorder(o, l)
           /\ Goto(r, "reserve", MarkBackordered(o, l), todo[r] \ {l},
                   Append(tx[r], Ev("OrderLineBackordered", {l})))
  <2> DEFINE p == MarkBackordered(o, l)
  <2>1. p \in Order /\ p.status = [o.status EXCEPT ![l] = "Backordered"]
        /\ p.reservation = o.reservation
    BY <1>2, BackorderKeeps
  <2>2. ord'[r] = p /\ pc'[r] = "reserve"
    BY <1>7, GotoStays
  <2>3. o.reservation[l] = 0
    BY <1>2, <1>5, <1>7 DEF CanBackorder, Accounted, LineAccounted
  <2> HIDE DEF p
  <2>4. Accounted(p, reservations')
    BY <1>2, <1>5, <2>1, <2>3 DEF Accounted, LineAccounted, Order
  <2> QED BY <1>4, <1>5, <1>6, <2>2, <2>4, StockFrame
<1>8. CASE id # 0 /\ Goto(r, "reserve", Allocate(o, l, id), todo[r] \ {l},
                          Append(tx[r], Ev("OrderLineAllocated", {l})))
  <2> DEFINE p == Allocate(o, l, id)
  <2>1. p \in Order /\ p.status = [o.status EXCEPT ![l] = "Allocated"]
        /\ p.reservation = [o.reservation EXCEPT ![l] = id]
    BY ONLY <1>2, <1>3, AllocateKeeps
  <2>2. ord'[r] = p /\ pc'[r] = "reserve"
    BY <1>8, GotoStays
  <2> HIDE DEF p
  <2>3. Accounted(p, reservations')
    <3> DEFINE R == reservations'
    <3>1. id # 0 /\ id \in DOMAIN R /\ R[id].goods = Goods[l] /\ Accounted(o, R)
      BY <1>4, <1>5, <1>8
    <3>2. o \in Order /\ l \in Lines /\ p.status = [o.status EXCEPT ![l] = "Allocated"]
          /\ p.reservation = [o.reservation EXCEPT ![l] = id]
      BY ONLY <1>2, <2>1
    <3> HIDE DEF R
    <3>3. Accounted(p, R)
      BY ONLY <3>1, <3>2, StockAllocated
    <3> QED BY <3>3 DEF R
  <2> QED BY <1>4, <1>5, <1>6, <2>2, <2>3, StockFrame
<1>9. CASE id = 0 /\ Goto(r, "reconfirm", LoseReservation(o, l), todo[r] \ {l},
                          Append(tx[r], Ev("OrderLineBackordered", {l})))
  <2> DEFINE p == LoseReservation(o, l)
  <2>1. p \in Order /\ p.status = [o.status EXCEPT ![l] = "Backordered"]
        /\ p.reservation = [o.reservation EXCEPT ![l] = 0]
    BY <1>2, LoseKeeps
  <2>2. ord'[r] = p /\ pc'[r] = "reconfirm"
    BY <1>9, GotoStays
  <2> HIDE DEF p
  <2>3. Accounted(p, reservations')
    BY <1>2, <1>5, <2>1, StockBackordered
  <2> QED BY <1>4, <1>5, <1>6, <2>2, <2>3, StockFrame
<1>10. CASE id # 0 /\ CanReconfirm(o, l)
            /\ Goto(r, "reconfirm", ReconfirmReservation(o, l, id), todo[r] \ {l}, tx[r])
  <2> DEFINE p == ReconfirmReservation(o, l, id)
  <2>1. p \in Order /\ p.status = o.status /\ p.reservation = [o.reservation EXCEPT ![l] = id]
    BY <1>2, <1>3, ReconfirmKeeps
  <2>2. ord'[r] = p /\ pc'[r] = "reconfirm"
    BY <1>10, GotoStays
  <2>3. o.status = [o.status EXCEPT ![l] = "Allocated"]
    BY <1>2, <1>10 DEF Order, CanReconfirm
  <2> HIDE DEF p
  <2>4. Accounted(p, reservations')
    <3>1. id # 0 /\ id \in DOMAIN reservations' /\ reservations'[id].goods = Goods[l]
      BY <1>4, <1>10
    <3>2. p.status = [o.status EXCEPT ![l] = "Allocated"]
      BY <2>1, <2>3
    <3>3. p.reservation = [o.reservation EXCEPT ![l] = id]
      BY <2>1
    <3>4. o \in Order /\ l \in Lines /\ Accounted(o, reservations')
      BY <1>2, <1>5
    <3> QED BY ONLY <3>1, <3>2, <3>3, <3>4, StockAllocated
  <2> QED BY <1>4, <1>5, <1>6, <2>2, <2>4, StockFrame
<1> QED BY <1>1, <1>7, <1>8, <1>9, <1>10

(* The rest of a pass: failures, the promise, the release. *)
LEMMA StockPass ==
  ASSUME TypeOK, StockInv, NEW r \in Requests,
         ReserveFails(r) \/ AllocationDone(r) \/ ReconfirmFails(r) \/ ReleaseLines(r)
  PROVE  StockInv'
<1>1. ord[r] \in Order /\ Accounted(ord[r], reservations) /\ Accounted(row, reservations)
  BY TypeParts, RequestFacts DEF StockInv
<1>2. reservations' = reservations /\ answers' = answers
  BY DEF ReserveFails, AllocationDone, ReconfirmFails, ReleaseLines, inventoryVars
<1>3. ASSUME NEW o \in SetPromiseDate(ord[r]), NEW stage \in {"reconfirm", "save"}, NEW S, NEW events,
             Goto(r, stage, o, S, events), op' = op, row' = row
      PROVE  StockInv'
  BY <1>1, <1>2, <1>3, StockPromise, StockGoto
<1>4. CASE ReserveFails(r) /\ AnyAllocated(r)
  BY <1>3, <1>4 DEF ReserveFails
<1>5. CASE ReserveFails(r) /\ ~AnyAllocated(r)
  <2>1. row' = Seen(r) /\ Finish(r)
    BY <1>5 DEF ReserveFails
  <2>2. ord[r].intent \in Intent
    BY <1>1 DEF Order
  <2>3. Accounted(Seen(r), reservations)
    BY <1>1, <2>2, NewOrder, NothingAccounted DEF Seen
  <2> QED BY <1>2, <2>1, <2>3, OutlivesItself, StockFinish
<1>6. CASE AllocationDone(r)
  BY <1>3, <1>6 DEF AllocationDone
<1>7. CASE ReconfirmFails(r)
  BY <1>1, <1>2, <1>7, OutlivesItself, StockFinish DEF ReconfirmFails
<1>8. CASE ReleaseLines(r)
  <2> DEFINE released == IF EnsureReleasable(ord[r])
                         THEN LinesWithStatus(ord[r], "Allocated") ELSE {}
             o == Release(ord[r], released)
  <2>1. Goto(r, "save", o, {}, tx[r] \o Outcome(o, tx[r], released)) /\ row' = row /\ op' = op
    BY <1>8 DEF ReleaseLines
  <2>2. released \in SUBSET Lines /\ \A l \in released : ord[r].status[l] = "Allocated"
    BY DEF LinesWithStatus
  <2> HIDE DEF released
  <2>3. o.status = [l \in Lines |-> IF l \in released THEN "Released" ELSE ord[r].status[l]]
        /\ o.reservation = ord[r].reservation
    BY <1>1, <2>2, ReleaseKeeps
  <2> HIDE DEF o
  <2>4. Accounted(o, reservations)
    <3>1. ASSUME NEW l \in Lines
          PROVE  /\ o.reservation[l] = ord[r].reservation[l]
                 /\ \/ o.status[l] = ord[r].status[l]
                    \/ o.status[l] = "Released" /\ ord[r].status[l] = "Allocated"
      BY <2>2, <2>3, <3>1
    <3>2. ASSUME NEW l \in Lines, NEW id, LineAccounted(l, "Allocated", id, reservations)
          PROVE  LineAccounted(l, "Released", id, reservations)
      BY <3>2 DEF LineAccounted
    <3> QED BY <1>1, <3>1, <3>2 DEF Accounted
  <2> QED BY <1>2, <2>1, <2>4, StockGoto
<1> QED BY <1>4, <1>5, <1>6, <1>7, <1>8

(* Cancellation: the line just revoked is given back, and when the loop    *)
(* is through every line is.                                               *)
LEMMA StockCancel ==
  ASSUME TypeOK, StockInv, NEW r \in Requests,
         RevokeReservation(r) \/ RevokeFails(r) \/ CancelLines(r)
  PROVE  StockInv'
<1>1. /\ ord[r] \in Order /\ Accounted(ord[r], reservations) /\ Accounted(row, reservations)
      /\ todo[r] \in SUBSET Lines /\ pc[r] = "revoke"
      /\ RevokedSoFar(ord[r], todo[r], reservations)
  BY TypeParts, RequestFacts DEF StockInv, RevokeReservation, RevokeFails, CancelLines
<1>2. CASE RevokeReservation(r)
  <2>1. PICK l \in todo[r] :
          /\ reservations' = InventoryRevoke(ord[r].reservation[l])
          /\ Goto(r, "revoke", ord[r], todo[r] \ {l}, tx[r])
    BY <1>2 DEF RevokeReservation
  <2>2. row' = row /\ op' = op /\ answers' = answers
    BY <1>2 DEF RevokeReservation
  <2>3. OthersStay(r) /\ ord'[r] = ord[r] /\ todo'[r] = todo[r] \ {l}
    BY <2>1, <2>2, GotoStays
  <2> DEFINE id == ord[r].reservation[l]
  <2>4. Outlives(reservations', reservations)
        /\ (id \in DOMAIN reservations => reservations'[id].state # "active")
    BY <2>1, RevokeOutlives
  <2>5. ord[r].status[l] = "Allocated" => reservations'[id].state # "active"
    BY <1>1, <2>4 DEF Accounted, LineAccounted
  <2>6. RevokedSoFar(ord[r], todo[r] \ {l}, reservations')
    <3>1. RevokedSoFar(ord[r], todo[r], reservations')
      BY <1>1, <2>4, RevokedOutlives
    <3> QED BY <2>5, <3>1 DEF RevokedSoFar
  <2>7. AnswersBelong(answers', reservations') /\ Accounted(ord[r], reservations')
        /\ Accounted(row', reservations')
    BY <1>1, <2>2, <2>4, AnswersOutlive, AccountedOutlives DEF StockInv
  <2> QED BY <2>3, <2>4, <2>6, <2>7, StockFrame
<1>3. CASE RevokeFails(r)
  <2>1. PICK l \in todo[r] :
          reservations' \in {reservations, InventoryRevoke(ord[r].reservation[l])}
    BY <1>3 DEF RevokeFails
  <2>2. Finish(r) /\ row' = row /\ answers' = answers
    BY <1>3 DEF RevokeFails
  <2>3. Outlives(reservations', reservations)
    BY <2>1, RevokeOutlives, OutlivesItself
  <2> QED BY <1>1, <2>2, <2>3, AccountedOutlives, StockFinish
<1>4. CASE CancelLines(r)
  <2> DEFINE o == Cancel(ord[r])
  <2>1. /\ Goto(r, "save", o, {}, <<Ev("OrderCancelled", {})>>) /\ todo[r] = {}
        /\ EnsureCancellable(ord[r]) /\ row' = row /\ op' = op
        /\ reservations' = reservations /\ answers' = answers
    BY <1>4 DEF CancelLines, inventoryVars
  <2>2. o.status = [l \in Lines |-> "Cancelled"] /\ o.reservation = ord[r].reservation
    BY <1>1 DEF Cancel, Order
  <2> HIDE DEF o
  <2>3. Accounted(o, reservations)
    <3>1. ASSUME NEW l \in Lines, ord[r].reservation[l] # 0
          PROVE  reservations[ord[r].reservation[l]].state # "active"
      <4>1. ord[r].status[l] \in {"Allocated", "Cancelled"}
        BY <1>1, <2>1, <3>1 DEF EnsureCancellable, Accounted, LineAccounted, Order, LineStatus
      <4> QED BY <1>1, <2>1, <3>1, <4>1 DEF RevokedSoFar, Accounted, LineAccounted
    <3>2. ASSUME NEW l \in Lines
          PROVE  LineAccounted(l, "Cancelled", ord[r].reservation[l], reservations)
      BY <1>1, <3>1 DEF Accounted, LineAccounted
    <3> QED BY <2>2, <3>2 DEF Accounted
  <2> QED BY <2>1, <2>3, StockGoto
<1> QED BY <1>2, <1>3, <1>4

(* The commit stores a copy that accounts for its stock. *)
LEMMA StockEnd ==
  ASSUME TypeOK, StockInv, NEW r \in Requests, Save(r) \/ Crash(r)
  PROVE  StockInv'
<1>1. /\ ord[r] \in Order /\ Accounted(ord[r], reservations) /\ Accounted(row, reservations)
      /\ Finish(r) /\ reservations' = reservations /\ answers' = answers
  BY TypeParts, RequestFacts DEF StockInv, Save, Crash, inventoryVars
<1>2. Accounted(row', reservations)
  <2>1. CASE row' = row
    BY <1>1, <2>1
  <2>2. CASE row' # row
    <3>1. row' = [ord[r] EXCEPT !.version = Seen(r).version + 1]
      BY <2>2 DEF Save, Crash
    <3>2. row'.status = ord[r].status /\ row'.reservation = ord[r].reservation
      BY <1>1, <3>1 DEF Order
    <3> QED BY <1>1, <3>2, SameAccounted
  <2> QED BY <2>1, <2>2
<1> QED BY <1>1, <1>2, OutlivesItself, StockFinish

(* inventory-storage on its own. *)
LEMMA StockInventory ==
  ASSUME TypeOK, StockInv, ExpireReservation \/ LateReserve
  PROVE  StockInv'
<1>1. row' = row /\ pc' = pc /\ ord' = ord /\ todo' = todo
  BY DEF ExpireReservation, LateReserve, requestVars
<1>2. Outlives(reservations', reservations) /\ AnswersBelong(answers', reservations')
  <2>1. CASE ExpireReservation
    <3>1. Outlives(reservations', reservations) /\ answers' = answers
      BY <2>1, StateOutlives DEF ExpireReservation
    <3> QED BY <3>1, AnswersOutlive DEF StockInv
  <2>2. CASE LateReserve
    <3>1. PICK c \in late, id \in 0..(Len(reservations) + 1) :
            InventoryReserve(c.line, c.attempt, id)
      BY <2>2 DEF LateReserve
    <3>2. c.line \in Lines /\ c.attempt \in Nat /\ Len(reservations) \in Nat
      BY TypeParts, LenProperties DEF InventoryTypes
    <3>3. id \in Nat
      BY <3>2
    <3> QED BY <3>1, <3>2, <3>3, ReserveOutlives DEF StockInv
  <2> QED BY <2>1, <2>2
<1> QED BY <1>1, <1>2, AccountedOutlives, RevokedOutlives DEF StockInv

LEMMA StockStep == TypeOK /\ StockInv /\ [Next]_vars => StockInv'
<1> SUFFICES ASSUME TypeOK, StockInv, [Next]_vars PROVE StockInv'
  OBVIOUS
<1>1. CASE UNCHANGED vars
  BY <1>1 DEF vars, requestVars, inventoryVars, StockInv
<1>2. ASSUME NEW r \in Requests, RequestStep(r)
      PROVE  StockInv'
  BY <1>2, StockLoad, StockUseCase, StockAnswer, StockPass, StockCancel, StockEnd DEF RequestStep, Step
<1> QED BY <1>1, <1>2, StockInventory DEF Next, RequestStep

LEMMA StockInit == Init => StockInv
BY NoOrderAccounted DEF Init, StockInv, AnswersBelong

(* Every Allocated or Released line of the stored order records a          *)
(* reservation made for its SKU and quantity, for any lines, whether they  *)
(* ask for the same goods or not, and any racing requests: inventory-      *)
(* storage, which knows no lines, may hand one reservation to several, but *)
(* never one for other goods, and no late or repeated answer is written to *)
(* a line that did not ask.                                                *)
THEOREM ReservationsFitGoods == Spec => []ReservationsBelong
<1>1. TypeOK /\ StockInv /\ [Next]_vars => TypeOK' /\ StockInv'
  BY TypeStep, StockStep
<1>2. StockInv => ReservationsBelong
  BY DEF StockInv, Accounted, LineAccounted, ReservationsBelong
<1> QED BY TypeInit, StockInit, <1>1, <1>2, PTL DEF Spec

(* A cancelled order keeps no active reservation, whatever passes ran      *)
(* beside the cancellation: the copy it stores is the one whose            *)
(* reservations it revoked, and one given back never is active again.      *)
THEOREM CancellationFreesStock == Spec => []CancelledHoldsNoStock
<1>1. TypeOK /\ StockInv /\ [Next]_vars => TypeOK' /\ StockInv'
  BY TypeStep, StockStep
<1>2. StockInv => CancelledHoldsNoStock
  BY DEF StockInv, Accounted, LineAccounted, CancelledHoldsNoStock
<1> QED BY TypeInit, StockInit, <1>1, <1>2, PTL DEF Spec

----------------------------------------------------------------------------
(* What a pass may do to a line. *)

LEMMA PassMovesFacts ==
  ASSUME NEW s \in LineStatus, NEW t \in Contract!PassMoves(s)
  PROVE  /\ s \in Contract!PassMoves(s)
         /\ t \in LineStatus
         /\ s = "Released" => t = "Released"
         /\ t = "Pending" => {"Allocated", "Backordered"} \subseteq Contract!PassMoves(s)
         /\ t = "Backordered" => {"Allocated", "Backordered"} \subseteq Contract!PassMoves(s)
         /\ t = "Allocated" => {"Backordered", "Released"} \subseteq Contract!PassMoves(s)
BY DEF LineStatus, Contract!PassMoves

LEMMA PassMovesStay ==
  ASSUME NEW s \in LineStatus
  PROVE  s \in Contract!PassMoves(s)
BY DEF LineStatus, Contract!PassMoves

----------------------------------------------------------------------------
(* What lists of events announce. *)

LEMMA ReleasesNone == Releases(<<>>, {})
BY DEF Releases

LEMMA ReleasesQuiet ==
  ASSUME NEW t \in EventType \ {"OrderAllocated", "OrderPartiallyAllocated"}, NEW X
  PROVE  Releases(<<Ev(t, X)>>, {})
BY DEF Releases, AnnouncesRelease, Ev

LEMMA ReleasesOne ==
  ASSUME NEW t \in {"OrderAllocated", "OrderPartiallyAllocated"}, NEW S \in SUBSET Lines
  PROVE  Releases(<<Ev(t, S)>>, S)
BY DEF Releases, AnnouncesRelease, Ev

LEMMA ReleasesConcat ==
  ASSUME NEW a \in Seq(Event), NEW b \in Seq(Event),
         NEW S \in SUBSET Lines, NEW T \in SUBSET Lines, S \cap T = {},
         Releases(a, S), Releases(b, T)
  PROVE  Releases(a \o b, S \cup T)
<1>1. a \o b \in Seq(Event) /\ Len(a \o b) = Len(a) + Len(b)
      /\ Len(a) \in Nat /\ Len(b) \in Nat
      /\ DOMAIN a = 1..Len(a) /\ DOMAIN b = 1..Len(b) /\ DOMAIN (a \o b) = 1..(Len(a) + Len(b))
  BY ConcatProperties, LenProperties
<1>2. \A i \in 1..Len(a) : (a \o b)[i] = a[i]
  BY ConcatProperties
<1>3. \A i \in (Len(a) + 1)..(Len(a) + Len(b)) : (a \o b)[i] = b[i - Len(a)]
  BY <1>1, ConcatProperties
<1>4. \A i \in 1..Len(b) : (a \o b)[i + Len(a)] = b[i]
  BY <1>1, <1>3
<1>5. SUFFICES ASSUME NEW l \in Lines
               PROVE  /\ l \in S \cup T <=> \E i \in DOMAIN (a \o b) : AnnouncesRelease((a \o b)[i], l)
                      /\ \A i, j \in DOMAIN (a \o b) :
                           AnnouncesRelease((a \o b)[i], l) /\ AnnouncesRelease((a \o b)[j], l) => i = j
  BY DEF Releases
<1> DEFINE A(e) == AnnouncesRelease(e, l)
<1>6. /\ l \in S <=> \E i \in 1..Len(a) : A(a[i])
      /\ \A i, j \in 1..Len(a) : A(a[i]) /\ A(a[j]) => i = j
      /\ l \in T <=> \E i \in 1..Len(b) : A(b[i])
      /\ \A i, j \in 1..Len(b) : A(b[i]) /\ A(b[j]) => i = j
  BY <1>1 DEF Releases
<1> HIDE DEF A
<1> DEFINE c == a \o b
<1> HIDE DEF c
<1>7. /\ \A i \in 1..Len(a) : c[i] = a[i]
      /\ \A i \in (Len(a) + 1)..(Len(a) + Len(b)) : c[i] = b[i - Len(a)]
      /\ \A i \in 1..Len(b) : c[i + Len(a)] = b[i]
  BY <1>2, <1>3, <1>4 DEF c
<1>8. l \in S \cup T <=> \E i \in 1..(Len(a) + Len(b)) : A(c[i])
  <2>1. ASSUME NEW i \in 1..Len(a), A(a[i]) PROVE \E k \in 1..(Len(a) + Len(b)) : A(c[k])
    BY <1>1, <1>7, <2>1
  <2>2. ASSUME NEW i \in 1..Len(b), A(b[i]) PROVE \E k \in 1..(Len(a) + Len(b)) : A(c[k])
    <3>1. i + Len(a) \in 1..(Len(a) + Len(b)) /\ A(c[i + Len(a)])
      BY <1>1, <1>7, <2>2
    <3> QED BY <3>1
  <2>3. ASSUME NEW k \in 1..(Len(a) + Len(b)), A(c[k]) PROVE l \in S \cup T
    <3>1. CASE k <= Len(a)
      BY <1>1, <1>6, <1>7, <2>3, <3>1
    <3>2. CASE k > Len(a)
      <4>1. k - Len(a) \in 1..Len(b) /\ A(b[k - Len(a)])
        BY <1>1, <1>7, <2>3, <3>2
      <4> QED BY <1>6, <4>1
    <3> QED BY <1>1, <3>1, <3>2
  <2> QED BY <1>6, <2>1, <2>2, <2>3
<1>9. ASSUME NEW i \in 1..(Len(a) + Len(b)), NEW j \in 1..(Len(a) + Len(b)), A(c[i]), A(c[j])
      PROVE  i = j
  <2>1. ASSUME NEW k \in 1..(Len(a) + Len(b)), A(c[k])
        PROVE  \/ k \in 1..Len(a) /\ A(a[k]) /\ l \in S
               \/ k - Len(a) \in 1..Len(b) /\ A(b[k - Len(a)]) /\ l \in T
    <3>1. CASE k \in 1..Len(a)
      BY <1>6, <1>7, <2>1, <3>1
    <3>2. CASE k \in (Len(a) + 1)..(Len(a) + Len(b))
      <4>1. k - Len(a) \in 1..Len(b)
        BY <1>1, <3>2
      <4> QED BY <1>6, <1>7, <2>1, <3>2, <4>1
    <3> QED BY <1>1, <3>1, <3>2
  <2> QED BY <1>1, <1>6, <1>9, <2>1
<1> QED BY <1>1, <1>8, <1>9 DEF A, c

(* A quiet event changes no announcement. *)
LEMMA ReleasesAppend ==
  ASSUME NEW a \in Seq(Event), NEW S \in SUBSET Lines, Releases(a, S),
         NEW t \in EventType \ {"OrderAllocated", "OrderPartiallyAllocated"},
         NEW X \in SUBSET Lines
  PROVE  Releases(Append(a, Ev(t, X)), S)
<1>1. <<Ev(t, X)>> \in Seq(Event) /\ Ev(t, X) \in Event
  BY EventFacts
<1>2. Append(a, Ev(t, X)) = a \o <<Ev(t, X)>>
  BY <1>1, AppendIsConcat
<1>3. Releases(a \o <<Ev(t, X)>>, S \cup {})
  BY <1>1, ReleasesQuiet, ReleasesConcat
<1> QED BY <1>2, <1>3

(* An order with a released line is Released or PartiallyReleased. *)
LEMMA StatusReleased ==
  ASSUME NEW o, NEW l \in Lines, o.status[l] = "Released"
  PROVE  Status(o) \in {"Released", "PartiallyReleased"}
<1>1. LinesWithStatus(o, "Cancelled") # Lines /\ LinesWithStatus(o, "Released") # {}
  BY DEF LinesWithStatus
<1> QED BY <1>1 DEF Status

(* The outcome event announces exactly the lines handed to it.             *)
LEMMA OutcomeReleases ==
  ASSUME NEW o, NEW events, NEW S \in SUBSET Lines,
         \A l \in S : o.status[l] = "Released"
  PROVE  Releases(Outcome(o, events, S), S)
<1>1. CASE S = {}
  BY <1>1, ReleasesNone, ReleasesOne DEF Outcome
<1>2. CASE S # {}
  <2>1. Status(o) \in {"Released", "PartiallyReleased"}
    BY <1>2, StatusReleased
  <2> QED BY <1>2, <2>1, ReleasesOne DEF Outcome
<1> QED BY <1>1, <1>2

----------------------------------------------------------------------------
(* Steps that leave the row alone. *)

(* Only request r moves, and the row stays. *)
LEMMA OneMoves ==
  ASSUME TypeOK, VersionGuardSuffices, row' = row, NEW r \in Requests,
         \A q \in Requests \ {r} :
           pc'[q] = pc[q] /\ op'[q] = op[q] /\ ord'[q] = ord[q] /\ tx'[q] = tx[q],
         Busy(r)' => CopyTracksRow(Seen(r), pc[r], ord[r], tx[r])',
         op'[r] = "receive" =>
           /\ \A q \in Requests \ {r} : op[q] # "receive"
           /\ Busy(r)' => row.version = 0 /\ pc'[r] \in {"reserve", "reconfirm", "save"}
  PROVE  VersionGuardSuffices'
<1>1. ASSUME NEW q \in Requests, Busy(q)'
      PROVE  CopyTracksRow(Seen(q), pc[q], ord[q], tx[q])'
  <2>1. CASE q = r
    BY <1>1, <2>1
  <2>2. CASE q # r
    <3>1. CopyTracksRow(Seen(q), pc[q], ord[q], tx[q]) /\ Seen(q)' = Seen(q)
      BY <1>1, <2>2 DEF Busy, VersionGuardSuffices, Seen
    <3>2. pc'[q] = pc[q] /\ ord'[q] = ord[q] /\ tx'[q] = tx[q]
      BY <2>2
    <3> QED BY <3>1, <3>2
         DEF CopyTracksRow, MovesLegally, ReleasesNothing, PassToSave, CancelToSave, ReleasedLines
  <2> QED BY <2>1, <2>2
<1>2. ASSUME NEW q \in Requests, op'[q] = "receive"
      PROVE  /\ Busy(q)' => row'.version = 0 /\ pc'[q] \in {"reserve", "reconfirm", "save"}
             /\ \A p \in Requests : op'[p] = "receive" => p = q
  BY <1>2 DEF VersionGuardSuffices, Busy
<1>3. row'.version = 0 => row' = NoOrder
  BY DEF VersionGuardSuffices
<1> QED BY <1>1, <1>2, <1>3 DEF VersionGuardSuffices

(* A request that moves on, with a copy that still tracks the row. *)
LEMMA GotoTracks ==
  ASSUME TypeOK, VersionGuardSuffices, row' = row, op' = op,
         NEW r \in Requests, Busy(r), NEW stage, NEW o, NEW S, NEW events,
         op[r] = "receive" => stage \in {"reserve", "reconfirm", "save"},
         Goto(r, stage, o, S, events), CopyTracksRow(Seen(r), stage, o, events)
  PROVE  VersionGuardSuffices'
<1>1. pc'[r] = stage /\ ord'[r] = o /\ tx'[r] = events
  BY DEF Goto, TypeOK
<1>2. ASSUME NEW q \in Requests \ {r}
      PROVE  pc'[q] = pc[q] /\ op'[q] = op[q] /\ ord'[q] = ord[q] /\ tx'[q] = tx[q]
  BY <1>2 DEF Goto, TypeOK
<1>3. Seen(r)' = Seen(r)
  <2>1. CASE op[r] = "receive"
    <3>1. ord[r].intent \in Intent
      BY DEF TypeOK, Order
    <3>2. Seen(r).intent = ord[r].intent
      BY <2>1, <3>1, NewOrder DEF Seen
    <3>3. o.intent = ord[r].intent
      BY <3>2 DEF CopyTracksRow
    <3> QED BY <1>1, <2>1, <3>3 DEF Seen
  <2>2. CASE op[r] # "receive"
    BY <2>2 DEF Seen
  <2> QED BY <2>1, <2>2
<1>4. CopyTracksRow(Seen(r), pc[r], ord[r], tx[r])'
  BY <1>1, <1>3 DEF CopyTracksRow, MovesLegally, ReleasesNothing, PassToSave, CancelToSave, ReleasedLines
<1>5. op[r] = "receive" => row.version = 0 /\ \A q \in Requests \ {r} : op[q] # "receive"
  BY DEF VersionGuardSuffices
<1> QED BY <1>1, <1>2, <1>4, <1>5, OneMoves

(* A request that ends without a write. *)
LEMMA FinishTracks ==
  ASSUME TypeOK, VersionGuardSuffices, row' = row, NEW r \in Requests, Finish(r)
  PROVE  VersionGuardSuffices'
<1>1. pc'[r] = "done" /\ op' = op
  BY DEF Finish, TypeOK
<1>2. ASSUME NEW q \in Requests \ {r}
      PROVE  pc'[q] = pc[q] /\ op'[q] = op[q] /\ ord'[q] = ord[q] /\ tx'[q] = tx[q]
  BY <1>2 DEF Finish, TypeOK
<1>3. ~Busy(r)'
  BY <1>1 DEF Busy
<1>4. op[r] = "receive" => \A q \in Requests \ {r} : op[q] # "receive"
  BY DEF VersionGuardSuffices
<1> QED BY <1>1, <1>2, <1>3, <1>4, OneMoves

(* What the invariant says of a request that is under way. *)
LEMMA BusyFacts ==
  ASSUME TypeOK, VersionGuardSuffices, NEW r \in Requests, Busy(r)
  PROVE  /\ row \in Order /\ row.status \in [Lines -> LineStatus]
         /\ ord[r] \in Order /\ todo[r] \in SUBSET Lines /\ tx[r] \in Seq(Event)
         /\ CopyTracksRow(Seen(r), pc[r], ord[r], tx[r])
BY DEF VersionGuardSuffices, TypeOK, Order

(* Before its commit, intake is alone with an order all of whose lines are *)
(* Pending; any other request has a row to work on.                        *)
LEMMA SeenFacts ==
  ASSUME TypeOK, VersionGuardSuffices, NEW r \in Requests, Busy(r)
  PROVE  /\ Seen(r) \in Order /\ Seen(r).status = row.status
         /\ op[r] = "receive" =>
              /\ row = NoOrder /\ row.version = 0 /\ Seen(r).version = 1
              /\ pc[r] \in {"reserve", "reconfirm", "save"}
              /\ \A q \in Requests \ {r} : ~Busy(q)
         /\ op[r] # "receive" => Seen(r) = row /\ row.version > 0
<1>1. Seen(r) \in Order
  BY SeenType
<1>2. CASE op[r] = "receive"
  <2>1. row.version = 0 /\ row = NoOrder /\ pc[r] \in {"reserve", "reconfirm", "save"}
    BY <1>2 DEF VersionGuardSuffices
  <2>2. ord[r].intent \in Intent
    BY DEF TypeOK, Order
  <2>3. Seen(r).status = row.status /\ Seen(r).version = 1
    BY <1>2, <2>1, <2>2, NewOrder, NoOrderType DEF Seen
  <2>4. ASSUME NEW q \in Requests \ {r}, Busy(q) PROVE FALSE
    <3>1. op[q] # "receive"
      BY <1>2 DEF VersionGuardSuffices
    <3>2. CopyTracksRow(row, pc[q], ord[q], tx[q])
      BY <2>4, <3>1 DEF VersionGuardSuffices, Seen
    <3> QED BY <2>1, <3>2 DEF CopyTracksRow
  <2> QED BY <1>1, <1>2, <2>1, <2>3, <2>4
<1>3. CASE op[r] # "receive"
  <2>1. Seen(r) = row
    BY <1>3 DEF Seen
  <2>2. ord[r].version \in 1..row.version /\ row.version \in Nat
    BY <2>1 DEF VersionGuardSuffices, CopyTracksRow, TypeOK, Order
  <2> QED BY <1>1, <1>3, <2>1, <2>2
<1> QED BY <1>2, <1>3

LEMMA SameStatusMoves ==
  ASSUME TypeOK, NEW o, o.status = row.status
  PROVE  MovesLegally(o) /\ ReleasesNothing(o)
<1>1. row.status \in [Lines -> LineStatus]
  BY DEF TypeOK, Order
<1> QED BY <1>1, PassMovesStay DEF MovesLegally, ReleasesNothing

LEMMA NothingNew ==
  ASSUME NEW o, ReleasesNothing(o)
  PROVE  Contract!Newly(row.status, o.status) = {}
BY DEF ReleasesNothing, Contract!Newly

(* Loading. *)
LEMMA LoadTracks ==
  ASSUME TypeOK, VersionGuardSuffices, NEW r \in Requests,
         (\E use \in Ops : LoadHeader(r, use)) \/ LoadLines(r)
  PROVE  VersionGuardSuffices'
<1>1. CASE \E use \in Ops : LoadHeader(r, use)
  <2> DEFINE o == [New(row.intent) EXCEPT !.version = row.version]
  <2>1. PICK use \in Ops : LoadHeader(r, use)
    BY <1>1
  <2>2. row.intent \in Intent /\ row.version \in Nat
    BY DEF TypeOK, Order
  <2>3. o.version = row.version /\ o.intent = row.intent
    BY <2>2, NewOrder DEF Order
  <2>4. Goto(r, "lines", o, {}, <<>>) /\ row.version > 0 /\ row' = row
        /\ op' = [op EXCEPT ![r] = use]
    BY <2>1 DEF LoadHeader
  <2> HIDE DEF o
  <2>5. pc'[r] = "lines" /\ ord'[r] = o /\ tx'[r] = <<>> /\ op'[r] # "receive"
    BY <2>4, OpsAssumption DEF Goto, TypeOK
  <2>6. ASSUME NEW q \in Requests \ {r}
        PROVE  pc'[q] = pc[q] /\ op'[q] = op[q] /\ ord'[q] = ord[q] /\ tx'[q] = tx[q]
    BY <2>4, <2>6 DEF Goto, TypeOK
  <2>7. CopyTracksRow(Seen(r), pc[r], ord[r], tx[r])'
    BY <2>2, <2>3, <2>4, <2>5 DEF CopyTracksRow, Seen
  <2> QED BY <2>4, <2>5, <2>6, <2>7, OneMoves
<1>2. CASE LoadLines(r)
  <2> DEFINE o == [ord[r] EXCEPT !.status = row.status, !.reservation = row.reservation]
  <2>1. Goto(r, "groups", o, {}, <<>>) /\ row' = row /\ op' = op /\ Busy(r) /\ pc[r] = "lines"
    BY <1>2 DEF LoadLines, Busy
  <2>2. ord[r] \in Order /\ CopyTracksRow(Seen(r), pc[r], ord[r], tx[r])
    BY <2>1, BusyFacts
  <2>3. o.version = ord[r].version /\ o.intent = ord[r].intent /\ o.status = row.status
    BY <2>2 DEF Order
  <2> HIDE DEF o
  <2>4. CopyTracksRow(Seen(r), "groups", o, <<>>)
    BY <2>2, <2>3 DEF CopyTracksRow
  <2>5. op[r] # "receive"
    BY <2>1, SeenFacts
  <2> QED BY <2>1, <2>4, <2>5, GotoTracks
<1> QED BY <1>1, <1>2

(* The use cases up to their first call or their Save. *)
LEMMA UseCaseTracks ==
  ASSUME TypeOK, VersionGuardSuffices, NEW r \in Requests,
         RetryAllocation(r) \/ ReleaseHeldOrder(r) \/ CancelOrder(r) \/ RepromiseOrder(r)
  PROVE  VersionGuardSuffices'
<1> DEFINE o == Loaded(r)
<1>1. pc[r] = "groups" /\ Busy(r) /\ row' = row /\ op' = op /\ op[r] # "receive"
  BY DEF RetryAllocation, ReleaseHeldOrder, CancelOrder, RepromiseOrder, Busy, Finish
<1>2. CopyTracksRow(Seen(r), "groups", ord[r], tx[r]) /\ o \in Order
      /\ o.version = ord[r].version /\ o.intent = ord[r].intent /\ o.status = ord[r].status
  BY <1>1, BusyFacts, LoadedType
<1> HIDE DEF o
<1>3. o.version \in 1..Seen(r).version /\ o.intent = Seen(r).intent
      /\ (o.version = Seen(r).version => o.status = row.status /\ MovesLegally(o) /\ ReleasesNothing(o))
  BY <1>2, SameStatusMoves DEF CopyTracksRow
<1>4. CopyTracksRow(Seen(r), "reserve", o, <<>>) /\ CopyTracksRow(Seen(r), "revoke", o, <<>>)
  BY <1>3, ReleasesNone DEF CopyTracksRow
<1>5. CASE Finish(r)
  BY <1>1, <1>5, FinishTracks
<1>6. CASE \E S : Goto(r, "reserve", o, S, <<>>) \/ Goto(r, "revoke", o, S, <<>>)
  BY <1>1, <1>2, <1>4, <1>6, GotoTracks
<1>7. ASSUME NEW l \in Lines, NEW g \in PromiseGroups(o),
             Goto(r, "save", SetPromiseGroups(o, g), {}, <<Ev("OrderRepromised", {l})>>)
      PROVE  VersionGuardSuffices'
  <2> DEFINE p == SetPromiseGroups(o, g)
             events == <<Ev("OrderRepromised", {l})>>
  <2>1. p.version = o.version /\ p.intent = o.intent /\ p.status = o.status
    <3>1. g \in [Lines -> Promises \cup {NoPromise}]
      BY <1>2, PromiseGroupsType
    <3> QED BY <1>2, <3>1, SetPromiseGroupsKeeps
  <2>2. Releases(events, {})
    BY ReleasesQuiet DEF EventType
  <2> HIDE DEF p, events
  <2>3. p.version = Seen(r).version => PassToSave(p, events)
    BY <1>3, <2>1, <2>2, SameStatusMoves, NothingNew DEF PassToSave
  <2>4. CopyTracksRow(Seen(r), "save", p, events)
    BY <1>3, <2>1, <2>3 DEF CopyTracksRow
  <2>5. Goto(r, "save", p, {}, events)
    BY <1>7 DEF p, events
  <2> QED BY <1>1, <1>2, <2>4, <2>5, GotoTracks
<1> QED BY <1>5, <1>6, <1>7
     DEF RetryAllocation, ReleaseHeldOrder, CancelOrder, RepromiseOrder, o

(* One line is answered: its status goes from a state a pass can leave to  *)
(* another that is not Released.                                           *)
LEMMA LineAnswered ==
  ASSUME TypeOK, NEW o \in Order, NEW p \in Order, NEW l \in Lines,
         NEW x \in {"Allocated", "Backordered"},
         MovesLegally(o), ReleasesNothing(o),
         \/ o.status[l] \in {"Pending", "Backordered"}
         \/ o.status[l] = "Allocated" /\ x = "Backordered",
         p.status = [o.status EXCEPT ![l] = x]
  PROVE  MovesLegally(p) /\ ReleasesNothing(p)
<1>1. row.status \in [Lines -> LineStatus] /\ o.status \in [Lines -> LineStatus]
  BY DEF TypeOK, Order
<1>2. \A m \in Lines : o.status[m] \in Contract!PassMoves(row.status[m])
      /\ (o.status[m] = "Released" <=> row.status[m] = "Released")
  BY DEF MovesLegally, ReleasesNothing
<1>3. p.status[l] = x /\ \A m \in Lines \ {l} : p.status[m] = o.status[m]
  BY <1>1
<1>4. x \in Contract!PassMoves(row.status[l])
  <2>1. row.status[l] \in LineStatus /\ o.status[l] \in Contract!PassMoves(row.status[l])
    BY <1>1, <1>2
  <2> QED BY <2>1, PassMovesFacts
<1>5. row.status[l] # "Released"
  BY <1>2
<1> QED BY <1>2, <1>3, <1>4, <1>5 DEF MovesLegally, ReleasesNothing

LEMMA AllocateCopy ==
  ASSUME NEW r \in Requests, ord[r] \in Order, NEW l \in Lines, NEW id \in Nat
  PROVE  /\ Allocate(ord[r], l, id) \in Order
         /\ Allocate(ord[r], l, id).version = ord[r].version
         /\ Allocate(ord[r], l, id).intent = ord[r].intent
         /\ Allocate(ord[r], l, id).status = [ord[r].status EXCEPT ![l] = "Allocated"]
<1> DEFINE o == ord[r]
           p == Allocate(o, l, id)
<1>1. o \in Order
  OBVIOUS
<1> HIDE DEF o
<1>2. p \in Order /\ p.version = o.version /\ p.intent = o.intent
      /\ p.status = [o.status EXCEPT ![l] = "Allocated"]
      /\ p.reservation = [o.reservation EXCEPT ![l] = id] /\ p.promise = o.promise
  BY <1>1, AllocateKeeps
<1> HIDE DEF p
<1>3. QED
  BY <1>2 DEF o, p

(* A pass before its release leg. *)
LEMMA AnswerTracks ==
  ASSUME TypeOK, VersionGuardSuffices, NEW r \in Requests,
         ReserveLine(r) \/ ReconfirmLine(r)
  PROVE  VersionGuardSuffices'
<1>1. pc[r] \in {"reserve", "reconfirm"} /\ Busy(r) /\ row' = row /\ op' = op
  BY DEF ReserveLine, ReconfirmLine, Busy
<1>2. ord[r] \in Order /\ todo[r] \in SUBSET Lines /\ tx[r] \in Seq(Event)
      /\ CopyTracksRow(Seen(r), pc[r], ord[r], tx[r])
  BY <1>1, BusyFacts
<1>3. ord[r].version \in 1..Seen(r).version /\ ord[r].intent = Seen(r).intent /\ Releases(tx[r], {})
      /\ (ord[r].version = Seen(r).version => MovesLegally(ord[r]) /\ ReleasesNothing(ord[r]))
  BY <1>1, <1>2 DEF CopyTracksRow
<1>4. ASSUME NEW stage \in {"reserve", "reconfirm"}, NEW p \in Order, NEW l \in Lines,
             NEW x \in {"Allocated", "Backordered"}, NEW events, NEW S,
             \/ ord[r].status[l] \in {"Pending", "Backordered"}
             \/ ord[r].status[l] = "Allocated" /\ x = "Backordered",
             p.version = ord[r].version, p.intent = ord[r].intent,
             p.status = [ord[r].status EXCEPT ![l] = x],
             Releases(events, {}),
             Goto(r, stage, p, S, events)
      PROVE  VersionGuardSuffices'
  <2>1. p.version = Seen(r).version => MovesLegally(p) /\ ReleasesNothing(p)
    BY <1>2, <1>3, <1>4, LineAnswered
  <2>2. CopyTracksRow(Seen(r), stage, p, events)
    BY <1>3, <1>4, <2>1 DEF CopyTracksRow
  <2> QED BY <1>1, <1>2, <1>4, <2>2, GotoTracks
<1>5. ASSUME NEW l \in Lines
      PROVE  /\ Releases(Append(tx[r], Ev("OrderLineAllocated", {l})), {})
             /\ Releases(Append(tx[r], Ev("OrderLineBackordered", {l})), {})
  BY <1>2, <1>3, ReleasesAppend DEF EventType
<1>6. ASSUME NEW l \in todo[r], NEW id \in 0..(Len(reservations) + 1)
      PROVE  l \in Lines /\ id \in Nat
  BY <1>2, <1>6, LenProperties DEF TypeOK
<1>7. ord[r] \in Order
  BY <1>2
<1>8. CASE ReserveLine(r)
  <2>1. PICK l \in todo[r], id \in 0..(Len(reservations) + 1) :
          \/ /\ CanBackorder(ord[r], l)
             /\ Goto(r, "reserve", MarkBackordered(ord[r], l), todo[r] \ {l},
                     Append(tx[r], Ev("OrderLineBackordered", {l})))
          \/ /\ CanAllocate(ord[r], l)
             /\ Goto(r, "reserve", Allocate(ord[r], l, id), todo[r] \ {l},
                     Append(tx[r], Ev("OrderLineAllocated", {l})))
          \/ /\ CanRetryAllocate(ord[r], l)
             /\ Goto(r, "reserve", Allocate(ord[r], l, id), todo[r] \ {l},
                     Append(tx[r], Ev("OrderLineAllocated", {l})))
    BY <1>8 DEF ReserveLine, RetryAllocate, Allocate
  <2>2. l \in Lines /\ id \in Nat
    BY <1>6
  <2>3. CASE /\ CanBackorder(ord[r], l)
             /\ Goto(r, "reserve", MarkBackordered(ord[r], l), todo[r] \ {l},
                     Append(tx[r], Ev("OrderLineBackordered", {l})))
    <3>1. ord[r].status[l] \in {"Pending", "Backordered"}
      BY <2>3 DEF CanBackorder
    <3>2. /\ MarkBackordered(ord[r], l) \in Order
          /\ MarkBackordered(ord[r], l).version = ord[r].version
          /\ MarkBackordered(ord[r], l).intent = ord[r].intent
          /\ MarkBackordered(ord[r], l).status = [ord[r].status EXCEPT ![l] = "Backordered"]
      BY <1>7, <2>2, BackorderKeeps
    <3> QED BY <1>4, <1>5, <2>2, <2>3, <3>1, <3>2
  <2>4. CASE /\ CanAllocate(ord[r], l) \/ CanRetryAllocate(ord[r], l)
             /\ Goto(r, "reserve", Allocate(ord[r], l, id), todo[r] \ {l},
                     Append(tx[r], Ev("OrderLineAllocated", {l})))
    <3>1. ord[r].status[l] \in {"Pending", "Backordered"}
      BY <2>4 DEF CanAllocate, CanRetryAllocate
    <3>2. /\ Allocate(ord[r], l, id) \in Order
          /\ Allocate(ord[r], l, id).version = ord[r].version
          /\ Allocate(ord[r], l, id).intent = ord[r].intent
          /\ Allocate(ord[r], l, id).status = [ord[r].status EXCEPT ![l] = "Allocated"]
      BY <1>7, <2>2, AllocateCopy
    <3> QED BY <1>4, <1>5, <2>2, <2>4, <3>1, <3>2
  <2> QED BY <2>1, <2>3, <2>4
<1>9. CASE ReconfirmLine(r)
  <2>1. PICK l \in todo[r], id \in 0..(Len(reservations) + 1) :
          /\ CanReconfirm(ord[r], l)
          /\ \/ Goto(r, "reconfirm", LoseReservation(ord[r], l), todo[r] \ {l},
                     Append(tx[r], Ev("OrderLineBackordered", {l})))
             \/ Goto(r, "reconfirm", ReconfirmReservation(ord[r], l, id), todo[r] \ {l}, tx[r])
    BY <1>9 DEF ReconfirmLine
  <2>2. l \in Lines /\ id \in Nat /\ ord[r].status[l] = "Allocated"
    BY <1>6, <2>1 DEF CanReconfirm
  <2>3. CASE Goto(r, "reconfirm", LoseReservation(ord[r], l), todo[r] \ {l},
                  Append(tx[r], Ev("OrderLineBackordered", {l})))
    <3>1. /\ LoseReservation(ord[r], l) \in Order
          /\ LoseReservation(ord[r], l).version = ord[r].version
          /\ LoseReservation(ord[r], l).intent = ord[r].intent
          /\ LoseReservation(ord[r], l).status = [ord[r].status EXCEPT ![l] = "Backordered"]
      BY <1>7, <2>2, LoseKeeps
    <3> QED BY <1>4, <1>5, <2>2, <2>3, <3>1
  <2>4. CASE Goto(r, "reconfirm", ReconfirmReservation(ord[r], l, id), todo[r] \ {l}, tx[r])
    <3> DEFINE p == ReconfirmReservation(ord[r], l, id)
    <3>1. p.version = ord[r].version /\ p.intent = ord[r].intent /\ p.status = ord[r].status
      BY <1>7, <2>2, ReconfirmKeeps
    <3> HIDE DEF p
    <3>2. CopyTracksRow(Seen(r), "reconfirm", p, tx[r])
      BY <1>3, <3>1 DEF CopyTracksRow, MovesLegally, ReleasesNothing
    <3>3. Goto(r, "reconfirm", p, todo[r] \ {l}, tx[r])
      BY <2>4 DEF p
    <3> QED BY <1>1, <1>2, <3>2, <3>3, GotoTracks
  <2> QED BY <2>1, <2>3, <2>4
<1> QED BY <1>8, <1>9

(* A pass that saves without releasing anything. *)
LEMMA QuietSaveTracks ==
  ASSUME TypeOK, VersionGuardSuffices, NEW r \in Requests, Busy(r), row' = row, op' = op,
         pc[r] \in {"reserve", "reconfirm"},
         NEW o \in SetPromiseDate(ord[r]), NEW events,
         Releases(events, {}), Goto(r, "save", o, {}, events)
  PROVE  VersionGuardSuffices'
<1>1. ord[r] \in Order /\ CopyTracksRow(Seen(r), pc[r], ord[r], tx[r])
  BY BusyFacts
<1>2. o.version = ord[r].version /\ o.intent = ord[r].intent /\ o.status = ord[r].status
  BY <1>1, SetPromiseDateKeeps
<1>3. o.version = Seen(r).version => MovesLegally(o) /\ ReleasesNothing(o)
  BY <1>1, <1>2 DEF CopyTracksRow, MovesLegally, ReleasesNothing
<1>4. o.version = Seen(r).version => PassToSave(o, events)
  BY <1>3, NothingNew DEF PassToSave
<1>5. CopyTracksRow(Seen(r), "save", o, events)
  BY <1>1, <1>2, <1>4 DEF CopyTracksRow
<1> QED BY <1>1, <1>5, GotoTracks

LEMMA AllocationDoneTracks ==
  ASSUME TypeOK, VersionGuardSuffices, NEW r \in Requests, AllocationDone(r)
  PROVE  VersionGuardSuffices'
<1>1. pc[r] = "reserve" /\ Busy(r) /\ row' = row /\ op' = op
  BY DEF AllocationDone, Busy
<1>2. ord[r] \in Order /\ tx[r] \in Seq(Event)
      /\ CopyTracksRow(Seen(r), "reserve", ord[r], tx[r])
  BY <1>1, BusyFacts
<1>3. PICK o \in SetPromiseDate(ord[r]) :
        \/ Goto(r, "reconfirm", o, ToReconfirm(r, o), tx[r])
        \/ Goto(r, "save", o, {}, tx[r] \o Outcome(o, tx[r], {}))
  BY DEF AllocationDone
<1>4. o.version = ord[r].version /\ o.intent = ord[r].intent /\ o.status = ord[r].status
  BY <1>2, SetPromiseDateKeeps
<1>5. CASE Goto(r, "reconfirm", o, ToReconfirm(r, o), tx[r])
  <2>1. CopyTracksRow(Seen(r), "reconfirm", o, tx[r])
    BY <1>2, <1>4 DEF CopyTracksRow, MovesLegally, ReleasesNothing
  <2> QED BY <1>1, <1>2, <1>5, <2>1, GotoTracks
<1>6. CASE Goto(r, "save", o, {}, tx[r] \o Outcome(o, tx[r], {}))
  <2>1. Releases(tx[r], {}) /\ Releases(Outcome(o, tx[r], {}), {})
        /\ Outcome(o, tx[r], {}) \in Seq(Event)
    BY <1>2, OutcomeReleases, OutcomeType DEF CopyTracksRow
  <2>2. Releases(tx[r] \o Outcome(o, tx[r], {}), {} \cup {})
    BY <1>2, <2>1, ReleasesConcat
  <2>3. Releases(tx[r] \o Outcome(o, tx[r], {}), {})
    BY <2>2
  <2> QED BY <1>1, <1>6, <2>3, QuietSaveTracks
<1> QED BY <1>3, <1>5, <1>6

(* The release leg: BR3 is checked on the copy that was just reconfirmed,  *)
(* and the outcome event names exactly the lines it releases.              *)
LEMMA ReleaseTracks ==
  ASSUME TypeOK, VersionGuardSuffices, NEW r \in Requests, ReleaseLines(r)
  PROVE  VersionGuardSuffices'
<1> DEFINE released == IF EnsureReleasable(ord[r])
                       THEN LinesWithStatus(ord[r], "Allocated") ELSE {}
           o == Release(ord[r], released)
           outcome == Outcome(o, tx[r], released)
<1>1. pc[r] = "reconfirm" /\ Busy(r) /\ row' = row /\ op' = op
      /\ Goto(r, "save", o, {}, tx[r] \o outcome)
  BY DEF ReleaseLines, Busy
<1>2. row.status \in [Lines -> LineStatus] /\ ord[r] \in Order
      /\ tx[r] \in Seq(Event) /\ CopyTracksRow(Seen(r), "reconfirm", ord[r], tx[r])
  BY <1>1, BusyFacts
<1>3. released \in SUBSET Lines /\ \A l \in released : ord[r].status[l] = "Allocated"
  BY DEF LinesWithStatus
<1>4. /\ o.version = ord[r].version /\ o.intent = ord[r].intent
      /\ o.status = [l \in Lines |-> IF l \in released THEN "Released" ELSE ord[r].status[l]]
  <2> HIDE DEF released
  <2> QED BY <1>2, <1>3, ReleaseKeeps
<1>5. ~ord[r].intent.partial => released = {} \/ \A l \in Lines : o.status[l] = "Released"
  BY <1>4 DEF EnsureReleasable, LinesWithStatus
<1>6. outcome \in Seq(Event) /\ Releases(outcome, released)
  <2> HIDE DEF released, o
  <2> QED BY <1>3, <1>4, OutcomeType, OutcomeReleases
<1> HIDE DEF released, o, outcome
<1>7. Releases(tx[r] \o outcome, released)
  <2>1. Releases(tx[r], {})
    BY <1>2 DEF CopyTracksRow
  <2>2. Releases(tx[r] \o outcome, {} \cup released)
    BY <1>2, <1>3, <1>6, <2>1, ReleasesConcat
  <2> QED BY <2>2
<1>8. ASSUME o.version = Seen(r).version
      PROVE  PassToSave(o, tx[r] \o outcome)
  <2>1. \A l \in Lines : /\ ord[r].status[l] \in Contract!PassMoves(row.status[l])
                         /\ ord[r].status[l] = "Released" <=> row.status[l] = "Released"
    BY <1>2, <1>4, <1>8 DEF CopyTracksRow, MovesLegally, ReleasesNothing
  <2>2. MovesLegally(o)
    <3>1. ASSUME NEW l \in Lines PROVE o.status[l] \in Contract!PassMoves(row.status[l])
      <4>1. row.status[l] \in LineStatus /\ ord[r].status[l] \in Contract!PassMoves(row.status[l])
        BY <1>2, <2>1
      <4> QED BY <1>3, <1>4, <4>1, PassMovesFacts
    <3> QED BY <3>1 DEF MovesLegally
  <2>3. Contract!Newly(row.status, o.status) = released
    BY <1>3, <1>4, <2>1 DEF Contract!Newly
  <2>4. released = {} => ReleasesNothing(o)
    BY <1>4, <2>1 DEF ReleasesNothing
  <2>5. o.intent.partial \/ ReleasesNothing(o) \/ \A l \in Lines : o.status[l] = "Released"
    BY <1>4, <1>5, <2>4
  <2> QED BY <1>7, <2>2, <2>3, <2>5 DEF PassToSave
<1>9. CopyTracksRow(Seen(r), "save", o, tx[r] \o outcome)
  BY <1>2, <1>4, <1>8 DEF CopyTracksRow
<1> QED BY <1>1, <1>2, <1>9, GotoTracks

(* The cancellation. *)
LEMMA CancelTracks ==
  ASSUME TypeOK, VersionGuardSuffices, NEW r \in Requests,
         RevokeReservation(r) \/ CancelLines(r)
  PROVE  VersionGuardSuffices'
<1>1. pc[r] = "revoke" /\ Busy(r) /\ row' = row /\ op' = op
  BY DEF RevokeReservation, CancelLines, Busy
<1>0. op[r] # "receive" /\ row.version > 0
  BY <1>1, SeenFacts
<1>2. ord[r] \in Order /\ CopyTracksRow(Seen(r), "revoke", ord[r], tx[r])
  BY <1>1, BusyFacts
<1>3. CASE RevokeReservation(r)
  <2>1. \E S : Goto(r, "revoke", ord[r], S, tx[r])
    BY <1>3 DEF RevokeReservation
  <2> QED BY <1>0, <1>1, <1>2, <2>1, GotoTracks
<1>4. CASE CancelLines(r)
  <2> DEFINE o == Cancel(ord[r])
             events == <<Ev("OrderCancelled", {})>>
  <2>1. Goto(r, "save", o, {}, events) /\ EnsureCancellable(ord[r])
    BY <1>4 DEF CancelLines
  <2>2. o.version = ord[r].version /\ o.intent = ord[r].intent
        /\ o.status = [l \in Lines |-> "Cancelled"]
    BY <1>2, CancelKeeps
  <2>3. Releases(events, {})
    BY ReleasesQuiet DEF EventType
  <2> HIDE DEF o, events
  <2>4. o.version = Seen(r).version => CancelToSave(o, events)
    BY <1>0, <1>2, <2>1, <2>2, <2>3
       DEF CopyTracksRow, CancelToSave, ReleasedLines, EnsureCancellable, LinesWithStatus
  <2>5. CopyTracksRow(Seen(r), "save", o, events)
    BY <1>2, <2>2, <2>4 DEF CopyTracksRow
  <2> QED BY <1>0, <1>1, <1>2, <2>1, <2>5, GotoTracks
<1> QED BY <1>3, <1>4

----------------------------------------------------------------------------
(* The stored order and its announcements. *)

Safe == TypeOK /\ VersionGuardSuffices /\ ShipCompleteTogether /\ ReleasedAnnouncedOnce

LEMMA AnnouncedOnceIsReleases ==
  /\ ReleasedAnnouncedOnce <=> Releases(outbox, ReleasedLines)
  /\ ReleasedAnnouncedOnce' <=> Releases(outbox', ReleasedLines')
BY DEF ReleasedAnnouncedOnce, Releases

LEMMA AnnouncedAreReleased ==
  /\ ReleasedAnnouncedOnce => AnnouncedLines = ReleasedLines
  /\ ReleasedAnnouncedOnce' => AnnouncedLines' = ReleasedLines'
BY DEF ReleasedAnnouncedOnce, AnnouncedLines, ReleasedLines, LinesWithStatus

(* What a step owes the store. *)
StoreStep ==
  /\ ShipCompleteTogether'
  /\ ReleasedAnnouncedOnce'
  /\ [Contract!ContractNext]_(Contract!contractVars)

LEMMA StoreUnchanged ==
  ASSUME Safe, row' = row,
         \/ outbox' = outbox
         \/ \E events \in Seq(Event) : outbox' = outbox \o events /\ Releases(events, {})
  PROVE  StoreStep
<1>1. ReleasedLines' = ReleasedLines /\ ReleasedLines \in SUBSET Lines
  BY DEF ReleasedLines, LinesWithStatus
<1>2. Releases(outbox, ReleasedLines)
  BY AnnouncedOnceIsReleases DEF Safe
<1>3. Releases(outbox', ReleasedLines)
  <2>1. CASE outbox' = outbox
    BY <1>2, <2>1
  <2>2. ASSUME NEW events \in Seq(Event), outbox' = outbox \o events, Releases(events, {})
        PROVE  Releases(outbox', ReleasedLines)
    <3>1. Releases(outbox \o events, ReleasedLines \cup {})
      BY <1>1, <1>2, <2>2, ReleasesConcat DEF Safe, TypeOK
    <3> QED BY <2>2, <3>1
  <2> QED BY <2>1, <2>2
<1>4. ReleasedAnnouncedOnce'
  BY <1>1, <1>3, AnnouncedOnceIsReleases
<1>5. AnnouncedLines' = AnnouncedLines
  BY <1>1, <1>4, AnnouncedAreReleased DEF Safe
<1>6. ShipCompleteTogether'
  BY <1>1 DEF Safe, ShipCompleteTogether
<1> QED BY <1>4, <1>5, <1>6 DEF StoreStep, Contract!contractVars

(* Intake begins: nothing is stored yet. *)
LEMMA ReceiveTracks ==
  ASSUME TypeOK, VersionGuardSuffices, NEW r \in Requests, ReceiveOrder(r)
  PROVE  VersionGuardSuffices'
<1>1. PICK intent \in Intents :
        Goto(r, "reserve", New(intent), LinesWithStatus(New(intent), "Pending"),
             <<Ev("OrderReceived", {})>>)
  BY DEF ReceiveOrder
<1>2. row.version = 0 /\ row = NoOrder /\ row' = row /\ op' = [op EXCEPT ![r] = "receive"]
      /\ \A q \in Requests : op[q] # "receive"
  BY DEF ReceiveOrder, VersionGuardSuffices
<1>3. /\ intent \in Intent /\ New(intent).version = 1 /\ New(intent).intent = intent
      /\ New(intent).status = [l \in Lines |-> "Pending"]
      /\ row.status = [l \in Lines |-> "Pending"]
  BY <1>2, IntentsAssumption, NewOrder, NoOrderType
<1>4. pc'[r] = "reserve" /\ ord'[r] = New(intent) /\ tx'[r] = <<Ev("OrderReceived", {})>>
      /\ op'[r] = "receive"
  BY <1>1, <1>2 DEF Goto, TypeOK
<1>5. ASSUME NEW q \in Requests \ {r}
      PROVE  pc'[q] = pc[q] /\ op'[q] = op[q] /\ ord'[q] = ord[q] /\ tx'[q] = tx[q]
  BY <1>1, <1>2, <1>5 DEF Goto, TypeOK
<1>6. CopyTracksRow(Seen(r), pc[r], ord[r], tx[r])'
  <2>1. MovesLegally(ord[r])' /\ ReleasesNothing(ord[r])'
    <3>1. "Pending" \in Contract!PassMoves("Pending")
      BY DEF Contract!PassMoves
    <3> QED BY <1>2, <1>3, <1>4, <3>1 DEF MovesLegally, ReleasesNothing
  <2>2. Releases(tx[r], {})'
    BY <1>4, ReleasesQuiet DEF EventType
  <2>3. Seen(r)' = New(intent)
    BY <1>3, <1>4 DEF Seen
  <2> QED BY <1>3, <1>4, <2>1, <2>2, <2>3 DEF CopyTracksRow
<1> QED BY <1>2, <1>4, <1>5, <1>6, OneMoves

(* A commit that stores what the request made of the row it saw: no other  *)
(* copy is at the new version.                                             *)
LEMMA CommitTracks ==
  ASSUME TypeOK, VersionGuardSuffices, NEW r \in Requests, Busy(r), Finish(r),
         row' \in Order, row'.intent = Seen(r).intent,
         \/ row'.version = Seen(r).version + 1
         \/ op[r] = "receive" /\ row'.version = 1
  PROVE  VersionGuardSuffices'
<1>1. pc'[r] = "done" /\ op' = op
  BY DEF Finish, TypeOK
<1>2. row'.version \in Nat /\ row'.version > 0 /\ Seen(r).version \in Nat
  BY SeenFacts DEF Order
<1>3. ASSUME NEW q \in Requests, Busy(q)'
      PROVE  CopyTracksRow(Seen(q), pc[q], ord[q], tx[q])' /\ op[q] # "receive"
  <2>1. q # r /\ pc'[q] = pc[q] /\ ord'[q] = ord[q] /\ tx'[q] = tx[q]
    BY <1>1, <1>3 DEF Finish, Busy, TypeOK
  <2>2. Busy(q) /\ op[r] # "receive"
    <3>1. Busy(q)
      BY <1>3, <2>1 DEF Busy
    <3> QED BY <2>1, <3>1, SeenFacts
  <2>3. Seen(r) = row /\ row.version > 0 /\ op[q] # "receive" /\ row.version \in Nat
    BY <2>2, SeenFacts DEF TypeOK, Order
  <2>4. CopyTracksRow(row, pc[q], ord[q], tx[q])
    BY <2>2, <2>3 DEF VersionGuardSuffices, Seen
  <2>5. Seen(q)' = row'
    BY <1>1, <2>3 DEF Seen
  <2>6. ord'[q].version \in 1..row'.version /\ ord'[q].version # row'.version
    BY <2>1, <2>2, <2>3, <2>4 DEF CopyTracksRow
  <2>7. ord'[q].intent = row'.intent
    BY <2>1, <2>3, <2>4 DEF CopyTracksRow
  <2>8. pc'[q] \in {"reserve", "reconfirm"} => Releases(tx'[q], {})
    BY <2>1, <2>4 DEF CopyTracksRow
  <2> QED BY <2>3, <2>5, <2>6, <2>7, <2>8 DEF CopyTracksRow
<1>4. ASSUME NEW q \in Requests, op'[q] = "receive"
      PROVE  ~Busy(q)' /\ \A p \in Requests : op'[p] = "receive" => p = q
  BY <1>1, <1>3, <1>4 DEF VersionGuardSuffices
<1> QED BY <1>2, <1>3, <1>4 DEF VersionGuardSuffices

(* A commit that stores a legal pass, and its announcements with it. *)
LEMMA PassCommits ==
  ASSUME Safe, NEW r \in Requests, Busy(r), NEW o \in Order, NEW events \in Seq(Event),
         PassToSave(o, events), o.intent = Seen(r).intent,
         row'.status = o.status, row'.intent = o.intent, (row'.version > 0) = TRUE,
         outbox' = outbox \o events
  PROVE  StoreStep
<1> DEFINE new == Contract!Newly(row.status, o.status)
<1>0. o.status \in [Lines -> LineStatus] /\ o.intent.partial \in BOOLEAN
  BY DEF Order, Intent
<1>1. /\ \A l \in Lines : o.status[l] \in Contract!PassMoves(row.status[l])
      /\ \A l \in Lines : row.status[l] = "Released" => o.status[l] = "Released"
  <2>1. \A l \in Lines : o.status[l] \in Contract!PassMoves(row.status[l])
    BY DEF PassToSave, MovesLegally
  <2>2. ASSUME NEW l \in Lines, row.status[l] = "Released" PROVE o.status[l] = "Released"
    BY <2>1, <2>2 DEF Contract!PassMoves
  <2> QED BY <2>1, <2>2
<1>2. new \in SUBSET Lines /\ new \cap ReleasedLines = {} /\ ReleasedLines' = ReleasedLines \cup new
  BY <1>1 DEF Contract!Newly, ReleasedLines, LinesWithStatus
<1>3. o.intent.partial \/ new = {} \/ \A l \in Lines : o.status[l] = "Released"
  BY NothingNew DEF PassToSave
<1>4. Releases(events, new)
  BY DEF PassToSave
<1>5. Releases(outbox, ReleasedLines) /\ ReleasedLines \in SUBSET Lines /\ outbox \in Seq(Event)
  BY AnnouncedOnceIsReleases DEF Safe, ReleasedLines, LinesWithStatus, TypeOK
<1> HIDE DEF new
<1>6. Releases(outbox \o events, ReleasedLines \cup new)
  BY <1>2, <1>4, <1>5, ReleasesConcat
<1>7. ReleasedAnnouncedOnce'
  BY <1>2, <1>6, AnnouncedOnceIsReleases
<1>8. AnnouncedLines' = AnnouncedLines \cup new
  BY <1>2, <1>7, AnnouncedAreReleased DEF Safe
<1>9. (op[r] = "receive" /\ row.version = 0 /\ ReleasedLines = {})
      \/ (row.version > 0 /\ o.intent = row.intent)
  BY SeenFacts, NoOrderType DEF Safe, ReleasedLines, LinesWithStatus
<1>10. ShipCompleteTogether'
  <2>1. (\A l \in Lines : o.status[l] = "Released") => ReleasedLines' = Lines
    BY DEF ReleasedLines, LinesWithStatus
  <2>2. new = {} => ReleasedLines' = ReleasedLines
    BY <1>2
  <2> QED BY <1>3, <1>9, <2>1, <2>2 DEF Safe, ShipCompleteTogether
<1>11. Contract!MoveLines(row'.intent.partial)
  <2>1. row'.status \in [Lines -> {"Pending", "Allocated", "Backordered", "Released", "Cancelled"}]
    BY <1>0 DEF LineStatus
  <2>2. row'.intent.partial \/ new = {} \/ \A l \in Lines : row'.status[l] = "Released"
    BY <1>3
  <2>3. \A l \in Lines : row'.status[l] \in Contract!PassMoves(row.status[l])
    BY <1>1
  <2>4. new = Contract!Newly(row.status, row'.status)
    BY DEF new
  <2> QED BY <1>8, <2>1, <2>2, <2>3, <2>4 DEF Contract!MoveLines
<1>12. Contract!Intake \/ Contract!Pass
  <2>1. CASE row.version = 0
    <3>1. ~(row.version > 0)
      BY <2>1
    <3> QED BY <1>0, <1>11, <3>1 DEF Contract!Intake
  <2>2. CASE row.version > 0 /\ o.intent = row.intent
    <3>1. row'.intent.partial = row.intent.partial /\ (row'.version > 0) = (row.version > 0)
      BY <2>2
    <3> QED BY <1>11, <2>2, <3>1 DEF Contract!Pass
  <2> QED BY <1>9, <2>1, <2>2
<1> QED BY <1>7, <1>10, <1>12 DEF StoreStep, Contract!ContractNext

(* The commit.  At the row's version the copy is a legal pass or           *)
(* cancellation; at another version nothing is written.                    *)
LEMMA SaveSafe ==
  ASSUME Safe, NEW r \in Requests, Save(r)
  PROVE  VersionGuardSuffices' /\ StoreStep
<1>1. pc[r] = "save" /\ Busy(r) /\ Finish(r)
  BY DEF Save, Busy
<1>2. ord[r] \in Order /\ tx[r] \in Seq(Event) /\ CopyTracksRow(Seen(r), "save", ord[r], tx[r])
      /\ Seen(r) \in Order
  BY <1>1, BusyFacts, SeenFacts DEF Safe
<1>3. CASE ~VersionMatches(r)
  BY <1>1, <1>3, FinishTracks, StoreUnchanged DEF Save, Safe
<1>4. CASE VersionMatches(r)
  <2> DEFINE o == ord[r]
  <2>1. row' = [o EXCEPT !.version = Seen(r).version + 1] /\ outbox' = outbox \o tx[r]
    BY <1>4 DEF Save
  <2>2. row'.version = Seen(r).version + 1 /\ row'.intent = o.intent /\ row'.status = o.status
        /\ row' \in Order /\ Seen(r).version \in Nat
    <3> DEFINE v == Seen(r).version + 1
    <3>1. Seen(r).version \in Nat /\ v \in Nat
      BY <1>2 DEF Order
    <3> HIDE DEF v
    <3>2. row'.version = v /\ row'.intent = o.intent /\ row'.status = o.status /\ row' \in Order
      BY <1>2, <2>1, <3>1 DEF Order, v
    <3> QED BY <3>1, <3>2 DEF v
  <2>3. o.intent = Seen(r).intent /\ (PassToSave(o, tx[r]) \/ CancelToSave(o, tx[r]))
    BY <1>2, <1>4 DEF CopyTracksRow, VersionMatches
  <2> HIDE DEF o
  <2>4. VersionGuardSuffices'
    BY <1>1, <2>2, <2>3, CommitTracks DEF Safe
  <2>5. Releases(outbox, ReleasedLines) /\ ReleasedLines \in SUBSET Lines /\ outbox \in Seq(Event)
    BY AnnouncedOnceIsReleases DEF Safe, ReleasedLines, LinesWithStatus, TypeOK
  <2>6. CASE PassToSave(o, tx[r])
    <3>1. (row'.version > 0) = TRUE
      BY <2>2
    <3>2. o \in Order
      BY <1>2 DEF o
    <3>3. StoreStep
      BY <1>1, <1>2, <2>1, <2>2, <2>3, <2>6, <3>1, <3>2, PassCommits
    <3> QED BY <2>4, <3>3
  <2>7. CASE CancelToSave(o, tx[r])
    <3>1. ReleasedLines = {} /\ ReleasedLines' = {} /\ Releases(tx[r], {})
          /\ row'.status = [l \in Lines |-> "Cancelled"] /\ row.version > 0
      BY <2>2, <2>7 DEF CancelToSave, ReleasedLines, LinesWithStatus
    <3>2. Releases(outbox \o tx[r], {} \cup {})
      BY <1>2, <2>5, <3>1, ReleasesConcat
    <3>3. ReleasedAnnouncedOnce'
      BY <2>1, <3>1, <3>2, AnnouncedOnceIsReleases
    <3>4. AnnouncedLines' = AnnouncedLines
      BY <3>1, <3>3, AnnouncedAreReleased DEF Safe
    <3>5. ShipCompleteTogether'
      BY <3>1 DEF ShipCompleteTogether
    <3>6. Contract!CancelAll
      <4>1. \A l \in Lines : row.status[l] # "Released"
        BY <3>1 DEF ReleasedLines, LinesWithStatus
      <4>2. Seen(r) = row
        BY <1>1, <3>1, SeenFacts DEF Safe
      <4>3. row'.intent.partial = row.intent.partial /\ (row'.version > 0) = (row.version > 0)
        BY <2>2, <2>3, <3>1, <4>2
      <4> QED BY <3>1, <3>4, <4>1, <4>3 DEF Contract!CancelAll
    <3> QED BY <2>4, <3>3, <3>5, <3>6 DEF StoreStep, Contract!ContractNext
  <2> QED BY <2>3, <2>6, <2>7
<1> QED BY <1>3, <1>4

(* A hard failure during allocation: salvage, or event rows without a Save. *)
LEMMA ReserveFailsSafe ==
  ASSUME Safe, NEW r \in Requests, ReserveFails(r)
  PROVE  VersionGuardSuffices' /\ StoreStep
<1>1. pc[r] = "reserve" /\ Busy(r)
  BY DEF ReserveFails, Busy
<1>2. tx[r] \in Seq(Event) /\ CopyTracksRow(Seen(r), "reserve", ord[r], tx[r]) /\ ord[r] \in Order
      /\ row.status \in [Lines -> LineStatus]
  BY <1>1, BusyFacts DEF Safe
<1>3. Releases(tx[r], {})
  BY <1>2 DEF CopyTracksRow
<1>4. CASE AnyAllocated(r)
  <2> DEFINE events == Append(tx[r], Ev("OrderAllocationPartiallyFailed", {}))
  <2>1. PICK o \in SetPromiseDate(ord[r]) : Goto(r, "save", o, {}, events)
    BY <1>4 DEF ReserveFails
  <2>2. Releases(events, {})
    BY <1>2, <1>3, ReleasesAppend DEF EventType
  <2> HIDE DEF events
  <2>3. outbox' = outbox /\ row' = row /\ op' = op
    BY <1>4 DEF ReserveFails
  <2>4. VersionGuardSuffices'
    BY <1>1, <2>1, <2>2, <2>3, QuietSaveTracks DEF Safe
  <2> QED BY <2>3, <2>4, StoreUnchanged
<1>5. CASE ~AnyAllocated(r)
  <2>1. row' = Seen(r) /\ outbox' = outbox \o tx[r] /\ Finish(r)
    BY <1>5 DEF ReserveFails
  <2>2. CASE op[r] # "receive"
    <3>1. row' = row
      BY <1>1, <2>1, <2>2, SeenFacts DEF Safe
    <3>2. VersionGuardSuffices'
      BY <2>1, <3>1, FinishTracks DEF Safe
    <3> QED BY <1>2, <1>3, <2>1, <3>1, <3>2, StoreUnchanged
  <2>3. CASE op[r] = "receive"
    <3> DEFINE o == Seen(r)
    <3>1. o \in Order /\ o.version = 1 /\ o.status = row.status
      BY <1>1, <2>3, SeenFacts DEF Safe
    <3>2. VersionGuardSuffices'
      BY <1>1, <2>1, <2>3, <3>1, CommitTracks DEF Safe
    <3> HIDE DEF o
    <3>3. PassToSave(o, tx[r])
      BY <1>3, <3>1, SameStatusMoves, NothingNew DEF PassToSave, Safe
    <3>4. (row'.version > 0) = TRUE /\ row' = o
      BY <2>1, <3>1 DEF o
    <3>5. o.intent = Seen(r).intent
      BY DEF o
    <3>6. StoreStep
      BY <1>1, <1>2, <2>1, <3>1, <3>3, <3>4, <3>5, PassCommits
    <3> QED BY <3>2, <3>6
  <2> QED BY <2>2, <2>3
<1> QED BY <1>4, <1>5

(* Every step keeps the inductive invariant and is a step of the contract. *)
LEMMA NextSafe ==
  ASSUME Safe, [Next]_vars
  PROVE  Safe' /\ StoreStep
<1>1. TypeOK'
  BY TypeStep DEF Safe
<1>2. CASE UNCHANGED vars
  <2>1. row' = row /\ outbox' = outbox /\ pc' = pc /\ op' = op /\ ord' = ord /\ tx' = tx
    BY <1>2 DEF vars, requestVars
  <2>2. VersionGuardSuffices'
    BY <2>1 DEF Safe, VersionGuardSuffices, Busy, Seen, CopyTracksRow, MovesLegally, ReleasesNothing,
                PassToSave, CancelToSave, ReleasedLines
  <2> QED BY <1>1, <2>1, <2>2, StoreUnchanged DEF Safe, StoreStep
<1>3. CASE ExpireReservation \/ LateReserve
  <2>1. row' = row /\ outbox' = outbox /\ pc' = pc /\ op' = op /\ ord' = ord /\ tx' = tx
    BY <1>3 DEF ExpireReservation, LateReserve, requestVars
  <2>2. VersionGuardSuffices'
    BY <2>1 DEF Safe, VersionGuardSuffices, Busy, Seen, CopyTracksRow, MovesLegally, ReleasesNothing,
                PassToSave, CancelToSave, ReleasedLines
  <2> QED BY <1>1, <2>1, <2>2, StoreUnchanged DEF Safe, StoreStep
<1>4. ASSUME NEW r \in Requests,
             ReceiveOrder(r) \/ (\E use \in Ops : LoadHeader(r, use)) \/ Step(r) \/ Crash(r)
      PROVE  Safe' /\ StoreStep
  <2>1. CASE Save(r) \/ ReserveFails(r)
    BY <1>1, <2>1, SaveSafe, ReserveFailsSafe DEF Safe, StoreStep
  <2>2. CASE ~(Save(r) \/ ReserveFails(r))
    <3>1. VersionGuardSuffices'
      <4>1. CASE ReconfirmFails(r) \/ RevokeFails(r) \/ Crash(r)
        BY <4>1, FinishTracks DEF ReconfirmFails, RevokeFails, Crash, Safe
      <4> QED BY <1>4, <2>2, <4>1, ReceiveTracks, LoadTracks, UseCaseTracks, AnswerTracks, AllocationDoneTracks,
                 ReleaseTracks, CancelTracks DEF Safe, Step
    <3>2. row' = row /\ outbox' = outbox
      <4>1. CASE ReceiveOrder(r) \/ \E use \in Ops : LoadHeader(r, use)
        BY <4>1 DEF LoadHeader, ReceiveOrder
      <4>2. CASE Crash(r)
        BY <4>2 DEF Crash
      <4>3. CASE Step(r)
        BY <2>2, <4>3 DEF Step, LoadLines, RetryAllocation, ReleaseHeldOrder, CancelOrder,
             RepromiseOrder, ReserveLine, AllocationDone, ReconfirmLine, ReconfirmFails,
             ReleaseLines, RevokeReservation, RevokeFails, CancelLines
      <4> QED BY <1>4, <2>2, <4>1, <4>2, <4>3
    <3> QED BY <1>1, <3>1, <3>2, StoreUnchanged DEF Safe, StoreStep
  <2> QED BY <2>1, <2>2
<1> QED BY <1>2, <1>3, <1>4 DEF Next

LEMMA InitSafe == Init => Safe /\ Contract!ContractInit
<1> SUFFICES ASSUME Init PROVE Safe /\ Contract!ContractInit
  OBVIOUS
<1>1. TypeOK
  BY TypeInit
<1>2. ReleasedLines = {} /\ row = NoOrder /\ row.status = [l \in Lines |-> "Pending"]
      /\ row.intent.partial = FALSE /\ (row.version > 0) = FALSE
  BY NoOrderType DEF Init, ReleasedLines, LinesWithStatus
<1>3. ReleasedAnnouncedOnce
  BY <1>2, ReleasesNone, AnnouncedOnceIsReleases DEF Init
<1>4. VersionGuardSuffices
  BY <1>2 DEF Init, VersionGuardSuffices, Busy
<1>5. AnnouncedLines = {}
  BY <1>2, <1>3, AnnouncedAreReleased
<1> QED BY <1>1, <1>2, <1>3, <1>4, <1>5 DEF Safe, ShipCompleteTogether, Contract!ContractInit

(* The inductive invariant holds throughout. *)
THEOREM GuardSuffices == Spec => []VersionGuardSuffices
<1>1. Safe /\ [Next]_vars => Safe'
  BY NextSafe
<1>2. Safe => VersionGuardSuffices
  BY DEF Safe
<1> QED BY InitSafe, <1>1, <1>2, PTL DEF Spec

(* BR3 of the stored order, for any lines and any racing requests. *)
THEOREM ShipsTogether == Spec => []ShipCompleteTogether
<1>1. Safe /\ [Next]_vars => Safe'
  BY NextSafe
<1>2. Safe => ShipCompleteTogether
  BY DEF Safe
<1> QED BY InitSafe, <1>1, <1>2, PTL DEF Spec

(* wes-work-planning hears of each released line exactly once. *)
THEOREM AnnouncedOnce == Spec => []ReleasedAnnouncedOnce
<1>1. Safe /\ [Next]_vars => Safe'
  BY NextSafe
<1>2. Safe => ReleasedAnnouncedOnce
  BY DEF Safe
<1> QED BY InitSafe, <1>1, <1>2, PTL DEF Spec

(* Under the refinement mapping of Contract, the requests, their           *)
(* interleavings, failures and crashes implement the atomic contract.      *)
THEOREM Refinement == Spec => ImplementsContract
<1>1. Safe /\ [Next]_vars => Safe' /\ [Contract!ContractNext]_(Contract!contractVars)
  BY NextSafe DEF StoreStep
<1> QED BY InitSafe, <1>1, PTL DEF Spec, ImplementsContract, Contract!ContractSpec

----------------------------------------------------------------------------
(* What an answer of inventory-storage makes of a copy.                    *)

(* Line l was answered with id, and nothing but l changed. *)
LineAnswer(r, l, id, p, events) ==
  /\ pc[r] \in {"reserve", "reconfirm"}
  /\ Goto(r, pc[r], p, todo[r] \ {l}, events)
  /\ p.version = ord[r].version /\ p.intent = ord[r].intent /\ p.promise = ord[r].promise
  /\ \A m \in Lines \ {l} :
       p.status[m] = ord[r].status[m] /\ p.reservation[m] = ord[r].reservation[m]
  /\ \/ /\ id = 0 /\ p.status[l] = "Backordered"
        /\ events = Append(tx[r], Ev("OrderLineBackordered", {l}))
        /\ pc[r] = "reserve" => p.reservation[l] = ord[r].reservation[l]
     \/ /\ id # 0 /\ p.status[l] = "Allocated" /\ p.reservation[l] = id
        /\ pc[r] = "reserve"
        /\ events = Append(tx[r], Ev("OrderLineAllocated", {l}))
     \/ /\ id # 0 /\ p.status[l] = "Allocated" /\ p.reservation[l] = id
        /\ pc[r] = "reconfirm" /\ ord[r].status[l] = "Allocated"
        /\ events = tx[r]

LEMMA AnswerCases ==
  ASSUME TypeOK, NEW r \in Requests, ReserveLine(r) \/ ReconfirmLine(r)
  PROVE  /\ row' = row /\ outbox' = outbox /\ op' = op
         /\ \E l \in Lines, id \in Nat, p \in Order, events \in Seq(Event) :
              /\ l \in todo[r]
              /\ InventoryReserve(l, ord[r].version, id)
              /\ LineAnswer(r, l, id, p, events)
<1>0. PICK o : o = ord[r]
  OBVIOUS
<1>1. PICK l \in todo[r], id \in 0..(Len(reservations) + 1) :
        /\ InventoryReserve(l, o.version, id)
        /\ \/ /\ id = 0 /\ pc[r] = "reserve"
              /\ Goto(r, "reserve", MarkBackordered(o, l), todo[r] \ {l},
                      Append(tx[r], Ev("OrderLineBackordered", {l})))
           \/ /\ id # 0 /\ pc[r] = "reserve"
              /\ Goto(r, "reserve", Allocate(o, l, id), todo[r] \ {l},
                      Append(tx[r], Ev("OrderLineAllocated", {l})))
           \/ /\ id = 0 /\ pc[r] = "reconfirm"
              /\ Goto(r, "reconfirm", LoseReservation(o, l), todo[r] \ {l},
                      Append(tx[r], Ev("OrderLineBackordered", {l})))
           \/ /\ id # 0 /\ pc[r] = "reconfirm" /\ CanReconfirm(o, l)
              /\ Goto(r, "reconfirm", ReconfirmReservation(o, l, id), todo[r] \ {l}, tx[r])
  BY <1>0 DEF ReserveLine, ReconfirmLine, Allocate, RetryAllocate
<1>2. o \in Order /\ l \in Lines /\ tx[r] \in Seq(Event)
      /\ o.status \in [Lines -> LineStatus] /\ o.reservation \in [Lines -> Nat]
  BY <1>0, TypeParts, RequestFacts DEF Order
<1>3. id \in Nat
  <2>1. Len(reservations) \in Nat
    BY LenProperties DEF TypeOK
  <2> QED BY <2>1
<1>4. row' = row /\ outbox' = outbox /\ op' = op
  BY DEF ReserveLine, ReconfirmLine
<1>5. /\ Append(tx[r], Ev("OrderLineAllocated", {l})) \in Seq(Event)
      /\ Append(tx[r], Ev("OrderLineBackordered", {l})) \in Seq(Event)
  BY <1>2, AppendEvent DEF EventType
<1>6. ASSUME NEW p \in Order, NEW events \in Seq(Event), LineAnswer(r, l, id, p, events)
      PROVE  \E k \in Lines, i \in Nat, q \in Order, es \in Seq(Event) :
               /\ k \in todo[r]
               /\ InventoryReserve(k, ord[r].version, i)
               /\ LineAnswer(r, k, i, q, es)
  BY <1>0, <1>1, <1>2, <1>3, <1>6
<1>7. CASE /\ id = 0 /\ pc[r] = "reserve"
           /\ Goto(r, "reserve", MarkBackordered(o, l), todo[r] \ {l},
                   Append(tx[r], Ev("OrderLineBackordered", {l})))
  <2> DEFINE p == MarkBackordered(o, l)
  <2>1. p \in Order /\ p.version = o.version /\ p.intent = o.intent /\ p.promise = o.promise
        /\ p.status = [o.status EXCEPT ![l] = "Backordered"] /\ p.reservation = o.reservation
    BY <1>2, BackorderKeeps
  <2> HIDE DEF p
  <2>2. LineAnswer(r, l, id, p, Append(tx[r], Ev("OrderLineBackordered", {l})))
    BY <1>0, <1>2, <1>7, <2>1 DEF LineAnswer, p
  <2> QED BY <1>4, <1>5, <1>6, <2>1, <2>2
<1>8. CASE /\ id # 0 /\ pc[r] = "reserve"
           /\ Goto(r, "reserve", Allocate(o, l, id), todo[r] \ {l},
                   Append(tx[r], Ev("OrderLineAllocated", {l})))
  <2> DEFINE p == Allocate(o, l, id)
  <2>1. p \in Order /\ p.version = o.version /\ p.intent = o.intent /\ p.promise = o.promise
        /\ p.status = [o.status EXCEPT ![l] = "Allocated"]
        /\ p.reservation = [o.reservation EXCEPT ![l] = id]
    <3>1. o \in Order /\ l \in Lines
      BY <1>2
    <3> QED BY <1>3, <3>1, AllocateKeeps
  <2> HIDE DEF p
  <2>2. LineAnswer(r, l, id, p, Append(tx[r], Ev("OrderLineAllocated", {l})))
    BY <1>0, <1>2, <1>3, <1>8, <2>1 DEF LineAnswer, p
  <2> QED BY <1>4, <1>5, <1>6, <2>1, <2>2
<1>9. CASE /\ id = 0 /\ pc[r] = "reconfirm"
           /\ Goto(r, "reconfirm", LoseReservation(o, l), todo[r] \ {l},
                   Append(tx[r], Ev("OrderLineBackordered", {l})))
  <2> DEFINE p == LoseReservation(o, l)
  <2>1. p \in Order /\ p.version = o.version /\ p.intent = o.intent /\ p.promise = o.promise
        /\ p.status = [o.status EXCEPT ![l] = "Backordered"]
        /\ p.reservation = [o.reservation EXCEPT ![l] = 0]
    BY <1>2, LoseKeeps
  <2> HIDE DEF p
  <2>2. LineAnswer(r, l, id, p, Append(tx[r], Ev("OrderLineBackordered", {l})))
    BY <1>0, <1>2, <1>9, <2>1 DEF LineAnswer, p
  <2> QED BY <1>4, <1>5, <1>6, <2>1, <2>2
<1>10. CASE /\ id # 0 /\ pc[r] = "reconfirm" /\ CanReconfirm(o, l)
            /\ Goto(r, "reconfirm", ReconfirmReservation(o, l, id), todo[r] \ {l}, tx[r])
  <2> DEFINE p == ReconfirmReservation(o, l, id)
  <2>1. p \in Order /\ p.version = o.version /\ p.intent = o.intent /\ p.promise = o.promise
        /\ p.status = o.status /\ p.reservation = [o.reservation EXCEPT ![l] = id]
    BY <1>2, <1>3, ReconfirmKeeps
  <2> HIDE DEF p
  <2>2. LineAnswer(r, l, id, p, tx[r])
    BY <1>0, <1>2, <1>3, <1>10, <2>1 DEF LineAnswer, CanReconfirm, p
  <2> QED BY <1>2, <1>4, <1>6, <2>1, <2>2
<1> QED BY <1>1, <1>7, <1>8, <1>9, <1>10

----------------------------------------------------------------------------
(* Promises.                                                               *)

(* setPromiseDate ran over what o has allocated. *)
Promised(o) ==
  ~o.intent.deadline =>
    \A l \in Lines : o.status[l] \in {"Allocated", "Released"} => o.promise[l] # NoPromise

(* A ship-complete order has one promise. *)
OnePromise(o) ==
  ~o.intent.partial =>
    \A l, m \in Lines :
      NoPromise \in {o.promise[l], o.promise[m]} \/ o.promise[l] = o.promise[m]

(* A promise misses the deadline. *)
OutOfTime(o) ==
  o.intent.deadline /\ \E l \in Lines : o.promise[l] \notin OnTime \cup {NoPromise}

(* A copy's promises: set before its pass releases or saves anything, and  *)
(* out of time only once RepromiseOrder has moved them, in this request's  *)
(* transaction or in one already committed.                                *)
CopyPromises(stage, o, events, committed) ==
  /\ OnePromise(o)
  /\ stage \in {"reconfirm", "save"} => Promised(o)
  /\ OutOfTime(o) =>
       \/ Announces(committed, "OrderRepromised")
       \/ stage = "save" /\ Announces(events, "OrderRepromised")

PromiseInv ==
  /\ Promised(row) /\ OnePromise(row)
  /\ OutOfTime(row) => Announces(outbox, "OrderRepromised")
  /\ \A r \in Requests : CopyPromises(pc[r], ord[r], tx[r], outbox)

LEMMA AnnouncesConcat ==
  ASSUME NEW a \in Seq(Event), NEW b \in Seq(Event), NEW t
  PROVE  Announces(a, t) \/ Announces(b, t) => Announces(a \o b, t)
<1>1. /\ Len(a) \in Nat /\ Len(b) \in Nat /\ DOMAIN a = 1..Len(a) /\ DOMAIN b = 1..Len(b)
      /\ DOMAIN (a \o b) = 1..(Len(a) + Len(b))
      /\ \A i \in 1..Len(a) : (a \o b)[i] = a[i]
      /\ \A i \in (Len(a) + 1)..(Len(a) + Len(b)) : (a \o b)[i] = b[i - Len(a)]
  BY ConcatProperties, LenProperties
<1>2. ASSUME NEW i \in DOMAIN a, a[i].type = t PROVE Announces(a \o b, t)
  BY <1>1, <1>2 DEF Announces
<1>3. ASSUME NEW i \in DOMAIN b, b[i].type = t PROVE Announces(a \o b, t)
  <2>1. i + Len(a) \in DOMAIN (a \o b) /\ (a \o b)[i + Len(a)] = b[i]
    BY <1>1
  <2> QED BY <1>3, <2>1 DEF Announces
<1> QED BY <1>2, <1>3 DEF Announces

(* The policy's answer covers every promised line, with one promise when   *)
(* the order ships complete.                                               *)
LEMMA PolicyPromises ==
  ASSUME NEW o \in Order, NEW g \in PromiseGroups(o)
  PROVE  Promised(SetPromiseGroups(o, g)) /\ OnePromise(SetPromiseGroups(o, g))
<1> DEFINE p == SetPromiseGroups(o, g)
<1>1. g \in [Lines -> Promises \cup {NoPromise}]
  BY PromiseGroupsType
<1>2. p.intent = o.intent /\ p.status = o.status /\ p.promise = g
  BY <1>1, SetPromiseGroupsKeeps
<1> HIDE DEF p
<1>3. \A l \in Lines : l \in PromisedLines(o) => g[l] # NoPromise
  BY PromisesAssumption DEF PromiseGroups
<1>4. \A l \in Lines : o.status[l] \in {"Allocated", "Released"} => l \in PromisedLines(o)
  BY DEF PromisedLines, LinesWithStatus
<1>5. ~o.intent.partial =>
        \A l, m \in Lines : NoPromise \in {g[l], g[m]} \/ g[l] = g[m]
  BY DEF PromiseGroups
<1> QED BY <1>2, <1>3, <1>4, <1>5 DEF Promised, OnePromise, p

LEMMA FeasiblePromises ==
  ASSUME NEW o \in Order, NEW g \in FeasibleGroups(o)
  PROVE  OnePromise(SetPromiseGroups(o, g)) /\ ~OutOfTime(SetPromiseGroups(o, g))
<1> DEFINE p == SetPromiseGroups(o, g)
<1>1. g \in [Lines -> Promises \cup {NoPromise}]
  BY PromiseGroupsType
<1>2. p.promise = g
  BY <1>1, SetPromiseGroupsKeeps
<1> HIDE DEF p
<1>3. PICK q \in OnTime : g = [l \in Lines |-> IF o.status[l] = "Allocated" THEN q ELSE NoPromise]
  BY DEF FeasibleGroups
<1>4. \A l \in Lines : g[l] \in {q, NoPromise}
  BY <1>3
<1> QED BY <1>2, <1>3, <1>4 DEF OnePromise, OutOfTime, p

(* What setPromiseDate makes of any copy with at most one promise. *)
LEMMA SetPromiseDatePromises ==
  ASSUME NEW o \in Order, OnePromise(o), NEW p \in SetPromiseDate(o)
  PROVE  Promised(p) /\ OnePromise(p) /\ (OutOfTime(p) => OutOfTime(o))
<1>1. CASE o.intent.deadline
  <2>1. CASE p = o
    BY <1>1, <2>1 DEF Promised
  <2>2. ASSUME NEW g \in FeasibleGroups(o), p = SetPromiseGroups(o, g)
        PROVE  Promised(p) /\ OnePromise(p) /\ (OutOfTime(p) => OutOfTime(o))
    BY <1>1, <2>2, FeasiblePromises, SetPromiseDateKeeps DEF Promised
  <2> QED BY <1>1, <2>1, <2>2 DEF SetPromiseDate
<1>2. CASE ~o.intent.deadline
  <2>1. ~OutOfTime(p)
    BY <1>2, SetPromiseDateKeeps DEF OutOfTime
  <2>2. CASE PromiseGroups(o) = {}
    <3>1. PromisedLines(o) = {}
      <4>1. PICK q \in Promises : TRUE
        BY PromisesAssumption
      <4> DEFINE Groups(f) == [l \in Lines |-> IF l \in PromisedLines(o) THEN f[l] ELSE NoPromise]
                 f == [l \in Lines |-> q]
      <4>2. f \in [Lines -> Promises]
        OBVIOUS
      <4>3. Groups(f) \in {Groups(h) : h \in [Lines -> Promises]}
            /\ Groups(f) \in {Groups([l \in Lines |-> h]) : h \in Promises}
        <5> HIDE DEF Groups
        <5>1. Groups(f) \in {Groups(h) : h \in [Lines -> Promises]}
          BY <4>2
        <5> QED BY <5>1
      <4>4. {Groups(h) : h \in [Lines -> Promises]} # {}
            /\ {Groups([l \in Lines |-> h]) : h \in Promises} # {}
        BY <4>3
      <4> QED BY <2>2, <4>4 DEF PromiseGroups
    <3>2. p = o
      BY <1>2, <2>2 DEF SetPromiseDate
    <3> QED BY <2>1, <3>1, <3>2 DEF Promised, PromisedLines, LinesWithStatus
  <2>3. ASSUME NEW g \in PromiseGroups(o), p = SetPromiseGroups(o, g)
        PROVE  Promised(p) /\ OnePromise(p)
    BY <2>3, PolicyPromises
  <2> QED BY <1>2, <2>1, <2>2, <2>3 DEF SetPromiseDate
<1> QED BY <1>1, <1>2

(* One request moves, and its new copy keeps its promises. *)
LEMMA PromiseFrame ==
  ASSUME PromiseInv, NEW r \in Requests, OthersStay(r),
         Announces(outbox, "OrderRepromised") => Announces(outbox', "OrderRepromised"),
         Promised(row'), OnePromise(row'),
         OutOfTime(row') => Announces(outbox', "OrderRepromised"),
         CopyPromises(pc'[r], ord'[r], tx'[r], outbox')
  PROVE  PromiseInv'
<1>1. ASSUME NEW q \in Requests
      PROVE  CopyPromises(pc'[q], ord'[q], tx'[q], outbox')
  <2>1. CASE q = r
    BY <2>1
  <2>2. CASE q # r
    <3>1. pc'[q] = pc[q] /\ ord'[q] = ord[q] /\ tx'[q] = tx[q]
      BY <2>2 DEF OthersStay
    <3>2. CopyPromises(pc[q], ord[q], tx[q], outbox)
      BY DEF PromiseInv
    <3> QED BY <3>1, <3>2 DEF CopyPromises
  <2> QED BY <2>1, <2>2
<1> QED BY <1>1 DEF PromiseInv

LEMMA PromiseGoto ==
  ASSUME TypeOK, PromiseInv, NEW r \in Requests, NEW stage, NEW o, NEW S, NEW events,
         Goto(r, stage, o, S, events), OthersStay(r), row' = row, outbox' = outbox,
         CopyPromises(stage, o, events, outbox)
  PROVE  PromiseInv'
<1>1. ord'[r] = o /\ pc'[r] = stage /\ tx'[r] = events
  BY GotoStays
<1> QED BY <1>1, PromiseFrame DEF PromiseInv

(* No promise at all. *)
LEMMA NothingPromised ==
  ASSUME NEW o, o.promise = [l \in Lines |-> NoPromise],
         o.status = [l \in Lines |-> "Pending"]
  PROVE  Promised(o) /\ OnePromise(o) /\ ~OutOfTime(o)
BY DEF Promised, OnePromise, OutOfTime

LEMMA PromiseFinish ==
  ASSUME TypeOK, PromiseInv, NEW r \in Requests, Finish(r),
         Announces(outbox, "OrderRepromised") => Announces(outbox', "OrderRepromised"),
         Promised(row'), OnePromise(row'),
         OutOfTime(row') => Announces(outbox', "OrderRepromised")
  PROVE  PromiseInv'
<1>1. OthersStay(r) /\ ord'[r] = NoOrder /\ pc'[r] = "done"
  BY FinishStays
<1>2. CopyPromises(pc'[r], ord'[r], tx'[r], outbox')
  BY <1>1, NoOrderType, NothingPromised DEF CopyPromises
<1> QED BY <1>1, <1>2, PromiseFrame

(* Intake and loading start without a promise. *)
LEMMA PromiseLoad ==
  ASSUME TypeOK, PromiseInv, NEW r \in Requests,
         ReceiveOrder(r) \/ (\E use \in Ops : LoadHeader(r, use)) \/ LoadLines(r)
  PROVE  PromiseInv'
<1>0. OthersStay(r)
  BY RequestStays DEF RequestStep, Step
<1>1. row' = row /\ outbox' = outbox
  BY DEF ReceiveOrder, LoadHeader, LoadLines
<1>2. CASE ReceiveOrder(r)
  <2>1. PICK intent \in Intents :
          Goto(r, "reserve", New(intent), LinesWithStatus(New(intent), "Pending"),
               <<Ev("OrderReceived", {})>>)
    BY <1>2 DEF ReceiveOrder
  <2>2. OnePromise(New(intent)) /\ ~OutOfTime(New(intent))
    BY IntentsAssumption, NewOrder, NothingPromised
  <2>3. CopyPromises("reserve", New(intent), <<Ev("OrderReceived", {})>>, outbox)
    BY <2>2 DEF CopyPromises
  <2> QED BY <1>0, <1>1, <2>1, <2>3, PromiseGoto
<1>3. CASE \E use \in Ops : LoadHeader(r, use)
  <2> DEFINE o == [New(row.intent) EXCEPT !.version = row.version]
  <2>1. Goto(r, "lines", o, {}, <<>>)
    BY <1>3 DEF LoadHeader
  <2>2. row.intent \in Intent
    BY DEF TypeOK, Order
  <2>3. o.status = New(row.intent).status /\ o.promise = New(row.intent).promise
    BY <2>2, NewOrder DEF Order
  <2> HIDE DEF o
  <2>4. OnePromise(o) /\ ~OutOfTime(o)
    BY <2>2, <2>3, NewOrder, NothingPromised
  <2>5. CopyPromises("lines", o, <<>>, outbox)
    BY <2>4 DEF CopyPromises
  <2> QED BY <1>0, <1>1, <2>1, <2>5, PromiseGoto
<1>4. CASE LoadLines(r)
  <2> DEFINE o == [ord[r] EXCEPT !.status = row.status, !.reservation = row.reservation]
  <2>1. Goto(r, "groups", o, {}, <<>>) /\ pc[r] = "lines"
    BY <1>4 DEF LoadLines
  <2>2. ord[r] \in Order
    BY DEF TypeOK
  <2>3. o.promise = ord[r].promise /\ o.intent = ord[r].intent
    BY <2>2 DEF Order
  <2> HIDE DEF o
  <2>4. CopyPromises("lines", ord[r], tx[r], outbox)
    BY <2>1 DEF PromiseInv
  <2>5. CopyPromises("groups", o, <<>>, outbox)
    BY <2>3, <2>4 DEF CopyPromises, OnePromise, OutOfTime
  <2> QED BY <1>0, <1>1, <2>1, <2>5, PromiseGoto
<1> QED BY <1>2, <1>3, <1>4

(* The loaded copy has the row's promises, whatever commits its reads      *)
(* straddled; RepromiseOrder replaces them with an announcement.           *)
LEMMA PromiseUseCase ==
  ASSUME Safe, PromiseInv, NEW r \in Requests,
         RetryAllocation(r) \/ ReleaseHeldOrder(r) \/ CancelOrder(r) \/ RepromiseOrder(r)
  PROVE  PromiseInv'
<1>0. OthersStay(r) /\ TypeOK
  BY RequestStays DEF RequestStep, Step, Safe
<1>1. row' = row /\ outbox' = outbox /\ pc[r] = "groups" /\ Busy(r)
  BY DEF RetryAllocation, ReleaseHeldOrder, CancelOrder, RepromiseOrder, Busy
<1>2. PICK o : o = Loaded(r)
  OBVIOUS
<1>3. o \in Order /\ o.intent = row.intent /\ o.promise = row.promise
  <2>1. Seen(r) = row
    BY <1>1, SeenFacts DEF Safe
  <2>2. ord[r].intent = row.intent
    BY <1>1, <2>1, BusyFacts DEF Safe, CopyTracksRow
  <2> QED BY <1>0, <1>2, <2>2, LoadedType
<1>4. \A events : CopyPromises("reserve", o, events, outbox) /\ CopyPromises("revoke", o, events, outbox)
  BY <1>3 DEF PromiseInv, CopyPromises, OnePromise, OutOfTime
<1>5. CASE Finish(r)
  BY <1>0, <1>1, <1>5, PromiseFinish DEF PromiseInv
<1>6. CASE RetryAllocation(r) /\ ~Finish(r)
  <2>1. Goto(r, "reserve", o, RetryLines(o), <<>>)
    BY <1>2, <1>6 DEF RetryAllocation
  <2> QED BY <1>0, <1>1, <1>4, <2>1, PromiseGoto
<1>7. CASE ReleaseHeldOrder(r) /\ ~Finish(r)
  <2>1. Goto(r, "reserve", o, {}, <<>>)
    BY <1>2, <1>7 DEF ReleaseHeldOrder
  <2> QED BY <1>0, <1>1, <1>4, <2>1, PromiseGoto
<1>8. CASE CancelOrder(r) /\ ~Finish(r)
  <2>1. Goto(r, "revoke", o, AllocatedReservations(o), <<>>)
    BY <1>2, <1>8 DEF CancelOrder
  <2> QED BY <1>0, <1>1, <1>4, <2>1, PromiseGoto
<1>9. CASE RepromiseOrder(r) /\ ~Finish(r)
  <2>1. PICK l \in Lines, g \in PromiseGroups(o) :
          Goto(r, "save", SetPromiseGroups(o, g), {}, <<Ev("OrderRepromised", {l})>>)
    BY <1>2, <1>9 DEF RepromiseOrder
  <2>2. Promised(SetPromiseGroups(o, g)) /\ OnePromise(SetPromiseGroups(o, g))
    BY <1>3, PolicyPromises
  <2>3. Announces(<<Ev("OrderRepromised", {l})>>, "OrderRepromised")
    BY DEF Announces, Ev
  <2>4. CopyPromises("save", SetPromiseGroups(o, g), <<Ev("OrderRepromised", {l})>>, outbox)
    BY <2>2, <2>3 DEF CopyPromises
  <2> QED BY <1>0, <1>1, <2>1, <2>4, PromiseGoto
<1> QED BY <1>5, <1>6, <1>7, <1>8, <1>9

(* The pass. *)
LEMMA PromisePass ==
  ASSUME TypeOK, PromiseInv, NEW r \in Requests,
         \/ ReserveLine(r) \/ ReserveFails(r) \/ AllocationDone(r)
         \/ ReconfirmLine(r) \/ ReleaseLines(r)
  PROVE  PromiseInv'
<1>0. OthersStay(r)
  BY RequestStays DEF RequestStep, Step
<1>1. /\ ord[r] \in Order /\ tx[r] \in Seq(Event) /\ outbox \in Seq(Event)
      /\ CopyPromises(pc[r], ord[r], tx[r], outbox)
      /\ pc[r] \in {"reserve", "reconfirm"}
  BY DEF TypeOK, PromiseInv, ReserveLine, ReserveFails, AllocationDone, ReconfirmLine, ReleaseLines
<1>2. ASSUME NEW o \in SetPromiseDate(ord[r]), NEW stage, NEW events
      PROVE  CopyPromises(stage, o, events, outbox)
  BY <1>1, SetPromiseDatePromises DEF CopyPromises
<1>3. CASE ReserveLine(r) \/ ReconfirmLine(r)
  <2>1. PICK l \in Lines, id \in Nat, p \in Order, events \in Seq(Event) :
          LineAnswer(r, l, id, p, events)
    BY <1>3, AnswerCases
  <2>2. p.intent = ord[r].intent /\ p.promise = ord[r].promise
    BY <2>1 DEF LineAnswer
  <2>3. OnePromise(p) /\ (OutOfTime(p) => Announces(outbox, "OrderRepromised"))
    BY <1>1, <2>2 DEF CopyPromises, OnePromise, OutOfTime
  <2>4. pc[r] = "reconfirm" => Promised(p)
    <3>1. ASSUME pc[r] = "reconfirm", NEW m \in Lines, p.status[m] \in {"Allocated", "Released"}
          PROVE  ord[r].status[m] \in {"Allocated", "Released"}
      BY <2>1, <3>1 DEF LineAnswer
    <3> QED BY <1>1, <2>2, <3>1 DEF CopyPromises, Promised
  <2>5. CopyPromises(pc[r], p, events, outbox)
    BY <1>1, <2>3, <2>4 DEF CopyPromises
  <2>6. Goto(r, pc[r], p, todo[r] \ {l}, events)
    BY <2>1 DEF LineAnswer
  <2> QED BY <1>0, <1>3, <2>5, <2>6, AnswerCases, PromiseGoto
<1>4. CASE ReserveFails(r) /\ AnyAllocated(r)
  <2>1. PICK o \in SetPromiseDate(ord[r]) :
          Goto(r, "save", o, {}, Append(tx[r], Ev("OrderAllocationPartiallyFailed", {})))
    BY <1>4 DEF ReserveFails
  <2>2. row' = row /\ outbox' = outbox
    BY <1>4 DEF ReserveFails
  <2> QED BY <1>0, <1>2, <2>1, <2>2, PromiseGoto
<1>5. CASE ReserveFails(r) /\ ~AnyAllocated(r)
  <2>1. row' = Seen(r) /\ Finish(r) /\ outbox' = outbox \o tx[r]
    BY <1>5 DEF ReserveFails
  <2>2. Announces(outbox, "OrderRepromised") => Announces(outbox', "OrderRepromised")
    BY <1>1, <2>1, AnnouncesConcat
  <2>3. CASE row' = row
    BY <2>1, <2>2, <2>3, PromiseFinish DEF PromiseInv
  <2>4. CASE row' = New(ord[r].intent)
    <3>1. ord[r].intent \in Intent
      BY <1>1 DEF Order
    <3>2. Promised(row') /\ OnePromise(row') /\ ~OutOfTime(row')
      BY <2>4, <3>1, NewOrder, NothingPromised
    <3> QED BY <2>1, <2>2, <3>2, PromiseFinish
  <2> QED BY <2>1, <2>3, <2>4 DEF Seen
<1>6. CASE AllocationDone(r)
  <2>1. PICK o \in SetPromiseDate(ord[r]) :
          \/ Goto(r, "reconfirm", o, ToReconfirm(r, o), tx[r])
          \/ Goto(r, "save", o, {}, tx[r] \o Outcome(o, tx[r], {}))
    BY <1>6 DEF AllocationDone
  <2>2. row' = row /\ outbox' = outbox
    BY <1>6 DEF AllocationDone
  <2> QED BY <1>0, <1>2, <2>1, <2>2, PromiseGoto
<1>7. CASE ReleaseLines(r)
  <2> DEFINE released == IF EnsureReleasable(ord[r])
                         THEN LinesWithStatus(ord[r], "Allocated") ELSE {}
             o == Release(ord[r], released)
  <2>1. Goto(r, "save", o, {}, tx[r] \o Outcome(o, tx[r], released)) /\ row' = row /\ outbox' = outbox
        /\ pc[r] = "reconfirm"
    BY <1>7 DEF ReleaseLines
  <2>2. released \in SUBSET Lines /\ \A l \in released : ord[r].status[l] = "Allocated"
    BY DEF LinesWithStatus
  <2>3. PICK events : events = tx[r] \o Outcome(o, tx[r], released)
    OBVIOUS
  <2> HIDE DEF released
  <2>4. /\ o.status = [l \in Lines |-> IF l \in released THEN "Released" ELSE ord[r].status[l]]
        /\ o.intent = ord[r].intent /\ o.promise = ord[r].promise
    BY <1>1, <2>2, ReleaseKeeps
  <2> HIDE DEF o
  <2>5. OnePromise(o) /\ (OutOfTime(o) => Announces(outbox, "OrderRepromised"))
    BY <1>1, <2>1, <2>4 DEF CopyPromises, OnePromise, OutOfTime
  <2>6. Promised(o)
    <3>1. ASSUME NEW l \in Lines, o.status[l] \in {"Allocated", "Released"}
          PROVE  ord[r].status[l] \in {"Allocated", "Released"}
      BY <2>2, <2>4, <3>1
    <3> QED BY <1>1, <2>1, <2>4, <3>1 DEF CopyPromises, Promised
  <2>7. CopyPromises("save", o, events, outbox)
    BY <2>5, <2>6 DEF CopyPromises
  <2> QED BY <1>0, <2>1, <2>3, <2>7, PromiseGoto
<1> QED BY <1>3, <1>4, <1>5, <1>6, <1>7

(* Cancellation keeps the promises recorded; the commit stores the copy    *)
(* together with its announcement.                                         *)
LEMMA PromiseEnd ==
  ASSUME TypeOK, PromiseInv, NEW r \in Requests,
         \/ ReconfirmFails(r) \/ RevokeReservation(r) \/ RevokeFails(r)
         \/ CancelLines(r) \/ Save(r) \/ Crash(r)
  PROVE  PromiseInv'
<1>0. OthersStay(r)
  BY RequestStays DEF RequestStep, Step
<1>1. /\ ord[r] \in Order /\ tx[r] \in Seq(Event) /\ outbox \in Seq(Event)
      /\ CopyPromises(pc[r], ord[r], tx[r], outbox)
  BY DEF TypeOK, PromiseInv
<1>2. CASE ReconfirmFails(r) \/ RevokeFails(r) \/ Crash(r) \/ (Save(r) /\ ~VersionMatches(r))
  <2>1. row' = row /\ outbox' = outbox /\ Finish(r)
    BY <1>2 DEF ReconfirmFails, RevokeFails, Crash, Save
  <2> QED BY <2>1, PromiseFinish DEF PromiseInv
<1>3. CASE RevokeReservation(r)
  <2>1. PICK l \in todo[r] : Goto(r, "revoke", ord[r], todo[r] \ {l}, tx[r])
    BY <1>3 DEF RevokeReservation
  <2>2. row' = row /\ outbox' = outbox /\ pc[r] = "revoke"
    BY <1>3 DEF RevokeReservation
  <2> QED BY <1>0, <1>1, <2>1, <2>2, PromiseGoto
<1>4. CASE CancelLines(r)
  <2> DEFINE o == Cancel(ord[r])
  <2>1. Goto(r, "save", o, {}, <<Ev("OrderCancelled", {})>>) /\ row' = row /\ outbox' = outbox
        /\ pc[r] = "revoke"
    BY <1>4 DEF CancelLines
  <2>2. o.status = [l \in Lines |-> "Cancelled"] /\ o.intent = ord[r].intent
        /\ o.promise = ord[r].promise
    BY <1>1 DEF Cancel, Order
  <2> HIDE DEF o
  <2>3. CopyPromises("save", o, <<Ev("OrderCancelled", {})>>, outbox)
    BY <1>1, <2>1, <2>2 DEF CopyPromises, OnePromise, OutOfTime, Promised
  <2> QED BY <1>0, <2>1, <2>3, PromiseGoto
<1>5. CASE Save(r) /\ VersionMatches(r)
  <2>1. /\ row' = [ord[r] EXCEPT !.version = Seen(r).version + 1] /\ outbox' = outbox \o tx[r]
        /\ Finish(r) /\ pc[r] = "save"
    BY <1>5 DEF Save
  <2>2. row'.status = ord[r].status /\ row'.intent = ord[r].intent /\ row'.promise = ord[r].promise
    BY <1>1, <2>1 DEF Order
  <2>3. /\ Announces(outbox, "OrderRepromised") => Announces(outbox', "OrderRepromised")
        /\ Announces(tx[r], "OrderRepromised") => Announces(outbox', "OrderRepromised")
    BY <1>1, <2>1, AnnouncesConcat
  <2>4. Promised(row') /\ OnePromise(row')
        /\ (OutOfTime(row') => Announces(outbox', "OrderRepromised"))
    BY <1>1, <2>1, <2>2, <2>3 DEF CopyPromises, OnePromise, OutOfTime, Promised
  <2> QED BY <2>1, <2>3, <2>4, PromiseFinish
<1> QED BY <1>2, <1>3, <1>4, <1>5

LEMMA PromiseStep == Safe /\ PromiseInv /\ [Next]_vars => PromiseInv'
<1> SUFFICES ASSUME Safe, PromiseInv, [Next]_vars PROVE PromiseInv'
  OBVIOUS
<1>1. CASE UNCHANGED vars \/ ExpireReservation \/ LateReserve
  BY <1>1 DEF vars, requestVars, ExpireReservation, LateReserve, PromiseInv
<1>2. ASSUME NEW r \in Requests, RequestStep(r)
      PROVE  PromiseInv'
  BY <1>2, PromiseLoad, PromiseUseCase, PromisePass, PromiseEnd DEF RequestStep, Step, Safe
<1> QED BY <1>1, <1>2 DEF Next, RequestStep

LEMMA PromiseInit == Init => PromiseInv
<1> SUFFICES ASSUME Init PROVE PromiseInv
  OBVIOUS
<1>1. Promised(NoOrder) /\ OnePromise(NoOrder) /\ ~OutOfTime(NoOrder)
  BY NoOrderType, NothingPromised
<1> QED BY <1>1 DEF Init, PromiseInv, CopyPromises

(* Every line the stored order has allocated is promised unless a deadline *)
(* rules, and a ship-complete order is promised once, whatever passes,     *)
(* salvages and re-promises raced: setPromiseDate precedes every Save that *)
(* allocates, and it covers the lines earlier passes released.             *)
THEOREM PromisesCover == Spec => []AllocatedLinesPromised
<1>1. Safe /\ PromiseInv /\ [Next]_vars => Safe' /\ PromiseInv'
  BY NextSafe, PromiseStep
<1>2. PromiseInv => AllocatedLinesPromised
  BY DEF PromiseInv, Promised, OnePromise, AllocatedLinesPromised
<1> QED BY InitSafe, PromiseInit, <1>1, <1>2, PTL DEF Spec

(* A promise of the stored order misses requiredShipBy only after a        *)
(* committed OrderRepromised.                                              *)
THEOREM DeadlinesHold == Spec => []DeadlineKept
<1>1. Safe /\ PromiseInv /\ [Next]_vars => Safe' /\ PromiseInv'
  BY NextSafe, PromiseStep
<1>2. PromiseInv => DeadlineKept
  BY DEF PromiseInv, OutOfTime, DeadlineKept
<1> QED BY InitSafe, PromiseInit, <1>1, <1>2, PTL DEF Spec

----------------------------------------------------------------------------
(* What a pass stores: confirmed releases, and the events of its changes.  *)

(* The lines a list of events says were reserved. *)
ReservedBy(events) ==
  {l \in Lines : \E i \in DOMAIN events :
     events[i].type = "OrderLineAllocated" /\ l \in events[i].lines}

Tells(events, t, l) == \E i \in DOMAIN events : events[i] = Ev(t, {l})

(* inventory-storage answered line l, under the attempt of this very pass. *)
Answered(o, l, A) ==
  [line |-> l, attempt |-> o.version, id |-> o.reservation[l]] \in A

(* A pass on its way to the release: what it reserved itself is answered,  *)
(* what it need not reconfirm any more is too, and it only gets to the     *)
(* release of a held order if that is what it was asked for.               *)
OnTheWay(use, stage, o, S, events, A) ==
  /\ stage \in {"reserve", "reconfirm"} => \A l \in Lines : ~Tells(events, "OrderRepromised", l)
  /\ stage = "reserve" => \A l \in ReservedBy(events) : Answered(o, l, A)
  /\ stage = "reconfirm" =>
       /\ \A l \in Lines \ S : o.status[l] = "Allocated" => Answered(o, l, A)
       /\ o.intent.held => use = "releaseHeld"

(* The events tell what became of the lines of the stored order. *)
StatusTold(o, events, stored) ==
  \A l \in Lines :
    /\ stored.status[l] \in {"Pending", "Backordered"} /\ o.status[l] \in {"Allocated", "Released"}
       => Tells(events, "OrderLineAllocated", l)
    /\ stored.status[l] # "Backordered" /\ o.status[l] = "Backordered"
       => Tells(events, "OrderLineBackordered", l)

PromiseTold(o, events, stored) ==
  \A l \in Lines :
    Tells(events, "OrderRepromised", l) =>
      NoPromise \notin {stored.promise[l], o.promise[l]} /\ o.promise[l] # stored.promise[l]

ReleaseBacked(use, o, stored, A) ==
  \A l \in Lines :
    o.status[l] = "Released" /\ stored.status[l] # "Released" =>
      Answered(o, l, A) /\ (o.intent.held => use = "releaseHeld")

(* A copy against the order it is about to replace. *)
AgainstRow(use, stage, o, events, stored, A) ==
  /\ stage \in {"reserve", "reconfirm", "save"} => StatusTold(o, events, stored)
  /\ stage = "save" => ReleaseBacked(use, o, stored, A) /\ PromiseTold(o, events, stored)

(* Only a copy at the row's version can be compared with the row. *)
PassInv ==
  /\ HeldUntilReleased
  /\ \A r \in Requests : OnTheWay(op[r], pc[r], ord[r], todo[r], tx[r], answers)
  /\ \A r \in Requests :
       Busy(r) /\ VersionMatches(r) => AgainstRow(op[r], pc[r], ord[r], tx[r], row, answers)

LEMMA AnswersGrow ==
  ASSUME NEW use, NEW stage, NEW o, NEW S, NEW events, NEW stored, NEW A, NEW B, A \subseteq B
  PROVE  /\ OnTheWay(use, stage, o, S, events, A) => OnTheWay(use, stage, o, S, events, B)
         /\ AgainstRow(use, stage, o, events, stored, A) =>
              AgainstRow(use, stage, o, events, stored, B)
BY DEF OnTheWay, AgainstRow, ReleaseBacked, Answered

(* Who has ended does not move again. *)
LEMMA DoneStays ==
  ASSUME NEW r \in Requests, RequestStep(r)
  PROVE  pc[r] # "done"
BY DEF RequestStep, Step, ReceiveOrder, LoadHeader, LoadLines, RetryAllocation, ReleaseHeldOrder,
       CancelOrder, RepromiseOrder, ReserveLine, ReserveFails, AllocationDone, ReconfirmLine,
       ReconfirmFails, ReleaseLines, RevokeReservation, RevokeFails, CancelLines, Save, Crash

LEMMA HeldStays ==
  ASSUME TypeOK, HeldUntilReleased, NEW r \in Requests, RequestStep(r),
         row'.intent.held /\ ReleasedLines' # {} => row.intent.held /\ ReleasedLines # {}
  PROVE  HeldUntilReleased'
BY RequestStays, DoneStays DEF HeldUntilReleased, OthersStay

LEMMA SeenVersionStays ==
  ASSUME NEW r \in Requests, row' = row, op'[r] = op[r]
  PROVE  Seen(r)'.version = Seen(r).version
<1>1. \A intent : New(intent).version = 1
  BY DEF New
<1> QED BY <1>1 DEF Seen

(* One request moves, and the row stays. *)
LEMMA PassFrame ==
  ASSUME TypeOK, PassInv, NEW r \in Requests, RequestStep(r),
         row' = row, answers \subseteq answers',
         OnTheWay(op'[r], pc'[r], ord'[r], todo'[r], tx'[r], answers'),
         (Busy(r) /\ VersionMatches(r))' =>
           AgainstRow(op'[r], pc'[r], ord'[r], tx'[r], row, answers')
  PROVE  PassInv'
<1>1. OthersStay(r)
  BY RequestStays
<1>2. HeldUntilReleased'
  <2>1. HeldUntilReleased
    BY DEF PassInv
  <2>2. ReleasedLines' = ReleasedLines
    BY DEF ReleasedLines, LinesWithStatus
  <2> QED BY <2>1, <2>2, HeldStays
<1>3. ASSUME NEW q \in Requests
      PROVE  /\ OnTheWay(op'[q], pc'[q], ord'[q], todo'[q], tx'[q], answers')
             /\ (Busy(q) /\ VersionMatches(q))' =>
                  AgainstRow(op'[q], pc'[q], ord'[q], tx'[q], row', answers')
  <2>1. CASE q = r
    BY <2>1
  <2>2. CASE q # r
    <3>1. pc'[q] = pc[q] /\ op'[q] = op[q] /\ ord'[q] = ord[q] /\ todo'[q] = todo[q] /\ tx'[q] = tx[q]
      BY <1>1, <2>2 DEF OthersStay
    <3>2. OnTheWay(op[q], pc[q], ord[q], todo[q], tx[q], answers)
          /\ (Busy(q) /\ VersionMatches(q) => AgainstRow(op[q], pc[q], ord[q], tx[q], row, answers))
      BY DEF PassInv
    <3>3. (Busy(q) /\ VersionMatches(q))' => Busy(q) /\ VersionMatches(q)
      BY <3>1, SeenVersionStays DEF Busy, VersionMatches
    <3> QED BY <3>1, <3>2, <3>3, AnswersGrow
  <2> QED BY <2>1, <2>2
<1> QED BY <1>2, <1>3 DEF PassInv

LEMMA PassGoto ==
  ASSUME TypeOK, PassInv, NEW r \in Requests, RequestStep(r),
         row' = row, answers \subseteq answers', op' = op,
         NEW stage, NEW o, NEW S, NEW events, Goto(r, stage, o, S, events),
         OnTheWay(op[r], stage, o, S, events, answers'),
         o.version = Seen(r).version => AgainstRow(op[r], stage, o, events, row, answers')
  PROVE  PassInv'
<1>1. pc'[r] = stage /\ ord'[r] = o /\ todo'[r] = S /\ tx'[r] = events
  BY GotoStays
<1>2. VersionMatches(r)' => o.version = Seen(r).version
  BY <1>1, SeenVersionStays DEF VersionMatches
<1> QED BY <1>1, <1>2, PassFrame

(* A request that ends without a write. *)
LEMMA PassFinish ==
  ASSUME TypeOK, PassInv, NEW r \in Requests, RequestStep(r), Finish(r),
         row' = row, answers' = answers
  PROVE  PassInv'
<1>1. pc'[r] = "done"
  BY FinishStays
<1>2. OnTheWay(op'[r], pc'[r], ord'[r], todo'[r], tx'[r], answers') /\ ~Busy(r)'
  BY <1>1 DEF OnTheWay, Busy
<1> QED BY <1>2, PassFrame

(* A commit: every other copy is stale from then on. *)
LEMMA PassCommit ==
  ASSUME Safe, PassInv, NEW r \in Requests, RequestStep(r), Busy(r), Finish(r),
         answers' = answers, HeldUntilReleased',
         op[r] # "receive" => row'.version = row.version + 1
  PROVE  PassInv'
<1>1. OthersStay(r) /\ pc'[r] = "done" /\ op' = op
  BY FinishStays DEF Safe
<1>2. ASSUME NEW q \in Requests
      PROVE  OnTheWay(op'[q], pc'[q], ord'[q], todo'[q], tx'[q], answers')
  <2>1. CASE q = r
    BY <1>1, <2>1 DEF OnTheWay
  <2>2. CASE q # r
    <3>1. pc'[q] = pc[q] /\ op'[q] = op[q] /\ ord'[q] = ord[q] /\ todo'[q] = todo[q] /\ tx'[q] = tx[q]
      BY <1>1, <2>2 DEF OthersStay
    <3> QED BY <3>1 DEF PassInv
  <2> QED BY <2>1, <2>2
<1>3. ASSUME NEW q \in Requests, Busy(q)', VersionMatches(q)'
      PROVE  FALSE
  <2>1. q # r /\ Busy(q) /\ ord'[q] = ord[q]
    BY <1>1, <1>3 DEF Busy, OthersStay
  <2>2. op[r] # "receive" /\ op[q] # "receive"
    BY <2>1, SeenFacts DEF Safe
  <2>3. Seen(q) = row /\ row.version \in Nat /\ Seen(q)' = row'
    BY <1>1, <2>1, <2>2 DEF Seen, Safe, TypeOK, Order
  <2>4. ord[q].version \in 1..row.version
    BY <2>1, <2>3, BusyFacts DEF Safe, CopyTracksRow
  <2>5. ord[q].version = row.version + 1
    BY <1>3, <2>1, <2>2, <2>3 DEF VersionMatches
  <2> QED BY <2>3, <2>4, <2>5
<1> QED BY <1>2, <1>3 DEF PassInv

(* What longer lists of events tell. *)
LEMMA TellsConcat ==
  ASSUME NEW a \in Seq(Event), NEW b \in Seq(Event), NEW t, NEW l
  PROVE  Tells(a \o b, t, l) <=> Tells(a, t, l) \/ Tells(b, t, l)
<1>1. /\ Len(a) \in Nat /\ Len(b) \in Nat /\ DOMAIN a = 1..Len(a) /\ DOMAIN b = 1..Len(b)
      /\ DOMAIN (a \o b) = 1..(Len(a) + Len(b))
      /\ \A i \in 1..Len(a) : (a \o b)[i] = a[i]
      /\ \A i \in (Len(a) + 1)..(Len(a) + Len(b)) : (a \o b)[i] = b[i - Len(a)]
  BY ConcatProperties, LenProperties
<1> DEFINE e == Ev(t, {l})
<1> HIDE DEF e
<1>2. ASSUME NEW i \in DOMAIN a, a[i] = e PROVE \E k \in DOMAIN (a \o b) : (a \o b)[k] = e
  BY <1>1, <1>2
<1>3. ASSUME NEW i \in DOMAIN b, b[i] = e PROVE \E k \in DOMAIN (a \o b) : (a \o b)[k] = e
  <2>1. i + Len(a) \in DOMAIN (a \o b) /\ (a \o b)[i + Len(a)] = b[i]
    BY <1>1
  <2> QED BY <1>3, <2>1
<1>4. ASSUME NEW k \in DOMAIN (a \o b), (a \o b)[k] = e
      PROVE  (\E i \in DOMAIN a : a[i] = e) \/ (\E i \in DOMAIN b : b[i] = e)
  <2>1. CASE k \in 1..Len(a)
    BY <1>1, <1>4, <2>1
  <2>2. CASE k \in (Len(a) + 1)..(Len(a) + Len(b))
    <3>1. k - Len(a) \in DOMAIN b /\ b[k - Len(a)] = e
      BY <1>1, <1>4, <2>2
    <3> QED BY <3>1
  <2> QED BY <1>1, <2>1, <2>2
<1> QED BY <1>2, <1>3, <1>4 DEF Tells, e

LEMMA TellsOne ==
  ASSUME NEW t, NEW X, NEW u, NEW l
  PROVE  /\ Tells(<<Ev(t, X)>>, u, l) <=> t = u /\ X = {l}
         /\ ~Tells(<<>>, u, l)
BY DEF Tells, Ev

LEMMA TellsAppend ==
  ASSUME NEW a \in Seq(Event), NEW t \in EventType, NEW X \in SUBSET Lines, NEW u, NEW l
  PROVE  Tells(Append(a, Ev(t, X)), u, l) <=> Tells(a, u, l) \/ (t = u /\ X = {l})
<1>1. <<Ev(t, X)>> \in Seq(Event) /\ Ev(t, X) \in Event
  BY EventFacts
<1>2. Append(a, Ev(t, X)) = a \o <<Ev(t, X)>>
  BY <1>1, AppendIsConcat
<1>3. Tells(<<Ev(t, X)>>, u, l) <=> t = u /\ X = {l}
  BY TellsOne
<1>4. Tells(a \o <<Ev(t, X)>>, u, l) <=> Tells(a, u, l) \/ Tells(<<Ev(t, X)>>, u, l)
  BY <1>1, TellsConcat
<1> QED BY <1>2, <1>3, <1>4

LEMMA ReservedAppend ==
  ASSUME NEW a \in Seq(Event), NEW t \in EventType, NEW X \in SUBSET Lines
  PROVE  /\ t # "OrderLineAllocated" => ReservedBy(Append(a, Ev(t, X))) = ReservedBy(a)
         /\ t = "OrderLineAllocated" => ReservedBy(Append(a, Ev(t, X))) = ReservedBy(a) \cup X
<1> DEFINE e == Ev(t, X)
           b == Append(a, e)
<1>1. e \in Event /\ e.type = t /\ e.lines = X
  BY DEF Ev, Event
<1> HIDE DEF e
<1>2. /\ Len(a) \in Nat /\ DOMAIN a = 1..Len(a) /\ DOMAIN b = 1..(Len(a) + 1)
      /\ \A i \in 1..Len(a) : b[i] = a[i]
      /\ b[Len(a) + 1] = e
  BY <1>1, AppendProperties, LenProperties
<1> HIDE DEF b
<1>3. \A l : (\E i \in DOMAIN b : b[i].type = "OrderLineAllocated" /\ l \in b[i].lines) <=>
             \/ \E i \in DOMAIN a : a[i].type = "OrderLineAllocated" /\ l \in a[i].lines
             \/ e.type = "OrderLineAllocated" /\ l \in e.lines
  BY <1>2
<1>4. /\ t # "OrderLineAllocated" => ReservedBy(b) = ReservedBy(a)
      /\ t = "OrderLineAllocated" => ReservedBy(b) = ReservedBy(a) \cup X
  BY <1>1, <1>3 DEF ReservedBy
<1> QED BY <1>4 DEF b, e

LEMMA OutcomeTellsNothing ==
  ASSUME NEW o, NEW events, NEW S, NEW l
  PROVE  ~Tells(Outcome(o, events, S), "OrderRepromised", l)
BY TellsOne DEF Outcome

(* Intake and loading. *)
LEMMA PassLoad ==
  ASSUME Safe, PassInv, NEW r \in Requests,
         ReceiveOrder(r) \/ (\E use \in Ops : LoadHeader(r, use)) \/ LoadLines(r)
  PROVE  PassInv'
<1>0. RequestStep(r) /\ TypeOK
  BY DEF RequestStep, Step, Safe
<1>1. row' = row /\ answers' = answers
  BY DEF ReceiveOrder, LoadHeader, LoadLines, inventoryVars
<1>2. CASE ReceiveOrder(r)
  <2> DEFINE events == <<Ev("OrderReceived", {})>>
  <2>1. PICK intent \in Intents :
          Goto(r, "reserve", New(intent), LinesWithStatus(New(intent), "Pending"), events)
    BY <1>2 DEF ReceiveOrder
  <2>2. pc'[r] = "reserve" /\ ord'[r] = New(intent) /\ tx'[r] = events
    BY <1>0, <2>1, GotoStays
  <2>3. \A l : ~Tells(events, "OrderRepromised", l)
    BY TellsOne
  <2>4. ReservedBy(events) = {}
    BY DEF ReservedBy, Ev
  <2> HIDE DEF events
  <2>5. OnTheWay(op'[r], pc'[r], ord'[r], todo'[r], tx'[r], answers')
    BY <2>2, <2>3, <2>4 DEF OnTheWay
  <2>6. row.status = [l \in Lines |-> "Pending"]
    BY <1>2, NoOrderType DEF Safe, VersionGuardSuffices, ReceiveOrder
  <2>7. StatusTold(New(intent), events, row)
    BY <2>6, IntentsAssumption, NewOrder DEF StatusTold
  <2>8. AgainstRow(op'[r], pc'[r], ord'[r], tx'[r], row, answers')
    BY <2>2, <2>7 DEF AgainstRow
  <2> QED BY <1>0, <1>1, <2>5, <2>8, PassFrame
<1>3. CASE (\E use \in Ops : LoadHeader(r, use)) \/ LoadLines(r)
  <2>1. pc'[r] \in {"lines", "groups"}
    BY <1>0, <1>3, GotoStays DEF LoadHeader, LoadLines
  <2>2. OnTheWay(op'[r], pc'[r], ord'[r], todo'[r], tx'[r], answers')
        /\ AgainstRow(op'[r], pc'[r], ord'[r], tx'[r], row, answers')
    BY <2>1 DEF OnTheWay, AgainstRow
  <2> QED BY <1>0, <1>1, <2>2, PassFrame
<1> QED BY <1>2, <1>3

(* The use cases: at the row's version the loaded copy is the row's, and   *)
(* RepromiseOrder compared the very promise it replaces.                   *)
LEMMA PassUseCase ==
  ASSUME Safe, PassInv, NEW r \in Requests,
         RetryAllocation(r) \/ ReleaseHeldOrder(r) \/ CancelOrder(r) \/ RepromiseOrder(r)
  PROVE  PassInv'
<1>0. RequestStep(r) /\ TypeOK
  BY DEF RequestStep, Step, Safe
<1>1. row' = row /\ answers' = answers /\ pc[r] = "groups" /\ Busy(r)
  BY DEF RetryAllocation, ReleaseHeldOrder, CancelOrder, RepromiseOrder, Busy, inventoryVars
<1>2. PICK o : o = Loaded(r)
  OBVIOUS
<1>3. o \in Order /\ o.promise = row.promise /\ (o.version = Seen(r).version => o.status = row.status)
  <2>1. ord[r].version = Seen(r).version => ord[r].status = row.status
    BY <1>1, BusyFacts DEF Safe, CopyTracksRow
  <2> QED BY <1>0, <1>2, <2>1, LoadedType
<1>4. ASSUME NEW stage \in {"reserve", "revoke"}, NEW S, Goto(r, stage, o, S, <<>>), op' = op
      PROVE  PassInv'
  <2>1. ReservedBy(<<>>) = {} /\ \A l : ~Tells(<<>>, "OrderRepromised", l)
    BY DEF ReservedBy, Tells
  <2>2. OnTheWay(op[r], stage, o, S, <<>>, answers')
    BY <1>4, <2>1 DEF OnTheWay
  <2>3. o.status = row.status => AgainstRow(op[r], stage, o, <<>>, row, answers')
    BY <1>4 DEF AgainstRow, StatusTold
  <2> QED BY <1>0, <1>1, <1>3, <1>4, <2>2, <2>3, PassGoto
<1>5. CASE Finish(r)
  BY <1>0, <1>1, <1>5, PassFinish
<1>6. CASE RetryAllocation(r) /\ ~Finish(r)
  BY <1>2, <1>4, <1>6 DEF RetryAllocation
<1>7. CASE ReleaseHeldOrder(r) /\ ~Finish(r)
  BY <1>2, <1>4, <1>7 DEF ReleaseHeldOrder
<1>8. CASE CancelOrder(r) /\ ~Finish(r)
  BY <1>2, <1>4, <1>8 DEF CancelOrder
<1>9. CASE RepromiseOrder(r) /\ ~Finish(r)
  <2>1. PICK l \in Lines, g \in PromiseGroups(o) :
          /\ Goto(r, "save", SetPromiseGroups(o, g), {}, <<Ev("OrderRepromised", {l})>>)
          /\ row.promise[l] # NoPromise /\ g[l] # NoPromise /\ PromiseMoved(row.promise[l], g[l])
          /\ op' = op
    BY <1>2, <1>9 DEF RepromiseOrder
  <2> DEFINE p == SetPromiseGroups(o, g)
             events == <<Ev("OrderRepromised", {l})>>
  <2>2. p.version = o.version /\ p.status = o.status /\ p.promise = g
    <3>1. g \in [Lines -> Promises \cup {NoPromise}]
      BY <1>3, PromiseGroupsType
    <3> QED BY <1>3, <3>1, SetPromiseGroupsKeeps
  <2>3. \A m : Tells(events, "OrderRepromised", m) => m = l
    BY TellsOne
  <2> HIDE DEF p, events
  <2>4. o.status = row.status => AgainstRow(op[r], "save", p, events, row, answers')
    BY <2>1, <2>2, <2>3 DEF AgainstRow, StatusTold, ReleaseBacked, PromiseTold, PromiseMoved
  <2>5. OnTheWay(op[r], "save", p, {}, events, answers')
    BY DEF OnTheWay
  <2>6. Goto(r, "save", p, {}, events) /\ op' = op
    BY <2>1 DEF p, events
  <2> QED BY <1>0, <1>1, <1>3, <2>2, <2>4, <2>5, <2>6, PassGoto
<1> QED BY <1>5, <1>6, <1>7, <1>8, <1>9

(* An answer of inventory-storage is kept under this pass's attempt and    *)
(* told by an event, unless it only reconfirms.                            *)
LEMMA PassAnswer ==
  ASSUME Safe, StockInv, PassInv, NEW r \in Requests, ReserveLine(r) \/ ReconfirmLine(r)
  PROVE  PassInv'
<1>0. RequestStep(r) /\ TypeOK
  BY DEF RequestStep, Step, Safe
<1>1. row' = row /\ outbox' = outbox /\ op' = op
  BY <1>0, AnswerCases
<1>2. PICK l \in Lines, id \in Nat, p \in Order, events \in Seq(Event) :
        InventoryReserve(l, ord[r].version, id) /\ LineAnswer(r, l, id, p, events)
  BY <1>0, AnswerCases
<1>3. PICK o \in Order : o = ord[r]
  BY <1>0 DEF TypeOK
<1>4. PICK old \in Seq(Event) : old = tx[r]
  BY <1>0 DEF TypeOK
<1>5. answers \subseteq answers' /\ [line |-> l, attempt |-> o.version, id |-> id] \in answers'
  <2>1. o.version \in Nat
    BY DEF Order
  <2> QED BY <1>0, <1>2, <1>3, <2>1, ReserveOutlives DEF StockInv
<1>6. PICK stage \in {"reserve", "reconfirm"} : stage = pc[r]
  BY <1>2 DEF LineAnswer
<1>7. /\ Goto(r, stage, p, todo[r] \ {l}, events)
      /\ p.version = o.version /\ p.intent = o.intent
      /\ \A m \in Lines \ {l} : p.status[m] = o.status[m] /\ p.reservation[m] = o.reservation[m]
      /\ \/ /\ id = 0 /\ p.status[l] = "Backordered"
            /\ events = Append(old, Ev("OrderLineBackordered", {l}))
            /\ stage = "reserve" => p.reservation[l] = o.reservation[l]
         \/ /\ id # 0 /\ p.status[l] = "Allocated" /\ p.reservation[l] = id
            /\ stage = "reserve"
            /\ events = Append(old, Ev("OrderLineAllocated", {l}))
         \/ /\ id # 0 /\ p.status[l] = "Allocated" /\ p.reservation[l] = id
            /\ stage = "reconfirm" /\ o.status[l] = "Allocated"
            /\ events = old
  BY <1>2, <1>3, <1>4, <1>6 DEF LineAnswer
<1>8. /\ OnTheWay(op[r], stage, o, todo[r], old, answers)
      /\ o.version = Seen(r).version => StatusTold(o, old, row)
  BY <1>3, <1>4, <1>6 DEF PassInv, AgainstRow, Busy, VersionMatches
<1>9. /\ \A t, m : Tells(old, t, m) => Tells(events, t, m)
      /\ \A m : Tells(events, "OrderRepromised", m) => Tells(old, "OrderRepromised", m)
      /\ p.status[l] = "Backordered" => Tells(events, "OrderLineBackordered", l)
      /\ p.status[l] = "Allocated" /\ stage = "reserve" => Tells(events, "OrderLineAllocated", l)
  <2>1. ASSUME NEW t \in {"OrderLineAllocated", "OrderLineBackordered"}, NEW u, NEW m
        PROVE  Tells(Append(old, Ev(t, {l})), u, m) <=> Tells(old, u, m) \/ (t = u /\ {l} = {m})
    <3>1. t \in EventType /\ {l} \in SUBSET Lines
      BY DEF EventType
    <3> QED BY <3>1, TellsAppend
  <2>2. CASE events = old /\ stage = "reconfirm" /\ p.status[l] = "Allocated"
    BY <2>2
  <2>3. CASE events = Append(old, Ev("OrderLineBackordered", {l})) /\ p.status[l] = "Backordered"
    <3>1. ASSUME NEW u, NEW m
          PROVE  Tells(events, u, m) <=> Tells(old, u, m) \/ (u = "OrderLineBackordered" /\ m = l)
      BY <2>1, <2>3
    <3>2. p.status[l] = "Backordered"
      BY <2>3
    <3>3. \A u, m : Tells(old, u, m) => Tells(events, u, m)
      BY <3>1
    <3>4. \A m : Tells(events, "OrderRepromised", m) => Tells(old, "OrderRepromised", m)
      BY <3>1
    <3> QED BY <3>1, <3>2, <3>3, <3>4
  <2>4. CASE events = Append(old, Ev("OrderLineAllocated", {l})) /\ p.status[l] = "Allocated"
    <3>1. ASSUME NEW u, NEW m
          PROVE  Tells(events, u, m) <=> Tells(old, u, m) \/ (u = "OrderLineAllocated" /\ m = l)
      BY <2>1, <2>4
    <3>2. p.status[l] = "Allocated"
      BY <2>4
    <3>3. \A u, m : Tells(old, u, m) => Tells(events, u, m)
      BY <3>1
    <3>4. \A m : Tells(events, "OrderRepromised", m) => Tells(old, "OrderRepromised", m)
      BY <3>1
    <3> QED BY <3>1, <3>2, <3>3, <3>4
  <2> QED BY <1>7, <2>2, <2>3, <2>4
<1>10. ASSUME NEW m \in Lines, Answered(o, m, answers),
              m # l \/ p.reservation[l] = o.reservation[l]
       PROVE  Answered(p, m, answers')
  BY <1>5, <1>7, <1>10 DEF Answered
<1>11. id # 0 => Answered(p, l, answers')
  BY <1>5, <1>7 DEF Answered
<1>12. OnTheWay(op[r], stage, p, todo[r] \ {l}, events, answers')
  <2>1. \A m \in Lines : ~Tells(events, "OrderRepromised", m)
    BY <1>8, <1>9 DEF OnTheWay
  <2>2. ASSUME stage = "reserve", NEW m \in ReservedBy(events)
        PROVE  Answered(p, m, answers')
    <3>1. m \in Lines
      BY DEF ReservedBy
    <3>2. /\ ReservedBy(Append(old, Ev("OrderLineBackordered", {l}))) = ReservedBy(old)
          /\ ReservedBy(Append(old, Ev("OrderLineAllocated", {l}))) = ReservedBy(old) \cup {l}
      BY ReservedAppend DEF EventType
    <3>3. m \in ReservedBy(old) \/ (m = l /\ id # 0)
      BY <1>7, <2>2, <3>2
    <3>4. m \in ReservedBy(old) => Answered(o, m, answers)
      BY <1>8, <2>2 DEF OnTheWay
    <3> QED BY <1>7, <1>10, <1>11, <2>2, <3>1, <3>3, <3>4
  <2>3. ASSUME stage = "reconfirm"
        PROVE  /\ \A m \in Lines \ (todo[r] \ {l}) : p.status[m] = "Allocated" => Answered(p, m, answers')
               /\ p.intent.held => op[r] = "releaseHeld"
    <3>1. ASSUME NEW m \in Lines \ (todo[r] \ {l}), p.status[m] = "Allocated", m # l
          PROVE  Answered(p, m, answers')
      <4>1. o.status[m] = "Allocated" /\ m \in Lines \ todo[r]
        BY <1>7, <3>1
      <4> QED BY <1>8, <1>10, <2>3, <3>1, <4>1 DEF OnTheWay
    <3>2. p.status[l] = "Allocated" => Answered(p, l, answers')
      BY <1>7, <1>11
    <3> QED BY <1>7, <1>8, <2>3, <3>1, <3>2 DEF OnTheWay
  <2> QED BY <2>1, <2>2, <2>3 DEF OnTheWay
<1>13. p.version = Seen(r).version => AgainstRow(op[r], stage, p, events, row, answers')
  <2> SUFFICES ASSUME p.version = Seen(r).version
               PROVE  AgainstRow(op[r], stage, p, events, row, answers')
    OBVIOUS
  <2>1. StatusTold(o, old, row)
    BY <1>7, <1>8
  <2>2. StatusTold(p, events, row)
    <3>1. ASSUME NEW m \in Lines, m # l
          PROVE  /\ row.status[m] \in {"Pending", "Backordered"} /\ p.status[m] \in {"Allocated", "Released"}
                    => Tells(events, "OrderLineAllocated", m)
                 /\ row.status[m] # "Backordered" /\ p.status[m] = "Backordered"
                    => Tells(events, "OrderLineBackordered", m)
      <4>1. p.status[m] = o.status[m]
        BY <1>7, <3>1
      <4> QED BY <1>9, <2>1, <4>1 DEF StatusTold
    <3>2. row.status[l] # "Backordered" /\ p.status[l] = "Backordered"
          => Tells(events, "OrderLineBackordered", l)
      BY <1>9
    <3>3. row.status[l] \in {"Pending", "Backordered"} /\ p.status[l] \in {"Allocated", "Released"}
          => Tells(events, "OrderLineAllocated", l)
      <4>1. CASE stage = "reserve"
        BY <1>7, <1>9, <4>1
      <4>2. CASE stage = "reconfirm"
        <5>1. p.status[l] = "Backordered" \/ (events = old /\ o.status[l] = "Allocated")
          BY <1>7, <4>2
        <5> QED BY <2>1, <5>1 DEF StatusTold
      <4> QED BY <4>1, <4>2
    <3> QED BY <3>1, <3>2, <3>3 DEF StatusTold
  <2> QED BY <2>2 DEF AgainstRow
<1> QED BY <1>0, <1>1, <1>5, <1>7, <1>12, <1>13, PassGoto

(* A copy that goes to Save with the row's releases and no re-promise. *)
LEMMA PassToQuietSave ==
  ASSUME Safe, PassInv, NEW r \in Requests, RequestStep(r), pc[r] = "reserve",
         row' = row, answers' = answers, op' = op,
         NEW o \in SetPromiseDate(ord[r]), NEW more \in Seq(Event),
         \A l \in Lines : ~Tells(more, "OrderRepromised", l),
         Goto(r, "save", o, {}, tx[r] \o more)
  PROVE  PassInv'
<1>1. ord[r] \in Order /\ tx[r] \in Seq(Event) /\ Busy(r) /\ TypeOK
  BY DEF Safe, TypeOK, Busy
<1>2. o.version = ord[r].version /\ o.status = ord[r].status
  BY <1>1, SetPromiseDateKeeps
<1>3. /\ OnTheWay(op[r], "reserve", ord[r], todo[r], tx[r], answers)
      /\ ord[r].version = Seen(r).version => StatusTold(ord[r], tx[r], row)
  BY <1>1 DEF PassInv, AgainstRow, VersionMatches
<1>4. ord[r].version = Seen(r).version => ReleasesNothing(ord[r])
  BY <1>1, BusyFacts DEF Safe, CopyTracksRow
<1>5. PICK events : events = tx[r] \o more
  OBVIOUS
<1>6. /\ \A t, l : Tells(tx[r], t, l) => Tells(events, t, l)
      /\ \A l \in Lines : ~Tells(events, "OrderRepromised", l)
  BY <1>1, <1>3, <1>5, TellsConcat DEF OnTheWay
<1>7. o.version = Seen(r).version => AgainstRow(op[r], "save", o, events, row, answers)
  BY <1>2, <1>3, <1>4, <1>6
     DEF AgainstRow, StatusTold, ReleaseBacked, PromiseTold, ReleasesNothing
<1>8. OnTheWay(op[r], "save", o, {}, events, answers)
  BY DEF OnTheWay
<1> QED BY <1>1, <1>5, <1>7, <1>8, PassGoto

(* The end of the allocation leg, and the release. *)
LEMMA PassRest ==
  ASSUME Safe, PassInv, NEW r \in Requests,
         (ReserveFails(r) /\ AnyAllocated(r)) \/ AllocationDone(r) \/ ReleaseLines(r)
  PROVE  PassInv'
<1>0. RequestStep(r) /\ TypeOK /\ ord[r] \in Order /\ tx[r] \in Seq(Event)
  BY DEF RequestStep, Step, Safe, TypeOK
<1>1. row' = row /\ answers' = answers /\ op' = op
  BY DEF ReserveFails, AllocationDone, ReleaseLines, inventoryVars
<1>2. CASE ReserveFails(r) /\ AnyAllocated(r)
  <2> DEFINE e == Ev("OrderAllocationPartiallyFailed", {})
  <2>1. PICK o \in SetPromiseDate(ord[r]) : Goto(r, "save", o, {}, Append(tx[r], e))
    BY <1>2 DEF ReserveFails
  <2>2. e \in Event /\ <<e>> \in Seq(Event)
    BY EventFacts DEF EventType
  <2>3. \A l \in Lines : ~Tells(<<e>>, "OrderRepromised", l)
    BY TellsOne
  <2> HIDE DEF e
  <2>4. Append(tx[r], e) = tx[r] \o <<e>>
    BY <1>0, <2>2, AppendIsConcat
  <2>5. pc[r] = "reserve"
    BY <1>2 DEF ReserveFails
  <2> QED BY <1>0, <1>1, <2>1, <2>2, <2>3, <2>4, <2>5, PassToQuietSave
<1>3. CASE AllocationDone(r)
  <2>1. PICK o \in SetPromiseDate(ord[r]) :
          IF op[r] = "releaseHeld" \/ ReleaseOnAllocation(o)
          THEN Goto(r, "reconfirm", o, ToReconfirm(r, o), tx[r])
          ELSE Goto(r, "save", o, {}, tx[r] \o Outcome(o, tx[r], {}))
    BY <1>3 DEF AllocationDone
  <2>2. pc[r] = "reserve" /\ Busy(r)
    BY <1>3 DEF AllocationDone, Busy
  <2>3. CASE Goto(r, "save", o, {}, tx[r] \o Outcome(o, tx[r], {}))
    <3>1. Outcome(o, tx[r], {}) \in Seq(Event)
          /\ \A l \in Lines : ~Tells(Outcome(o, tx[r], {}), "OrderRepromised", l)
      BY OutcomeType, OutcomeTellsNothing
    <3> QED BY <1>0, <1>1, <2>2, <2>3, <3>1, PassToQuietSave
  <2>4. CASE /\ op[r] = "releaseHeld" \/ ReleaseOnAllocation(o)
             /\ Goto(r, "reconfirm", o, ToReconfirm(r, o), tx[r])
    <3>1. o.version = ord[r].version /\ o.status = ord[r].status /\ o.reservation = ord[r].reservation
      BY <1>0, SetPromiseDateKeeps
    <3>2. /\ OnTheWay(op[r], "reserve", ord[r], todo[r], tx[r], answers)
          /\ ord[r].version = Seen(r).version => StatusTold(ord[r], tx[r], row)
      BY <2>2 DEF PassInv, AgainstRow, VersionMatches
    <3>3. ASSUME NEW l \in Lines \ ToReconfirm(r, o), o.status[l] = "Allocated"
          PROVE  Answered(o, l, answers)
      <4>1. l \in ReservedBy(tx[r])
        BY <3>3 DEF ToReconfirm, LinesWithStatus, JustReserved, ReservedBy
      <4> QED BY <3>1, <3>2, <4>1 DEF OnTheWay, Answered
    <3>4. OnTheWay(op[r], "reconfirm", o, ToReconfirm(r, o), tx[r], answers)
      BY <2>4, <3>2, <3>3 DEF OnTheWay, ReleaseOnAllocation
    <3>5. o.version = Seen(r).version => AgainstRow(op[r], "reconfirm", o, tx[r], row, answers)
      BY <3>1, <3>2 DEF AgainstRow, StatusTold
    <3> QED BY <1>0, <1>1, <2>4, <3>4, <3>5, PassGoto
  <2> QED BY <2>1, <2>3, <2>4
<1>4. CASE ReleaseLines(r)
  <2> DEFINE released == IF EnsureReleasable(ord[r])
                         THEN LinesWithStatus(ord[r], "Allocated") ELSE {}
             o == Release(ord[r], released)
             outcome == Outcome(o, tx[r], released)
  <2>1. Goto(r, "save", o, {}, tx[r] \o outcome)
        /\ pc[r] = "reconfirm" /\ todo[r] = {} /\ Busy(r)
    BY <1>4 DEF ReleaseLines, Busy
  <2>2. released \in SUBSET Lines /\ \A l \in released : ord[r].status[l] = "Allocated"
    BY DEF LinesWithStatus
  <2> HIDE DEF released
  <2>3. /\ o.status = [l \in Lines |-> IF l \in released THEN "Released" ELSE ord[r].status[l]]
        /\ o.version = ord[r].version /\ o.intent = ord[r].intent
        /\ o.reservation = ord[r].reservation
    BY <1>0, <2>2, ReleaseKeeps
  <2> HIDE DEF o
  <2>4. outcome \in Seq(Event) /\ \A l \in Lines : ~Tells(outcome, "OrderRepromised", l)
    BY <2>2, OutcomeType, OutcomeTellsNothing
  <2> HIDE DEF outcome
  <2>5. /\ OnTheWay(op[r], "reconfirm", ord[r], {}, tx[r], answers)
        /\ ord[r].version = Seen(r).version => StatusTold(ord[r], tx[r], row)
    BY <2>1 DEF PassInv, AgainstRow, VersionMatches
  <2>6. ord[r].version = Seen(r).version => ReleasesNothing(ord[r])
    BY <2>1, BusyFacts DEF Safe, CopyTracksRow
  <2>7. PICK events : events = tx[r] \o outcome
    OBVIOUS
  <2>8. /\ \A t, l : Tells(tx[r], t, l) => Tells(events, t, l)
        /\ \A l \in Lines : ~Tells(events, "OrderRepromised", l)
    BY <1>0, <2>4, <2>5, <2>7, TellsConcat DEF OnTheWay
  <2>9. ASSUME o.version = Seen(r).version
        PROVE  AgainstRow(op[r], "save", o, events, row, answers)
    <3>1. ASSUME NEW l \in Lines
          PROVE  o.status[l] = ord[r].status[l]
                 \/ (o.status[l] = "Released" /\ ord[r].status[l] = "Allocated")
      BY <2>2, <2>3, <3>1
    <3>2. StatusTold(ord[r], tx[r], row) /\ ReleasesNothing(ord[r])
      BY <2>3, <2>5, <2>6, <2>9
    <3>3. StatusTold(o, events, row)
      BY <2>8, <3>1, <3>2 DEF StatusTold
    <3>4. ReleaseBacked(op[r], o, row, answers)
      <4>1. ASSUME NEW l \in Lines, o.status[l] = "Released", row.status[l] # "Released"
            PROVE  Answered(o, l, answers) /\ (o.intent.held => op[r] = "releaseHeld")
        <5>1. ord[r].status[l] = "Allocated"
          BY <3>1, <3>2, <4>1 DEF ReleasesNothing
        <5> QED BY <2>3, <2>5, <5>1 DEF OnTheWay, Answered
      <4> QED BY <4>1 DEF ReleaseBacked
    <3>5. PromiseTold(o, events, row)
      BY <2>8 DEF PromiseTold
    <3> QED BY <3>3, <3>4, <3>5 DEF AgainstRow
  <2>10. OnTheWay(op[r], "save", o, {}, events, answers)
    BY DEF OnTheWay
  <2> QED BY <1>0, <1>1, <2>1, <2>7, <2>9, <2>10, PassGoto
<1> QED BY <1>2, <1>3, <1>4

(* What a Save that meets its version stores. *)
LEMMA CommittedCopy ==
  ASSUME Safe, PassInv, NEW r \in Requests, Save(r), VersionMatches(r)
  PROVE  /\ Busy(r) /\ Finish(r) /\ answers' = answers /\ outbox' = outbox \o tx[r]
         /\ tx[r] \in Seq(Event) /\ ord[r].version \in Nat
         /\ row'.version = ord[r].version + 1 /\ ord[r].version = Seen(r).version
         /\ row'.status = ord[r].status /\ row'.reservation = ord[r].reservation
         /\ row'.promise = ord[r].promise /\ row'.intent = ord[r].intent
         /\ ord[r].intent = Seen(r).intent
         /\ StatusTold(ord[r], tx[r], row) /\ PromiseTold(ord[r], tx[r], row)
         /\ ReleaseBacked(op[r], ord[r], row, answers)
<1>1. /\ Busy(r) /\ Finish(r) /\ answers' = answers /\ outbox' = outbox \o tx[r] /\ pc[r] = "save"
      /\ row' = [ord[r] EXCEPT !.version = Seen(r).version + 1]
      /\ ord[r].version = Seen(r).version
  BY DEF Save, Busy, VersionMatches, inventoryVars
<1>2. ord[r] \in Order /\ tx[r] \in Seq(Event) /\ ord[r].version \in Nat
  BY DEF Safe, TypeOK, Order
<1>3. row'.version = ord[r].version + 1
  BY <1>1, <1>2 DEF Order
<1>4. /\ row'.status = ord[r].status /\ row'.reservation = ord[r].reservation
      /\ row'.promise = ord[r].promise /\ row'.intent = ord[r].intent
  BY <1>1, <1>2 DEF Order
<1>5. ord[r].intent = Seen(r).intent
  BY <1>1, BusyFacts DEF Safe, CopyTracksRow
<1>6. AgainstRow(op[r], "save", ord[r], tx[r], row, answers)
  BY <1>1 DEF PassInv
<1> QED BY <1>1, <1>2, <1>3, <1>4, <1>5, <1>6 DEF AgainstRow

(* The rest of a request, and its commit. *)
LEMMA PassEnd ==
  ASSUME Safe, PassInv, NEW r \in Requests,
         \/ ReserveFails(r) /\ ~AnyAllocated(r)
         \/ ReconfirmFails(r) \/ RevokeReservation(r) \/ RevokeFails(r)
         \/ CancelLines(r) \/ Save(r) \/ Crash(r)
  PROVE  PassInv'
<1>0. RequestStep(r) /\ TypeOK /\ ord[r] \in Order /\ HeldUntilReleased
  BY DEF RequestStep, Step, Safe, TypeOK, PassInv
<1>1. CASE ReconfirmFails(r) \/ RevokeFails(r) \/ Crash(r) \/ (Save(r) /\ ~VersionMatches(r))
  <2>1. row' = row /\ answers' = answers /\ Finish(r)
    BY <1>1 DEF ReconfirmFails, RevokeFails, Crash, Save, inventoryVars
  <2> QED BY <1>0, <2>1, PassFinish
<1>2. CASE RevokeReservation(r)
  <2>1. PICK l \in todo[r] : Goto(r, "revoke", ord[r], todo[r] \ {l}, tx[r])
    BY <1>2 DEF RevokeReservation
  <2>2. row' = row /\ answers' = answers /\ op' = op
    BY <1>2 DEF RevokeReservation
  <2>3. OnTheWay(op[r], "revoke", ord[r], todo[r] \ {l}, tx[r], answers)
        /\ AgainstRow(op[r], "revoke", ord[r], tx[r], row, answers)
    BY DEF OnTheWay, AgainstRow
  <2> QED BY <1>0, <2>1, <2>2, <2>3, PassGoto
<1>3. CASE CancelLines(r)
  <2> DEFINE o == Cancel(ord[r])
             events == <<Ev("OrderCancelled", {})>>
  <2>1. Goto(r, "save", o, {}, events) /\ row' = row /\ answers' = answers /\ op' = op
    BY <1>3 DEF CancelLines, inventoryVars
  <2>2. o.status = [l \in Lines |-> "Cancelled"]
    BY <1>0 DEF Cancel, Order
  <2>3. \A l \in Lines : ~Tells(events, "OrderRepromised", l)
    BY TellsOne
  <2> HIDE DEF o, events
  <2>4. AgainstRow(op[r], "save", o, events, row, answers)
    BY <2>2, <2>3 DEF AgainstRow, StatusTold, ReleaseBacked, PromiseTold
  <2>5. OnTheWay(op[r], "save", o, {}, events, answers)
    BY DEF OnTheWay
  <2> QED BY <1>0, <2>1, <2>4, <2>5, PassGoto
<1>4. CASE Save(r) /\ VersionMatches(r)
  <2>1. /\ Busy(r) /\ Finish(r) /\ answers' = answers
        /\ row'.version = Seen(r).version + 1
        /\ row'.status = ord[r].status /\ row'.intent = Seen(r).intent
        /\ row'.intent = ord[r].intent
        /\ ReleaseBacked(op[r], ord[r], row, answers)
    BY <1>4, CommittedCopy
  <2>2. op[r] # "receive" => Seen(r) = row
    BY DEF Seen
  <2>3. HeldUntilReleased'
    <3>1. CASE \E l \in Lines : /\ ord[r].status[l] = "Released" /\ row.status[l] # "Released"
                                /\ row'.intent.held
      <4>1. op[r] = "releaseHeld"
        BY <2>1, <3>1 DEF ReleaseBacked
      <4>2. op'[r] = "releaseHeld" /\ pc'[r] = "done"
        BY <1>0, <2>1, <4>1, FinishStays
      <4> QED BY <4>2 DEF HeldUntilReleased
    <3>2. CASE ~\E l \in Lines : /\ ord[r].status[l] = "Released" /\ row.status[l] # "Released"
                                 /\ row'.intent.held
      <4>1. ASSUME row'.intent.held, ReleasedLines' # {}
            PROVE  row.intent.held /\ ReleasedLines # {}
        <5>1. PICK l \in Lines : row'.status[l] = "Released"
          BY <4>1 DEF ReleasedLines, LinesWithStatus
        <5>2. row.status[l] = "Released"
          BY <2>1, <3>2, <4>1, <5>1
        <5>3. op[r] # "receive"
          BY <2>1, <5>2, SeenFacts, NoOrderType DEF Safe
        <5> QED BY <2>1, <2>2, <4>1, <5>2, <5>3 DEF ReleasedLines, LinesWithStatus
      <4> QED BY <1>0, <4>1, HeldStays
    <3> QED BY <3>1, <3>2
  <2> QED BY <1>0, <2>1, <2>2, <2>3, PassCommit
<1>5. CASE ReserveFails(r) /\ ~AnyAllocated(r)
  <2>1. row' = Seen(r) /\ Finish(r) /\ answers' = answers /\ Busy(r)
    BY <1>5 DEF ReserveFails, Busy
  <2>2. CASE op[r] # "receive"
    <3>1. row' = row
      BY <2>1, <2>2 DEF Seen
    <3> QED BY <1>0, <2>1, <3>1, PassFinish
  <2>3. CASE op[r] = "receive"
    <3>1. ord[r].intent \in Intent
      BY <1>0 DEF Order
    <3>2. row'.status = [l \in Lines |-> "Pending"]
      BY <2>1, <2>3, <3>1, NewOrder DEF Seen
    <3>3. HeldUntilReleased'
      BY <3>2 DEF HeldUntilReleased, ReleasedLines, LinesWithStatus
    <3> QED BY <1>0, <2>1, <2>3, <3>3, PassCommit
  <2> QED BY <2>2, <2>3
<1> QED BY <1>1, <1>2, <1>3, <1>4, <1>5

(* inventory-storage on its own. *)
LEMMA PassInventory ==
  ASSUME Safe, StockInv, PassInv, ExpireReservation \/ LateReserve
  PROVE  PassInv'
<1>1. row' = row /\ pc' = pc /\ op' = op /\ ord' = ord /\ todo' = todo /\ tx' = tx
  BY DEF ExpireReservation, LateReserve, requestVars
<1>2. answers \subseteq answers'
  BY DEF ExpireReservation, LateReserve, InventoryReserve
<1>3. ASSUME NEW q \in Requests
      PROVE  /\ OnTheWay(op'[q], pc'[q], ord'[q], todo'[q], tx'[q], answers')
             /\ (Busy(q) /\ VersionMatches(q))' =>
                  AgainstRow(op'[q], pc'[q], ord'[q], tx'[q], row', answers')
  <2>1. OnTheWay(op[q], pc[q], ord[q], todo[q], tx[q], answers)
        /\ (Busy(q) /\ VersionMatches(q) => AgainstRow(op[q], pc[q], ord[q], tx[q], row, answers))
    BY DEF PassInv
  <2>2. (Busy(q) /\ VersionMatches(q))' => Busy(q) /\ VersionMatches(q)
    BY <1>1 DEF Busy, VersionMatches, Seen
  <2> QED BY <1>1, <1>2, <2>1, <2>2, AnswersGrow
<1>4. HeldUntilReleased'
  BY <1>1 DEF PassInv, HeldUntilReleased, ReleasedLines
<1> QED BY <1>3, <1>4 DEF PassInv

LEMMA PassStep == Safe /\ StockInv /\ PassInv /\ [Next]_vars => PassInv'
<1> SUFFICES ASSUME Safe, StockInv, PassInv, [Next]_vars PROVE PassInv'
  OBVIOUS
<1>1. CASE UNCHANGED vars
  <2>1. row' = row /\ pc' = pc /\ op' = op /\ ord' = ord /\ todo' = todo /\ tx' = tx /\ answers' = answers
    BY <1>1 DEF vars, requestVars, inventoryVars
  <2> QED BY <2>1 DEF PassInv, HeldUntilReleased, ReleasedLines, Busy, VersionMatches, Seen
<1>2. ASSUME NEW r \in Requests, RequestStep(r)
      PROVE  PassInv'
  BY <1>2, PassLoad, PassUseCase, PassAnswer, PassRest, PassEnd DEF RequestStep, Step
<1> QED BY <1>1, <1>2, PassInventory DEF Next, RequestStep

LEMMA PassInit == Init => PassInv
<1> SUFFICES ASSUME Init PROVE PassInv
  OBVIOUS
<1>1. ReleasedLines = {}
  BY NoOrderType DEF Init, ReleasedLines, LinesWithStatus
<1> QED BY <1>1 DEF Init, PassInv, HeldUntilReleased, OnTheWay, Busy

(* The pass invariant together with what it rests on. *)
OrderInv == Safe /\ StockInv /\ PassInv

LEMMA OrderInvariant == Spec => []OrderInv
<1>1. OrderInv /\ [Next]_vars => OrderInv'
  BY NextSafe, StockStep, PassStep DEF OrderInv, Safe
<1>2. Init => OrderInv
  BY InitSafe, StockInit, PassInit DEF OrderInv
<1> QED BY <1>1, <1>2, PTL DEF Spec

(* A held order reaches the floor only after ReleaseHeldOrder, whatever    *)
(* retries, failed intakes and stale copies there were.                    *)
THEOREM HeldOrdersWait == Spec => []HeldUntilReleased
<1>1. OrderInv => HeldUntilReleased
  BY DEF OrderInv, PassInv
<1> QED BY <1>1, OrderInvariant, PTL

(* How the stored order can change at all. *)
LEMMA RowMoves ==
  ASSUME [Next]_vars
  PROVE  \/ row' = row /\ outbox' = outbox
         \/ \E r \in Requests :
              (Save(r) /\ VersionMatches(r)) \/ (ReserveFails(r) /\ ~AnyAllocated(r))
<1>1. CASE UNCHANGED vars \/ ExpireReservation \/ LateReserve
  BY <1>1 DEF vars, ExpireReservation, LateReserve
<1>2. ASSUME NEW r \in Requests, RequestStep(r)
      PROVE  \/ row' = row /\ outbox' = outbox
             \/ (Save(r) /\ VersionMatches(r)) \/ (ReserveFails(r) /\ ~AnyAllocated(r))
  BY <1>2 DEF RequestStep, Step, ReceiveOrder, LoadHeader, LoadLines, RetryAllocation,
       ReleaseHeldOrder, CancelOrder, RepromiseOrder, ReserveLine, ReserveFails, AllocationDone,
       ReconfirmLine, ReconfirmFails, ReleaseLines, RevokeReservation, RevokeFails, CancelLines,
       Save, Crash
<1> QED BY <1>1, <1>2 DEF Next, RequestStep

(* A failed allocation leg stores at most the freshly inserted order, all  *)
(* of whose lines are Pending, and tells of no re-promise.                 *)
LEMMA FailureStores ==
  ASSUME Safe, PassInv, NEW r \in Requests, ReserveFails(r), ~AnyAllocated(r)
  PROVE  /\ row' = row \/ row'.status = row.status
         /\ tx[r] \in Seq(Event) /\ outbox' = outbox \o tx[r]
         /\ \A l \in Lines : ~Tells(tx[r], "OrderRepromised", l)
<1>1. Busy(r) /\ pc[r] = "reserve" /\ row' = Seen(r) /\ outbox' = outbox \o tx[r]
  BY DEF ReserveFails, Busy
<1>2. Seen(r).status = row.status
  BY <1>1, SeenFacts DEF Safe
<1>3. OnTheWay(op[r], "reserve", ord[r], todo[r], tx[r], answers)
  BY <1>1 DEF PassInv
<1> QED BY <1>1, <1>2, <1>3 DEF OnTheWay, Safe, TypeOK

(* No line is released on a reservation its pass did not ask about.        *)
THEOREM ReleasesAskAgain == Spec => ReleasedLinesReconfirmed
<1>1. ASSUME OrderInv, [Next]_vars PROVE ReleasesReconfirmed
  <2>1. CASE row' = row
    BY <2>1 DEF ReleasesReconfirmed
  <2>2. ASSUME NEW r \in Requests, Save(r), VersionMatches(r) PROVE ReleasesReconfirmed
    <3>1. /\ row'.version = ord[r].version + 1 /\ ord[r].version \in Nat
          /\ row'.status = ord[r].status /\ row'.reservation = ord[r].reservation
          /\ ReleaseBacked(op[r], ord[r], row, answers)
      BY <1>1, <2>2, CommittedCopy DEF OrderInv
    <3>2. row'.version - 1 = ord[r].version
      BY <3>1
    <3> QED BY <3>1, <3>2 DEF ReleasesReconfirmed, ReleaseBacked, Answered
  <2>3. ASSUME NEW r \in Requests, ReserveFails(r), ~AnyAllocated(r) PROVE ReleasesReconfirmed
    <3>1. row'.status = row.status
      BY <1>1, <2>3, FailureStores DEF OrderInv
    <3> QED BY <3>1 DEF ReleasesReconfirmed
  <2> QED BY <1>1, <2>1, <2>2, <2>3, RowMoves
<1>2. OrderInv /\ [Next]_vars => [ReleasesReconfirmed]_vars
  BY <1>1
<1> QED BY <1>2, OrderInvariant, PTL DEF Spec, ReleasedLinesReconfirmed

(* What a commit appends to the outbox. *)
LEMMA AppendedEvents ==
  ASSUME TypeOK, NEW events \in Seq(Event), outbox' = outbox \o events, NEW t, NEW l
  PROVE  (\E i \in (Len(outbox) + 1)..Len(outbox') : outbox'[i] = Ev(t, {l}))
         <=> Tells(events, t, l)
<1> DEFINE e == Ev(t, {l})
<1> HIDE DEF e
<1>1. /\ Len(outbox) \in Nat /\ Len(events) \in Nat /\ DOMAIN events = 1..Len(events)
      /\ Len(outbox') = Len(outbox) + Len(events)
      /\ \A i \in (Len(outbox) + 1)..(Len(outbox) + Len(events)) : outbox'[i] = events[i - Len(outbox)]
  BY ConcatProperties, LenProperties DEF TypeOK
<1>2. ASSUME NEW i \in (Len(outbox) + 1)..Len(outbox'), outbox'[i] = e
      PROVE  \E j \in DOMAIN events : events[j] = e
  <2>1. i - Len(outbox) \in DOMAIN events /\ events[i - Len(outbox)] = e
    BY <1>1, <1>2
  <2> QED BY <2>1
<1>3. ASSUME NEW j \in DOMAIN events, events[j] = e
      PROVE  \E i \in (Len(outbox) + 1)..Len(outbox') : outbox'[i] = e
  <2>1. j + Len(outbox) \in (Len(outbox) + 1)..(Len(outbox) + Len(events))
        /\ j + Len(outbox) - Len(outbox) = j
    BY <1>1
  <2> QED BY <1>1, <1>3, <2>1
<1> QED BY <1>2, <1>3 DEF Tells, e

(* A change of the stored order and its events commit together, and        *)
(* OrderRepromised never comes without a promise that moved.               *)
THEOREM EventsWithChanges == Spec => ChangesCarryEvents
<1>1. ASSUME OrderInv, [Next]_vars PROVE EventsMatchChanges
  <2>0. TypeOK /\ outbox \in Seq(Event) /\ Len(outbox) \in Nat
    BY <1>1, LenProperties DEF OrderInv, Safe, TypeOK
  <2>1. CASE row' = row /\ outbox' = outbox
    <3>1. (Len(outbox) + 1)..Len(outbox') = {}
      BY <2>0, <2>1
    <3> QED BY <2>1, <3>1 DEF EventsMatchChanges
  <2>2. ASSUME NEW r \in Requests, Save(r), VersionMatches(r) PROVE EventsMatchChanges
    <3>1. /\ tx[r] \in Seq(Event) /\ outbox' = outbox \o tx[r]
          /\ row'.status = ord[r].status /\ row'.promise = ord[r].promise
          /\ StatusTold(ord[r], tx[r], row) /\ PromiseTold(ord[r], tx[r], row)
      BY <1>1, <2>2, CommittedCopy DEF OrderInv
    <3>2. ASSUME NEW t, NEW l
          PROVE  (\E i \in (Len(outbox) + 1)..Len(outbox') : outbox'[i] = Ev(t, {l}))
                 <=> Tells(tx[r], t, l)
      BY <2>0, <3>1, AppendedEvents
    <3> QED BY <3>1, <3>2 DEF EventsMatchChanges, StatusTold, PromiseTold
  <2>3. ASSUME NEW r \in Requests, ReserveFails(r), ~AnyAllocated(r) PROVE EventsMatchChanges
    <3>1. /\ tx[r] \in Seq(Event) /\ outbox' = outbox \o tx[r] /\ row'.status = row.status
          /\ \A l \in Lines : ~Tells(tx[r], "OrderRepromised", l)
      BY <1>1, <2>3, FailureStores DEF OrderInv
    <3>2. ASSUME NEW l \in Lines
          PROVE  ~\E i \in (Len(outbox) + 1)..Len(outbox') : outbox'[i] = Ev("OrderRepromised", {l})
      BY <2>0, <3>1, AppendedEvents
    <3>3. ASSUME NEW l \in Lines
          PROVE  /\ row'.status[l] \in {"Allocated", "Released"} =>
                      ~(row.status[l] \in {"Pending", "Backordered"})
                 /\ row'.status[l] = "Backordered" => row.status[l] = "Backordered"
      BY <3>1
    <3> QED BY <3>2, <3>3 DEF EventsMatchChanges
  <2> QED BY <1>1, <2>1, <2>2, <2>3, RowMoves
<1>2. OrderInv /\ [Next]_vars => [EventsMatchChanges]_vars
  BY <1>1
<1> QED BY <1>2, OrderInvariant, PTL DEF Spec, ChangesCarryEvents

=============================================================================
