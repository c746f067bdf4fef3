------------------------- MODULE AnalyticsProjector -------------------------
(***************************************************************************)
(* The analytics projector: AnalyticsConsumer                              *)
(* (internal/adapters/inbound/kafka/analytics_consumer.go) reading one     *)
(* partition of the analytics topic into the rollup tables of              *)
(* PostgresProjection (internal/adapters/outbound/analyticsstore).         *)
(*                                                                         *)
(* The reader commits an offset as it hands the message out, before it is  *)
(* handled.  The relay may have published an event more than once, and     *)
(* when the partition moves to another instance the old one is still busy  *)
(* with the message it has.  An event passes two gates: the consumer's own *)
(* table of consumed ids, and the claim the projection makes in the        *)
(* transaction that counts the event.                                      *)
(*                                                                         *)
(* Left out: hour buckets and paths (a column here stands for the cells an *)
(* event increments), the size of the cutoff gap, tracing and logging.     *)
(***************************************************************************)
EXTENDS Integers, FiniteSets

CONSTANTS
  Instances,   \* the projector processes of the consumer group
  Counts,      \* ids of events that move one funnel counter
  Outcomes,    \* ids of allocation outcomes: funnel counter and promise KPIs
  Repromises,  \* ids of OrderRepromised events
  Garbled,     \* ids of projecting events whose data does not decode
  Junk,        \* not a CloudEvent, or a type that projects nothing
  Length,      \* how many messages the partition holds
  MaxFaults    \* bound on failures, restarts and rebalances

Ids == Counts \cup Outcomes \cup Repromises \cup Garbled

ASSUME IdsAssumption ==
  /\ Junk \notin Ids /\ Instances # {}
  /\ \A S, T \in {Counts, Outcomes, Repromises, Garbled} : S = T \/ S \cap T = {}
ASSUME BoundsAssumption == Length \in Nat /\ MaxFaults \in Nat

VARIABLES
  log,        \* the messages of the partition
  committed,  \* the next offset the group reads
  owner,      \* the instance the partition is assigned to
  stage,      \* what each instance is doing
  current,    \* the offset each instance has in hand
  consumed,   \* analytics_consumed_events
  claimed,    \* analytics_processed_events
  rollup,     \* funnel_rollup and repromise_rollup
  faults      \* how many faults there were

vars == <<log, committed, owner, stage, current, consumed, claimed, rollup, faults>>

Columns == {"funnel", "promise", "repromised"}

Init ==
  /\ log \in [1..Length -> Ids \cup {Junk}]
  /\ committed = 1
  /\ owner \in Instances
  /\ stage = [c \in Instances |-> "read"]
  /\ current = [c \in Instances |-> 0]
  /\ consumed = {} /\ claimed = {}
  /\ rollup = [col \in Columns |-> 0]
  /\ faults = 0

----------------------------------------------------------------------------
event(c) == log[current[c]]

Goto(c, s) == stage' = [stage EXCEPT ![c] = s]

Fault == faults < MaxFaults /\ faults' = faults + 1

(* Reader.ReadMessage: the next message, its offset already committed. *)
Read(c) ==
  /\ owner = c /\ stage[c] = "read"
  /\ committed <= Length
  /\ current' = [current EXCEPT ![c] = committed]
  /\ committed' = committed + 1
  /\ Goto(c, "mark")
  /\ UNCHANGED <<log, owner, consumed, claimed, rollup, faults>>

(* ReadMessage fails, perhaps after its commit went through: Run returns   *)
(* and the process stays up without a consumer.                            *)
ReadFails(c) ==
  /\ Fault
  /\ owner = c /\ stage[c] = "read"
  /\ committed <= Length
  /\ committed' \in {committed, committed + 1}
  /\ Goto(c, "stopped")
  /\ UNCHANGED <<log, owner, current, consumed, claimed, rollup>>

(* isProjecting and MarkProcessed, in a transaction of its own. *)
Mark(c) ==
  /\ stage[c] = "mark"
  /\ IF event(c) = Junk \/ event(c) \in consumed
     THEN Goto(c, "read") /\ UNCHANGED consumed
     ELSE Goto(c, "apply") /\ consumed' = consumed \cup {event(c)}
  /\ UNCHANGED <<log, committed, owner, current, claimed, rollup, faults>>

(* Mistake: a message that fails is handled again. *)
GiveUpNever(c) == UNCHANGED stage

(* An error is logged and the loop goes on. *)
GiveUp(c) == Goto(c, "read")

(* The mark fails, or only its answer is lost. *)
MarkFails(c) ==
  /\ Fault
  /\ stage[c] = "mark" /\ event(c) # Junk
  /\ consumed' \in {consumed, consumed \cup {event(c)}}
  /\ GiveUp(c)
  /\ UNCHANGED <<log, committed, owner, current, claimed, rollup>>

(* The cells an event increments, all in one statement. *)
Cells(e) ==
  CASE e \in Counts     -> {"funnel"}
    [] e \in Outcomes   -> {"funnel", "promise"}
    [] e \in Repromises -> {"repromised"}

(* withClaim: a new claim and its counts commit together. *)
ClaimAndCount(e) ==
  IF e \in claimed
  THEN UNCHANGED <<claimed, rollup>>
  ELSE /\ claimed' = claimed \cup {e}
       /\ rollup' = [col \in Columns |->
                       IF col \in Cells(e) THEN rollup[col] + 1 ELSE rollup[col]]

(* Data that does not decode is given up after the event was marked. *)
Apply(c) ==
  /\ stage[c] = "apply"
  /\ \/ event(c) \in Garbled /\ GiveUp(c) /\ UNCHANGED <<claimed, rollup>>
     \/ event(c) \notin Garbled /\ ClaimAndCount(event(c)) /\ Goto(c, "read")
  /\ UNCHANGED <<log, committed, owner, current, consumed, faults>>

(* Mistake: the claim commits and the count is lost. *)
ApplyFailsHalfWay(c) ==
  /\ Fault
  /\ stage[c] = "apply"
  /\ claimed' = claimed \cup {event(c)}
  /\ GiveUp(c)
  /\ UNCHANGED <<log, committed, owner, current, consumed, rollup>>

(* The transaction is rolled back, or only its answer is lost. *)
ApplyFails(c) ==
  /\ Fault
  /\ stage[c] = "apply" /\ event(c) \notin Garbled
  /\ UNCHANGED <<claimed, rollup>> \/ ClaimAndCount(event(c))
  /\ GiveUp(c)
  /\ UNCHANGED <<log, committed, owner, current, consumed>>

(* The partition moves to another instance; the old owner finishes what it *)
(* has in hand.                                                            *)
Rebalance ==
  /\ Fault
  /\ owner' \in Instances \ {owner}
  /\ UNCHANGED <<log, committed, stage, current, consumed, claimed, rollup>>

(* The process restarts, and with it the consumer. *)
Restart(c) ==
  /\ stage[c] = "stopped" \/ faults < MaxFaults
  /\ faults' = IF stage[c] = "stopped" THEN faults ELSE faults + 1
  /\ Goto(c, "read")
  /\ UNCHANGED <<log, committed, owner, current, consumed, claimed, rollup>>

Handle(c) == Mark(c) \/ Apply(c)

Next ==
  \/ \E c \in Instances :
       \/ Read(c) \/ ReadFails(c) \/ MarkFails(c) \/ ApplyFails(c)
       \/ Handle(c) \/ Restart(c)
  \/ Rebalance

(* An instance that has a message handles it, and the owner keeps reading. *)
(* Nothing restarts an instance whose consumer has stopped.                *)
Fairness == \A c \in Instances : WF_vars(Read(c)) /\ WF_vars(Handle(c))

Spec == Init /\ [][Next]_vars /\ Fairness

----------------------------------------------------------------------------
(* The rollup counts every claimed event exactly once, in all the columns  *)
(* it belongs to, and nothing else: duplicates, rebalances and answers     *)
(* lost after a commit are never counted twice and never counted by half.  *)
RollupMatchesClaims ==
  \A col \in Columns :
    rollup[col] = Cardinality({e \in claimed : e \notin Garbled /\ col \in Cells(e)})

(* One bad message cannot wedge the projector (Run): it reads on to the    *)
(* end of the partition unless its reader failed for good.                 *)
NeverWedged ==
  <>(committed = Length + 1) \/ <>[](stage[owner] = "stopped")

(* AnalyticsConsumer: "exactly once per CloudEvents id despite Kafka's     *)
(* at-least-once delivery".  An event that was read and is in nobody's     *)
(* hands any more was counted.                                             *)
ExactlyOnce ==
  \A i \in 1..(committed - 1) :
    \/ log[i] \in Garbled \cup {Junk} \cup claimed
    \/ \E c \in Instances : stage[c] \in {"mark", "apply"} /\ event(c) = log[i]
=============================================================================
