------------------------- MODULE RepromiseConsumer -------------------------
(***************************************************************************)
(* The Kafka consumer that drives RepromiseOrder                           *)
(* (internal/adapters/inbound/kafka/repromise_consumer.go): one partition, *)
(* one consumer of the group, the in-process retries, the dead-letter      *)
(* topic, the group's committed offset, and the processed-events table     *)
(* that makes redelivery harmless.                                         *)
(*                                                                         *)
(* A message is what the consumer can tell about it: poison (not a         *)
(* CloudEvent), other (a type it ignores, or an order_ref it cannot        *)
(* parse), garbled (a type it handles with data it cannot decode) or a     *)
(* signal with its CloudEvents id.  What RepromiseOrder does to the order  *)
(* is the business of OrderLifecycle; here it is one unit of work that     *)
(* takes effect, or not.                                                   *)
(*                                                                         *)
(* Left out: tracing, logging and the length of the backoff waits.         *)
(***************************************************************************)
EXTENDS Integers, Sequences

CONSTANTS
  EventIds,     \* CloudEvents ids; a producer may publish one twice
  Length,       \* how many messages the partition holds
  MaxAttempts,  \* maxHandlerAttempts
  MaxRestarts   \* bound on restarts and rebalances

ASSUME AttemptsAssumption == MaxAttempts \in Nat \ {0}
ASSUME LengthAssumption == Length \in Nat /\ MaxRestarts \in Nat

Message == [kind : {"poison", "other", "garbled"}] \cup [kind : {"signal"}, id : EventIds]

VARIABLES
  log,        \* the messages of the partition; the offset is the index
  committed,  \* the group's committed offset: where a restart resumes
  position,   \* the next offset the reader will fetch
  stage,      \* what the consumer is doing with message position - 1
  attempts,   \* how often handleFulfillmentEvent was tried for it
  processed,  \* repromise_processed_events
  effects,    \* how often RepromiseOrder took effect, by event id
  dlq,        \* the offsets published to the dead-letter topic
  conflicts,  \* the offsets left uncommitted after a version conflict
  restarts    \* how many restarts there were

vars == <<log, committed, position, stage, attempts, processed, effects, dlq,
          conflicts, restarts>>

Init ==
  /\ log \in [1..Length -> Message]
  /\ committed = 1 /\ position = 1
  /\ stage = "fetch" /\ attempts = 0
  /\ processed = {} /\ effects = [e \in EventIds |-> 0]
  /\ dlq = {} /\ conflicts = {}
  /\ restarts = 0

current == position - 1

----------------------------------------------------------------------------
(* FetchMessage hands out the next message and moves on in memory. *)
Fetch ==
  /\ stage = "fetch"
  /\ position <= Length
  /\ position' = position + 1
  /\ stage' = "handle"
  /\ UNCHANGED <<log, committed, attempts, processed, effects, dlq, conflicts, restarts>>

(* handleMessage starts: a message that does not decode goes straight to   *)
(* the dead-letter topic, one of no interest straight to the commit.       *)
Decode ==
  /\ stage = "handle"
  /\ attempts' = 0
  /\ stage' = CASE log[current].kind = "poison" -> "dlq"
                [] log[current].kind = "other"  -> "commit"
                [] OTHER                        -> "execute"
  /\ UNCHANGED <<log, committed, position, processed, effects, dlq, conflicts, restarts>>

(* Mistake: the event is marked in a transaction of its own, after. *)
MarkAndApplyUnmarked(e) ==
  /\ effects' = [effects EXCEPT ![e] = @ + 1]
  /\ UNCHANGED processed

(* RepromiseOrder.Execute commits: MarkProcessed is its first statement,   *)
(* and an event already marked has no effect.                              *)
MarkAndApply(e) ==
  /\ processed' = processed \cup {e}
  /\ effects' = IF e \in processed THEN effects ELSE [effects EXCEPT ![e] = @ + 1]

(* handleFulfillmentEvent succeeds. *)
Execute ==
  /\ stage = "execute"
  /\ log[current].kind = "signal"
  /\ MarkAndApply(log[current].id)
  /\ stage' = "commit"
  /\ UNCHANGED <<log, committed, position, attempts, dlq, conflicts, restarts>>

(* Mistake: one attempt too many. *)
NextTryOneMore == IF attempts < MaxAttempts THEN "execute" ELSE "dlq"

(* The retry budget of handleWithRetry, then the dead-letter topic. *)
NextTry == IF attempts + 1 < MaxAttempts THEN "execute" ELSE "dlq"

(* handleFulfillmentEvent returns another error: garbled data, or a        *)
(* database failure.  The unit of work is rolled back, or its commit went  *)
(* through and only the answer was lost.                                   *)
ExecuteFails ==
  /\ stage = "execute"
  /\ \/ UNCHANGED <<processed, effects>>
     \/ log[current].kind = "signal" /\ MarkAndApply(log[current].id)
  /\ stage' = NextTry
  /\ attempts' = IF NextTry = "dlq" THEN 0 ELSE attempts + 1
  /\ UNCHANGED <<log, committed, position, dlq, conflicts, restarts>>

(* Save loses the version race: never retried, never dead-lettered; the    *)
(* offset is not committed and the loop goes on with the next message.     *)
Conflict ==
  /\ stage = "execute"
  /\ log[current].kind = "signal" /\ log[current].id \notin processed
  /\ conflicts' = conflicts \cup {current}
  /\ stage' = "fetch" /\ attempts' = 0
  /\ UNCHANGED <<log, committed, position, processed, effects, dlq, restarts>>

(* Mistake: a dead-lettered message is not committed. *)
DeadLetterUncommitted ==
  /\ stage = "dlq"
  /\ dlq' = dlq \cup {current}
  /\ stage' = "handle"
  /\ UNCHANGED <<log, committed, position, attempts, processed, effects, conflicts, restarts>>

DeadLetter ==
  /\ stage = "dlq"
  /\ dlq' = dlq \cup {current}
  /\ stage' = "commit"
  /\ UNCHANGED <<log, committed, position, attempts, processed, effects, conflicts, restarts>>

(* Mistake: the error of dlqPublish is dropped. *)
DeadLetterFailsSilently ==
  /\ stage = "dlq"
  /\ stage' = "commit"
  /\ UNCHANGED <<log, committed, position, attempts, processed, effects, dlq, conflicts, restarts>>

(* The dead-letter write fails, or only its answer is lost: handleUntilDone *)
(* handles the whole message again.                                         *)
DeadLetterFails ==
  /\ stage = "dlq"
  /\ dlq' \in {dlq, dlq \cup {current}}
  /\ stage' = "handle"
  /\ UNCHANGED <<log, committed, position, attempts, processed, effects, conflicts, restarts>>

Commit ==
  /\ stage = "commit"
  /\ committed' = current + 1
  /\ stage' = "fetch" /\ attempts' = 0
  /\ UNCHANGED <<log, position, processed, effects, dlq, conflicts, restarts>>

(* The commit fails: handleUntilDone handles the whole message again. *)
CommitFails ==
  /\ stage = "commit"
  /\ committed' \in {committed, current + 1}
  /\ stage' = "handle"
  /\ UNCHANGED <<log, position, attempts, processed, effects, dlq, conflicts, restarts>>

(* The process restarts or the partition is rebalanced: reading resumes at *)
(* the committed offset.                                                   *)
Restart ==
  /\ restarts < MaxRestarts
  /\ restarts' = restarts + 1
  /\ position' = committed
  /\ stage' = "fetch" /\ attempts' = 0
  /\ UNCHANGED <<log, committed, processed, effects, dlq, conflicts>>

Next ==
  \/ Fetch \/ Decode \/ Execute \/ ExecuteFails \/ Conflict
  \/ DeadLetter \/ DeadLetterFails \/ Commit \/ CommitFails \/ Restart

(* Run never gives up and the broker comes back: a write or commit tried   *)
(* again and again succeeds in the end.  The handler need not ever succeed. *)
Fairness ==
  /\ WF_vars(Fetch) /\ WF_vars(Decode)
  /\ WF_vars(Execute \/ ExecuteFails \/ Conflict)
  /\ SF_vars(DeadLetter) /\ SF_vars(Commit)

Spec == Init /\ [][Next]_vars /\ Fairness

----------------------------------------------------------------------------
TypeOK ==
  /\ log \in [1..Length -> Message]
  /\ committed \in 1..(Length + 1) /\ position \in 1..(Length + 1)
  /\ stage \in {"fetch", "handle", "execute", "dlq", "commit"}
  /\ attempts \in 0..(MaxAttempts - 1)
  /\ processed \subseteq EventIds /\ effects \in [EventIds -> Nat]
  /\ dlq \subseteq 1..Length /\ conflicts \subseteq 1..Length
  /\ restarts \in 0..MaxRestarts

(* Redelivery, in-process retries, duplicate publication and answers lost  *)
(* after the commit never re-promise twice for one event.                  *)
AppliedOnce == \A e \in EventIds : effects[e] <= 1

Accounted(i) ==
  \/ log[i].kind = "other"
  \/ log[i].kind = "signal" /\ log[i].id \in processed
  \/ i \in dlq

(* Below the committed offset nothing is lost but what a version conflict  *)
(* left behind: every other message took effect or is in the dead-letter   *)
(* topic.                                                                  *)
CommittedAccounted ==
  \A i \in 1..(committed - 1) : Accounted(i) \/ i \in conflicts

(* No message blocks the partition: the consumer gets to its end, whatever *)
(* fails and however often, as long as the broker comes back.              *)
PartitionNeverBlocked == <>(stage = "fetch" /\ position = Length + 1)

(* handleMessage: after a version conflict "THIS message is safely         *)
(* redelivered on the next rebalance/restart rather than silently          *)
(* dropped".  A conflicting message below the committed offset is never    *)
(* redelivered, so it has been accounted for.                              *)
ConflictsNotDropped ==
  \A i \in conflicts : i < committed => Accounted(i)
=============================================================================
