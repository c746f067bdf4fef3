---------------------------- MODULE OutboxRelay ----------------------------
(***************************************************************************)
(* The transactional outbox from the INSERT of an event row to Kafka:      *)
(* OutboxPublisher.Publish inside a use case's transaction, and the        *)
(* OutboxRelay that drains the table (internal/adapters/outbound/postgres, *)
(* migrations/0007_outbox).  Two relays run side by side during a rolling  *)
(* deploy.                                                                 *)
(*                                                                         *)
(* A row's id is its position in rows: BIGSERIAL draws it when the INSERT  *)
(* runs, long before the transaction commits.  A message is the id of its  *)
(* row; all rows go to one topic, whose partitions are chosen by the order *)
(* the row is about, so only the order of rows of the same order matters.  *)
(*                                                                         *)
(* Left out: the wire encoding, the row's attempts and last_error columns, *)
(* and the sleep between passes, which only delays the next claim.         *)
(***************************************************************************)
EXTENDS Integers, Sequences, FiniteSets

CONSTANTS
  Writers,    \* use-case transactions, each run once
  Orders,     \* the orders they are about
  Relays,     \* the relay processes
  BatchSize,  \* the LIMIT of a claim
  MaxRows,    \* bound on the rows ever inserted
  MaxFaults   \* bound on the faults that make Kafka see a row again

ASSUME BatchSizeAssumption == BatchSize \in Nat \ {0}
ASSUME BoundsAssumption == MaxRows \in Nat /\ MaxFaults \in Nat

VARIABLES
  writer,   \* the state of each use-case transaction
  version,  \* the stored version of each order
  rows,     \* outbox_events: which transaction inserted the row, and its order
  published,\* the ids whose published_at is set and committed
  claimed,  \* the ids each relay has locked in its pass
  sent,     \* of those, the ids it has sent and marked in its open transaction
  topic,    \* what Kafka holds, in order of arrival
  faults,   \* how many such faults there were
  overlap   \* two relays have had rows in hand at the same time

relayVars == <<published, claimed, sent, topic, faults, overlap>>
writerVars == <<writer, version, rows>>
vars == <<writerVars, relayVars>>

Idle == [stage |-> "idle"]

Init ==
  /\ writer = [w \in Writers |-> Idle]
  /\ version = [o \in Orders |-> 1]
  /\ rows = <<>>
  /\ published = {}
  /\ claimed = [p \in Relays |-> {}]
  /\ sent = [p \in Relays |-> {}]
  /\ topic = <<>>
  /\ faults = 0 /\ overlap = FALSE

----------------------------------------------------------------------------
(* The writers. *)

(* A use case loads its order and opens its unit of work. *)
Begin(w, o) ==
  /\ writer[w] = Idle
  /\ writer' = [writer EXCEPT ![w] = [stage |-> "open", order |-> o, at |-> version[o]]]
  /\ UNCHANGED <<version, rows, relayVars>>

(* OutboxPublisher.Publish: one INSERT that draws the next id. *)
Enqueue(w) ==
  /\ writer[w].stage = "open"
  /\ Len(rows) < MaxRows
  /\ rows' = Append(rows, [by |-> w, order |-> writer[w].order])
  /\ UNCHANGED <<writer, version, relayVars>>

(* The unit of work commits after its version-guarded Save. *)
CommitSaved(w) ==
  /\ writer[w].stage = "open"
  /\ writer[w].at = version[writer[w].order]
  /\ version' = [version EXCEPT ![writer[w].order] = @ + 1]
  /\ writer' = [writer EXCEPT ![w].stage = "saved"]
  /\ UNCHANGED <<rows, relayVars>>

(* The unit of work commits its event rows without a Save: the allocation *)
(* pass that failed hard before it allocated anything.                    *)
CommitUnsaved(w) ==
  /\ writer[w].stage = "open"
  /\ writer' = [writer EXCEPT ![w].stage = "unsaved"]
  /\ UNCHANGED <<version, rows, relayVars>>

(* A lost version race, an error or a crash: the rows never become visible. *)
RollbackWriter(w) ==
  /\ writer[w].stage = "open"
  /\ writer' = [writer EXCEPT ![w].stage = "aborted"]
  /\ UNCHANGED <<version, rows, relayVars>>

Committed == {i \in DOMAIN rows : writer[rows[i].by].stage \in {"saved", "unsaved"}}

----------------------------------------------------------------------------
(* The relay. *)

Locked == UNION {claimed[p] : p \in Relays}

(* Mistakes: a row another relay holds is not skipped; the relay remembers *)
(* the last id it published and asks for the rows after it.                *)
ClaimableLocked == Committed \ published
ClaimableAfterLast ==
  {i \in (Committed \ published) \ Locked : \A j \in published : j < i}

(* published_at IS NULL, and FOR UPDATE SKIP LOCKED. *)
Claimable == (Committed \ published) \ Locked

(* Mistake: the limit is off by one. *)
FirstRowsAndOne(S) == {i \in S : Cardinality({j \in S : j < i}) <= BatchSize}

(* ORDER BY id LIMIT n *)
FirstRows(S) == {i \in S : Cardinality({j \in S : j < i}) < BatchSize}

(* claimOutboxRows: a pass locks the oldest unpublished rows. *)
Claim(p) ==
  /\ claimed[p] = {}
  /\ Claimable # {}
  /\ claimed' = [claimed EXCEPT ![p] = FirstRows(Claimable)]
  /\ overlap' = (overlap \/ Locked # {})
  /\ UNCHANGED <<writerVars, published, sent, topic, faults>>

(* Mistake: the batch is sent in whatever order it was read. *)
IsAnyRow(p, i) == i \in claimed[p] \ sent[p]

IsNextRow(p, i) ==
  /\ i \in claimed[p] \ sent[p]
  /\ \A j \in claimed[p] \ sent[p] : i <= j

(* publishBatch, one row: the send succeeds and the row is marked in the   *)
(* pass's transaction.                                                     *)
Send(p) ==
  /\ \E i \in claimed[p] :
       /\ IsNextRow(p, i)
       /\ topic' = Append(topic, i)
       /\ sent' = [sent EXCEPT ![p] = @ \cup {i}]
  /\ UNCHANGED <<writerVars, published, claimed, faults, overlap>>

(* The pass's transaction ends and its locks are released. *)
EndPass(p) ==
  /\ claimed' = [claimed EXCEPT ![p] = {}]
  /\ sent' = [sent EXCEPT ![p] = {}]

(* Mistake: the pass skips the row it could not send. *)
SendFailsMarks(p) ==
  /\ claimed[p] # sent[p]
  /\ published' = published \cup sent[p] \cup {i \in claimed[p] : IsNextRow(p, i)}
  /\ EndPass(p)
  /\ UNCHANGED <<writerVars, topic, faults, overlap>>

(* recordSendFailure: the pass stops at the failed row and commits the     *)
(* marks of the rows before it.                                            *)
SendFails(p) ==
  /\ claimed[p] # sent[p]
  /\ published' = published \cup sent[p]
  /\ EndPass(p)
  /\ UNCHANGED <<writerVars, topic, faults, overlap>>

(* The same, but the send that timed out did arrive. *)
SendTimesOut(p) ==
  /\ faults < MaxFaults
  /\ faults' = faults + 1
  /\ \E i \in claimed[p] : IsNextRow(p, i) /\ topic' = Append(topic, i)
  /\ published' = published \cup sent[p]
  /\ EndPass(p)
  /\ UNCHANGED <<writerVars, overlap>>

(* Every claimed row was sent: the pass commits. *)
CommitPass(p) ==
  /\ claimed[p] # {} /\ sent[p] = claimed[p]
  /\ published' = published \cup sent[p]
  /\ EndPass(p)
  /\ UNCHANGED <<writerVars, topic, faults, overlap>>

(* The relay dies, a mark fails or the commit fails: every mark of the     *)
(* pass is lost, whatever was sent.                                        *)
AbortPass(p) ==
  /\ claimed[p] # {}
  /\ faults < MaxFaults
  /\ faults' = faults + 1
  /\ EndPass(p)
  /\ UNCHANGED <<writerVars, published, topic, overlap>>

----------------------------------------------------------------------------
Write(w) ==
  \/ \E o \in Orders : Begin(w, o)
  \/ Enqueue(w) \/ CommitSaved(w) \/ CommitUnsaved(w) \/ RollbackWriter(w)

Relay(p) ==
  \/ Claim(p) \/ Send(p) \/ SendFails(p) \/ SendTimesOut(p)
  \/ CommitPass(p) \/ AbortPass(p)

Next == (\E w \in Writers : Write(w)) \/ (\E p \in Relays : Relay(p))

(* Run loops until the process stops, so a pass that can start or end      *)
(* does; and a broker that is asked again and again accepts in the end.    *)
Fairness ==
  \A p \in Relays : WF_vars(Claim(p)) /\ WF_vars(CommitPass(p)) /\ SF_vars(Send(p))

Spec == Init /\ [][Next]_vars /\ Fairness

----------------------------------------------------------------------------
WriterState ==
  {Idle} \cup [stage : {"open", "saved", "unsaved", "aborted"}, order : Orders, at : Nat]

(* Types; ids that were drawn; and a pass never holds more rows locked     *)
(* than its batch size.                                                    *)
TypeOK ==
  /\ writer \in [Writers -> WriterState]
  /\ version \in [Orders -> Nat]
  /\ rows \in Seq([by : Writers, order : Orders])
  /\ published \subseteq DOMAIN rows
  /\ claimed \in [Relays -> SUBSET DOMAIN rows]
  /\ sent \in [Relays -> SUBSET DOMAIN rows]
  /\ topic \in Seq(DOMAIN rows)
  /\ faults \in Nat /\ overlap \in BOOLEAN
  /\ \A p \in Relays : Cardinality(claimed[p]) <= BatchSize

Sent == {topic[k] : k \in DOMAIN topic}

(* The outbox neither invents nor writes off: published_at is only ever    *)
(* set on a row that Kafka really has, and Kafka only ever gets what was   *)
(* committed with the order, whatever sends failed and passes died, and    *)
(* although ids are drawn before the commit.                               *)
PublishedSentCommitted ==
  published \subseteq Sent /\ Sent \subseteq Committed

(* At least once, but not endlessly: a row whose mark is committed is      *)
(* never sent again, by another relay as little as by the same.            *)
PublishedNotResent ==
  [][topic' # topic => topic'[Len(topic')] \notin published]_vars

(* When Kafka first sees row i. *)
FirstSeen(i) == {k \in DOMAIN topic : topic[k] = i /\ \A m \in 1..(k - 1) : topic[m] # i}

(* OutboxRelay: "Ordering within one topic is preserved".  The order in    *)
(* which Kafka first sees the rows of one order, among the transactions    *)
(* that saved the order, is the order in which they were inserted.         *)
OrderPreserved ==
  \A i, j \in DOMAIN rows :
    /\ i < j /\ rows[i].order = rows[j].order
    /\ writer[rows[i].by].stage = "saved" /\ writer[rows[j].by].stage = "saved"
    => \A m \in FirstSeen(j) : \E k \in FirstSeen(i) : k < m

(* As long as no two relays have worked at the same time the order of      *)
(* events survives failed sends, crashes, the hand-over from one relay to  *)
(* the next, and ids that become visible out of turn.                      *)
OrderPreservedAlone == overlap \/ OrderPreserved

(* Every row committed with its order is published in the end.             *)
EventuallyPublished == \A i \in 1..MaxRows : i \in Committed ~> i \in published
=============================================================================
