---------------------- MODULE RepromiseConsumerProofs ----------------------
(***************************************************************************)
(* The re-promise consumer for a partition of any length, any set of event *)
(* ids, any retry budget and any number of restarts: an event takes effect *)
(* at most once, and below the committed offset every message is accounted *)
(* for or was left by a version conflict.                                  *)
(***************************************************************************)
EXTENDS RepromiseConsumer, TLAPS

----------------------------------------------------------------------------
(* The inductive invariant. *)

(* repromise_processed_events records exactly the events that took effect. *)
MarksMatchEffects ==
  \A e \in EventIds : effects[e] = IF e \in processed THEN 1 ELSE 0

Settled(i) == Accounted(i) \/ i \in conflicts

(* Every message before the one in hand is settled; the one in hand is     *)
(* accounted for before it is committed; the committed offset is never     *)
(* ahead of the reader.                                                    *)
ReadInOrder ==
  /\ committed <= position
  /\ stage = "fetch" => \A i \in 1..(position - 1) : Settled(i)
  /\ stage # "fetch" => position >= 2 /\ \A i \in 1..(position - 2) : Settled(i)
  /\ stage = "commit" => Accounted(current)

ConsumerInv == TypeOK /\ MarksMatchEffects /\ ReadInOrder /\ CommittedAccounted

----------------------------------------------------------------------------
(* What the consumer can tell about a message. *)
LEMMA MessageFacts ==
  ASSUME TypeOK, NEW i \in 1..Length
  PROVE  /\ log[i].kind \in {"poison", "other", "garbled", "signal"}
         /\ log[i].kind = "signal" => log[i].id \in EventIds
<1>1. log[i] \in Message
  BY DEF TypeOK
<1>2. \A m \in [kind : {"poison", "other", "garbled"}] : m.kind \in {"poison", "other", "garbled"}
  OBVIOUS
<1>3. \A m \in [kind : {"signal"}, id : EventIds] : m.kind = "signal" /\ m.id \in EventIds
  OBVIOUS
<1> QED BY <1>1, <1>2, <1>3 DEF Message

(* What is accounted for stays so: marks and dead letters are only added.  *)
LEMMA SettledKept ==
  ASSUME log' = log, processed \subseteq processed', dlq \subseteq dlq', conflicts \subseteq conflicts',
         NEW i
  PROVE  (Accounted(i) => Accounted(i)') /\ (Settled(i) => Settled(i)')
  BY DEF Accounted, Settled

(* The message in hand is one of the partition. *)
LEMMA CurrentFacts ==
  ASSUME TypeOK, ReadInOrder, stage # "fetch"
  PROVE  current \in 1..Length /\ position = current + 1 /\ current \in Nat
  BY LengthAssumption DEF TypeOK, ReadInOrder, current

(* An event is marked when, and only when, it takes effect. *)
LEMMA MarkAndApplyStep ==
  ASSUME TypeOK, MarksMatchEffects, NEW e \in EventIds, MarkAndApply(e)
  PROVE  /\ processed \subseteq processed' /\ e \in processed' /\ processed' \subseteq EventIds
         /\ effects' \in [EventIds -> Nat]
         /\ MarksMatchEffects'
  BY DEF TypeOK, MarksMatchEffects, MarkAndApply

----------------------------------------------------------------------------
LEMMA FetchStep ==
  ASSUME ConsumerInv, Fetch
  PROVE  ConsumerInv'
<1> USE DEF ConsumerInv
<1>1. position \in Nat /\ position >= 1 /\ position' = position + 1 /\ committed \in Nat
  BY LengthAssumption DEF Fetch, TypeOK
<1>2. TypeOK'
  BY LengthAssumption DEF Fetch, TypeOK
<1>3. MarksMatchEffects'
  BY DEF Fetch, MarksMatchEffects
<1>4. \A i : (Settled(i)' <=> Settled(i)) /\ (Accounted(i)' <=> Accounted(i))
  BY DEF Fetch, Settled, Accounted
<1>5. ReadInOrder'
  BY <1>1, <1>4 DEF Fetch, ReadInOrder
<1>6. CommittedAccounted'
  BY <1>4 DEF Fetch, CommittedAccounted
<1> QED BY <1>2, <1>3, <1>5, <1>6

LEMMA DecodeStep ==
  ASSUME ConsumerInv, Decode
  PROVE  ConsumerInv'
<1> USE DEF ConsumerInv
<1>1. current \in 1..Length /\ current' = current
  BY CurrentFacts DEF Decode, current
<1>2. log[current].kind \in {"poison", "other", "garbled", "signal"}
  BY <1>1, MessageFacts
<1>3. /\ stage' \in {"dlq", "commit", "execute"}
      /\ stage' = "commit" => log[current].kind = "other"
  BY <1>2 DEF Decode
<1>4. TypeOK'
  BY <1>3, AttemptsAssumption DEF Decode, TypeOK
<1>5. MarksMatchEffects'
  BY DEF Decode, MarksMatchEffects
<1>6. \A i : (Settled(i)' <=> Settled(i)) /\ (Accounted(i)' <=> Accounted(i))
  BY DEF Decode, Settled, Accounted
<1>7. ReadInOrder'
  BY <1>1, <1>3, <1>6 DEF Decode, ReadInOrder, Accounted
<1>8. CommittedAccounted'
  BY <1>6 DEF Decode, CommittedAccounted
<1> QED BY <1>4, <1>5, <1>7, <1>8

LEMMA ExecuteStep ==
  ASSUME ConsumerInv, Execute
  PROVE  ConsumerInv'
<1> USE DEF ConsumerInv
<1>1. current \in 1..Length /\ current' = current
  BY CurrentFacts DEF Execute, current
<1>2. log[current].id \in EventIds /\ log[current].kind = "signal"
  BY <1>1, MessageFacts DEF Execute
<1>3. /\ processed \subseteq processed' /\ log[current].id \in processed' /\ processed' \subseteq EventIds
      /\ effects' \in [EventIds -> Nat] /\ MarksMatchEffects'
  BY <1>2, MarkAndApplyStep DEF Execute
<1>4. TypeOK'
  BY <1>3 DEF Execute, TypeOK
<1>5. \A i : (Settled(i) => Settled(i)') /\ (Accounted(i) => Accounted(i)')
  BY <1>3, SettledKept DEF Execute
<1>6. Accounted(current)'
  BY <1>1, <1>2, <1>3 DEF Execute, Accounted
<1>7. ReadInOrder'
  BY <1>5, <1>6 DEF Execute, ReadInOrder
<1>8. CommittedAccounted'
  BY <1>5 DEF Execute, CommittedAccounted, Settled
<1> QED BY <1>3, <1>4, <1>7, <1>8

LEMMA ExecuteFailsStep ==
  ASSUME ConsumerInv, ExecuteFails
  PROVE  ConsumerInv'
<1> USE DEF ConsumerInv
<1>1. current \in 1..Length
  BY CurrentFacts DEF ExecuteFails
<1>2. /\ processed \subseteq processed' /\ processed' \subseteq EventIds
      /\ effects' \in [EventIds -> Nat] /\ MarksMatchEffects'
  <2>1. CASE UNCHANGED <<processed, effects>>
    BY <2>1 DEF TypeOK, MarksMatchEffects
  <2>2. CASE log[current].kind = "signal" /\ MarkAndApply(log[current].id)
    BY <2>2, <1>1, MessageFacts, MarkAndApplyStep
  <2> QED BY <2>1, <2>2 DEF ExecuteFails
<1>3. stage' \in {"execute", "dlq"}
  BY DEF ExecuteFails, NextTry
<1>4. attempts' \in 0..(MaxAttempts - 1)
  BY AttemptsAssumption DEF ExecuteFails, NextTry, TypeOK
<1>5. TypeOK'
  BY <1>2, <1>3, <1>4 DEF ExecuteFails, TypeOK
<1>6. \A i : (Settled(i) => Settled(i)') /\ (Accounted(i) => Accounted(i)')
  BY <1>2, SettledKept DEF ExecuteFails
<1>7. ReadInOrder'
  BY <1>3, <1>6 DEF ExecuteFails, ReadInOrder
<1>8. CommittedAccounted'
  BY <1>6 DEF ExecuteFails, CommittedAccounted, Settled
<1> QED BY <1>2, <1>5, <1>7, <1>8

LEMMA ConflictStep ==
  ASSUME ConsumerInv, Conflict
  PROVE  ConsumerInv'
<1> USE DEF ConsumerInv
<1>1. current \in 1..Length /\ position = current + 1
  BY CurrentFacts DEF Conflict
<1>2. TypeOK'
  BY <1>1, AttemptsAssumption DEF Conflict, TypeOK
<1>3. MarksMatchEffects'
  BY DEF Conflict, MarksMatchEffects
<1>4. \A i : (Settled(i) => Settled(i)') /\ (Accounted(i) => Accounted(i)')
  BY SettledKept DEF Conflict
<1>5. Settled(current)' /\ current' = current
  BY DEF Conflict, Settled, current
<1>6. \A i \in 1..(position - 1) : i = current \/ i \in 1..(position - 2)
  BY <1>1
<1>7. \A i \in 1..(position - 1) : Settled(i)'
  BY <1>4, <1>5, <1>6 DEF Conflict, ReadInOrder, Settled
<1>8. ReadInOrder'
  BY <1>7 DEF Conflict, ReadInOrder
<1>9. CommittedAccounted'
  BY <1>4 DEF Conflict, CommittedAccounted, Settled
<1> QED BY <1>2, <1>3, <1>8, <1>9

LEMMA DeadLetterStep ==
  ASSUME ConsumerInv, DeadLetter \/ DeadLetterFails
  PROVE  ConsumerInv'
<1> USE DEF ConsumerInv
<1>1. current \in 1..Length /\ current' = current
  BY CurrentFacts DEF DeadLetter, DeadLetterFails, current
<1>2. /\ stage' \in {"commit", "handle"} /\ dlq \subseteq dlq' /\ dlq' \subseteq 1..Length
      /\ stage' = "commit" => current \in dlq'
      /\ UNCHANGED <<log, committed, position, attempts, processed, effects, conflicts, restarts>>
  BY <1>1 DEF DeadLetter, DeadLetterFails, TypeOK
<1>3. TypeOK'
  BY <1>2 DEF TypeOK
<1>4. MarksMatchEffects'
  BY <1>2 DEF MarksMatchEffects
<1>5. \A i : (Settled(i) => Settled(i)') /\ (Accounted(i) => Accounted(i)')
  BY <1>2, SettledKept
<1>6. stage # "fetch"
  BY DEF DeadLetter, DeadLetterFails
<1>7. ReadInOrder'
  BY <1>1, <1>2, <1>5, <1>6 DEF ReadInOrder, Accounted
<1>8. CommittedAccounted'
  BY <1>2, <1>5 DEF CommittedAccounted, Settled
<1> QED BY <1>3, <1>4, <1>7, <1>8

(* The offset moves over the message in hand only, and only when it is     *)
(* accounted for.                                                          *)
LEMMA CommitStep ==
  ASSUME ConsumerInv, Commit \/ CommitFails
  PROVE  ConsumerInv'
<1> USE DEF ConsumerInv
<1>1. current \in 1..Length /\ position = current + 1 /\ Accounted(current)
  BY CurrentFacts DEF Commit, CommitFails, ReadInOrder
<1>2. /\ committed' \in {committed, position} /\ stage' \in {"fetch", "handle"}
      /\ attempts' \in {attempts, 0}
      /\ UNCHANGED <<log, position, processed, effects, dlq, conflicts, restarts>>
  BY <1>1 DEF Commit, CommitFails
<1>3. TypeOK'
  BY <1>2, AttemptsAssumption DEF TypeOK
<1>4. MarksMatchEffects'
  BY <1>2 DEF MarksMatchEffects
<1>5. \A i : (Settled(i)' <=> Settled(i)) /\ (Accounted(i)' <=> Accounted(i))
  BY <1>2 DEF Settled, Accounted
<1>6. \A i \in 1..(position - 1) : i = current \/ i \in 1..(position - 2)
  BY <1>1
<1>7. \A i \in 1..(position - 1) : Settled(i)
  BY <1>1, <1>6 DEF Commit, CommitFails, ReadInOrder, Settled
<1>8. ReadInOrder'
  BY <1>1, <1>2, <1>5, <1>7 DEF ReadInOrder, Commit, CommitFails, TypeOK
<1>9. CommittedAccounted'
  BY <1>2, <1>5, <1>7 DEF CommittedAccounted, Settled
<1> QED BY <1>3, <1>4, <1>8, <1>9

LEMMA RestartStep ==
  ASSUME ConsumerInv, Restart
  PROVE  ConsumerInv'
<1> USE DEF ConsumerInv
<1>1. TypeOK'
  BY AttemptsAssumption, LengthAssumption DEF Restart, TypeOK
<1>2. MarksMatchEffects'
  BY DEF Restart, MarksMatchEffects
<1>3. \A i : (Settled(i)' <=> Settled(i)) /\ (Accounted(i)' <=> Accounted(i))
  BY DEF Restart, Settled, Accounted
<1>4. ReadInOrder'
  BY <1>3 DEF Restart, ReadInOrder, CommittedAccounted, Settled, TypeOK
<1>5. CommittedAccounted'
  BY <1>3 DEF Restart, CommittedAccounted, Settled
<1> QED BY <1>1, <1>2, <1>4, <1>5

----------------------------------------------------------------------------
(* The theorems. *)

(* The inductive invariant of the consumer holds in every reachable state. *)
THEOREM ConsumerInvariant == Spec => []ConsumerInv
<1>1. Init => ConsumerInv
  <2> SUFFICES ASSUME Init PROVE ConsumerInv
    OBVIOUS
  <2>1. TypeOK
    BY AttemptsAssumption, LengthAssumption DEF Init, TypeOK
  <2>2. MarksMatchEffects /\ ReadInOrder /\ CommittedAccounted
    BY DEF Init, MarksMatchEffects, ReadInOrder, CommittedAccounted
  <2> QED BY <2>1, <2>2 DEF ConsumerInv
<1>2. ConsumerInv /\ [Next]_vars => ConsumerInv'
  <2> SUFFICES ASSUME ConsumerInv, [Next]_vars PROVE ConsumerInv'
    OBVIOUS
  <2>1. CASE UNCHANGED vars
    <3>1. \A i : (Settled(i)' <=> Settled(i)) /\ (Accounted(i)' <=> Accounted(i))
      BY <2>1 DEF vars, Settled, Accounted
    <3>2. TypeOK' /\ MarksMatchEffects' /\ CommittedAccounted'
      BY <2>1, <3>1 DEF ConsumerInv, vars, TypeOK, MarksMatchEffects, CommittedAccounted, Settled
    <3>3. ReadInOrder'
      BY <2>1, <3>1 DEF ConsumerInv, vars, ReadInOrder, current, Accounted
    <3> QED BY <3>2, <3>3 DEF ConsumerInv
  <2> QED BY <2>1, FetchStep, DecodeStep, ExecuteStep, ExecuteFailsStep, ConflictStep,
             DeadLetterStep, CommitStep, RestartStep DEF Next
<1> QED BY <1>1, <1>2, PTL DEF Spec

(* Every variable of the consumer keeps its type: no attempt is made       *)
(* beyond maxHandlerAttempts, and no offset beyond the partition.          *)
THEOREM TypeCorrect == Spec => []TypeOK
<1>1. ConsumerInv => TypeOK
  BY DEF ConsumerInv
<1> QED BY <1>1, ConsumerInvariant, PTL

(* RepromiseOrder takes effect at most once per event id, however often    *)
(* the event is published, delivered, retried or its answer lost.          *)
THEOREM RepromisedOnce == Spec => []AppliedOnce
<1>1. ConsumerInv => AppliedOnce
  <2> SUFFICES ASSUME ConsumerInv, NEW e \in EventIds PROVE effects[e] <= 1
    BY DEF AppliedOnce
  <2>1. effects[e] \in {0, 1}
    BY DEF ConsumerInv, MarksMatchEffects
  <2> QED BY <2>1
<1> QED BY <1>1, ConsumerInvariant, PTL

(* Below the committed offset every message is accounted for or was left   *)
(* by a version conflict.                                                  *)
THEOREM NothingSkipped == Spec => []CommittedAccounted
<1>1. ConsumerInv => CommittedAccounted
  BY DEF ConsumerInv
<1> QED BY <1>1, ConsumerInvariant, PTL
=============================================================================
