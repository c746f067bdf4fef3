------------------------- MODULE OutboxRelayProofs -------------------------
(***************************************************************************)
(* The outbox for any number of transactions, orders and relays, any batch *)
(* size and any number of faults: what is published was sent, what was     *)
(* sent was committed, nothing published is sent again, and as long as no  *)
(* two relays have worked at the same time the events of an order arrive   *)
(* in the order in which they were inserted.                               *)
(***************************************************************************)
EXTENDS OutboxRelay, FiniteSetTheorems, NaturalsInduction, WellFoundedInduction, TLAPS

----------------------------------------------------------------------------
(* The inductive invariant. *)

Begun(w) == writer[w].stage # "idle"

(* A row belongs to a transaction that has begun, and is about its order.  *)
(* A transaction never saw a later version than the stored one, and a      *)
(* saved one saw an earlier one.                                           *)
RowsOwned ==
  /\ \A i \in DOMAIN rows :
       Begun(rows[i].by) /\ writer[rows[i].by].order = rows[i].order
  /\ \A w \in Writers : Begun(w) =>
       /\ writer[w].at <= version[writer[w].order]
       /\ writer[w].stage = "saved" => writer[w].at < version[writer[w].order]

(* A transaction that saw a later version than a saved one began after it, *)
(* so it drew larger ids.                                                  *)
RowsInTurn ==
  \A i, j \in DOMAIN rows :
    /\ rows[i].order = rows[j].order
    /\ writer[rows[j].by].stage = "saved"
    /\ writer[rows[i].by].at > writer[rows[j].by].at
    => j < i

(* A relay holds rows that are committed, unpublished and nobody else's,   *)
(* and has sent those it has marked.                                       *)
Holding ==
  /\ \A p \in Relays :
       /\ claimed[p] \subseteq Committed \ published
       /\ sent[p] \subseteq claimed[p]
       /\ sent[p] \subseteq Sent
  /\ \A p, q \in Relays : p # q => claimed[p] \cap claimed[q] = {}

(* Row i must reach Kafka before row j. *)
Precedes(i, j) ==
  /\ i < j /\ rows[i].order = rows[j].order
  /\ writer[rows[i].by].stage = "saved" /\ writer[rows[j].by].stage = "saved"

(* As long as the relays have taken turns, whoever holds a row holds the   *)
(* rows that must precede it, unless they are published; and Kafka has     *)
(* those that precede what it has.                                         *)
TakingTurns ==
  /\ \A p, q \in Relays : p # q => claimed[p] = {} \/ claimed[q] = {}
  /\ \A p \in Relays : \A j \in claimed[p] : \A i \in DOMAIN rows :
       Precedes(i, j) => i \in claimed[p] \cup published
  /\ \A m \in DOMAIN topic : \A i \in DOMAIN rows :
       Precedes(i, topic[m]) => \E k \in 1..(m - 1) : topic[k] = i

SeenOnce == \A i \in Sent : FirstSeen(i) # {}

RelayInv ==
  /\ TypeOK
  /\ RowsOwned
  /\ RowsInTurn
  /\ Holding
  /\ PublishedSentCommitted
  /\ SeenOnce
  /\ overlap \/ TakingTurns


----------------------------------------------------------------------------
(* The state of a transaction, and what Append does. *)

BegunState == [stage : {"open", "saved", "unsaved", "aborted"}, order : Orders, at : Nat]

(* A transaction that has begun has an order and a version. *)
LEMMA WriterCases ==
  ASSUME TypeOK, NEW w \in Writers
  PROVE  /\ Begun(w) => writer[w] \in BegunState
         /\ ~Begun(w) => writer[w] = Idle
<1>1. writer[w] \in {Idle} \cup BegunState
  BY DEF TypeOK, WriterState, BegunState
<1>2. Idle.stage = "idle"
  BY DEF Idle
<1>3. \A r \in BegunState : r.stage # "idle"
  BY DEF BegunState
<1> QED BY <1>1, <1>2, <1>3 DEF Begun

(* A sequence as a function. *)
LEMMA SeqFacts ==
  ASSUME NEW S, NEW s \in Seq(S)
  PROVE  /\ DOMAIN s = 1..Len(s) /\ Len(s) \in Nat
         /\ \A i \in DOMAIN s : s[i] \in S /\ i \in Nat
  OBVIOUS

(* Append keeps what a sequence holds and adds one element at its end. *)
LEMMA AppendFacts ==
  ASSUME NEW S, NEW s \in Seq(S), NEW e \in S
  PROVE  /\ Append(s, e) \in Seq(S)
         /\ DOMAIN s = 1..Len(s) /\ Len(s) \in Nat
         /\ DOMAIN Append(s, e) = 1..(Len(s) + 1) /\ Len(Append(s, e)) = Len(s) + 1
         /\ \A i \in DOMAIN s : Append(s, e)[i] = s[i]
         /\ Append(s, e)[Len(s) + 1] = e
  OBVIOUS

(* What a row tells of its transaction. *)
LEMMA RowFacts ==
  ASSUME TypeOK, RowsOwned, NEW i \in DOMAIN rows
  PROVE  /\ i \in 1..Len(rows) /\ i \in Nat
         /\ rows[i].by \in Writers /\ rows[i].order \in Orders
         /\ writer[rows[i].by] \in BegunState
         /\ writer[rows[i].by].order = rows[i].order
         /\ rows[i] \in [by : Writers, order : Orders]
<1>1. rows \in Seq([by : Writers, order : Orders])
  BY DEF TypeOK
<1>2. rows[i] \in [by : Writers, order : Orders] /\ i \in 1..Len(rows) /\ i \in Nat
  BY <1>1, SeqFacts
<1> QED BY <1>2, WriterCases DEF RowsOwned

----------------------------------------------------------------------------
(* The writers. *)

(* A step of transaction w leaves every row and every other transaction    *)
(* alone, and may add one row of its own; it was not committed before, and *)
(* is saved only if it saw the stored version.                             *)
LEMMA WriteShape ==
  ASSUME TypeOK, RowsOwned, NEW w \in Writers, Write(w)
  PROVE  /\ UNCHANGED relayVars
         /\ rows' \in Seq([by : Writers, order : Orders])
         /\ DOMAIN rows \subseteq DOMAIN rows'
         /\ DOMAIN rows = 1..Len(rows) /\ Len(rows) \in Nat
         /\ \A i \in DOMAIN rows : rows'[i] = rows[i]
         /\ \A i \in DOMAIN rows' \ DOMAIN rows :
              /\ i = Len(rows) + 1 /\ rows'[i] = [by |-> w, order |-> writer[w].order]
              /\ writer' = writer /\ writer[w].stage = "open"
         /\ \A v \in Writers \ {w} : writer'[v] = writer[v]
         /\ writer[w].stage \in {"idle", "open"}
         /\ writer'[w].stage \notin {"idle"}
         /\ writer[w].stage = "open" =>
              writer'[w].order = writer[w].order /\ writer'[w].at = writer[w].at
         /\ writer'[w].stage = "saved" =>
              /\ writer[w].stage = "open"
              /\ writer[w].at = version[writer[w].order]
         /\ writer' \in [Writers -> WriterState]
         /\ version' \in [Orders -> Nat]
<1> USE DEF TypeOK
<1>0. rows \in Seq([by : Writers, order : Orders]) /\ DOMAIN rows = 1..Len(rows) /\ Len(rows) \in Nat
  OBVIOUS
<1>1. ASSUME NEW o \in Orders, Begin(w, o)
      PROVE  /\ writer[w].stage = "idle" /\ writer'[w].stage = "open"
             /\ rows' = rows /\ version' = version /\ UNCHANGED relayVars
             /\ writer' \in [Writers -> WriterState]
             /\ \A v \in Writers \ {w} : writer'[v] = writer[v]
  <2> DEFINE new == [stage |-> "open", order |-> o, at |-> version[o]]
  <2>1. new \in WriterState /\ new.stage = "open"
    BY DEF WriterState
  <2> HIDE DEF new
  <2>2. writer' = [writer EXCEPT ![w] = new]
    BY <1>1 DEF Begin, new
  <2>3. writer' \in [Writers -> WriterState] /\ writer'[w] = new
        /\ \A v \in Writers \ {w} : writer'[v] = writer[v]
    BY <2>1, <2>2
  <2>4. writer[w].stage = "idle" /\ rows' = rows /\ version' = version /\ UNCHANGED relayVars
    BY <1>1 DEF Begin, Idle
  <2> QED BY <2>1, <2>3, <2>4
<1>2. CASE writer[w].stage = "open"
  <2>1. writer[w] \in BegunState
    BY <1>2, WriterCases DEF Begun
  <2>2. ASSUME NEW t \in {"saved", "unsaved", "aborted"},
               writer' = [writer EXCEPT ![w].stage = t]
        PROVE  /\ writer'[w] = [writer[w] EXCEPT !.stage = t]
               /\ writer'[w].stage = t /\ writer'[w].order = writer[w].order
               /\ writer'[w].at = writer[w].at
               /\ writer' \in [Writers -> WriterState]
               /\ \A v \in Writers \ {w} : writer'[v] = writer[v]
    <3>1. writer'[w] = [writer[w] EXCEPT !.stage = t]
      BY <2>2
    <3>2. writer'[w] \in BegunState /\ writer'[w].stage = t
          /\ writer'[w].order = writer[w].order /\ writer'[w].at = writer[w].at
      BY <3>1, <2>1 DEF BegunState
    <3> QED BY <3>1, <3>2, <2>2 DEF WriterState, BegunState
  <2>3. CASE Enqueue(w)
    <3>1. [by |-> w, order |-> writer[w].order] \in [by : Writers, order : Orders]
      BY <2>1 DEF BegunState
    <3> DEFINE e == [by |-> w, order |-> writer[w].order]
    <3> HIDE DEF e
    <3>2. rows' = Append(rows, e)
      BY <2>3 DEF Enqueue, e
    <3>3. /\ rows' \in Seq([by : Writers, order : Orders])
          /\ DOMAIN rows' = 1..(Len(rows) + 1)
          /\ \A i \in DOMAIN rows : rows'[i] = rows[i]
          /\ rows'[Len(rows) + 1] = e
      BY <3>1, <3>2, AppendFacts DEF e
    <3>4. UNCHANGED <<writer, version, relayVars>>
      BY <2>3 DEF Enqueue
    <3> QED BY <1>0, <1>2, <3>3, <3>4 DEF e
  <2>4. CASE CommitSaved(w)
    <3>1. version' \in [Orders -> Nat]
      BY <2>4, <2>1 DEF CommitSaved, BegunState
    <3> QED BY <2>4, <2>2, <1>0, <1>2, <3>1 DEF CommitSaved
  <2>5. CASE CommitUnsaved(w)
    BY <2>5, <2>2, <1>0, <1>2 DEF CommitUnsaved
  <2>6. CASE RollbackWriter(w)
    BY <2>6, <2>2, <1>0, <1>2 DEF RollbackWriter
  <2>7. \A o \in Orders : ~Begin(w, o)
    BY <1>2, <1>1
  <2> QED BY <2>3, <2>4, <2>5, <2>6, <2>7 DEF Write
<1>3. CASE writer[w].stage # "open"
  <2>1. PICK o \in Orders : Begin(w, o)
    BY <1>3 DEF Write, Enqueue, CommitSaved, CommitUnsaved, RollbackWriter
  <2>2. /\ writer[w].stage = "idle" /\ writer'[w].stage = "open"
        /\ rows' = rows /\ version' = version /\ UNCHANGED relayVars
        /\ writer' \in [Writers -> WriterState]
        /\ \A v \in Writers \ {w} : writer'[v] = writer[v]
    BY <2>1, <1>1
  <2> QED BY <2>2, <1>0
<1> QED BY <1>2, <1>3

(* A transaction's step keeps the rows owned and in turn: it inserts while *)
(* it is open, after every saved transaction it began after, and the       *)
(* version guard lets nobody save who saw an older version.                *)
LEMMA WriteKeepsRows ==
  ASSUME TypeOK, RowsOwned, RowsInTurn, NEW w \in Writers, Write(w)
  PROVE  RowsOwned' /\ RowsInTurn'
<1> USE WriteShape
<1>1. \A v \in Writers : Begun(v) => writer[v] \in BegunState
  BY WriterCases
<1>2. \A i \in DOMAIN rows : writer[rows[i].by] \in BegunState /\ rows[i].by \in Writers
         /\ writer[rows[i].by].order = rows[i].order /\ i \in Nat
  BY RowFacts
<1>3. writer[w].stage = "open" => writer[w] \in BegunState
  BY <1>1 DEF Begun
<1>4. \A o \in Orders : version'[o] \in Nat /\ version[o] \in Nat /\ version[o] <= version'[o]
  <2>1. CASE CommitSaved(w)
    <3>1. writer[w] \in BegunState
      BY <2>1, <1>3 DEF CommitSaved
    <3> QED BY <2>1, <3>1 DEF CommitSaved, TypeOK, BegunState
  <2>2. CASE ~CommitSaved(w)
    <3>1. version' = version
      BY <2>2 DEF Write, Begin, Enqueue, CommitUnsaved, RollbackWriter
    <3> QED BY <3>1 DEF TypeOK
  <2> QED BY <2>1, <2>2
<1>5. \A v \in Writers \ {w} : Begun(v)' <=> Begun(v)
  BY DEF Begun
<1>6. Begun(w)'
  BY DEF Begun
<1>7. ASSUME NEW v \in Writers, Begun(v)'
      PROVE  /\ writer'[v].at <= version'[writer'[v].order]
             /\ writer'[v].stage = "saved" => writer'[v].at < version'[writer'[v].order]
  <2>1. CASE v # w
    <3>1. Begun(v) /\ writer'[v] = writer[v] /\ writer[v] \in BegunState
      BY <2>1, <1>1, <1>5, <1>7
    <3>2. writer[v].at \in Nat /\ writer[v].order \in Orders
      BY <3>1 DEF BegunState
    <3> QED BY <3>1, <3>2, <1>4 DEF RowsOwned
  <2>2. CASE v = w /\ writer[w].stage = "open"
    <3>1. writer[w] \in BegunState /\ Begun(w)
      BY <2>2, <1>3 DEF Begun
    <3>2. writer[w].at \in Nat /\ writer[w].order \in Orders /\ writer[w].at <= version[writer[w].order]
      BY <3>1 DEF BegunState, RowsOwned
    <3>3. writer'[w].order = writer[w].order /\ writer'[w].at = writer[w].at
      BY <2>2
    <3>4. CASE writer'[w].stage = "saved"
      <4>1. CommitSaved(w)
        BY <3>4, <2>2, <3>1 DEF Write, Begin, Enqueue, CommitUnsaved, RollbackWriter, Idle, TypeOK, BegunState
      <4>2. version'[writer[w].order] = version[writer[w].order] + 1
        BY <4>1, <3>2 DEF CommitSaved, TypeOK
      <4> QED BY <2>2, <3>2, <3>3, <4>2, <1>4
    <3> QED BY <2>2, <3>2, <3>3, <3>4, <1>4
  <2>3. CASE v = w /\ writer[w].stage # "open"
    <3>1. PICK o \in Orders : Begin(w, o)
      BY <2>3 DEF Write, Enqueue, CommitSaved, CommitUnsaved, RollbackWriter
    <3>2. writer'[w] = [stage |-> "open", order |-> o, at |-> version[o]] /\ version' = version
      BY <3>1 DEF Begin, TypeOK
    <3> QED BY <2>3, <3>2, <1>4
  <2> QED BY <2>1, <2>2, <2>3
<1>8. \A i \in DOMAIN rows : rows'[i] = rows[i] /\ Begun(rows[i].by)
        /\ (rows[i].by = w => writer[w].stage = "open" /\ writer[w] \in BegunState)
  BY <1>2, <1>3 DEF RowsOwned, Begun
<1>9. \A i \in DOMAIN rows : writer'[rows[i].by].order = writer[rows[i].by].order
        /\ writer'[rows[i].by].at = writer[rows[i].by].at
  BY <1>2, <1>8
<1>10. RowsOwned'
  <2>1. ASSUME NEW i \in DOMAIN rows'
        PROVE  writer'[rows'[i].by].stage # "idle" /\ writer'[rows'[i].by].order = rows'[i].order
    <3>1. CASE i \in DOMAIN rows
      BY <3>1, <1>2, <1>5, <1>6, <1>8, <1>9 DEF Begun
    <3>2. CASE i \notin DOMAIN rows
      <4>1. rows'[i] = [by |-> w, order |-> writer[w].order] /\ writer' = writer
        BY <3>2
      <4> QED BY <4>1, <1>6 DEF Begun
    <3> QED BY <3>1, <3>2
  <2> QED BY <2>1, <1>7 DEF RowsOwned, Begun
<1>11. RowsInTurn'
  <2> SUFFICES ASSUME NEW i \in DOMAIN rows', NEW j \in DOMAIN rows',
                      rows'[i].order = rows'[j].order,
                      writer'[rows'[j].by].stage = "saved",
                      writer'[rows'[i].by].at > writer'[rows'[j].by].at
               PROVE  j < i
    BY DEF RowsInTurn
  <2>1. j \in DOMAIN rows
    <3>1. CASE j \notin DOMAIN rows
      <4>1. rows'[j].by = w /\ writer' = writer /\ writer[w].stage = "open"
        BY <3>1
      <4> QED BY <4>1
    <3> QED BY <3>1
  <2>2. CASE i \notin DOMAIN rows
    BY <2>1, <2>2
  <2>3. CASE i \in DOMAIN rows /\ rows[j].by # w
    <3>1. writer'[rows[j].by] = writer[rows[j].by]
      BY <2>1, <2>3, <1>2
    <3> QED BY <2>1, <2>3, <3>1, <1>8, <1>9 DEF RowsInTurn
  <2>4. CASE i \in DOMAIN rows /\ rows[j].by = w
    <3>1. rows[j].by = w /\ writer[w].at = version[writer[w].order] /\ writer[w].order = rows[j].order
      BY <2>1, <2>4, <1>2, <1>8
    <3>2. writer[rows[i].by].at <= version[rows[i].order]
      BY <2>4, <1>2, <1>8 DEF RowsOwned
    <3>3. writer[rows[i].by].at > version[rows[i].order]
      BY <2>1, <2>4, <3>1, <1>8, <1>9
    <3>4. writer[rows[i].by].at \in Nat /\ version[rows[i].order] \in Nat
      BY <2>4, <1>2, <1>4 DEF BegunState
    <3> QED BY <3>2, <3>3, <3>4
  <2> QED BY <2>2, <2>3, <2>4
<1> QED BY <1>10, <1>11

(* A committed row stays what it is, and no row that must precede it       *)
(* appears later.                                                          *)
LEMMA WriteKeepsCommitted ==
  ASSUME TypeOK, RowsOwned, RowsInTurn, NEW w \in Writers, Write(w), NEW j \in Committed
  PROVE  /\ j \in DOMAIN rows /\ j \in Committed'
         /\ \A i \in DOMAIN rows' : Precedes(i, j)' => i \in DOMAIN rows /\ Precedes(i, j)
<1> USE WriteShape
<1>1. j \in DOMAIN rows /\ rows'[j] = rows[j] /\ rows[j].by # w /\ rows[j].by \in Writers
  BY RowFacts DEF Committed
<1>2. writer'[rows[j].by] = writer[rows[j].by]
  BY <1>1
<1>3. j \in Committed'
  BY <1>1, <1>2 DEF Committed
<1>4. ASSUME NEW i \in DOMAIN rows', Precedes(i, j)'
      PROVE  i \in DOMAIN rows /\ Precedes(i, j)
  <2>1. /\ i < j /\ rows'[i].order = rows'[j].order
        /\ writer'[rows'[i].by].stage = "saved" /\ writer'[rows'[j].by].stage = "saved"
    BY <1>4 DEF Precedes
  <2>2. i \in DOMAIN rows
    BY <2>1, <1>1
  <2>3. /\ rows'[i] = rows[i] /\ rows[i].by \in Writers /\ writer[rows[i].by] \in BegunState
        /\ writer[rows[i].by].order = rows[i].order /\ i \in Nat
    BY <2>2, RowFacts
  <2>4. CASE rows[i].by # w
    <3>1. writer'[rows[i].by] = writer[rows[i].by]
      BY <2>3, <2>4
    <3> QED BY <1>1, <1>2, <2>1, <2>2, <2>3, <3>1 DEF Precedes
  <2>5. CASE rows[i].by = w
    <3>1. writer[w].at = version[rows[i].order]
      BY <2>1, <2>3, <2>5
    <3>2. /\ writer[rows[j].by].at < version[rows[j].order] /\ writer[rows[j].by] \in BegunState
          /\ version[rows[j].order] \in Nat /\ j \in Nat
      <4>1. /\ writer[rows[j].by] \in BegunState /\ writer[rows[j].by].order = rows[j].order
            /\ rows[j].order \in Orders /\ j \in Nat
        BY <1>1, RowFacts
      <4>2. Begun(rows[j].by) /\ writer[rows[j].by].stage = "saved"
        BY <1>1, <1>2, <2>1 DEF RowsOwned
      <4>3. version[rows[j].order] \in Nat
        BY <4>1 DEF TypeOK
      <4> QED BY <1>1, <4>1, <4>2, <4>3 DEF RowsOwned
    <3>3. writer[rows[i].by].at > writer[rows[j].by].at
      BY <1>1, <2>1, <2>3, <2>5, <3>1, <3>2 DEF BegunState
    <3>4. j < i
      BY <1>1, <1>2, <2>1, <2>2, <2>3, <3>3 DEF RowsInTurn
    <3> QED BY <2>1, <2>3, <3>2, <3>4
  <2> QED BY <2>4, <2>5
<1> QED BY <1>1, <1>3, <1>4

LEMMA WriteStep ==
  ASSUME RelayInv, NEW w \in Writers, Write(w)
  PROVE  RelayInv'
<1> USE DEF RelayInv
<1>1. UNCHANGED relayVars
  BY WriteShape
<1>2. Committed \subseteq DOMAIN rows /\ Committed \subseteq Committed' /\ DOMAIN rows \subseteq DOMAIN rows'
  BY WriteKeepsCommitted, WriteShape
<1>3. Sent' = Sent /\ Sent \subseteq Committed
  BY <1>1 DEF Sent, relayVars, PublishedSentCommitted
<1>4. TypeOK'
  <2>1. topic' \in Seq(DOMAIN rows')
    BY <1>1, <1>2 DEF TypeOK, relayVars
  <2> QED BY <1>1, <1>2, <2>1, WriteShape DEF TypeOK, relayVars
<1>5. RowsOwned' /\ RowsInTurn'
  BY WriteKeepsRows
<1>6. Holding'
  BY <1>1, <1>2, <1>3 DEF Holding, relayVars
<1>7. PublishedSentCommitted'
  BY <1>1, <1>2, <1>3 DEF PublishedSentCommitted, relayVars
<1>8. SeenOnce'
  BY <1>1, <1>3 DEF SeenOnce, relayVars, FirstSeen
<1>9. ASSUME TakingTurns PROVE TakingTurns'
  <2>1. \A p, q \in Relays : p # q => claimed'[p] = {} \/ claimed'[q] = {}
    BY <1>1, <1>9 DEF TakingTurns, relayVars
  <2>2. ASSUME NEW p \in Relays, NEW j \in claimed'[p], NEW i \in DOMAIN rows', Precedes(i, j)'
        PROVE  i \in claimed'[p] \cup published'
    <3>1. j \in claimed[p] /\ j \in Committed
      BY <2>2, <1>1 DEF relayVars, Holding
    <3>2. i \in DOMAIN rows /\ Precedes(i, j)
      BY <2>2, <3>1, WriteKeepsCommitted
    <3> QED BY <1>1, <1>9, <3>1, <3>2 DEF TakingTurns, relayVars
  <2>3. ASSUME NEW m \in DOMAIN topic', NEW i \in DOMAIN rows', Precedes(i, topic[m])'
        PROVE  \E k \in 1..(m - 1) : topic'[k] = i
    <3>1. topic[m] \in Committed /\ m \in DOMAIN topic
      BY <2>3, <1>1, <1>3 DEF Sent, relayVars
    <3>2. topic' = topic
      BY <1>1 DEF relayVars
    <3>3. i \in DOMAIN rows /\ Precedes(i, topic[m])
      <4>1. PICK j \in Committed : j = topic[m]
        BY <3>1
      <4>2. Precedes(i, j)'
        BY <2>3, <3>2, <4>1 DEF Precedes
      <4> QED BY <4>1, <4>2, <2>3, WriteKeepsCommitted
    <3> QED BY <1>9, <3>1, <3>2, <3>3 DEF TakingTurns
  <2> QED BY <1>1, <2>1, <2>2, <2>3 DEF TakingTurns, relayVars
<1> QED BY <1>1, <1>4, <1>5, <1>6, <1>7, <1>8, <1>9 DEF relayVars

----------------------------------------------------------------------------
(* The relays. *)

(* A step that leaves the tables alone leaves what is committed, and what  *)
(* must precede what, alone.                                               *)
LEMMA TablesKept ==
  ASSUME UNCHANGED writerVars
  PROVE  /\ writer' = writer /\ version' = version /\ rows' = rows
         /\ Committed' = Committed
         /\ RowsOwned => RowsOwned'
         /\ RowsInTurn => RowsInTurn'
         /\ \A i, j : Precedes(i, j)' <=> Precedes(i, j)
<1>1. writer' = writer /\ version' = version /\ rows' = rows
  BY DEF writerVars
<1> QED BY <1>1 DEF Committed, RowsOwned, RowsInTurn, Precedes, Begun

(* A claim that takes a row takes the claimable rows before it. *)
LEMMA OldestFirst ==
  ASSUME NEW n \in Nat, NEW S \in SUBSET (1..n), NEW j \in FirstRows(S), NEW i \in S, i < j
  PROVE  i \in FirstRows(S)
<1> DEFINE Below(k) == {l \in S : l < k}
<1>1. IsFiniteSet(Below(j))
  <2>1. IsFiniteSet(1..n)
    BY FS_Interval
  <2> QED BY <2>1, FS_Subset
<1>2. Below(i) \subseteq Below(j)
  <2>1. j \in Int /\ i \in Int /\ \A l \in S : l \in Int
    BY DEF FirstRows
  <2>2. \A l \in S : l < i => l < j
    BY <2>1
  <2> QED BY <2>2
<1>3. Cardinality(Below(i)) <= Cardinality(Below(j)) /\ Cardinality(Below(j)) \in Nat
      /\ Cardinality(Below(i)) \in Nat
  <2>1. IsFiniteSet(Below(i)) /\ Cardinality(Below(i)) <= Cardinality(Below(j))
    BY <1>1, <1>2, FS_Subset
  <2> QED BY <1>1, <2>1, FS_CardinalityType
<1>4. Cardinality(Below(j)) < BatchSize
  BY DEF FirstRows
<1> HIDE DEF Below
<1>5. Cardinality(Below(i)) < BatchSize
  BY <1>3, <1>4, BatchSizeAssumption
<1> QED BY <1>5 DEF FirstRows, Below

(* Every set of row ids that is not empty has a greatest. *)
LEMMA GreatestId ==
  ASSUME NEW n \in Nat, NEW S \in SUBSET (1..n), S # {}
  PROVE  \E m \in S : \A i \in S : i <= m
<1> DEFINE R == {ss \in Nat \X Nat : ss[1] < ss[2]}
           gaps == {n - i : i \in S}
<1>1. IsWellFoundedOn(R, Nat)
  BY NatLessThanWellFounded DEF OpToRel
<1>2. gaps \in SUBSET Nat /\ gaps # {}
  <2>1. \A i \in 1..n : n - i \in Nat
    OBVIOUS
  <2>2. \A i \in S : n - i \in Nat /\ n - i \in gaps
    BY <2>1
  <2> QED BY <2>2
<1>3. \A g, h \in Nat : g < h => <<g, h>> \in R
  OBVIOUS
<1>4. PICK h \in gaps : \A g \in gaps : ~(<<g, h>> \in R)
  <2> HIDE DEF gaps, R
  <2> QED BY <1>1, <1>2, WFMin
<1>5. PICK m \in S : h = n - m
  BY <1>4
<1>6. ASSUME NEW i \in S PROVE i <= m
  <2>1. n - i \in gaps /\ n - i \in Nat /\ h \in Nat
    BY <1>2, <1>4
  <2>2. ~(n - i < h)
    <3> HIDE DEF gaps, R
    <3> QED BY <2>1, <1>3, <1>4
  <2> QED BY <2>2, <1>5
<1> QED BY <1>6

(* A claim takes at most BatchSize rows: the greatest has fewer than       *)
(* BatchSize rows below it, and all the others are below it.               *)
LEMMA BatchBounded ==
  ASSUME NEW n \in Nat, NEW S \in SUBSET (1..n)
  PROVE  Cardinality(FirstRows(S)) <= BatchSize
<1> DEFINE batch == FirstRows(S)
<1>1. batch \in SUBSET S /\ batch \in SUBSET (1..n)
  BY DEF FirstRows
<1>2. IsFiniteSet(1..n)
  BY FS_Interval
<1>3. CASE batch = {}
  BY <1>3, FS_EmptySet, BatchSizeAssumption
<1>4. CASE batch # {}
  <2>1. PICK m \in batch : \A i \in batch : i <= m
    <3> HIDE DEF batch
    <3> QED BY <1>1, <1>4, GreatestId
  <2> DEFINE below == {j \in S : j < m}
             others == batch \ {m}
  <2>2. Cardinality(below) < BatchSize
    BY DEF FirstRows
  <2>3. others \in SUBSET below /\ below \in SUBSET (1..n) /\ m \in batch
    <3>1. \A i \in others : i \in S /\ i <= m /\ i # m /\ i \in 1..n /\ m \in 1..n
      BY <1>1, <2>1
    <3>2. \A i \in others : i \in S /\ i < m
      BY <3>1
    <3> QED BY <2>1, <3>2
  <2> HIDE DEF batch, below
  <2>4. IsFiniteSet(batch) /\ Cardinality(batch) \in Nat
    BY <1>1, <1>2, FS_Subset, FS_CardinalityType
  <2>5. IsFiniteSet(below) /\ Cardinality(below) \in Nat
    BY <1>2, <2>3, FS_Subset, FS_CardinalityType
  <2>6. Cardinality(others) = Cardinality(batch) - 1
    BY <2>3, <2>4, FS_RemoveElement
  <2>7. Cardinality(others) <= Cardinality(below)
    <3> HIDE DEF others
    <3> QED BY <2>3, <2>5, FS_Subset
  <2> QED BY <2>2, <2>4, <2>5, <2>6, <2>7, BatchSizeAssumption DEF batch
<1> QED BY <1>3, <1>4

LEMMA ClaimStep ==
  ASSUME RelayInv, NEW p \in Relays, Claim(p)
  PROVE  RelayInv'
<1> USE DEF RelayInv
<1> DEFINE batch == FirstRows(Claimable)
<1>1. batch \subseteq Claimable /\ Claimable \subseteq Committed \ published
      /\ Claimable \subseteq DOMAIN rows /\ \A q \in Relays : Claimable \cap claimed[q] = {}
  BY DEF FirstRows, Claimable, Committed, Locked
<1>2. /\ claimed' = [claimed EXCEPT ![p] = batch] /\ claimed[p] = {}
      /\ overlap' = (overlap \/ Locked # {})
      /\ UNCHANGED <<writerVars, published, sent, topic, faults>>
  BY DEF Claim
<1> HIDE DEF batch
<1>3. /\ claimed'[p] = batch /\ \A q \in Relays \ {p} : claimed'[q] = claimed[q]
      /\ claimed' \in [Relays -> SUBSET DOMAIN rows]
  BY <1>1, <1>2 DEF TypeOK
<1>4. TypeOK'
  <2>1. Claimable \in SUBSET (1..Len(rows)) /\ Len(rows) \in Nat
    BY <1>1 DEF TypeOK
  <2>2. Cardinality(batch) <= BatchSize
    BY <2>1, BatchBounded DEF batch
  <2>3. \A q \in Relays : Cardinality(claimed'[q]) <= BatchSize
    BY <1>3, <2>2 DEF TypeOK
  <2> QED BY <1>2, <1>3, <2>3, TablesKept DEF TypeOK
<1>5. Committed' = Committed /\ Sent' = Sent /\ sent' = sent /\ topic' = topic /\ rows' = rows
      /\ published' = published
  BY <1>2, TablesKept DEF Sent
<1>6. Holding'
  <2>1. sent[p] = {}
    BY <1>2 DEF Holding
  <2>2. ASSUME NEW q \in Relays
        PROVE  /\ claimed'[q] \subseteq Committed \ published
               /\ sent[q] \subseteq claimed'[q] /\ sent[q] \subseteq Sent
    BY <1>1, <1>3, <2>1 DEF Holding
  <2>3. ASSUME NEW q \in Relays, NEW r \in Relays, q # r
        PROVE  claimed'[q] \cap claimed'[r] = {}
    BY <2>3, <1>1, <1>3 DEF Holding
  <2> QED BY <1>5, <2>2, <2>3 DEF Holding
<1>7. PublishedSentCommitted' /\ SeenOnce'
  BY <1>5 DEF PublishedSentCommitted, SeenOnce, FirstSeen
<1>8. ASSUME ~overlap' PROVE TakingTurns'
  <2>1. TakingTurns /\ \A q \in Relays : claimed[q] = {}
    BY <1>2, <1>8 DEF Locked
  <2>2. ASSUME NEW q \in Relays, NEW j \in claimed'[q], NEW i \in DOMAIN rows, Precedes(i, j)
        PROVE  i \in claimed'[q] \cup published
    <3>1. q = p /\ j \in batch
      BY <2>1, <2>2, <1>3
    <3>2. i \in Committed
      BY <2>2 DEF Precedes, Committed
    <3>3. CASE i \notin published
      <4>1. i \in Claimable
        BY <2>1, <3>2, <3>3 DEF Claimable, Locked
      <4>2. Claimable \in SUBSET (1..Len(rows)) /\ Len(rows) \in Nat
        BY <1>1 DEF TypeOK
      <4>3. i \in batch
        BY <2>2, <3>1, <4>1, <4>2, OldestFirst DEF batch, Precedes
      <4> QED BY <3>1, <4>3, <1>3
    <3> QED BY <3>3
  <2>3. \A q, r \in Relays : q # r => claimed'[q] = {} \/ claimed'[r] = {}
    BY <2>1, <1>3
  <2>4. \A i, j : Precedes(i, j)' <=> Precedes(i, j)
    BY <1>2, TablesKept
  <2>5. \A m \in DOMAIN topic : \A i \in DOMAIN rows :
          Precedes(i, topic[m]) => \E k \in 1..(m - 1) : topic[k] = i
    BY <2>1 DEF TakingTurns
  <2> QED BY <1>5, <2>2, <2>3, <2>4, <2>5 DEF TakingTurns, Precedes
<1>9. RowsOwned' /\ RowsInTurn'
  BY <1>2, TablesKept
<1> QED BY <1>4, <1>6, <1>7, <1>8, <1>9

(* Kafka gets the oldest row in hand that is not yet sent: the rows it     *)
(* held stay where they are, and what must precede the new one is there.   *)
LEMMA Arrival ==
  ASSUME RelayInv, NEW p \in Relays, NEW i \in claimed[p], IsNextRow(p, i),
         topic' = Append(topic, i), UNCHANGED writerVars
  PROVE  /\ topic' \in Seq(DOMAIN rows')
         /\ Sent' = Sent \cup {i}
         /\ SeenOnce'
         /\ TakingTurns =>
              \A m \in DOMAIN topic' : \A l \in DOMAIN rows' :
                Precedes(l, topic[m])' => \E k \in 1..(m - 1) : topic'[k] = l
<1> USE DEF RelayInv
<1>1. i \in DOMAIN rows /\ topic \in Seq(DOMAIN rows)
  BY DEF TypeOK
<1> DEFINE n == Len(topic)
<1>2. /\ topic' \in Seq(DOMAIN rows) /\ n \in Nat
      /\ DOMAIN topic = 1..n /\ DOMAIN topic' = 1..(n + 1)
      /\ \A k \in 1..n : topic'[k] = topic[k]
      /\ topic'[n + 1] = i
  BY <1>1, AppendFacts
<1> HIDE DEF n
<1>3. rows' = rows /\ \A l, j : Precedes(l, j)' <=> Precedes(l, j)
  BY TablesKept
<1>4. Sent' = Sent \cup {i}
  <2>1. Sent = {topic[k] : k \in 1..n} /\ Sent' = {topic'[k] : k \in 1..(n + 1)}
    BY <1>2 DEF Sent
  <2>2. 1..(n + 1) = 1..n \cup {n + 1}
    BY <1>2
  <2> QED BY <1>2, <2>1, <2>2
<1>5. SeenOnce'
  <2> SUFFICES ASSUME NEW l \in Sent' PROVE FirstSeen(l)' # {}
    BY DEF SeenOnce
  <2>1. CASE l \in Sent
    <3>1. PICK k \in 1..n : topic[k] = l /\ \A m \in 1..(k - 1) : topic[m] # l
      BY <2>1, <1>2 DEF SeenOnce, FirstSeen
    <3>2. k \in 1..(n + 1) /\ topic'[k] = l /\ \A m \in 1..(k - 1) : topic'[m] # l
      BY <3>1, <1>2
    <3> QED BY <3>2, <1>2 DEF FirstSeen
  <2>2. CASE l \notin Sent
    <3>1. l = i /\ \A m \in 1..n : topic[m] # l
      BY <2>2, <1>2, <1>4 DEF Sent
    <3>2. n + 1 \in 1..(n + 1) /\ topic'[n + 1] = l /\ \A m \in 1..((n + 1) - 1) : topic'[m] # l
      BY <3>1, <1>2
    <3> QED BY <3>2, <1>2 DEF FirstSeen
  <2> QED BY <2>1, <2>2
<1>6. ASSUME TakingTurns, NEW m \in DOMAIN topic', NEW l \in DOMAIN rows', Precedes(l, topic[m])'
      PROVE  \E k \in 1..(m - 1) : topic'[k] = l
  <2>1. l \in DOMAIN rows /\ Precedes(l, topic'[m])
    BY <1>3, <1>6 DEF Precedes, writerVars
  <2>2. CASE m \in 1..n
    <3>1. \E k \in 1..(m - 1) : topic[k] = l
      BY <1>2, <1>6, <2>1, <2>2 DEF TakingTurns
    <3> QED BY <1>2, <2>2, <3>1
  <2>3. CASE m = n + 1
    <3>1. Precedes(l, i)
      BY <1>2, <2>1, <2>3
    <3>2. l \in claimed[p] \cup published
      BY <1>6, <2>1, <3>1 DEF TakingTurns
    <3>3. l < i /\ l \in Nat /\ i \in Nat
      BY <1>1, <2>1, <3>1, RowFacts DEF Precedes
    <3>4. l \in Sent
      <4>1. CASE l \in published
        BY <4>1 DEF PublishedSentCommitted
      <4>2. CASE l \in claimed[p]
        <5>1. l \in sent[p]
          BY <3>3, <4>2 DEF IsNextRow
        <5> QED BY <5>1 DEF Holding
      <4> QED BY <3>2, <4>1, <4>2
    <3>5. PICK k \in 1..n : topic[k] = l
      BY <1>2, <3>4 DEF Sent
    <3> QED BY <1>2, <2>3, <3>5
  <2> QED BY <1>2, <1>6, <2>2, <2>3
<1> QED BY <1>2, <1>3, <1>4, <1>5, <1>6

LEMMA SendStep ==
  ASSUME RelayInv, NEW p \in Relays, Send(p)
  PROVE  RelayInv'
<1> USE DEF RelayInv
<1>1. PICK i \in claimed[p] :
        /\ IsNextRow(p, i) /\ topic' = Append(topic, i)
        /\ sent' = [sent EXCEPT ![p] = @ \cup {i}]
  BY DEF Send
<1>2. UNCHANGED <<writerVars, published, claimed, faults, overlap>>
  BY DEF Send
<1>3. /\ topic' \in Seq(DOMAIN rows') /\ Sent' = Sent \cup {i} /\ SeenOnce'
      /\ TakingTurns =>
           \A m \in DOMAIN topic' : \A l \in DOMAIN rows' :
             Precedes(l, topic[m])' => \E k \in 1..(m - 1) : topic'[k] = l
  BY <1>1, <1>2, Arrival
<1>4. /\ rows' = rows /\ writer' = writer /\ version' = version /\ Committed' = Committed
      /\ RowsOwned' /\ RowsInTurn' /\ \A l, j : Precedes(l, j)' <=> Precedes(l, j)
  BY <1>2, TablesKept
<1>5. /\ sent'[p] = sent[p] \cup {i} /\ \A q \in Relays \ {p} : sent'[q] = sent[q]
      /\ sent' \in [Relays -> SUBSET DOMAIN rows] /\ i \in Committed /\ i \in claimed[p]
  BY <1>1 DEF TypeOK, Holding
<1>6. TypeOK'
  BY <1>2, <1>3, <1>4, <1>5 DEF TypeOK
<1>7. Holding'
  <2>1. ASSUME NEW q \in Relays
        PROVE  sent'[q] \subseteq claimed[q] /\ sent'[q] \subseteq Sent'
    BY <1>3, <1>5 DEF Holding
  <2> QED BY <1>2, <1>4, <2>1 DEF Holding
<1>8. PublishedSentCommitted'
  BY <1>2, <1>3, <1>4, <1>5 DEF PublishedSentCommitted
<1>9. ASSUME TakingTurns PROVE TakingTurns'
  BY <1>2, <1>3, <1>4, <1>9 DEF TakingTurns
<1> QED BY <1>2, <1>3, <1>4, <1>6, <1>7, <1>8, <1>9

(* However a pass ends, it publishes no more than it has sent, and leaves  *)
(* nothing in hand.                                                        *)
LEMMA EndStep ==
  ASSUME RelayInv, NEW p \in Relays, EndPass(p), UNCHANGED <<writerVars, overlap>>,
         published \subseteq published', published' \subseteq published \cup sent[p],
         faults' \in Nat,
         \/ UNCHANGED topic
         \/ \E i \in claimed[p] : IsNextRow(p, i) /\ topic' = Append(topic, i)
  PROVE  RelayInv'
<1> USE DEF RelayInv
<1>1. /\ rows' = rows /\ writer' = writer /\ version' = version /\ Committed' = Committed
      /\ RowsOwned' /\ RowsInTurn' /\ \A l, j : Precedes(l, j)' <=> Precedes(l, j)
  BY TablesKept
<1>2. /\ claimed'[p] = {} /\ sent'[p] = {}
      /\ \A q \in Relays \ {p} : claimed'[q] = claimed[q] /\ sent'[q] = sent[q]
      /\ claimed' \in [Relays -> SUBSET DOMAIN rows] /\ sent' \in [Relays -> SUBSET DOMAIN rows]
  BY DEF EndPass, TypeOK
<1>3. /\ topic' \in Seq(DOMAIN rows') /\ Sent \subseteq Sent' /\ Sent' \subseteq Committed /\ SeenOnce'
      /\ TakingTurns =>
           \A m \in DOMAIN topic' : \A l \in DOMAIN rows' :
             Precedes(l, topic[m])' => \E k \in 1..(m - 1) : topic'[k] = l
  <2>1. CASE UNCHANGED topic
    <3>1. Sent' = Sent /\ topic' \in Seq(DOMAIN rows') /\ Sent \subseteq Committed
      BY <1>1, <2>1 DEF Sent, TypeOK, PublishedSentCommitted
    <3>2. SeenOnce'
      BY <2>1, <3>1 DEF SeenOnce, FirstSeen
    <3> QED BY <1>1, <2>1, <3>1, <3>2 DEF TakingTurns, Precedes
  <2>2. CASE \E i \in claimed[p] : IsNextRow(p, i) /\ topic' = Append(topic, i)
    <3>1. PICK i \in claimed[p] : IsNextRow(p, i) /\ topic' = Append(topic, i)
      BY <2>2
    <3>2. i \in Committed /\ Sent \subseteq Committed
      BY DEF Holding, PublishedSentCommitted
    <3>3. /\ topic' \in Seq(DOMAIN rows') /\ Sent' = Sent \cup {i} /\ SeenOnce'
          /\ TakingTurns =>
               \A m \in DOMAIN topic' : \A l \in DOMAIN rows' :
                 Precedes(l, topic[m])' => \E k \in 1..(m - 1) : topic'[k] = l
      BY <3>1, Arrival DEF writerVars
    <3> QED BY <3>2, <3>3
  <2> QED BY <2>1, <2>2
<1>4. TypeOK'
  <2>1. \A q \in Relays : Cardinality(claimed'[q]) <= BatchSize
    <3>1. Cardinality({}) <= BatchSize
      BY FS_EmptySet, BatchSizeAssumption
    <3>2. \A q \in Relays : Cardinality(claimed[q]) <= BatchSize
      BY DEF TypeOK
    <3>3. \A q \in Relays : q # p => claimed'[q] = claimed[q]
      BY <1>2
    <3> QED BY <1>2, <3>1, <3>2, <3>3
  <2> QED BY <1>1, <1>2, <1>3, <2>1 DEF TypeOK
<1>5. Holding'
  <2>1. ASSUME NEW q \in Relays
        PROVE  /\ claimed'[q] \subseteq Committed \ published'
               /\ sent'[q] \subseteq claimed'[q] /\ sent'[q] \subseteq Sent'
    <3>1. CASE q = p
      BY <3>1, <1>2
    <3>2. CASE q # p
      BY <3>2, <1>2, <1>3 DEF Holding
    <3> QED BY <3>1, <3>2
  <2>2. ASSUME NEW q \in Relays, NEW r \in Relays, q # r
        PROVE  claimed'[q] \cap claimed'[r] = {}
    BY <2>2, <1>2 DEF Holding
  <2> QED BY <1>1, <2>1, <2>2 DEF Holding
<1>6. PublishedSentCommitted'
  BY <1>1, <1>3 DEF PublishedSentCommitted, Holding
<1>7. ASSUME TakingTurns PROVE TakingTurns'
  <2>1. \A q, r \in Relays : q # r => claimed'[q] = {} \/ claimed'[r] = {}
    BY <1>2, <1>7 DEF TakingTurns
  <2>2. ASSUME NEW q \in Relays, NEW j \in claimed'[q], NEW i \in DOMAIN rows, Precedes(i, j)
        PROVE  i \in claimed'[q] \cup published'
    BY <2>2, <1>2, <1>7 DEF TakingTurns
  <2> QED BY <1>1, <1>3, <1>7, <2>1, <2>2 DEF TakingTurns
<1> QED BY <1>1, <1>3, <1>4, <1>5, <1>6, <1>7

----------------------------------------------------------------------------
(* The theorems. *)

LEMMA InitRelayInv == Init => RelayInv
<1> SUFFICES ASSUME Init PROVE RelayInv
  OBVIOUS
<1>1. rows = <<>> /\ topic = <<>> /\ DOMAIN rows = {} /\ DOMAIN topic = {}
  BY DEF Init
<1>2. TypeOK
  <2>1. writer \in [Writers -> WriterState]
    BY DEF Init, WriterState
  <2>2. rows \in Seq([by : Writers, order : Orders]) /\ topic \in Seq(DOMAIN rows)
    BY <1>1
  <2>3. /\ version \in [Orders -> Nat] /\ published \subseteq DOMAIN rows
        /\ claimed \in [Relays -> SUBSET DOMAIN rows] /\ sent \in [Relays -> SUBSET DOMAIN rows]
        /\ faults \in Nat /\ overlap \in BOOLEAN
    BY DEF Init
  <2>4. \A p \in Relays : Cardinality(claimed[p]) <= BatchSize
    BY FS_EmptySet, BatchSizeAssumption DEF Init
  <2> QED BY <2>1, <2>2, <2>3, <2>4 DEF TypeOK
<1>3. \A w \in Writers : writer[w].stage = "idle"
  BY DEF Init, Idle
<1>4. Sent = {}
  BY <1>1 DEF Sent
<1>5. RowsOwned /\ RowsInTurn
  BY <1>1, <1>3 DEF RowsOwned, RowsInTurn, Begun
<1>6. Holding /\ PublishedSentCommitted /\ SeenOnce
  BY <1>4 DEF Init, Holding, PublishedSentCommitted, SeenOnce
<1>7. TakingTurns
  BY <1>1 DEF Init, TakingTurns
<1> QED BY <1>2, <1>5, <1>6, <1>7 DEF RelayInv

LEMMA NextRelayInv == RelayInv /\ [Next]_vars => RelayInv'
<1> SUFFICES ASSUME RelayInv, [Next]_vars PROVE RelayInv'
  OBVIOUS
<1>1. CASE UNCHANGED vars
  <2>1. UNCHANGED writerVars /\ UNCHANGED relayVars
    BY <1>1 DEF vars
  <2>2. /\ rows' = rows /\ writer' = writer /\ version' = version /\ Committed' = Committed
        /\ published' = published /\ claimed' = claimed /\ sent' = sent /\ topic' = topic
        /\ faults' = faults /\ overlap' = overlap
    BY <2>1, TablesKept DEF relayVars
  <2>3. TypeOK' /\ RowsOwned' /\ RowsInTurn' /\ Holding'
    BY <2>1, <2>2, TablesKept DEF RelayInv, TypeOK, Holding, Sent
  <2>4. PublishedSentCommitted' /\ SeenOnce' /\ (overlap \/ TakingTurns)'
    BY <2>2 DEF RelayInv, PublishedSentCommitted, SeenOnce, FirstSeen, Sent, TakingTurns, Precedes
  <2> QED BY <2>3, <2>4 DEF RelayInv
<1>2. ASSUME NEW w \in Writers, Write(w) PROVE RelayInv'
  BY <1>2, WriteStep
<1>3. ASSUME NEW p \in Relays, Relay(p) PROVE RelayInv'
  <2>1. CASE Claim(p)
    BY <2>1, ClaimStep
  <2>2. CASE Send(p)
    BY <2>2, SendStep
  <2>3. faults \in Nat
    BY DEF RelayInv, TypeOK
  <2>4. CASE SendFails(p) \/ CommitPass(p)
    <3>1. EndPass(p) /\ UNCHANGED <<writerVars, overlap, faults, topic>>
          /\ published' = published \cup sent[p]
      BY <2>4 DEF SendFails, CommitPass
    <3> QED BY <2>3, <3>1, EndStep
  <2>5. CASE SendTimesOut(p)
    <3>1. /\ EndPass(p) /\ UNCHANGED <<writerVars, overlap>> /\ faults' \in Nat
          /\ published' = published \cup sent[p]
          /\ \E i \in claimed[p] : IsNextRow(p, i) /\ topic' = Append(topic, i)
      BY <2>3, <2>5 DEF SendTimesOut
    <3> QED BY <3>1, EndStep
  <2>6. CASE AbortPass(p)
    <3>1. EndPass(p) /\ UNCHANGED <<writerVars, overlap, published, topic>> /\ faults' \in Nat
      BY <2>3, <2>6 DEF AbortPass
    <3> QED BY <3>1, EndStep
  <2> QED BY <1>3, <2>1, <2>2, <2>4, <2>5, <2>6 DEF Relay
<1> QED BY <1>1, <1>2, <1>3 DEF Next

(* The inductive invariant of the outbox holds in every reachable state.   *)
THEOREM RelayInvariant == Spec => []RelayInv
  BY InitRelayInv, NextRelayInv, PTL DEF Spec

(* Every variable of the outbox and its relays keeps its type: no relay    *)
(* ever holds, sends or publishes an id that was not drawn, or locks more  *)
(* rows than its batch size.                                               *)
THEOREM TypeCorrect == Spec => []TypeOK
<1>1. RelayInv => TypeOK
  BY DEF RelayInv
<1> QED BY <1>1, RelayInvariant, PTL

(* published_at is only set on rows that Kafka has, and Kafka only has     *)
(* rows that were committed, whatever passes fail and relays die.          *)
THEOREM NothingInventedOrLost == Spec => []PublishedSentCommitted
<1>1. RelayInv => PublishedSentCommitted
  BY DEF RelayInv
<1> QED BY <1>1, RelayInvariant, PTL

(* No relay sends a row whose published_at is committed. *)
THEOREM NoResend == Spec => PublishedNotResent
<1>1. ASSUME RelayInv, [Next]_vars, topic' # topic
      PROVE  topic'[Len(topic')] \notin published
  <2>1. PICK p \in Relays : Send(p) \/ SendTimesOut(p)
    <3>1. \A w \in Writers : ~Write(w)
      BY <1>1 DEF Write, Begin, Enqueue, CommitSaved, CommitUnsaved, RollbackWriter, relayVars
    <3>2. ~UNCHANGED vars
      BY <1>1 DEF vars, relayVars
    <3>3. PICK p \in Relays : Relay(p)
      BY <1>1, <3>1, <3>2 DEF Next
    <3> QED BY <1>1, <3>3 DEF Relay, Claim, SendFails, CommitPass, AbortPass
  <2>2. PICK i \in claimed[p] : topic' = Append(topic, i)
    BY <2>1 DEF Send, SendTimesOut
  <2>3. i \notin published /\ i \in DOMAIN rows /\ topic \in Seq(DOMAIN rows)
    BY <1>1 DEF RelayInv, Holding, TypeOK
  <2>4. topic'[Len(topic')] = i
    BY <2>2, <2>3, AppendFacts
  <2> QED BY <2>3, <2>4
<1>2. RelayInv /\ [Next]_vars => [topic' # topic => topic'[Len(topic')] \notin published]_vars
  BY <1>1
<1> QED BY <1>2, RelayInvariant, PTL DEF Spec, PublishedNotResent

(* As long as no two relays have worked at the same time, Kafka first sees *)
(* the rows of an order in the order in which they were inserted.          *)
THEOREM TurnsKeepOrder == Spec => []OrderPreservedAlone
<1>1. ASSUME RelayInv, ~overlap,
             NEW i \in DOMAIN rows, NEW j \in DOMAIN rows, Precedes(i, j), NEW m \in FirstSeen(j)
      PROVE  \E k \in FirstSeen(i) : k < m
  <2>1. topic \in Seq(DOMAIN rows) /\ TakingTurns
    BY <1>1 DEF RelayInv, TypeOK
  <2>2. DOMAIN topic = 1..Len(topic) /\ Len(topic) \in Nat
    BY <2>1, SeqFacts
  <2>3. m \in 1..Len(topic) /\ topic[m] = j
    BY <2>2 DEF FirstSeen
  <2>4. PICK l \in 1..(m - 1) : topic[l] = i
    BY <1>1, <2>1, <2>2, <2>3 DEF TakingTurns
  <2>5. i \in Sent
    BY <2>2, <2>3, <2>4 DEF Sent
  <2>6. PICK k \in FirstSeen(i) : TRUE
    BY <1>1, <2>5 DEF RelayInv, SeenOnce
  <2>7. k \in 1..Len(topic) /\ \A h \in 1..(k - 1) : topic[h] # i
    BY <2>2, <2>6 DEF FirstSeen
  <2>8. k <= l
    BY <2>2, <2>3, <2>4, <2>7
  <2> QED BY <2>2, <2>3, <2>4, <2>6, <2>7, <2>8
<1>2. RelayInv => OrderPreservedAlone
  BY <1>1 DEF OrderPreservedAlone, OrderPreserved, Precedes, RelayInv, TypeOK
<1> QED BY <1>2, RelayInvariant, PTL

=============================================================================
