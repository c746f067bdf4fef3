------------------------ MODULE IdempotencyKeyProofs ------------------------
(***************************************************************************)
(* One order per Idempotency-Key, for any number of requests, keys, bodies *)
(* and connections.  KeyGuardsOrder is the inductive invariant.            *)
(***************************************************************************)
EXTENDS IdempotencyKey, TLAPS

(* The answers a client can tell apart: one order from another, an order   *)
(* from a rejection, and either from 422 and 500.                          *)
LEMMA AnswersDiffer ==
  /\ \A q, r \in Requests : Created(q) = Created(r) => q = r
  /\ \A r \in Requests : Created(r) # Rejected /\ Created(r) \in Response
  /\ Rejected \in Response
  /\ Mismatch \notin Response /\ Failure \notin Response /\ None \notin Response
  /\ None \notin Requests
<1>1. \A q, r \in Requests : Created(q) = Created(r) => q = r
  BY DEF Created
<1>2. \A r \in Requests : Created(r) # Rejected
  <2>1. TAKE r \in Requests
  <2>2. Created(r).kind = "created" /\ Rejected.kind = "rejected"
    BY DEF Created, Rejected
  <2> QED BY <2>2
<1>3. \A a \in Response : a.kind \in {"created", "rejected"}
  BY DEF Response, Created, Rejected
<1>4. Mismatch.kind = "mismatch" /\ Failure.kind = "failure"
  BY DEF Mismatch, Failure
<1>5. Mismatch \notin Response /\ Failure \notin Response
  BY <1>3, <1>4
<1> QED BY <1>1, <1>2, <1>5, NoneAssumption DEF Response

Inv == TypeOK /\ KeyGuardsOrder

(* Whoever works on a key is alone with it. *)
LEMMA AloneWithKey ==
  ASSUME Inv, NEW r \in Requests, stage[r] \in {"handle", "record"}
  PROVE  /\ sent[r] \in Request /\ key(r) \in Keys
         /\ table[key(r)] = None
         /\ \A q \in Requests \ {r} :
              stage[q] \in {"handle", "record"} => key(q) # key(r)
  BY DEF Inv, KeyGuardsOrder, key, Request

(* Giving a key back without a commit disturbs nobody. *)
LEMMA RollbackStep ==
  ASSUME Inv, NEW r \in Requests, stage[r] # "idle", Rollback(r), UNCHANGED sent,
         NEW a \in {Mismatch, Failure, None},
         stage' = [stage EXCEPT ![r] = "done"],
         answer' \in {[answer EXCEPT ![r] = a], answer}
  PROVE  Inv'
<1> USE DEF key
<1>1. a \notin Response /\ a \in Answer
  BY AnswersDiffer DEF Answer
<1>2. TypeOK'
  BY <1>1 DEF Inv, TypeOK, Rollback
<1>3. KeyGuardsOrder'
  <2>1. \A q \in Requests : stage'[q] = "idle" => stage[q] = "idle" /\ q # r
    BY DEF Inv, TypeOK
  <2>2. \A q \in Requests : stage'[q] \in {"handle", "record"} => stage'[q] = stage[q] /\ q # r
    BY DEF Inv, TypeOK
  <2>3. \A q \in Requests : answer'[q] \in Response => answer'[q] = answer[q]
    BY <1>1 DEF Inv, TypeOK
  <2>4. \A q \in Requests : q # r => answer'[q] = answer[q] /\ result'[q] = result[q]
    BY DEF Inv, TypeOK, Rollback
  <2>5. \A q \in Requests : stage'[q] \in {"handle", "record"} => holder'[key(q)] = q
    BY <2>2 DEF Inv, TypeOK, KeyGuardsOrder, Rollback, Request
  <2>6. table' = table /\ orders' = orders /\ sent' = sent
    BY DEF Rollback
  <2>7. \A q \in Requests :
          IF stage'[q] = "idle" THEN answer'[q] = None /\ q \notin orders'
          ELSE sent'[q] \in Request
    BY <2>1, <2>4, <2>6 DEF Inv, TypeOK, KeyGuardsOrder
  <2>8. \A q \in Requests : stage'[q] = "record" => result'[q] \in {Created(q), Rejected}
    BY <2>2, <2>4 DEF Inv, KeyGuardsOrder
  <2>9. \A q \in Requests : answer'[q] \in Response =>
          table'[key(q)] = [body |-> sent[q].body, answer |-> answer'[q]]
    BY <2>3, <2>6 DEF Inv, KeyGuardsOrder
  <2>10. \A q \in Requests : stage'[q] \in {"handle", "record"} => table'[key(q)] = None
    BY <2>2, <2>6 DEF Inv, KeyGuardsOrder
  <2> QED
    BY <2>5, <2>6, <2>7, <2>8, <2>9, <2>10 DEF Inv, KeyGuardsOrder
<1> QED BY <1>2, <1>3 DEF Inv

(* The commit of the request that holds the key: its row, its order and,   *)
(* if the acknowledgement arrives, its answer agree.                       *)
LEMMA CommitStep ==
  ASSUME Inv, NEW r \in Requests, stage[r] = "record", CommitTx(r), UNCHANGED sent,
         NEW a \in {result[r], Failure},
         stage' = [stage EXCEPT ![r] = "done"],
         answer' \in {[answer EXCEPT ![r] = a], answer}
  PROVE  Inv'
<1>1. /\ sent[r] \in Request /\ key(r) \in Keys /\ table[key(r)] = None
      /\ \A q \in Requests \ {r} : stage[q] \in {"handle", "record"} => key(q) # key(r)
  BY AloneWithKey
<1>2. result[r] \in {Created(r), Rejected} /\ result[r] \in Response
  BY AnswersDiffer DEF Inv, KeyGuardsOrder
<1>3. a \in Answer /\ (a \in Response => a = result[r])
  BY <1>2, AnswersDiffer DEF Answer
<1>4. Row(r) \in KeyRow /\ Row(r) # None
      /\ Row(r).answer = result[r] /\ Row(r).body = sent[r].body
  BY <1>1, <1>2, NoneAssumption DEF Row, KeyRow, Request
<1>5. /\ table'[key(r)] = Row(r)
      /\ \A k \in Keys : k # key(r) => table'[k] = table[k] /\ holder'[k] = holder[k]
  BY <1>1 DEF Inv, TypeOK, CommitTx
<1>6. TypeOK'
  BY <1>1, <1>3, <1>4, <1>2 DEF Inv, TypeOK, CommitTx
<1>7. \A q \in Requests : key(q)' = key(q)
  BY DEF key
<1>8. \A q \in Requests : stage[q] # "idle" => key(q) \in Keys
  BY DEF Inv, KeyGuardsOrder, key, Request
<1>9. orders' = (IF result[r] = Created(r) THEN orders \cup {r} ELSE orders)
  BY DEF CommitTx
<1>10. KeyGuardsOrder'
  <2>1. ASSUME NEW q \in Requests
        PROVE  IF stage'[q] = "idle" THEN answer'[q] = None /\ q \notin orders'
               ELSE sent'[q] \in Request
    BY <1>1, <1>9 DEF Inv, TypeOK, KeyGuardsOrder
  <2>2. ASSUME NEW q \in Requests, stage'[q] \in {"handle", "record"}
        PROVE  /\ holder'[key(q)] = q /\ table'[key(q)] = None
               /\ stage'[q] = "record" => result'[q] \in {Created(q), Rejected}
    <3>1. q # r /\ stage[q] = stage'[q] /\ key(q) # key(r) /\ key(q) \in Keys
      BY <2>2, <1>1, <1>8 DEF Inv, TypeOK
    <3>2. result'[q] = result[q]
      BY <3>1 DEF CommitTx, Inv, TypeOK
    <3> QED BY <2>2, <3>1, <3>2, <1>5 DEF Inv, KeyGuardsOrder
  <2>3. ASSUME NEW q \in Requests, answer[q] \in Response \/ q \in orders
        PROVE  key(q) \in Keys /\ key(q) # key(r) /\ table'[key(q)] = table[key(q)]
    <3>1. stage[q] # "idle" /\ sent[q] \in Request
      BY <2>3, AnswersDiffer DEF Inv, KeyGuardsOrder
    <3>2. \E b \in Response : table[key(q)] = [body |-> sent[q].body, answer |-> b]
      BY <2>3, AnswersDiffer DEF Inv, KeyGuardsOrder
    <3>3. table[key(q)] \in KeyRow
      BY <3>1, <3>2 DEF Request, KeyRow
    <3> QED BY <3>1, <3>3, <1>1, <1>5, <1>8, NoneAssumption
  <2>4. ASSUME NEW q \in Requests, answer'[q] \in Response
        PROVE  table'[key(q)] = [body |-> sent[q].body, answer |-> answer'[q]]
    <3>1. CASE answer'[q] = answer[q]
      BY <3>1, <2>3, <2>4 DEF Inv, KeyGuardsOrder
    <3>2. CASE answer'[q] # answer[q]
      <4>1. q = r /\ answer'[q] = result[r]
        BY <3>2, <2>4, <1>3 DEF Inv, TypeOK
      <4> QED BY <4>1, <1>5 DEF Row
    <3> QED BY <3>1, <3>2
  <2>5. ASSUME NEW q \in orders'
        PROVE  table'[key(q)] = [body |-> sent[q].body, answer |-> Created(q)]
    <3>1. CASE q \in orders
      BY <3>1, <2>3 DEF Inv, TypeOK, KeyGuardsOrder
    <3>2. CASE q = r /\ result[r] = Created(r)
      BY <3>2, <1>5 DEF Row
    <3> QED BY <3>1, <3>2, <1>9
  <2>6. ASSUME NEW q \in Requests, NEW k \in Keys,
               table'[k] # None, table'[k].answer = Created(q)
        PROVE  q \in orders' /\ sent[q] = [key |-> k, body |-> table'[k].body]
    <3>1. CASE k = key(r)
      <4>1. result[r] = Created(q) /\ q = r
        BY <3>1, <2>6, <1>2, <1>4, <1>5, AnswersDiffer
      <4>2. sent[r] = [key |-> key(r), body |-> sent[r].body]
        BY <1>1 DEF key, Request
      <4> QED BY <3>1, <4>1, <4>2, <1>4, <1>5, <1>9
    <3>2. CASE k # key(r)
      BY <3>2, <2>6, <1>5, <1>9 DEF Inv, KeyGuardsOrder
    <3> QED BY <3>1, <3>2
  <2>7. /\ \A q \in Requests : key(q)' = key(q) /\ sent'[q] = sent[q]
        /\ orders' \subseteq Requests
    BY <1>6, <1>7 DEF TypeOK
  <2>8. \A q \in Requests : answer'[q] \in Response =>
          table'[key(q)] = [body |-> sent'[q].body, answer |-> answer'[q]]
    BY <2>4
  <2>9. \A q \in orders' : table'[key(q)] = [body |-> sent'[q].body, answer |-> Created(q)]
    BY <2>5
  <2>10. \A q \in Requests, k \in Keys :
           table'[k] # None /\ table'[k].answer = Created(q) =>
             q \in orders' /\ sent'[q] = [key |-> k, body |-> table'[k].body]
    BY <2>6
  <2> QED
    BY <2>1, <2>2, <2>7, <2>8, <2>9, <2>10 DEF KeyGuardsOrder, key
<1> QED BY <1>6, <1>10 DEF Inv

(* A step that only moves a request on, or lets it take a free key. *)
LEMMA InsertStep == ASSUME Inv, NEW r \in Requests, InsertKey(r) PROVE Inv'
<1> USE DEF key
<1>1. sent[r] \in Request /\ key(r) \in Keys
  BY DEF Inv, KeyGuardsOrder, InsertKey, Request
<1>2. TypeOK'
  BY <1>1 DEF Inv, TypeOK, InsertKey, Goto
<1>3. KeyGuardsOrder'
  <2>1. UNCHANGED <<sent, answer, result, table, orders>>
    BY DEF InsertKey
  <2>2. \A q \in Requests \ {r} : stage'[q] = stage[q]
    BY DEF Inv, TypeOK, InsertKey, Goto
  <2>3. stage'[r] \in {"handle", "replay"} /\ stage[r] # "idle"
    BY DEF Inv, TypeOK, InsertKey, Goto
  <2>4. stage'[r] = "handle" => table[key(r)] = None /\ holder'[key(r)] = r
    BY <1>1 DEF Inv, TypeOK, InsertKey, Goto
  <2>5. \A q \in Requests \ {r} : stage[q] \in {"handle", "record"} => holder'[key(q)] = q
    <3>1. \A k \in Keys : k # key(r) => holder'[k] = holder[k]
      BY DEF Inv, TypeOK, InsertKey
    <3>2. \A q \in Requests \ {r} : stage[q] \in {"handle", "record"} =>
            key(q) \in Keys /\ key(q) # key(r) /\ holder[key(q)] = q
      BY AnswersDiffer DEF Inv, KeyGuardsOrder, InsertKey, Request
    <3> QED BY <3>1, <3>2
  <2>6. \A q \in Requests : stage'[q] \in {"handle", "record"} =>
          holder'[key(q)] = q /\ table[key(q)] = None
    BY <2>2, <2>3, <2>4, <2>5 DEF Inv, KeyGuardsOrder
  <2>7. \A q \in Requests : stage'[q] = "record" => result[q] \in {Created(q), Rejected}
    BY <2>2, <2>3 DEF Inv, KeyGuardsOrder
  <2>8. \A q \in Requests :
          IF stage'[q] = "idle" THEN answer[q] = None /\ q \notin orders
          ELSE sent[q] \in Request
    BY <1>1, <2>2, <2>3 DEF Inv, KeyGuardsOrder
  <2> QED BY <2>1, <2>6, <2>7, <2>8 DEF Inv, KeyGuardsOrder
<1> QED BY <1>2, <1>3 DEF Inv

(* The first request of a client fixes its key and body. *)
LEMMA ArriveStep == ASSUME Inv, NEW r \in Requests, Arrive(r) PROVE Inv'
<1> USE DEF key
<1>1. TypeOK' /\ sent'[r] \in Request
  BY DEF Inv, TypeOK, Arrive, Goto, Request
<1>2. /\ UNCHANGED <<answer, result, table, holder, orders>>
      /\ stage'[r] = "begin"
      /\ \A q \in Requests \ {r} : stage'[q] = stage[q] /\ sent'[q] = sent[q]
  BY DEF Inv, TypeOK, Arrive, Goto
<1>3. r \notin orders /\ answer[r] \notin Response
  BY AnswersDiffer DEF Inv, KeyGuardsOrder, Arrive
<1>4. KeyGuardsOrder'
  <2>1. \A q \in Requests :
          IF stage'[q] = "idle" THEN answer[q] = None /\ q \notin orders
          ELSE sent'[q] \in Request
    BY <1>1, <1>2 DEF Inv, KeyGuardsOrder
  <2>2. \A q \in Requests : stage'[q] \in {"handle", "record"} =>
          q # r /\ sent'[q] = sent[q] /\ stage[q] \in {"handle", "record"}
    BY <1>2
  <2>3. /\ \A q \in Requests : stage'[q] \in {"handle", "record"} =>
             holder[key(q)'] = q /\ table[key(q)'] = None
        /\ \A q \in Requests : stage'[q] = "record" => result[q] \in {Created(q), Rejected}
    BY <1>2, <2>2 DEF Inv, KeyGuardsOrder
  <2>4. /\ \A q \in Requests : answer[q] \in Response =>
             table[key(q)'] = [body |-> sent'[q].body, answer |-> answer[q]]
        /\ \A q \in orders : table[key(q)'] = [body |-> sent'[q].body, answer |-> Created(q)]
    BY <1>2, <1>3 DEF Inv, TypeOK, KeyGuardsOrder
  <2>5. \A q \in Requests, k \in Keys :
          table[k] # None /\ table[k].answer = Created(q) =>
            q \in orders /\ sent'[q] = [key |-> k, body |-> table[k].body]
    BY <1>2, <1>3 DEF Inv, KeyGuardsOrder
  <2> QED BY <1>2, <2>1, <2>3, <2>4, <2>5 DEF KeyGuardsOrder
<1> QED BY <1>1, <1>4 DEF Inv

(* Getting a connection, and running the handler inside the transaction. *)
LEMMA PrivateStep == ASSUME Inv, NEW r \in Requests, Begin(r) \/ Handle(r) PROVE Inv'
<1> USE DEF key
<1>1. Created(r) \in Response /\ Rejected \in Response
  BY AnswersDiffer
<1>2. TypeOK'
  BY <1>1 DEF Inv, TypeOK, Begin, Handle, Goto
<1>3. /\ UNCHANGED <<sent, answer, table, holder, orders>>
      /\ \A q \in Requests \ {r} : stage'[q] = stage[q] /\ result'[q] = result[q]
      /\ stage[r] # "idle" /\ stage'[r] # "idle"
      /\ stage'[r] \in {"handle", "record"} =>
           stage[r] = "handle" /\ result'[r] \in {Created(r), Rejected}
  BY <1>1 DEF Inv, TypeOK, Begin, Handle, Goto
<1>4. KeyGuardsOrder'
  BY <1>3 DEF Inv, KeyGuardsOrder
<1> QED BY <1>2, <1>4 DEF Inv

(* A replay tells the client what the committed row says. *)
LEMMA ReplayStep == ASSUME Inv, NEW r \in Requests, Replay(r) PROVE Inv'
<1> USE DEF key
<1>1. sent[r] \in Request /\ key(r) \in Keys /\ stage[r] = "replay"
  BY DEF Inv, KeyGuardsOrder, Replay, Request
<1>2. UNCHANGED <<sent, result, table, holder, orders>>
  BY DEF Replay
<1>3. /\ stage'[r] = "done"
      /\ \A q \in Requests \ {r} : stage'[q] = stage[q] /\ answer'[q] = answer[q]
      /\ answer'[r] \in {answer[r], StoredAnswer(r)}
  BY DEF Inv, TypeOK, Replay, Reply, Goto
<1>4. /\ StoredAnswer(r) \in Answer
      /\ StoredAnswer(r) \in Response =>
           table[key(r)] = [body |-> sent[r].body, answer |-> StoredAnswer(r)]
  <2>1. CASE table[key(r)] = None
    BY <2>1, AnswersDiffer DEF StoredAnswer, Answer
  <2>2. CASE table[key(r)] \in KeyRow /\ table[key(r)] # None
    BY <2>2, AnswersDiffer DEF StoredAnswer, Answer, KeyRow
  <2> QED BY <2>1, <2>2, <1>1 DEF Inv, TypeOK
<1>5. TypeOK'
  BY <1>2, <1>4 DEF Inv, TypeOK, Replay, Reply, Goto
<1>6. KeyGuardsOrder'
  BY <1>1, <1>2, <1>3, <1>4 DEF Inv, KeyGuardsOrder
<1> QED BY <1>5, <1>6 DEF Inv

(* Inv is inductive. *)
LEMMA InvHolds == Spec => []Inv
<1>1. Init => Inv
  BY AnswersDiffer DEF Init, Inv, TypeOK, KeyGuardsOrder, Answer
<1>2. Inv /\ [Next]_vars => Inv'
  <2> SUFFICES ASSUME Inv, [Next]_vars PROVE Inv'
    OBVIOUS
  <2>1. CASE UNCHANGED vars
    BY <2>1 DEF Inv, TypeOK, KeyGuardsOrder, vars, key
  <2>2. ASSUME NEW r \in Requests,
               Arrive(r) \/ Step(r) \/ CommitUnacknowledged(r) \/ Abort(r)
        PROVE  Inv'
    <3>1. CASE Arrive(r)
      BY <3>1, ArriveStep
    <3>2. CASE Begin(r) \/ Handle(r)
      BY <3>2, PrivateStep
    <3>3. CASE InsertKey(r)
      BY <3>3, InsertStep
    <3>4. CASE Replay(r)
      BY <3>4, ReplayStep
    <3>5. CASE Record(r)
      BY <3>5, CommitStep DEF Record, Reply, Goto
    <3>6. CASE CommitUnacknowledged(r)
      BY <3>6, CommitStep DEF CommitUnacknowledged, Reply, Goto
    <3>7. CASE Abort(r)
      BY <3>7, RollbackStep DEF Abort, Reply, Goto
    <3> QED BY <2>2, <3>1, <3>2, <3>3, <3>4, <3>5, <3>6, <3>7 DEF Step
  <2> QED BY <2>1, <2>2 DEF Next
<1> QED BY <1>1, <1>2, PTL DEF Spec

(* The middleware's invariant holds in every behaviour: a key's row is     *)
(* committed at most once, by the request that holds the key.              *)
THEOREM GuardedByKey == Spec => []KeyGuardsOrder
<1>1. Inv => KeyGuardsOrder
  BY DEF Inv
<1> QED BY <1>1, InvHolds, PTL

(* POST /orders creates at most one order per Idempotency-Key. *)
THEOREM OneOrder == Spec => []OneOrderPerKey
<1>1. Inv => OneOrderPerKey
  <2> SUFFICES ASSUME Inv, NEW q \in orders, NEW r \in orders, key(q) = key(r)
               PROVE  q = r
    BY DEF OneOrderPerKey
  <2>1. /\ table[key(q)] = [body |-> sent[q].body, answer |-> Created(q)]
        /\ table[key(q)] = [body |-> sent[r].body, answer |-> Created(r)]
    BY DEF Inv, KeyGuardsOrder
  <2>2. Created(q) = Created(r)
    BY <2>1
  <2> QED BY <2>2, AnswersDiffer DEF Inv, TypeOK
<1> QED BY <1>1, InvHolds, PTL

(* Clients that repeat a request are told the same. *)
THEOREM RetriesToldTheSame == Spec => []RetriesAgree
<1>1. Inv => RetriesAgree
  <2> SUFFICES ASSUME Inv, NEW q \in Requests, NEW r \in Requests, sent[q] = sent[r],
                      answer[q] \in Response, answer[r] \in Response
               PROVE  answer[q] = answer[r]
    BY DEF RetriesAgree
  <2>1. /\ table[key(q)] = [body |-> sent[q].body, answer |-> answer[q]]
        /\ table[key(q)] = [body |-> sent[q].body, answer |-> answer[r]]
    BY DEF Inv, KeyGuardsOrder, key
  <2> QED BY <2>1
<1> QED BY <1>1, InvHolds, PTL

(* A client told of an order finds it, created for its own key and body. *)
THEOREM ToldOrders == Spec => []ToldOrdersExist
<1>1. Inv => ToldOrdersExist
  <2> SUFFICES ASSUME Inv, NEW r \in Requests, NEW q \in Requests, answer[r] = Created(q)
               PROVE  q \in orders /\ sent[q] = sent[r]
    BY DEF ToldOrdersExist
  <2>1. Created(q) \in Response /\ answer[r] # None
    BY AnswersDiffer
  <2>2. sent[r] \in Request /\ key(r) \in Keys
    BY <2>1 DEF Inv, KeyGuardsOrder, key, Request
  <2>3. table[key(r)] = [body |-> sent[r].body, answer |-> Created(q)]
    BY <2>1 DEF Inv, KeyGuardsOrder
  <2>4. table[key(r)] # None /\ table[key(r)].answer = Created(q)
        /\ table[key(r)].body = sent[r].body
    BY <2>1, <2>2, <2>3, NoneAssumption DEF KeyRow, Request
  <2>5. q \in orders /\ sent[q] = [key |-> key(r), body |-> sent[r].body]
    BY <2>2, <2>4 DEF Inv, KeyGuardsOrder
  <2>6. sent[r] = [key |-> key(r), body |-> sent[r].body]
    BY <2>2 DEF key, Request
  <2> QED BY <2>5, <2>6
<1> QED BY <1>1, InvHolds, PTL

(* Every variable of the middleware keeps its type: only definite answers  *)
(* are recorded, and only requests hold keys.                              *)
THEOREM TypeCorrect == Spec => []TypeOK
<1>1. Inv => TypeOK
  BY DEF Inv
<1> QED BY <1>1, InvHolds, PTL

(* A key that has a row keeps one. *)
LEMMA RowsStay ==
  ASSUME Inv, NEW r \in Requests, Arrive(r) \/ Step(r) \/ CommitUnacknowledged(r) \/ Abort(r),
         NEW k \in Keys, table[k] # None
  PROVE  table'[k] # None
<1>1. CASE stage[r] = "record" /\ CommitTx(r)
  <2>1. sent[r] \in Request /\ key(r) \in Keys
    BY <1>1, AloneWithKey
  <2>2. result[r] \in Response
    BY <1>1, AnswersDiffer DEF Inv, KeyGuardsOrder
  <2>3. Row(r) # None
    BY <2>1, <2>2, NoneAssumption DEF Row, KeyRow, Request
  <2> QED BY <1>1, <2>1, <2>3 DEF CommitTx, Inv, TypeOK
<1>2. CASE table' = table
  BY <1>2
<1> QED BY <1>1, <1>2 DEF Arrive, Step, Begin, InsertKey, Handle, Record, Replay,
           CommitUnacknowledged, Abort, Rollback

(* A request comes to replay only from an INSERT that met a committed row. *)
LEMMA ReplayMetRow ==
  ASSUME Inv, NEW r \in Requests, Arrive(r) \/ Step(r) \/ CommitUnacknowledged(r) \/ Abort(r),
         NEW q \in Requests, stage'[q] = "replay"
  PROVE  /\ stage[q] = "replay" \/ table[key(q)] # None
         /\ sent'[q] = sent[q] /\ sent[q] \in Request /\ key(q) \in Keys
<1>1. CASE q = r
  <2>1. InsertKey(r) /\ table[key(r)] # None
    BY <1>1 DEF Arrive, Step, Begin, InsertKey, Handle, Record, Replay,
                CommitUnacknowledged, Abort, Reply, Goto, Inv, TypeOK
  <2> QED BY <1>1, <2>1 DEF InsertKey, Inv, KeyGuardsOrder, key, Request
<1>2. CASE q # r
  <2>1. stage[q] = "replay" /\ sent'[q] = sent[q]
    BY <1>2 DEF Arrive, Step, Begin, InsertKey, Handle, Record, Replay,
                CommitUnacknowledged, Abort, Reply, Goto, Inv, TypeOK
  <2> QED BY <2>1 DEF Inv, KeyGuardsOrder, key, Request
<1> QED BY <1>1, <1>2

(* replayCachedResponse never answers 500 for a missing row or a missing   *)
(* outcome: the row a request met is committed, and stays.                 *)
THEOREM ReplayAlwaysAnswers == Spec => []ReplayFindsOutcome
<1> DEFINE MetRow == \A r \in Requests : stage[r] = "replay" => table[key(r)] # None
<1>1. Init => MetRow
  BY DEF Init
<1>2. Inv /\ MetRow /\ [Next]_vars => MetRow'
  <2> SUFFICES ASSUME Inv, MetRow, [Next]_vars, NEW q \in Requests, stage'[q] = "replay"
               PROVE  table'[sent'[q].key] # None
    BY DEF key
  <2>1. CASE UNCHANGED vars
    BY <2>1 DEF vars, key
  <2>2. ASSUME NEW r \in Requests,
               Arrive(r) \/ Step(r) \/ CommitUnacknowledged(r) \/ Abort(r)
        PROVE  table'[sent'[q].key] # None
    <3>1. table[key(q)] # None /\ sent'[q] = sent[q] /\ key(q) \in Keys
      BY <2>2, ReplayMetRow
    <3>2. table'[key(q)] # None
      BY <2>2, <3>1, RowsStay
    <3> QED BY <3>1, <3>2 DEF key
  <2> QED BY <2>1, <2>2 DEF Next
<1>3. Inv /\ MetRow => ReplayFindsOutcome
  <2> SUFFICES ASSUME Inv, MetRow, NEW r \in Requests, stage[r] = "replay"
               PROVE  table[key(r)] # None /\ table[key(r)].answer # None
    BY DEF ReplayFindsOutcome
  <2>1. key(r) \in Keys
    BY DEF Inv, KeyGuardsOrder, key, Request
  <2>2. table[key(r)] \in KeyRow
    BY <2>1 DEF Inv, TypeOK
  <2> QED BY <2>2, AnswersDiffer DEF KeyRow
<1> HIDE DEF MetRow
<1> QED BY <1>1, <1>2, <1>3, InvHolds, PTL DEF Spec

=============================================================================
