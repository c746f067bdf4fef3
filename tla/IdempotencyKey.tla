--------------------------- MODULE IdempotencyKey ---------------------------
(***************************************************************************)
(* The Idempotency-Key middleware in front of POST /orders                 *)
(* (internal/adapters/inbound/http/idempotency.go, migrations/0008): one   *)
(* transaction holds the key's row, the order and the cached response,     *)
(* and a second request with the same key waits on the unique index until  *)
(* that transaction ends.  Every open transaction keeps one connection of  *)
(* the process's pool.                                                     *)
(*                                                                         *)
(* The wrapped handler joins the middleware's transaction, so nothing it   *)
(* does is visible before the commit and it is one step here:              *)
(* OrderLifecycle models what it does to the order.  A handler that runs   *)
(* mints a fresh order id; the request that ran it stands for that id.     *)
(*                                                                         *)
(* Left out: the missing header and the unreadable body, which are         *)
(* answered before anything is done, and headers and wording of responses. *)
(***************************************************************************)
EXTENDS Integers, FiniteSets

CONSTANTS
  Requests,   \* HTTP requests; a client's retry is another request
  Keys,       \* Idempotency-Key values
  Bodies,     \* request bodies, as told apart by their hash
  MaxConns,   \* the pool's connection ceiling
  None        \* no holder, no row, no answer

ASSUME PoolAssumption == MaxConns \in Nat \ {0}

(* What a request can be answered: an order was created, the request was   *)
(* rejected (4xx), the key belongs to another body (422), or 500.          *)
Created(r) == [kind |-> "created", order |-> r]
Rejected   == [kind |-> "rejected"]
Mismatch   == [kind |-> "mismatch"]
Failure    == [kind |-> "failure"]

(* The responses of the wrapped handler, and the rows that record them. *)
Response == {Created(r) : r \in Requests} \cup {Rejected}
Request == [key : Keys, body : Bodies]
KeyRow == [body : Bodies, answer : Response]

ASSUME NoneAssumption == None \notin Requests \cup Response \cup Request \cup KeyRow

VARIABLES
  sent,     \* the key and body of each request that was sent
  stage,    \* where it stands
  answer,   \* what its client was told
  result,   \* the response its handler produced, recorded before the commit
  table,    \* idempotency_keys: the committed row of each key
  holder,   \* the request whose open transaction inserted the key
  orders    \* the committed orders

vars == <<sent, stage, answer, result, table, holder, orders>>

Init ==
  /\ sent = [r \in Requests |-> None]
  /\ stage = [r \in Requests |-> "idle"]
  /\ answer = [r \in Requests |-> None]
  /\ result = [r \in Requests |-> None]
  /\ table = [k \in Keys |-> None]
  /\ holder = [k \in Keys |-> None]
  /\ orders = {}

----------------------------------------------------------------------------
key(r) == sent[r].key

InTransaction == {"insert", "handle", "record"}

(* Mistake: the transaction stays open while the stored row is read. *)
FreeConnHeldByReplay ==
  Cardinality({r \in Requests : stage[r] \in InTransaction \cup {"replay"}}) < MaxConns

(* A connection can be had from the pool. *)
FreeConn == Cardinality({r \in Requests : stage[r] \in InTransaction}) < MaxConns

Goto(r, s) == stage' = [stage EXCEPT ![r] = s]

(* The client hears a, or nothing at all if the connection is gone. *)
Reply(r, a) ==
  /\ Goto(r, "done")
  /\ answer' \in {[answer EXCEPT ![r] = a], answer}

(* The transaction of r ends without a trace. *)
Rollback(r) ==
  /\ holder' = [k \in Keys |-> IF holder[k] = r THEN None ELSE holder[k]]
  /\ result' = [result EXCEPT ![r] = None]
  /\ UNCHANGED <<table, orders>>

(* A request arrives; a client may repeat a key, with the same body or not. *)
Arrive(r) ==
  /\ stage[r] = "idle"
  /\ \E k \in Keys, b \in Bodies : sent' = [sent EXCEPT ![r] = [key |-> k, body |-> b]]
  /\ Goto(r, "begin")
  /\ UNCHANGED <<answer, result, table, holder, orders>>

(* pool.Begin *)
Begin(r) ==
  /\ stage[r] = "begin"
  /\ FreeConn
  /\ Goto(r, "insert")
  /\ UNCHANGED <<sent, answer, result, table, holder, orders>>

(* Mistake: the INSERT does not wait for the transaction that holds the key. *)
InsertKeyNoWait(r) ==
  /\ stage[r] = "insert"
  /\ IF table[key(r)] = None /\ holder[key(r)] = None
     THEN Goto(r, "handle") /\ holder' = [holder EXCEPT ![key(r)] = r]
     ELSE Goto(r, "replay") /\ UNCHANGED holder
  /\ UNCHANGED <<sent, answer, result, table, orders>>

(* Mistake: a key counts as taken only while it is being worked on. *)
InsertKeyInFlightOnly(r) ==
  /\ stage[r] = "insert"
  /\ holder[key(r)] = None
  /\ Goto(r, "handle")
  /\ holder' = [holder EXCEPT ![key(r)] = r]
  /\ UNCHANGED <<sent, answer, result, table, orders>>

(* INSERT ... ON CONFLICT (key) DO NOTHING: waits until no open transaction *)
(* holds the key; then a committed row means zero rows affected, and the    *)
(* request rolls its transaction back and replays.                          *)
InsertKey(r) ==
  /\ stage[r] = "insert"
  /\ holder[key(r)] = None
  /\ IF table[key(r)] = None
     THEN Goto(r, "handle") /\ holder' = [holder EXCEPT ![key(r)] = r]
     ELSE Goto(r, "replay") /\ UNCHANGED holder
  /\ UNCHANGED <<sent, answer, result, table, orders>>

(* The wrapped handler runs to a normal response, in the transaction.      *)
(* What it answers depends on more than the body: a path that is unknown   *)
(* today may be in the catalogue tomorrow.                                 *)
Handle(r) ==
  /\ stage[r] = "handle"
  /\ result' \in {[result EXCEPT ![r] = a] : a \in {Created(r), Rejected}}
  /\ Goto(r, "record")
  /\ UNCHANGED <<sent, answer, table, holder, orders>>

(* Mistake: only successful responses are recorded. *)
RowSuccessOnly(r) ==
  [body |-> sent[r].body, answer |-> IF result[r] = Created(r) THEN result[r] ELSE None]

(* The row as the UPDATE leaves it: every normal response is recorded. *)
Row(r) == [body |-> sent[r].body, answer |-> result[r]]

(* Mistake: a rejection gives the key back. *)
CommitTxCreatedOnly(r) ==
  /\ table' = IF result[r] = Created(r) THEN [table EXCEPT ![key(r)] = Row(r)] ELSE table
  /\ orders' = IF result[r] = Created(r) THEN orders \cup {r} ELSE orders
  /\ holder' = [holder EXCEPT ![key(r)] = None]
  /\ result' = [result EXCEPT ![r] = None]

(* The row, the order and its events become visible together. *)
CommitTx(r) ==
  /\ table' = [table EXCEPT ![key(r)] = Row(r)]
  /\ orders' = IF result[r] = Created(r) THEN orders \cup {r} ELSE orders
  /\ holder' = [holder EXCEPT ![key(r)] = None]
  /\ result' = [result EXCEPT ![r] = None]

(* runFreshRequest: UPDATE, COMMIT, and only then the captured response. *)
Record(r) ==
  /\ stage[r] = "record"
  /\ CommitTx(r)
  /\ Reply(r, result[r])
  /\ UNCHANGED sent

(* The commit goes through and its acknowledgement is lost: 500. *)
CommitUnacknowledged(r) ==
  /\ stage[r] = "record"
  /\ CommitTx(r)
  /\ Reply(r, Failure)
  /\ UNCHANGED sent

(* No connection, a statement that fails or times out while waiting for    *)
(* the key, a panic of the handler, a failed UPDATE or COMMIT, a read that *)
(* fails, or the process dying: rolled back, and 500 or nothing.           *)
Abort(r) ==
  /\ stage[r] \in {"begin", "insert", "handle", "record", "replay"}
  /\ Rollback(r)
  /\ Reply(r, Failure)
  /\ UNCHANGED sent

(* What the stored row has to say to r; Failure covers the missing row and *)
(* the row without an outcome.                                             *)
StoredAnswer(r) ==
  LET stored == table[key(r)]
  IN  IF stored = None THEN Failure
      ELSE IF stored.body # sent[r].body THEN Mismatch
      ELSE IF stored.answer = None THEN Failure
      ELSE stored.answer

(* replayCachedResponse: a plain read outside any transaction. *)
Replay(r) ==
  /\ stage[r] = "replay"
  /\ FreeConn
  /\ Reply(r, StoredAnswer(r))
  /\ UNCHANGED <<sent, result, table, holder, orders>>

Step(r) == Begin(r) \/ InsertKey(r) \/ Handle(r) \/ Record(r) \/ Replay(r)

Next ==
  \E r \in Requests : Arrive(r) \/ Step(r) \/ CommitUnacknowledged(r) \/ Abort(r)

(* A request that can go on does, without any help from timeouts. *)
Fairness == \A r \in Requests : WF_vars(Step(r))

Spec == Init /\ [][Next]_vars /\ Fairness

----------------------------------------------------------------------------
Answer == Response \cup {Mismatch, Failure, None}

TypeOK ==
  /\ sent \in [Requests -> Request \cup {None}]
  /\ stage \in [Requests -> {"idle", "begin", "insert", "handle", "record", "replay", "done"}]
  /\ answer \in [Requests -> Answer]
  /\ result \in [Requests -> Response \cup {None}]
  /\ table \in [Keys -> KeyRow \cup {None}]
  /\ holder \in [Keys -> Requests \cup {None}]
  /\ orders \subseteq Requests

(* A key never creates two orders, whatever was retried, raced, lost or    *)
(* rolled back.                                                            *)
OneOrderPerKey == \A q, r \in orders : key(q) = key(r) => q = r

(* A client that was told of an order can rely on it: the order exists,    *)
(* and it is the one created for that very key and body.                   *)
ToldOrdersExist ==
  \A r \in Requests, q \in Requests :
    answer[r] = Created(q) => q \in orders /\ sent[q] = sent[r]

(* Retries are deterministic: two clients told something definite about    *)
(* the same key and body were told the same, a rejection included.         *)
RetriesAgree ==
  \A q, r \in Requests :
    sent[q] = sent[r] /\ answer[q] \in Response /\ answer[r] \in Response
      => answer[q] = answer[r]

(* The argument of RequireIdempotencyKey: a request that found the key     *)
(* taken finds a committed row with an outcome; the two branches of        *)
(* replayCachedResponse that answer 500 for a missing row or a missing     *)
(* outcome are never taken.                                                *)
ReplayFindsOutcome ==
  \A r \in Requests : stage[r] = "replay" =>
    table[key(r)] # None /\ table[key(r)].answer # None

(* Why this works: only the request that holds a key can be working on it, *)
(* and no row is committed for the key meanwhile; and the committed row of *)
(* a key is the one answer there is, for the order it created and for      *)
(* every client that was told something definite.                          *)
KeyGuardsOrder ==
  /\ \A r \in Requests :
       IF stage[r] = "idle" THEN answer[r] = None /\ r \notin orders ELSE sent[r] \in Request
  /\ \A r \in Requests : stage[r] \in {"handle", "record"} =>
       holder[key(r)] = r /\ table[key(r)] = None
  /\ \A r \in Requests : stage[r] = "record" => result[r] \in {Created(r), Rejected}
  /\ \A r \in Requests : answer[r] \in Response =>
       table[key(r)] = [body |-> sent[r].body, answer |-> answer[r]]
  /\ \A r \in orders : table[key(r)] = [body |-> sent[r].body, answer |-> Created(r)]
  /\ \A r \in Requests, k \in Keys :
       table[k] # None /\ table[k].answer = Created(r) =>
         r \in orders /\ sent[r] = [key |-> k, body |-> table[k].body]

(* Nobody waits for ever, with any number of requests queueing for one key *)
(* and a pool that is smaller than their number.                           *)
EveryRequestEnds == \A r \in Requests : stage[r] = "begin" ~> stage[r] = "done"
=============================================================================
