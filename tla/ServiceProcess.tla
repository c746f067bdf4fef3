--------------------------- MODULE ServiceProcess ---------------------------
(***************************************************************************)
(* The process of cmd/order from boot to exit, and from one process to the *)
(* next: run() with its boot retries, serveAndShutdown, drainUnderShutdown *)
(* and the deferred closers, beside the three things that work while it    *)
(* serves: HTTP requests, the outbox relay and the re-promise consumer.    *)
(*                                                                         *)
(* What outlives a process is the outbox, the topic, the group's offset,   *)
(* the applied events and the dead-letter topic.  Rows and offsets are     *)
(* described in detail by OutboxRelay and RepromiseConsumer; here it       *)
(* matters who is still at work when what is cancelled or closed.  A       *)
(* request commits at most one event, named after it.  The replay of the   *)
(* caches at boot is in ReplayCaches.                                      *)
(***************************************************************************)
EXTENDS Integers, FiniteSets

CONSTANTS
  Requests,     \* the HTTP requests, each sent once
  Messages,     \* number of messages on the fulfillment topic
  BootRetries,  \* bootretry.BootRetries
  MaxStops,     \* bound on signals, failed listeners, failed boots and kills
  MaxFaults     \* bound on failing sends, handlers and commits

ASSUME ProcessAssumption ==
  /\ Messages \in Nat
  /\ BootRetries \in Nat \ {0}
  /\ MaxStops \in Nat
  /\ MaxFaults \in Nat

VARIABLES
  main,      \* where run() is
  tries,     \* attempts of the boot retry that have failed
  asked,     \* what the select of serveAndShutdown finds: "signal", "failed"
  ready,     \* the gate behind GET /readyz
  listening, \* the listener of the HTTP server is open
  deadline,  \* the ten seconds of shutdownCtx are over
  cancelled, \* repromiseConsumerCtx is done
  open,      \* the adapters not closed yet
  request,   \* the stage of each request
  relay,     \* the relay goroutine
  batch,     \* rows claimed by its pass
  marked,    \* those of them sent and marked in its open transaction
  consumer,  \* the consumer goroutine
  fetched,   \* the last message it has fetched
  outbox,    \* committed events not marked published
  topic,     \* events on the topic
  offset,    \* the group's committed offset
  applied,   \* messages whose re-promise is committed
  dlq,       \* messages on the dead-letter topic
  conflicted, \* messages left uncommitted after a version conflict
  stops, faults

control == <<main, tries, asked, ready, listening, deadline, cancelled, open>>
relayVars == <<relay, batch, marked>>
consumerVars == <<consumer, fetched, offset, applied, dlq, conflicted>>
vars == <<control, request, relayVars, consumerVars, outbox, topic, stops, faults>>

Adapters == {"reader", "sink", "pool"}
Active(r) == request[r] \in {"reading", "tx", "responding"}
Draining == {"shutdown", "drainHTTP", "awaitRelay", "awaitConsumer"}
Closing == {"closeReader", "closeSink", "closePool"}

Init ==
  /\ main = "migrate" /\ tries = 0 /\ asked = {} /\ ready = TRUE
  /\ listening = FALSE /\ deadline = FALSE /\ cancelled = FALSE
  /\ open = Adapters
  /\ request = [r \in Requests |-> "none"]
  /\ relay = "stopped" /\ batch = {} /\ marked = {}
  /\ consumer = "stopped" /\ fetched = 0
  /\ outbox = {} /\ topic = {} /\ offset = 0 /\ applied = {} /\ dlq = {}
  /\ conflicted = {}
  /\ stops = 0 /\ faults = 0

Stop == stops < MaxStops /\ stops' = stops + 1
Fault == faults < MaxFaults /\ faults' = faults + 1

----------------------------------------------------------------------------
(* Boot. *)

(* A dial that succeeds: migrations, then the ping of the pool, then the   *)
(* goroutines of serveAndShutdown.  The consumer resumes at the offset.    *)
BootSucceeds ==
  /\ tries' = 0
  /\ \/ /\ main = "migrate" /\ main' = "ping"
        /\ UNCHANGED <<listening, relayVars, consumer, fetched>>
     \/ /\ main = "ping" /\ main' = "serving"
        /\ listening' = TRUE
        /\ relay' = "idle" /\ batch' = {} /\ marked' = {}
        /\ consumer' = "idle" /\ fetched' = offset
  /\ UNCHANGED <<asked, ready, deadline, cancelled, open, request, offset, applied,
                 dlq, conflicted, outbox, topic, stops, faults>>

(* Mistake: one attempt too many. *)
BootFailsLate ==
  /\ main \in {"migrate", "ping"}
  /\ IF tries + 1 > BootRetries
     THEN main' = "exited" /\ tries' = 0 /\ Stop
     ELSE main' = main /\ tries' = tries + 1 /\ UNCHANGED stops
  /\ UNCHANGED <<asked, ready, listening, deadline, cancelled, open, request, relayVars,
                 consumerVars, outbox, topic, faults>>

(* RetryWithDelay: an attempt fails; after the last one run() returns the  *)
(* error and the process exits.                                            *)
BootFails ==
  /\ main \in {"migrate", "ping"}
  /\ IF tries + 1 = BootRetries
     THEN main' = "exited" /\ tries' = 0 /\ Stop
     ELSE main' = main /\ tries' = tries + 1 /\ UNCHANGED stops
  /\ UNCHANGED <<asked, ready, listening, deadline, cancelled, open, request, relayVars,
                 consumerVars, outbox, topic, faults>>

(* The supervisor starts the next process. *)
Restart ==
  /\ main = "exited"
  /\ main' = "migrate" /\ tries' = 0 /\ asked' = {} /\ ready' = TRUE
  /\ deadline' = FALSE /\ cancelled' = FALSE /\ open' = Adapters
  /\ UNCHANGED <<listening, request, relayVars, consumerVars, outbox, topic, stops, faults>>

----------------------------------------------------------------------------
(* HTTP requests.  Their contexts are not cancelled by Shutdown. *)

Go(r, stage) == request' = [request EXCEPT ![r] = stage]

Accept(r) ==
  /\ request[r] = "none" /\ listening
  /\ Go(r, "reading")
  /\ UNCHANGED <<control, relayVars, consumerVars, outbox, topic, stops, faults>>

(* The body has been read; the transaction needs a connection of the pool. *)
BeginTx(r) ==
  /\ request[r] = "reading"
  /\ Go(r, IF "pool" \in open THEN "tx" ELSE "responding")
  /\ UNCHANGED <<control, relayVars, consumerVars, outbox, topic, stops, faults>>

(* The use case and its commit, which puts an event in the outbox, or its  *)
(* rollback.                                                               *)
EndTx(r) ==
  /\ request[r] = "tx"
  /\ outbox' \in {outbox, outbox \cup {r}}
  /\ Go(r, "responding")
  /\ UNCHANGED <<control, relayVars, consumerVars, topic, stops, faults>>

Respond(r) ==
  /\ request[r] = "responding"
  /\ Go(r, "ended")
  /\ UNCHANGED <<control, relayVars, consumerVars, outbox, topic, stops, faults>>

----------------------------------------------------------------------------
(* The outbox relay.  relayCtx is derived from the context of the signal,  *)
(* and is cancelled by it or by the deferred stopRelay.                    *)

RelayCancelled == "signal" \in asked \/ main \in Closing

RelayFrame == UNCHANGED <<control, request, consumerVars, stops>>

(* Mistake: rows are marked published when they are claimed. *)
RelayClaimMarking ==
  /\ relay = "idle" /\ ~RelayCancelled /\ outbox # {}
  /\ relay' = "pass" /\ batch' = outbox /\ marked' = {}
  /\ outbox' = {}
  /\ RelayFrame /\ UNCHANGED <<topic, faults>>

RelayClaim ==
  /\ relay = "idle" /\ ~RelayCancelled /\ outbox # {}
  /\ relay' = "pass" /\ batch' = outbox /\ marked' = {}
  /\ RelayFrame /\ UNCHANGED <<outbox, topic, faults>>

RelaySend(e) ==
  /\ relay = "pass" /\ ~RelayCancelled /\ e \in batch \ marked
  /\ topic' = topic \cup {e}
  /\ marked' = marked \cup {e}
  /\ RelayFrame /\ UNCHANGED <<relay, batch, outbox, faults>>

(* The pass ends and commits its marks: all rows are sent, or the broker   *)
(* refused one and recordSendFailure commits the rest.                     *)
RelayCommit ==
  /\ relay = "pass" /\ ~RelayCancelled
  /\ IF marked = batch THEN UNCHANGED faults ELSE Fault
  /\ outbox' = outbox \ marked
  /\ relay' = "idle" /\ batch' = {} /\ marked' = {}
  /\ RelayFrame /\ UNCHANGED topic

(* Under a cancelled context the next send, mark or commit fails, and so   *)
(* does the bookkeeping of recordSendFailure: the pass is rolled back.  A  *)
(* send that was given up may have reached the broker.                     *)
RelayPassCancelled ==
  /\ relay = "pass" /\ RelayCancelled
  /\ topic' \in {topic} \cup {topic \cup {e} : e \in batch}
  /\ relay' = "stopped" /\ batch' = {} /\ marked' = {}
  /\ RelayFrame /\ UNCHANGED <<outbox, faults>>

RelayStops ==
  /\ relay = "idle" /\ RelayCancelled
  /\ relay' = "stopped"
  /\ RelayFrame /\ UNCHANGED <<batch, marked, outbox, topic, faults>>

----------------------------------------------------------------------------
(* The re-promise consumer: Run and handleUntilDone. *)

ConsumerFrame == UNCHANGED <<control, request, relayVars, outbox, topic, stops>>

Fetch ==
  /\ consumer = "idle" /\ ~cancelled /\ "reader" \in open /\ fetched < Messages
  /\ consumer' = "handling" /\ fetched' = fetched + 1
  /\ ConsumerFrame /\ UNCHANGED <<offset, applied, dlq, conflicted, faults>>

Handle ==
  /\ consumer = "handling" /\ ~cancelled /\ "pool" \in open
  /\ consumer' = "handled" /\ applied' = applied \cup {fetched}
  /\ ConsumerFrame /\ UNCHANGED <<fetched, offset, dlq, conflicted, faults>>

(* The Save of the use case loses the version race: handleMessage returns  *)
(* without a commit, and the loop goes on with the next message.           *)
HandleConflicts ==
  /\ consumer = "handling" /\ ~cancelled /\ "pool" \in open /\ fetched \notin applied
  /\ Fault
  /\ consumer' = "idle" /\ conflicted' = conflicted \cup {fetched}
  /\ ConsumerFrame /\ UNCHANGED <<fetched, offset, applied, dlq>>

(* Mistake: a cancelled handler is taken for one that had nothing to do. *)
HandleFailsSoftly ==
  /\ consumer = "handling"
  /\ IF cancelled THEN UNCHANGED faults ELSE Fault
  /\ consumer' = IF cancelled THEN "handled" ELSE "failed"
  /\ ConsumerFrame /\ UNCHANGED <<fetched, offset, applied, dlq, conflicted>>

(* handleWithRetry gives up: every attempt failed, or the context is done  *)
(* and each statement fails with it.                                       *)
HandleFails ==
  /\ consumer = "handling"
  /\ IF cancelled THEN UNCHANGED faults ELSE Fault
  /\ consumer' = "failed"
  /\ ConsumerFrame /\ UNCHANGED <<fetched, offset, applied, dlq, conflicted>>

(* dlqPublish; its writer is closed together with the reader. *)
DeadLetter ==
  /\ consumer = "failed" /\ ~cancelled /\ "reader" \in open
  /\ dlq' = dlq \cup {fetched}
  /\ consumer' = "handled"
  /\ ConsumerFrame /\ UNCHANGED <<fetched, offset, applied, conflicted, faults>>

(* The write fails: handleUntilDone starts over, unless the context is     *)
(* done.  A write that was given up may have reached the broker.           *)
DeadLetterFails ==
  /\ consumer = "failed"
  /\ IF cancelled \/ "reader" \notin open THEN UNCHANGED faults ELSE Fault
  /\ dlq' \in {dlq} \cup {dlq \cup {m} : m \in {fetched}}
  /\ "reader" \notin open => dlq' = dlq
  /\ consumer' = IF cancelled THEN "stopped" ELSE "handling"
  /\ ConsumerFrame /\ UNCHANGED <<fetched, offset, applied, conflicted>>

(* CommitMessages; the reader may still serve it under a done context. *)
CommitOffset ==
  /\ consumer = "handled" /\ "reader" \in open
  /\ offset' = fetched
  /\ consumer' = "idle"
  /\ ConsumerFrame /\ UNCHANGED <<fetched, applied, dlq, conflicted, faults>>

CommitFails ==
  /\ consumer = "handled"
  /\ IF cancelled \/ "reader" \notin open THEN UNCHANGED faults ELSE Fault
  /\ consumer' = IF cancelled THEN "stopped" ELSE "handling"
  /\ ConsumerFrame /\ UNCHANGED <<fetched, offset, applied, dlq, conflicted>>

ConsumerStops ==
  /\ consumer = "idle" /\ cancelled
  /\ consumer' = "stopped"
  /\ ConsumerFrame /\ UNCHANGED <<fetched, offset, applied, dlq, conflicted, faults>>

----------------------------------------------------------------------------
(* Serving, draining, closing. *)

WorkFrame == UNCHANGED <<request, relayVars, consumerVars, outbox, topic>>

(* SIGINT or SIGTERM: the context of NotifyContext, and with it relayCtx,  *)
(* is done at once.                                                        *)
Signal ==
  /\ main = "serving" /\ "signal" \notin asked /\ Stop
  /\ asked' = asked \cup {"signal"}
  /\ WorkFrame
  /\ UNCHANGED <<main, tries, ready, listening, deadline, cancelled, open, faults>>

(* ListenAndServe returns an error to errCh. *)
ListenFails ==
  /\ main = "serving" /\ listening /\ Stop
  /\ listening' = FALSE
  /\ asked' = asked \cup {"failed"}
  /\ WorkFrame
  /\ UNCHANGED <<main, tries, ready, deadline, cancelled, open, faults>>

(* The select: an error is returned without draining, through the deferred *)
(* stopRelay; a signal starts drainUnderShutdown.                          *)
Wake ==
  /\ main = "serving"
  /\ \/ "failed" \in asked /\ main' = "closeReader"
     \/ "signal" \in asked /\ main' = "shutdown"
  /\ WorkFrame
  /\ UNCHANGED <<tries, asked, ready, listening, deadline, cancelled, open, stops, faults>>

(* httpServer.Shutdown closes the listener, and waits for the requests.    *)
(* The readiness gate is handed over and not touched.                      *)
Shutdown ==
  /\ main = "shutdown" /\ main' = "drainHTTP"
  /\ listening' = FALSE
  /\ WorkFrame
  /\ UNCHANGED <<tries, asked, ready, deadline, cancelled, open, stops, faults>>

DeadlinePasses ==
  /\ main \in Draining \ {"shutdown"} /\ ~deadline
  /\ deadline' = TRUE
  /\ WorkFrame
  /\ UNCHANGED <<main, tries, asked, ready, listening, cancelled, open, stops, faults>>

(* Mistake: Shutdown under a context without a deadline. *)
HTTPDrainedWithoutDeadline ==
  /\ main = "drainHTTP" /\ main' = "awaitRelay"
  /\ \A r \in Requests : ~Active(r)
  /\ WorkFrame
  /\ UNCHANGED <<tries, asked, ready, listening, deadline, cancelled, open, stops, faults>>

HTTPDrained ==
  /\ main = "drainHTTP" /\ main' = "awaitRelay"
  /\ deadline \/ \A r \in Requests : ~Active(r)
  /\ WorkFrame
  /\ UNCHANGED <<tries, asked, ready, listening, deadline, cancelled, open, stops, faults>>

(* relayDone, then cancelRepromiseConsumer. *)
RelayAwaited ==
  /\ main = "awaitRelay" /\ main' = "awaitConsumer"
  /\ deadline \/ relay = "stopped"
  /\ cancelled' = TRUE
  /\ WorkFrame
  /\ UNCHANGED <<tries, asked, ready, listening, deadline, open, stops, faults>>

(* Mistake: the consumer is cancelled and not waited for. *)
ConsumerNotAwaited ==
  /\ main = "awaitConsumer" /\ main' = "closeReader"
  /\ WorkFrame
  /\ UNCHANGED <<tries, asked, ready, listening, deadline, cancelled, open, stops, faults>>

(* repromiseConsumerDone. *)
ConsumerAwaited ==
  /\ main = "awaitConsumer" /\ main' = "closeReader"
  /\ deadline \/ consumer = "stopped"
  /\ WorkFrame
  /\ UNCHANGED <<tries, asked, ready, listening, deadline, cancelled, open, stops, faults>>

(* The deferred calls, last in first out: repromiseConsumer.Close and      *)
(* cancelRepromiseConsumer, then closeAdapters with the sink and the pool. *)
(* pool.Close refuses new connections, then waits for the ones in use.     *)
CloseNext ==
  /\ \/ main = "closeReader" /\ main' = "closeSink" /\ open' = open \ {"reader"}
     \/ main = "closeSink" /\ main' = "closePool" /\ open' = open \ {"sink"}
     \/ main = "closePool" /\ main' = main /\ "pool" \in open /\ open' = open \ {"pool"}
  /\ cancelled' = TRUE
  /\ WorkFrame
  /\ UNCHANGED <<tries, asked, ready, listening, deadline, stops, faults>>

(* The process is gone, and with it its goroutines and connections. *)
Die ==
  /\ main' = "exited" /\ listening' = FALSE
  /\ request' = [r \in Requests |-> IF Active(r) THEN "ended" ELSE request[r]]
  /\ relay' = "stopped" /\ batch' = {} /\ marked' = {}
  /\ consumer' = "stopped"
  /\ UNCHANGED <<tries, asked, ready, deadline, cancelled, open, fetched, offset, applied,
                 dlq, conflicted, outbox, topic, faults>>

Exit ==
  /\ main = "closePool" /\ "pool" \notin open
  /\ relay # "pass" /\ \A r \in Requests : request[r] # "tx"
  /\ Die /\ UNCHANGED stops

(* SIGKILL, a panic, or a signal while nobody has asked for signals. *)
Kill == main # "exited" /\ Die /\ Stop

----------------------------------------------------------------------------
Boot == BootSucceeds \/ BootFails \/ Restart
Serve(r) == Accept(r) \/ BeginTx(r) \/ EndTx(r) \/ Respond(r)
Relay == \/ RelayClaim \/ RelayCommit \/ RelayPassCancelled \/ RelayStops
         \/ \E e \in Requests : RelaySend(e)
Consumer == \/ Fetch \/ Handle \/ HandleConflicts \/ HandleFails
            \/ DeadLetter \/ DeadLetterFails
            \/ CommitOffset \/ CommitFails \/ ConsumerStops
Drain == Wake \/ Shutdown \/ HTTPDrained \/ RelayAwaited \/ ConsumerAwaited \/ CloseNext \/ Exit

Next ==
  \/ Boot \/ Relay \/ Consumer \/ Drain
  \/ Signal \/ ListenFails \/ DeadlinePasses \/ Kill
  \/ \E r \in Requests : Serve(r)

(* The goroutines of the process go on while they can, the timer fires, a  *)
(* transaction ends because every call in it has a deadline of its own.    *)
(* A client may be slow for ever: reading and responding are not fair.     *)
Fairness ==
  /\ WF_vars(BootSucceeds) /\ WF_vars(Restart) /\ WF_vars(Drain) /\ WF_vars(DeadlinePasses)
  /\ WF_vars(RelayClaim) /\ WF_vars(RelayCommit) /\ WF_vars(RelayPassCancelled) /\ WF_vars(RelayStops)
  /\ \A e \in Requests : WF_vars(RelaySend(e))
  /\ WF_vars(Consumer)
  /\ \A r \in Requests : WF_vars(EndTx(r))

Spec == Init /\ [][Next]_vars /\ Fairness

----------------------------------------------------------------------------
TypeOK ==
  /\ main \in {"migrate", "ping", "serving", "exited"} \cup Draining \cup Closing
  /\ tries \in 0..(BootRetries - 1)
  /\ asked \subseteq {"signal", "failed"}
  /\ {ready, listening, deadline, cancelled} \subseteq BOOLEAN
  /\ open \subseteq Adapters
  /\ request \in [Requests -> {"none", "reading", "tx", "responding", "ended"}]
  /\ relay \in {"idle", "pass", "stopped"}
  /\ batch \subseteq Requests /\ marked \subseteq batch
  /\ consumer \in {"idle", "handling", "failed", "handled", "stopped"}
  /\ fetched \in 0..Messages /\ offset \in 0..Messages
  /\ {applied, dlq, conflicted} \subseteq SUBSET (1..Messages)
  /\ outbox \subseteq Requests /\ topic \subseteq Requests
  /\ stops \in 0..MaxStops /\ faults \in 0..MaxFaults

(* The point of draining before closing: a process that was asked to stop  *)
(* and stops in time closes nothing that is still used.  When the adapters *)
(* go, every accepted request has been answered and the relay and the      *)
(* consumer have returned, so that nobody is cut off when it exits.        *)
QuietBeforeClose ==
  "failed" \notin asked /\ ~deadline /\ open # Adapters =>
    /\ \A r \in Requests : ~Active(r)
    /\ relay = "stopped" /\ consumer = "stopped"

(* No message is lost by stopping: the committed offset covers a message   *)
(* only when its re-promise is committed, it is on the dead-letter topic   *)
(* or handleMessage gave it up after a version conflict, wherever between  *)
(* these steps the context was cancelled, the reader closed or the process *)
(* killed.                                                                 *)
OffsetsFollowEffects == 1..offset \subseteq applied \cup dlq \cup conflicted

(* A process that has been told to stop, or has lost its listener, exits:  *)
(* slow clients, a relay or a consumer in the middle of something, and     *)
(* connections that pool.Close waits for delay it, and do not prevent it.  *)
StopsInTheEnd == asked # {} ~> main = "exited"

(* Stopping, at any moment and in any way, loses no work: what a request   *)
(* has committed is on the topic in the end, sent by this process or the   *)
(* next, and every message is committed or was left by a conflict.         *)
WorkSurvivesRestarts ==
  /\ \A r \in Requests : r \in outbox ~> r \in topic
  /\ <>[](\A m \in 1..Messages : m <= offset \/ m \in conflicted)

----------------------------------------------------------------------------
(* What the repository's comments say of the code, and the code does not do. *)

(* run(): "SetNotReady is called as the FIRST step of the shutdown         *)
(* sequence below, before the HTTP server itself stops accepting           *)
(* connections".  A listener closed by the shutdown sequence belongs to a  *)
(* process that reports itself not ready.                                  *)
NotReadyBeforeClosing == main \in Draining /\ ~listening /\ "failed" \notin asked => ~ready

(* drainUnderShutdown: "Let the relay finish its in-flight pass so an      *)
(* event committed by a request that completed just before shutdown is not *)
(* stranded until the next pod boots".                                     *)
NotStranded ==
  main = "awaitConsumer" /\ ~deadline /\ "failed" \notin asked => outbox = {}
=============================================================================
