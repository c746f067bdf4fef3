# Order management: a TLA+ verification project

order-management takes orders into a warehouse, reserves stock for their lines
in another service (inventory-storage), promises a departure for them, releases
them to the floor (wes-work-planning, which listens on Kafka), and keeps
analytics about all of it. This directory models the parts of it that keep or
change state, checks them with TLC on small instances, and proves their safety
properties with TLAPS for every instance. Paths below are relative to the
repository.

## 1. The system

### Components, their state and operations

| Component | State it keeps | Operations |
|---|---|---|
| Order aggregate, `internal/domain/order` | lines with status, reservation id, promise group; intake intent; version | `New`, `Allocate`, `RetryAllocate`, `ReconfirmReservation`, `LoseReservation`, `MarkBackordered`, `Release`, `Cancel`, `SetPromiseGroups`; the checks `EnsureReleasable` (BR3) and `EnsureCancellable` (BR6); the derived `Status` |
| Use cases, `internal/application/usecases` | a private copy of the aggregate per request | `ReceiveOrder`, `RetryAllocation`, `ReleaseHeldOrder`, `CancelOrder`, `RepromiseOrder`; the shared flow `allocateAndRelease` |
| Repository and unit of work, `adapters/outbound/postgres`, `internal/pgtx` | `orders`, `order_lines`, `order_promise_groups`; the connection pool | version-guarded `Save`, `FindByID` in three statements, `Execute` (begin or join, commit, roll back) |
| inventory-storage client | none here; reservations and cached answers at the other end | `Reserve` under the key (order, line, attempt), `RevokeReservation` |
| Outbox publisher and relay | `outbox_events` | `Publish` inside the use case's transaction; `RelayOnce`: claim, send, mark |
| Idempotency-Key middleware, `adapters/inbound/http` | `idempotency_keys` | insert the key, run the handler, record, commit, replay |
| Re-promise consumer, `adapters/inbound/kafka` | `repromise_processed_events`, the group's offset, the dead-letter topic | fetch, decode, handle with retries, dead-letter, commit |
| Analytics projector | `analytics_consumed_events`, `analytics_processed_events`, the rollup tables, the group's offset | read, mark, claim and count |
| Catalogue, CPT schedule and path capacity caches; boot of `cmd/order` | an in-memory map each, watermarks, a readiness gate | start, replay, become ready; the boot waits for all |
| Promise policy, path selection, catalogue lookup, CPT arithmetic | none of their own; they read the three caches, each read under its own lock | promise groups, feasibility by a deadline, path by prefix and eligibility, next cutoffs of a weekly schedule |
| The process of `cmd/order`, `internal/bootretry`, readiness | where `run()` is, the contexts it cancels, its listener, open adapters, the readiness gate | boot with retries, serve, wake on a signal or an error, drain under a deadline, close, exit |
| Circuit breakers | counters of the gobreaker library | |
| HTTP API, MCP server, encoders, reports, web front end | none | |

### How they interact

An HTTP request runs a use case on its own copy of the order. The use case calls
inventory-storage line by line, opens a unit of work, saves the copy if the
stored version is still the one it loaded, and inserts its events into the
outbox in the same transaction. `POST /orders` runs inside the transaction of
the idempotency middleware, which the use case's own units of work join. The
relay moves outbox rows to Kafka. wes-work-planning learns which lines are
released from these events alone. Fulfillment events come back through the
re-promise consumer, which calls `RepromiseOrder`. The analytics topic feeds the
projector. Promises are computed from the three caches.

### What is hard

- Requests on one order interleave with minutes of network calls between load
  and save, and the checks (BR3, BR6, held, backordered) run on the loaded copy.
- inventory-storage is not part of the transaction. A call may time out and take
  effect later, a reservation may expire, a rolled-back pass leaves reservations
  and cached answers behind.
- Everything on Kafka is delivered at least once, and processes die between a
  send and the commit that records it.
- Duplicate requests run at the same time on several connections of a small pool.
- The boot must not serve from caches that are empty or half replayed, and must
  not wait for a message nobody will publish.
- Routing and promising read three caches many times for one order, and the
  consumers of these caches write them in between.
- A process is asked to stop while requests, the relay and the consumer are each
  in the middle of something, and everything they use is closed in the end.

The hazards are listed one by one, at their lines, in PROJECT.json.

### What makes each component correct

- Orders: the stored order and what was announced about it change only by whole,
  legal steps. A ship-complete order ships together; a held order waits; every
  released line is announced once; promises and reservations belong to lines
  that have them.
- Outbox: what is committed is sent, what is marked was sent, nothing else is
  sent, and in order.
- Idempotency: one order per key, and everyone who asks is told the same.
- Consumers: an event takes effect at most once, no message is lost by being
  committed too early, and no message blocks the rest.
- Caches: no traffic before the replay; the boot completes; the cache ends up
  agreeing with its topic.
- Routing and promises: the fastest path that admits the line, the earliest
  departure its lines can make (the latest in time under a deadline), and an
  answer the order can live with even if the caches changed half way.
- The process: nothing is closed under someone who is in time, offsets never run
  ahead of effects, it exits, and what was committed is sent by it or the next.

## 2. The modules

### Order

The aggregate as a record, its methods as operators. A method that can return an
error is split in two: `CanAllocate` is the state it demands, `Allocate` what it
does. A line is its status, reservation id (0 for Go's nil) and the promise of
its group. What is fixed at intake is not part of the record: SKU and quantity are
the constant `Goods` of OrderLifecycle, path and gift wrap are in IntakePlanning.

`SetPromiseDate` is what the promise policy may answer, by its shape alone: one
promise for a ship-complete order, one per line for a partial one, an on-time one
or none when there is a deadline. OrderLifecycle uses it, and IntakePlanning
computes the answer and shows that it is one of these.

### OrderLifecycle

One order and any number of requests, each served once. The variables are the
stored `row` and committed `outbox`; per request its stage `pc`, use case `op`,
private copy `ord`, the lines its loop still has to visit `todo`, and the events
inserted by its open transaction `tx`; and inventory-storage's `reservations`,
`answers` (responses cached by Idempotency-Key) and `late` (reserve calls given
up by their caller and still travelling).

| Code | Actions |
|---|---|
| `FindByID` | `LoadHeader`, `LoadLines`, and the read of the groups at the start of each use case |
| `ReceiveOrder`, `RetryAllocation`, `ReleaseHeldOrder`, `CancelOrder`, `RepromiseOrder` | the actions of those names, up to the first call or the Save |
| `allocateLines` | `ReserveLine` per line, `ReserveFails` for a hard failure (salvage, or a commit without Save) |
| `setPromiseDate` and the held branch | `AllocationDone` |
| `reconfirmAllocatedLines` | `ReconfirmLine`, `ReconfirmFails` |
| `releaseAllocatedLines`, `publishOrderAllocationOutcome` | `ReleaseLines` |
| revocation loop, `Cancel` | `RevokeReservation`, `RevokeFails`, `CancelLines` |
| `Save` and the commit | `Save`; one step, because the row lock is held to the commit |
| a dying process, a failing statement | `Crash` |
| inventory-storage (external) | `InventoryReserve`, `InventoryRevoke`, `ExpireReservation`, `LateReserve` |

The key of `answers` has the line in it, the reservation has not: a reserve call
names the order, a SKU and a quantity (client.go, `reserveRequest`), and
inventory-storage hands out the active reservation it has for these, or a new one.
`Goods` gives what each line asks for. `New` compares no lines, so that two lines may
ask for the same, and such lines share a reservation.

The first allocation pass of an order is seen by nobody until the middleware's
transaction commits. `Seen(r)` is the row as the transaction of r sees it.

The answer of the promise policy is any answer of the right shape (`SetPromiseDate`
of Order). That the policy has no others is shown in IntakePlanning
(`AnswersFitLifecycle`).

### OrderContract

What the service promises to those who only see the stored order and the
announcements: an order is taken in once; a pass moves lines along legal edges,
releases a ship-complete order as a whole or not at all, and announces exactly
the lines it releases; a cancellation cancels every line of an order that has
none released. Three atomic actions, no requests, no copies, no versions.

### OutboxRelay, IdempotencyKey, RepromiseConsumer, AnalyticsProjector, ReplayCaches

One module each, named after the component; the comment at the top of each says
what is kept and what is left out. OutboxRelay has use-case transactions that draw ids
before they commit, and any number of relay processes. IdempotencyKey has
requests, keys, bodies and a pool of `MaxConns` connections; the handler is one
step, since nothing it does is visible before the commit. RepromiseConsumer is
one partition and one consumer with restarts. AnalyticsProjector is one partition and a
group of instances, an old one of which may still be busy when the partition has
moved. ReplayCaches is a boot sequence over any number of caches, which may share
topics.

### PathSelection, CPTSchedule, IntakePlanning

PathSelection and CPTSchedule hold the pure parts as operators. A path id is the
sequence of its parts, so that "a prefix followed by a dash or by nothing" is a
prefix of sequences. Time is counted in slots, `DayLength` of them a day. A
schedule lists its cutoffs; `Occurrences` builds them day by day in the zone of the
schedule, as the code does, and `computeNextCutoffs` is the set of the answers the
sort may give, since `sort.Slice` promises no order among equal instants. `FallsAt`
asks of an instant whether a cutoff falls on it, and with it `FallingAfter` is the
reference.

IntakePlanning is one order on its way from the request to its promise, beside
the consumers of the three caches.

| Code | Actions |
|---|---|
| `buildDomainLines` | `productAttributes`, `SelectPath`, `CheckLine`, for each line; the catalogue is read in the second and again in the third |
| `setPromiseDate`, `PromiseGroups`, `FeasibleBy` | `Allocate` (which lines the pass reserved is free), then for each set of lines that is promised together `NextCutoffs` and `LineAgainstWindow` for each line and window |
| `handle` of the three consumers | `applyUpsert`, `applyDeactivated`, `ScheduleChanged`, `CapacityChanged` |

`todo` holds the allocated lines that have no answer yet, `windows` the windows not
yet tried for the next of them, `fitting` the lines found to make the first window,
and `best` the promise FeasibleBy would return now, or nothing. Under a deadline all
lines are tried together and a window after the deadline is passed over.

A promise carries, besides its instant, the location its `time.Time` points to: a
new one for every call of `time.LoadLocation`, except for UTC. Go compares it when
a promise is used as the key of a map, and `PromiseGroups` does so.

### ServiceProcess

The process of `cmd/order` from its boot to its exit and the next process after
it. `main` is where `run()` is; beside it are HTTP requests (reading, in their
transaction, responding), the relay (idle, in a pass) and the re-promise consumer
(idle, handling, failed, handled). The outbox, the topic, the group's offset, the
applied messages and the dead-letter topic survive the process. Rows and messages
are simpler here than in OutboxRelay and RepromiseConsumer; the question is who
is at work when what is cancelled or closed.

| Code | Actions |
|---|---|
| `buildRepoAdapters`, `bootretry` | `BootSucceeds`, `BootFails`; `Restart` is the supervisor |
| `serveAndShutdown` | `Signal`, `ListenFails`, `Wake` |
| `drainUnderShutdown` | `Shutdown`, `HTTPDrained`, `RelayAwaited`, `ConsumerAwaited`, `DeadlinePasses` |
| deferred calls, in reverse order | `CloseNext` (reader, sink, pool), `Exit` |
| a request under the middleware | `Accept`, `BeginTx`, `EndTx`, `Respond` |
| `OutboxRelay.Run` under `relayCtx` | `RelayClaim`, `RelaySend`, `RelayCommit`, `RelayPassCancelled`, `RelayStops` |
| `RepromiseConsumer.Run` under its context | `Fetch`, `Handle`, `HandleConflicts`, `HandleFails`, `DeadLetter`, `DeadLetterFails`, `CommitOffset`, `CommitFails`, `ConsumerStops` |
| SIGKILL, a panic | `Kill` |

`MC...` modules instantiate these for TLC; `...Proofs` modules hold the theorems.
Definitions commented as a mistake are plausible bugs in the definition that
follows them. They are used by nothing in the specification; substituted for that
definition they make the property named in PROJECT.json fail, which shows that
the property depends on it.

## 3. What TLC checks

| Run | Instance | Shows |
|---|---|---|
| order_races | 2 lines, 3 requests, all intents, all use cases, crashes; 227,549 states | BR3 on the stored order; lines announced exactly when released and once; held orders wait; every allocated line has a promise and a ship-complete order one promise; deadlines are kept until a re-promise; a change carries its events, and OrderRepromised means the promise moved; the refinement of OrderContract; the inductive invariant |
| order_reservations | 3 lines, the first two of the same goods, 3 requests, all intents, crashes; 1,397,581 states | recorded reservations are for the SKU and quantity of their line, and lines of the same goods may share one; a cancelled order holds none that is active; a line is released only on a reservation confirmed by the releasing pass |
| relay | 2 use-case transactions on 2 orders, 3 rows, 2 relays, batches of 2, 1 fault; 253,683 states | only committed rows are sent; marked rows were sent and are not sent again; order preserved while relays do not overlap; every committed row is published |
| repromises | 3 messages, 2 event ids, 3 attempts, 1 restart; 143,912 states | an event takes effect at most once; a committed message was applied, ignored or dead-lettered; the partition is read to its end |
| idempotent_intake | 3 requests, 2 keys, 2 bodies, 2 connections; 84,877 states | one order per key; retries agree; a replay always finds the outcome; every request ends |
| projector | 2 instances, 3 messages, one id of every kind, 2 faults; 68,658 states | the rollup counts each claimed event once and whole; a bad message never stops the projector |
| caches | 3 caches, 2 topics, 3 partitions, 2 messages, 1 fault; 191,590 states | serving means replayed; the boot completes; caches converge |
| shutdown | 2 requests, 2 messages, 2 boot attempts, 1 stop, 1 fault; 247,982 states | a process that stops in time closes nothing in use; offsets follow effects; a process asked to stop exits; committed events are sent and messages worked off across restarts; the boot keeps to its budget |
| intake | orders of 1 and 2 lines, every catalogue of 3 paths in 5 definitions, among them ids in no family, in another's and in a shared one, two carriers in and out of UTC, 3 windows, 1 change of a cache at any read; 425,227 states | a line is routed right if the catalogue stands still for it, promises are right when nothing changes, and have the right shape whatever changes |

**Why these bounds are enough.** Two lines are the smallest order on which
ship-complete, partial release and salvage differ. Three requests are intake and a
race of two on the same version. In order_reservations two of three lines share
their goods and one has goods of its own, so that reservations can be confused as
well as shared. FourRequests.cfg is the same question for 2 lines of different goods
and 4 requests, where a cancellation races a retry and a release; it holds too
(571,976 states). Two messages about one key, or three on one partition, make
overwriting, duplication and overtaking possible. Two connections are the smallest
pool in which a replay can find all others taken. Faults are bounded because each
repeats what one can do: two of them reach a failure during the recovery from a
failure. In shutdown one fault is enough for that, because a cancelled context makes
every further step fail for free; a process is stopped once, since nothing but the
outbox, the topics and the offset is left of it for the second stop to meet. In
intake one change of a cache falls between any two reads of one order; a second
would only repeat it for a later pair. Three windows reach the day on which both
carriers leave at the same instant and end there, so that ties and the end of the
horizon both occur; the clock values lie on both sides of the local midnight of the
zone that is not UTC.

**Deadlock.** Requests are served once and topics are finite, so every instance
may come to rest: the runs do not check for deadlock. Where resting too early
would be an error a liveness property says so.

**Symmetry** is used for requests in the order runs only, which check no
liveness.

### Fairness

- relay: `Run` loops until the process stops, so a pass that can be started or
  committed is (weak). `Send` is strongly fair: a broker that is asked again and
  again accepts in the end. Use cases are not fair.
- repromises: `Run` returns only when its context is done; fetching, decoding and
  one attempt of the handler are weakly fair, the dead-letter write and the
  commit strongly, for the same reason as above. The handler may always fail.
- idempotent_intake: a request that can go on does (weak). No timeout is needed
  for `EveryRequestEnds`, nor assumed.
- projector: reading and handling are weakly fair. Nothing restarts a consumer
  whose reader failed, and no fairness says so.
- caches: the boot steps and the readers are weakly fair; `WaitTimesOut` is, since
  `waitReady` has a deadline and the process is restarted by its supervisor.
- shutdown: the goroutines of the process go on while they can, the timer of
  `shutdownCtx` fires, and the supervisor starts the next process (all weak). A
  transaction that was begun ends, as every call in it has a deadline. Clients
  are not fair: one may never finish sending its body or reading its answer.
- intake has no liveness property and states no fairness.

### Where the code and its comments part

Each of the first three has a run that TLC ends with a counterexample.

- doc_cancel: `CancelOrder` checks BR6 on its copy and revokes reservations before
  its Save. When a pass releases the order in between, the Save fails and the
  released lines have lost their stock.
- doc_conflict: a message left uncommitted after a version conflict is passed over
  when the next one is committed.
- doc_groups: lines that make the same departure are meant to share a promise
  group. `PromiseGroups` looks for them in a map keyed by the promise, whose
  `time.Time` is compared with its location; outside UTC no two lines meet. An
  order whose lines leave together is then reported as a split shipment
  (analytics_publisher.go, `hasSplitShipment`). The tests of the policy use UTC.

Further counterexamples, kept with their configurations; `tlc -config X.cfg M`
shows each:

| Configuration, module | Comment | What the code does |
|---|---|---|
| `DocRetriable.cfg`, MCOrderLifecycle | receive_order.go:71, an operator "can always drive further progress via RetryAllocation" | a hard failure at intake leaves the lines Pending, and `RetryAllocation` refuses an order without Backordered lines |
| `DocRelayOrder.cfg`, MCOutboxRelay | outbox_relay.go:32, ordering within a topic is preserved | two relays reorder the events of an order; SKIP LOCKED keeps them from the same row, not from overtaking |
| `DocExactlyOnce.cfg`, MCAnalyticsProjector | analytics_consumer.go:2, exactly once per id | the offset is committed and the event marked before it is counted; a failed count is logged and never made up for |
| `DocReadiness.cfg`, MCServiceProcess | main.go and readiness.go:26, not-ready is set first | `SetNotReady` is never called; the listener closes while `/readyz` answers ready |
| `DocStranded.cfg`, MCServiceProcess | main.go:416, an event committed just before shutdown "is not stranded until the next pod boots" | the signal itself cancels the relay, before the requests have been drained |

### Observations without a run

- A pass that fails hard after a 409 and before any allocation commits its
  OrderLineBackordered row without saving the order (`ReserveFails`, the branch
  without `AnyAllocated`; allocation.go:379).
- A rolled-back pass leaves the version, and with it the Idempotency-Key of its
  reserve calls, as it was. If inventory-storage answers a repeated key with its
  old answer, the next pass may reconfirm a line on a reservation that has lapsed
  meanwhile.
- `RepromiseOrder` does not look at requiredShipBy. `DeadlineKept` is therefore
  stated up to the first re-promise.
- A cache whose reader fails after the boot stays as it is while the process
  serves (wiring.go); `CachesConverge` exempts it.
- With a wired and empty catalogue `Select` answers the default path and
  `IsActive` then refuses it, although path_selection.go:69 calls missing data
  "never a rejection trigger". `StableRouting` allows for it.
- The id and the prefix of a definition are independent. `PICK` revised to the prefix
  `pick-zone-a` (kafkacatalog/consumer_test.go) is still what `Select` answers, and
  `IsActive` then refuses `PICK` as unknown, or finds it in the family of another
  definition, whose eligibility was not looked at and whose cycle time is then used.
  `StableRouting` names the case. Two definitions with one prefix are told apart by
  the order of a Go map; `StableAnswer` binds only where either gives the same.
- Two lines of an order with the same SKU and quantity are given one reservation, so
  that the stock of one line only is held. When the reservation lapses, or is revoked
  for the first of them, it is gone for both.
- A line that names its path is not checked against the eligibility of that path.
  A classification that cannot be had counts as no tags, and so a path that
  excludes hazmat may get a hazmat line.
- The windows of a schedule name paths exactly, while the catalogue matches
  families by prefix: `pick-1` of the family `pick` makes no window that lists
  `pick`.
- Capacity is compared line by line: two lines of one order may each fit into
  units that are enough for one of them.
- A failing listener ends the process without a drain: requests and relay lose
  their connections, the consumer its reader. Nothing committed is lost
  (`OffsetsFollowEffects`, `WorkSurvivesRestarts`).

## 4. What is proved

The theorems hold for every value of the constants under the named assumptions of
the modules, which TLC evaluates in every run: lines are numbered from 1 and there
is at least one, and each asks for some goods, of which nothing is assumed; promises exist and `NoPromise` is not one; use cases, intents and
on-time promises are what their names say; pools, batches and retry budgets are
positive; lengths and bounds on faults, restarts and stops are natural numbers;
`Caches` is a sequence of caches; `None` and `Junk` are none of the values they stand
beside; requests have lines, definitions are finitely many and have ids that are ordered,
of their prefixes nothing is assumed, lead times are positive, and the local time
of a cutoff is a time of day. The bounds on faults and the like are themselves arbitrary, so a theorem
holds for any number of them.

Every safety invariant and every action property of the passing runs has a theorem.
Few of them are inductive. Below is what had to be added to each, and why. Each
strengthening was checked by TLC on the instance of its run before it was proved.

### The order

All of it is in OrderLifecycleProofs. `TypeOK` is inductive as it stands (`TypeCorrect`). Each
action has a step; lemmas give the types of the aggregate's methods and what they
leave alone, so that no action needs to open them.

`StockInv` is about reservations. A reservation recorded on the row was recorded on
a copy first, from an answer that may be cached, so the cached answers and every
copy must record only reservations of the goods of their lines. Stale copies are
included: the version plays no part in it, and a torn read mixes two orders that both
account for their stock, line by line, as the lines are read in one statement. A
Pending or Backordered line records none and an Allocated or Released line one, or
else a retry could overwrite an active reservation and a cancellation overlook one. A
copy in the revocation loop has given back the lines it has visited. All of it
outlives every step of inventory-storage, since a reservation is never forgotten,
changes its goods or becomes active again. Which line a reservation was first made for
plays no part, so lines of the same goods may share one. From it follow
`ReservationsFitGoods` and `CancellationFreesStock`.

BR3 on the stored order is not inductive: what a request
will write is decided on its copy. `VersionGuardSuffices` is the strengthening. It
says that a copy at the version its transaction sees is a legal pass or
cancellation in progress of the stored order, with just the announcements that go
with it; a copy at an older version may be anything, as Save rejects it. This is
why the torn reads of `FindByID` do no harm: the header, with the version, is read
first, so a copy that mixes two versions carries the older one. The invariant is
preserved because a commit raises the version, which turns every other copy into
an older one. From it follow

- `GuardSuffices`: `Spec => []VersionGuardSuffices`;
- `ShipsTogether`: BR3 on the stored order;
- `AnnouncedOnce`: a line is announced exactly when released, once;
- `Refinement`: every step is a step of OrderContract or leaves what it sees alone.

`PromiseInv` is about promises. A copy that reconfirms or saves has promises for all
it has allocated, since `setPromiseDate` comes before both and in salvage too; every
copy of a ship-complete order has at most one promise; and a promise that misses the
deadline is the work of `RepromiseOrder`, whose event is in the outbox or in the
transaction that is about to save it. From it follow `PromisesCover` and
`DeadlinesHold`.

`PassInv` follows a pass from its load to its Save. What it has reserved itself, and
what it has reconfirmed so far, was answered under the attempt of this pass, which is
the version of its copy; a held order gets to the release leg only in
`ReleaseHeldOrder`. A copy at the version of the row can be compared with the row: its
events tell what became of each line, the lines it releases are answered, and
OrderRepromised is told only of promises that differ. As Save accepts no other copy,
this is what it commits. From it, with the two invariants above, follow
`HeldOrdersWait`, `ReleasesAskAgain` and `EventsWithChanges`; the last two are action
properties.

### Around it

**OutboxRelayProofs**, `RelayInv`. A row belongs to a transaction that has begun and
is about its order, and the transactions that wrote rows about one order and were
saved did so one after the other, by the version guard. The rows a relay holds are
committed, unpublished and no other relay's; those it has sent are on the topic. As
long as no two relays have overlapped, no row is on the topic before an earlier
committed one of its order, and none can still be committed ahead of it. A batch is
no larger than `BatchSize`: a row is in it only if fewer than that many precede it, so
its greatest id bounds its number. From it follow `TypeCorrect`, `NothingInventedOrLost`, `NoResend` (an action property) and
`TurnsKeepOrder`.

**IdempotencyKeyProofs**, `KeyGuardsOrder`. It ties each committed order to the row of
its key, each open transaction past its insert to the key it holds, and each answer
to the row it was read from or recorded in. From it follow `OneOrder`,
`RetriesToldTheSame` and `ToldOrders`, and with the types `ReplayAlwaysAnswers`: a row
is committed only with its outcome, and the one who holds the key is not replaying.
`KeyGuardsOrder` and `ToldOrdersExist` are proved and not among the properties of a
run.

**RepromiseConsumerProofs**, `ConsumerInv`. The processed marks are exactly the events
that took effect, and each took effect once: mark and effect commit together. Every
message before the one in hand is accounted for or was left by a version conflict, and
the one in hand is accounted for before it is committed. From it follow `TypeCorrect`,
`RepromisedOnce` and `NothingSkipped`.

**AnalyticsProjectorProofs**, `ProjectorInv`. What an instance is applying is an event,
and the columns are the cardinalities of the sets of claimed events that count in
them; a claim and its counts commit together. From it follows `CountedOnce`.

**ReplayCachesProofs**, `BootInv`. A cache has seen everything below its position, and
all that existed at its start on each partition whose watermark it no longer waits
for; it is ready only when it waits for none; the boot has passed only caches that are
ready, and none before all were started. From it follows `ReplayBeforeTraffic`.

**ServiceProcessProofs**, `ProcessInv`. `Progress` says what the consumer has left
behind in each of its states, so that a cancelled handler is not taken for a handled
message. `Phases` says what `run()` may rely on in each phase: while no deadline has
passed and the listener has not failed, each wait of the drain has ended with what it
waited for at rest, and nothing of it starts again. From it follow `TypeCorrect`,
`ClosesQuietly` and `NoMessageLost`.

### Routing and promises

**IntakePlanningProofs** has two parts.

The first is about the operators, without any state. `DayAndTime` and the lemmas after
it are the calendar. With them `OccurrencesFall` and `FallingOccurs` show that the
walk over the local days finds a cutoff at an instant exactly if one falls there
(`FallsAt`), within the days searched. `NextCutoffsEarliest` says what
`computeNextCutoffs` answers for any schedule, zone, instant and n: cutoffs in the
order of their instants, and among them each one that is among the n first however
ties are sorted; it counts, as a shorter answer would have more cutoffs before it than
there are places. `CutoffsAnswered` says that there always is an answer: sorted
beginnings of the occurrences can be extended by the earliest one left, and a least
length without a sorted beginning cannot exist. Both replace an induction over
sequences by a least element (`SmallestNat`), the form in which this prover can do it.
`BestExists` and `SelectAnswers` do the same for path selection: among finitely many
candidates with ids of their own one is better than all others.

The second is about the steps. `ShapeInv` ties the loop to what it has done: lines are
routed in order and each has its tags; `todo` and the lines answered partition the
allocated ones; windows lie ahead of the clock, what was found so far is in time, and
an order whose lines go together is answered once, for all of them. It holds whatever
the caches do, and `TypeCorrect` and `AnswersFit` follow from it. `AnswersFit` is the
link between the two models of the promise policy: what IntakePlanning computes is
among the answers `SetPromiseDate` gives, whichever of the allocated lines an earlier
pass has released. OrderLifecycle takes any of these, so that its theorems about
promises do not rest on a guess about the policy. That the lead-time
fallback lies ahead rests on positive lead times, which `NewLeadTimePolicy` sees to.

`RoutingInv` speaks of a catalogue that has not changed since the routing of the
line at hand began, `StillInv` of caches that have not since the computation of the
promise did. The first adds to `StableRouting` that the path selected and not yet
checked is one of the right ones; nothing is assumed of the catalogue, and whether
the path is active is what the check finds out. The second keeps for the windows
passed so far why they were: every cutoff in sight that the lines at hand can make
is among the windows left, or is no better than what was found; a cutoff counts if
every definition the lookup may find lets the lines make it. The line at hand is
looked at after others have passed the same window, so it also says that these fit.
From them follow `RoutingStable` and `AnswerStable`.

### Left to TLC

- Liveness: `EventuallyPublished`, `PartitionNeverBlocked`, `EveryRequestEnds`,
  `NeverWedged`, `BootCompletes`, `CachesConverge`, `StopsInTheEnd`,
  `WorkSurvivesRestarts`. They rest on fairness, and so on ENABLED, which the prover
  does not handle.

## 5. What is not modelled

- The circuit breakers. To the order an open breaker is one more hard failure, to
  routing one more missing classification. When it opens, how it half-opens and
  what it counts is decided by the gobreaker library, which is not in the
  repository; a model of it would be a model of a guess.
- Summer time in CPT schedules. What `time.Date` makes of a local time that does
  not exist or comes twice is decided by Go's time package.
- The wiring without Postgres (in-memory repository, direct publishers, no
  middleware), made for development.
- HTTP decoding and error mapping, MCP tools, reports, encoders, logs, metrics,
  traces, the web front end, charts and documentation: no state of their own.
- The size of things: quantities, KPI values, hour buckets, backoff times.

## 6. Plan

Done, in this order: Order and OrderLifecycle with OrderContract; OutboxRelay;
RepromiseConsumer; IdempotencyKey; AnalyticsProjector; ReplayCaches; the proofs of
section 4; ServiceProcess; PathSelection, CPTSchedule and IntakePlanning.

The proofs of the other safety properties followed, and last those of IntakePlanning,
for which CPTSchedule and IntakePlanning were restated with sets where an order was
irrelevant, and the shape of a promise moved to Order, where both models can use it.

What could come next:

1. Liveness by hand-made ranking arguments: that the drain of ServiceProcess and the
   search of IntakePlanning take a bounded number of steps of their own is a safety
   property of a step counter.
2. Zones with summer time, once the behaviour of `time.Date` at the two changes of a
   year is fixed as an external definition.
3. The circuit breakers, once the version of gobreaker is part of the repository.
