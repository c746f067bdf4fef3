---------------------------- MODULE ReplayCaches ----------------------------
(***************************************************************************)
(* The boot of cmd/order over its local caches: the process-path           *)
(* catalogue, the CPT schedules and the path capacities                    *)
(* (internal/adapters/outbound/kafkacatalog, kafkacptschedule,             *)
(* kafkapathcapacity, cmd/order/wiring.go).  Each cache replays its topic  *)
(* from the first offset under a consumer group of its own, and the        *)
(* process accepts traffic only after all of them have caught up with what *)
(* their topics held when they were started.                               *)
(*                                                                         *)
(* A message is what it writes: which cache it is for, the key and the new *)
(* value (Gone for a deactivated path).  A message for no cache stands for *)
(* every message a handler ignores or cannot decode.  Messages about one   *)
(* key are published to one partition.                                     *)
(*                                                                         *)
(* Left out: what the values are, the retries of the constructors, which   *)
(* only delay the start, and logging.                                      *)
(***************************************************************************)
EXTENDS Integers, Sequences, FiniteSets

CONSTANTS
  Caches,       \* the caches, in the order they are started and waited for
  Partitions,   \* the partitions of the topics
  ReadBy,       \* ReadBy[p]: the caches that read the topic of p
  KeysIn,       \* KeysIn[p]: the keys published to p
  Values, Gone, \* what a key can be set to
  MaxMessages,  \* bound on the messages ever published
  MaxFaults     \* bound on lost connections, failed reads and restarts

ASSUME CachesAssumption ==
  /\ Caches \in Seq({Caches[i] : i \in 1..Len(Caches)})
  /\ \A p \in Partitions :
       ReadBy[p] \subseteq {Caches[i] : i \in 1..Len(Caches)}
  /\ \A p, q \in Partitions : p = q \/ KeysIn[p] \cap KeysIn[q] = {}
ASSUME BoundsAssumption == MaxMessages \in Nat /\ MaxFaults \in Nat

Cache == {Caches[i] : i \in 1..Len(Caches)}
Keys == UNION {KeysIn[p] : p \in Partitions}
Of(c) == {p \in Partitions : c \in ReadBy[p]}

(* A message that writes something, and one that no cache has a use for. *)
Message(p) ==
  [for : ReadBy[p], key : KeysIn[p], value : Values \cup {Gone}] \cup {[for |-> "none"]}

VARIABLES
  log,       \* the topics
  boot,      \* how many caches were started, and how many were waited for
  position,  \* the next offset each cache reads, by partition
  target,    \* the watermarks it has yet to reach; 0 is none
  existed,   \* the offsets its partitions held when it was started
  seen,      \* the offsets it has read since
  content,   \* the cached entries
  ready,     \* its readiness gate
  closed,    \* its reader has failed for good
  faults     \* how many faults there were

cacheVars == <<position, target, existed, seen, content, ready, closed>>
vars == <<log, boot, cacheVars, faults>>

ForAll(x) == [c \in Cache |-> [p \in Partitions |-> x]]

Init ==
  /\ log = [p \in Partitions |-> <<>>]
  /\ boot = [begun |-> 0, passed |-> 0]
  /\ position = ForAll(1) /\ target = ForAll(0)
  /\ existed = ForAll({}) /\ seen = ForAll({})
  /\ content = [c \in Cache |-> [k \in Keys |-> Gone]]
  /\ ready = [c \in Cache |-> FALSE]
  /\ closed = [c \in Cache |-> FALSE]
  /\ faults = 0

Running(c) == \E i \in 1..boot.begun : Caches[i] = c

(* The process accepts traffic. *)
Serving == boot.passed = Len(Caches)

----------------------------------------------------------------------------
Published == UNION {{p} \X DOMAIN log[p] : p \in Partitions}

(* Another service publishes. *)
Publish ==
  /\ Cardinality(Published) < MaxMessages
  /\ \E p \in Partitions : \E m \in Message(p) :
       log' = [log EXCEPT ![p] = Append(@, m)]
  /\ UNCHANGED <<boot, cacheVars, faults>>

(* newTargetOffsets: the last offset of a partition that has messages. *)
Watermark(c, p) == IF p \in Of(c) THEN Len(log[p]) ELSE 0

(* NewConsumerForTopic: the watermarks are noted, and with nothing to      *)
(* replay the cache is ready at once.                                      *)
Start ==
  /\ boot.begun < Len(Caches)
  /\ LET c == Caches[boot.begun + 1]
     IN  /\ target' = [target EXCEPT ![c] = [p \in Partitions |-> Watermark(c, p)]]
         /\ existed' = [existed EXCEPT ![c] = [p \in Partitions |->
                          IF p \in Of(c) THEN DOMAIN log[p] ELSE {}]]
         /\ ready' = [ready EXCEPT ![c] = \A p \in Partitions : Watermark(c, p) = 0]
  /\ boot' = [boot EXCEPT !.begun = @ + 1]
  /\ UNCHANGED <<log, position, seen, content, closed, faults>>

(* Mistake: the first write wins. *)
AppliedFirst(c, m) ==
  IF m.for = c /\ content[c][m.key] = Gone
  THEN [content[c] EXCEPT ![m.key] = m.value] ELSE content[c]

(* handle: the last write wins; what is not for this cache is skipped. *)
Applied(c, m) ==
  IF m.for = c THEN [content[c] EXCEPT ![m.key] = m.value] ELSE content[c]

(* Mistake: the awaited partitions are counted before p is taken off. *)
CaughtUpTooEarly(c, p, offset) ==
  /\ target[c][p] # 0 /\ offset >= target[c][p]
  /\ \A q \in Partitions : target[c][q] = 0

(* checkReady: the message at this offset of p was the last one awaited. *)
CaughtUp(c, p, offset) ==
  /\ target[c][p] # 0 /\ offset >= target[c][p]
  /\ \A q \in Partitions \ {p} : target[c][q] = 0

(* One turn of Run. *)
Read(c, p) ==
  /\ Running(c) /\ ~closed[c] /\ p \in Of(c)
  /\ position[c][p] <= Len(log[p])
  /\ LET offset == position[c][p]
     IN  /\ content' = [content EXCEPT ![c] = Applied(c, log[p][offset])]
         /\ ready' = [ready EXCEPT ![c] = @ \/ CaughtUp(c, p, offset)]
         /\ target' = [target EXCEPT ![c][p] = IF offset >= @ THEN 0 ELSE @]
         /\ position' = [position EXCEPT ![c][p] = offset + 1]
         /\ seen' = [seen EXCEPT ![c][p] = @ \cup {offset}]
  /\ UNCHANGED <<log, boot, existed, closed, faults>>

Fault == faults < MaxFaults /\ faults' = faults + 1

(* The group's connection is lost and reading resumes at the offset last   *)
(* committed, which lags behind by up to an interval.                      *)
Rejoin(c, p) ==
  /\ Fault
  /\ Running(c) /\ ~closed[c]
  /\ \E offset \in 1..(position[c][p] - 1) :
       position' = [position EXCEPT ![c][p] = offset]
  /\ UNCHANGED <<log, boot, target, existed, seen, content, ready, closed>>

(* ReadMessage returns an error: Run ends, the process goes on. *)
ReadFails(c) ==
  /\ Fault
  /\ Running(c) /\ ~closed[c]
  /\ closed' = [closed EXCEPT ![c] = TRUE]
  /\ UNCHANGED <<log, boot, position, target, existed, seen, content, ready>>

(* waitReady on the caches one after the other, once all are running. *)
WaitReady ==
  /\ boot.begun = Len(Caches) /\ ~Serving
  /\ ready[Caches[boot.passed + 1]]
  /\ boot' = [boot EXCEPT !.passed = @ + 1]
  /\ UNCHANGED <<log, cacheVars, faults>>

(* Mistake: the consumer group outlives the process. *)
ResumeAtCommitted(c, p) == position[c][p]

(* A new process reads under a new group, from the first offset. *)
ResumeAt(c, p) == 1

(* The next process starts from nothing. *)
BootAgain ==
  /\ boot' = [begun |-> 0, passed |-> 0]
  /\ position' = [c \in Cache |-> [p \in Partitions |-> ResumeAt(c, p)]]
  /\ target' = ForAll(0)
  /\ existed' = ForAll({}) /\ seen' = ForAll({})
  /\ content' = [c \in Cache |-> [k \in Keys |-> Gone]]
  /\ ready' = [c \in Cache |-> FALSE]
  /\ closed' = [c \in Cache |-> FALSE]

(* The process dies, or a constructor or a wait takes too long. *)
Crash == Fault /\ boot.begun > 0 /\ BootAgain /\ UNCHANGED log

(* A wait that can only time out: its cache has stopped reading. *)
WaitTimesOut ==
  /\ boot.begun = Len(Caches) /\ ~Serving
  /\ LET c == Caches[boot.passed + 1] IN closed[c] /\ ~ready[c]
  /\ BootAgain
  /\ UNCHANGED <<log, faults>>

Next ==
  \/ Publish \/ Start \/ WaitReady \/ WaitTimesOut \/ Crash
  \/ \E c \in Cache : ReadFails(c) \/ \E p \in Partitions : Read(c, p) \/ Rejoin(c, p)

(* The boot sequence and the readers run on their own; the process is      *)
(* restarted by its supervisor.                                            *)
Fairness ==
  /\ WF_vars(Start) /\ WF_vars(WaitReady) /\ WF_vars(WaitTimesOut)
  /\ \A c \in Cache, p \in Partitions : WF_vars(Read(c, p))

Spec == Init /\ [][Next]_vars /\ Fairness

----------------------------------------------------------------------------
(* No traffic before the replay: when the process serves, every cache has  *)
(* itself read all that its topic held when it was started, in all         *)
(* partitions, whatever was read by an earlier process.                    *)
ServingIsReplayed ==
  Serving => \A c \in Cache, p \in Partitions : existed[c][p] \subseteq seen[c][p]

(* The boot always completes: no cache waits for a message that nobody     *)
(* will publish, on a quiet topic as little as on an empty one.            *)
BootCompletes == []<>Serving

(* What the topics say about key k of cache c, last write last. *)
IsLatest(c, k, v) ==
  LET p == CHOOSE q \in Partitions : k \in KeysIn[q]
      Writes(i) == log[p][i].for = c /\ log[p][i].key = k
      written == {i \in DOMAIN log[p] : Writes(i)}
  IN  IF written = {} THEN v = Gone
      ELSE \E i \in written : log[p][i].value = v /\ \A j \in written : j <= i

(* A cache comes to agree with its topic, after reading part of it twice   *)
(* too, unless its reader failed for good.                                 *)
CachesConverge ==
  <>[](\A c \in Cache, k \in Keys : closed[c] \/ IsLatest(c, k, content[c][k]))
=============================================================================
