------------------------- MODULE ReplayCachesProofs -------------------------
(***************************************************************************)
(* The boot of the caches for any caches, partitions, messages and faults: *)
(* the process serves only when every cache has replayed what its topic    *)
(* held when it was started.                                               *)
(***************************************************************************)
EXTENDS ReplayCaches, TLAPS

----------------------------------------------------------------------------
(* The inductive invariant. *)

CacheTypes ==
  /\ log \in [Partitions -> Seq(UNION {Message(p) : p \in Partitions})]
  /\ boot \in [begun : 0..Len(Caches), passed : 0..Len(Caches)]
  /\ position \in [Cache -> [Partitions -> Nat \ {0}]]
  /\ target \in [Cache -> [Partitions -> Nat]]
  /\ existed \in [Cache -> [Partitions -> SUBSET Nat]]
  /\ seen \in [Cache -> [Partitions -> SUBSET Nat]]
  /\ ready \in [Cache -> BOOLEAN]

(* A cache has read everything before its position, and what existed at    *)
(* its start up to each watermark it no longer waits for.                  *)
Replayed(c, p) ==
  /\ 1..(position[c][p] - 1) \subseteq seen[c][p]
  /\ IF target[c][p] = 0 THEN existed[c][p] \subseteq seen[c][p]
     ELSE existed[c][p] = 1..target[c][p]

(* A ready cache waits for no watermark, and the boot passes ready caches  *)
(* only, after all are started.                                            *)
PassedReady ==
  /\ \A c \in Cache : ready[c] => \A p \in Partitions : target[c][p] = 0
  /\ boot.passed > 0 => boot.begun = Len(Caches)
  /\ \A i \in 1..boot.passed : ready[Caches[i]]

BootInv ==
  /\ CacheTypes
  /\ \A c \in Cache, p \in Partitions : Replayed(c, p)
  /\ PassedReady

----------------------------------------------------------------------------
(* The caches are those of the boot order, and the topics are sequences.   *)
LEMMA BootOrderFacts ==
  /\ Len(Caches) \in Nat
  /\ \A i \in 1..Len(Caches) : Caches[i] \in Cache
  /\ \A c \in Cache : \E i \in 1..Len(Caches) : Caches[i] = c
  BY CachesAssumption DEF Cache

LEMMA LogFacts ==
  ASSUME CacheTypes, NEW p \in Partitions
  PROVE  Len(log[p]) \in Nat /\ DOMAIN log[p] = 1..Len(log[p])
  BY DEF CacheTypes

(* A boot begins with caches that have read nothing and wait for nothing.  *)
LEMMA FreshBoot ==
  ASSUME boot = [begun |-> 0, passed |-> 0],
         position = ForAll(1), target = ForAll(0), existed = ForAll({}), seen = ForAll({}),
         ready = [c \in Cache |-> FALSE],
         log \in [Partitions -> Seq(UNION {Message(p) : p \in Partitions})]
  PROVE  BootInv
<1>1. \A c \in Cache, p \in Partitions :
        /\ position[c][p] = 1 /\ target[c][p] = 0 /\ existed[c][p] = {} /\ seen[c][p] = {}
        /\ ~ready[c]
  BY DEF ForAll
<1>2. CacheTypes
  <2>1. ASSUME NEW S, NEW x \in S PROVE ForAll(x) \in [Cache -> [Partitions -> S]]
    BY DEF ForAll
  <2>2. 1 \in Nat \ {0} /\ 0 \in Nat /\ {} \in SUBSET Nat
    OBVIOUS
  <2>3. /\ position \in [Cache -> [Partitions -> Nat \ {0}]]
        /\ target \in [Cache -> [Partitions -> Nat]]
        /\ existed \in [Cache -> [Partitions -> SUBSET Nat]]
        /\ seen \in [Cache -> [Partitions -> SUBSET Nat]]
    BY <2>1, <2>2
  <2>4. boot \in [begun : 0..Len(Caches), passed : 0..Len(Caches)]
    BY BootOrderFacts
  <2>5. ready \in [Cache -> BOOLEAN]
    OBVIOUS
  <2> QED BY <2>3, <2>4, <2>5 DEF CacheTypes
<1>3. \A c \in Cache, p \in Partitions : Replayed(c, p)
  BY <1>1 DEF Replayed
<1>4. PassedReady
  BY <1>1 DEF PassedReady
<1> QED BY <1>2, <1>3, <1>4 DEF BootInv

LEMMA PublishStep ==
  ASSUME BootInv, Publish
  PROVE  BootInv'
<1>0. PICK p \in Partitions : \E m \in Message(p) : log' = [log EXCEPT ![p] = Append(@, m)]
  BY DEF Publish
<1>1. PICK m \in Message(p) : log' = [log EXCEPT ![p] = Append(@, m)]
  BY <1>0
<1> DEFINE M == UNION {Message(q) : q \in Partitions}
<1>2. m \in M /\ log \in [Partitions -> Seq(M)]
  BY DEF BootInv, CacheTypes
<1> HIDE DEF M
<1>3. log' \in [Partitions -> Seq(M)]
  BY <1>1, <1>2
<1>4. UNCHANGED <<boot, position, target, existed, seen, ready>>
  BY DEF Publish, cacheVars
<1>5. CacheTypes'
  BY <1>3, <1>4 DEF BootInv, CacheTypes, M
<1>6. (\A c \in Cache, q \in Partitions : Replayed(c, q))' /\ PassedReady'
  BY <1>4 DEF BootInv, Replayed, PassedReady
<1> QED BY <1>5, <1>6 DEF BootInv

(* The watermarks are the lengths of the partitions that exist now. *)
LEMMA StartStep ==
  ASSUME BootInv, Start
  PROVE  BootInv'
<1> DEFINE c == Caches[boot.begun + 1]
<1>1. boot \in [begun : 0..Len(Caches), passed : 0..Len(Caches)] /\ boot.begun < Len(Caches)
      /\ Len(Caches) \in Nat
  BY BootOrderFacts DEF BootInv, CacheTypes, Start
<1>2. c \in Cache
  BY <1>1, BootOrderFacts
<1>3. /\ target' = [target EXCEPT ![c] = [p \in Partitions |-> Watermark(c, p)]]
      /\ existed' = [existed EXCEPT ![c] = [p \in Partitions |->
                       IF p \in Of(c) THEN DOMAIN log[p] ELSE {}]]
      /\ ready' = [ready EXCEPT ![c] = \A p \in Partitions : Watermark(c, p) = 0]
      /\ boot' = [boot EXCEPT !.begun = @ + 1]
      /\ UNCHANGED <<log, position, seen>>
  BY DEF Start
<1> HIDE DEF c
<1>4. \A p \in Partitions :
        /\ Watermark(c, p) \in Nat
        /\ (IF p \in Of(c) THEN DOMAIN log[p] ELSE {}) = 1..Watermark(c, p)
  BY LogFacts DEF BootInv, Watermark
<1>5. boot'.begun = boot.begun + 1 /\ boot'.passed = boot.passed
      /\ boot' \in [begun : 0..Len(Caches), passed : 0..Len(Caches)]
  BY <1>1, <1>3
<1>6. \A p \in Partitions : target'[c][p] = Watermark(c, p) /\ existed'[c][p] = 1..Watermark(c, p)
  BY <1>2, <1>3, <1>4 DEF BootInv, CacheTypes
<1>7. \A d \in Cache \ {c} : target'[d] = target[d] /\ existed'[d] = existed[d] /\ ready'[d] = ready[d]
  BY <1>3 DEF BootInv, CacheTypes
<1>8. target' \in [Cache -> [Partitions -> Nat]] /\ existed' \in [Cache -> [Partitions -> SUBSET Nat]]
  <2>1. [p \in Partitions |-> Watermark(c, p)] \in [Partitions -> Nat]
    BY <1>4
  <2>2. [p \in Partitions |-> IF p \in Of(c) THEN DOMAIN log[p] ELSE {}] \in [Partitions -> SUBSET Nat]
    BY <1>4
  <2> QED BY <1>2, <1>3, <2>1, <2>2 DEF BootInv, CacheTypes
<1>9. ready' \in [Cache -> BOOLEAN] /\ (ready'[c] => \A p \in Partitions : Watermark(c, p) = 0)
  BY <1>2, <1>3 DEF BootInv, CacheTypes
<1>10. CacheTypes'
  BY <1>3, <1>5, <1>8, <1>9 DEF BootInv, CacheTypes
<1>11. ASSUME NEW d \in Cache, NEW p \in Partitions
       PROVE  Replayed(d, p)'
  <2>1. CASE d = c
    BY <2>1, <1>3, <1>4, <1>6 DEF BootInv, Replayed
  <2>2. CASE d # c
    BY <2>2, <1>3, <1>7 DEF BootInv, Replayed
  <2> QED BY <2>1, <2>2
<1>12. PassedReady'
  <2>1. boot.passed = 0
    BY <1>1 DEF BootInv, PassedReady
  <2>2. \A d \in Cache : ready'[d] => \A p \in Partitions : target'[d][p] = 0
    BY <1>6, <1>7, <1>9 DEF BootInv, PassedReady
  <2> QED BY <1>5, <2>1, <2>2 DEF PassedReady
<1> QED BY <1>10, <1>11, <1>12 DEF BootInv

(* The last watermark falls when the message at it has been read. *)
LEMMA ReadStep ==
  ASSUME BootInv, NEW c \in Cache, NEW p \in Partitions, Read(c, p)
  PROVE  BootInv'
<1> USE DEF BootInv
<1> DEFINE offset == position[c][p]
<1>1. offset \in Nat \ {0} /\ target[c][p] \in Nat /\ Replayed(c, p)
  BY DEF CacheTypes
<1>2. /\ ready' = [ready EXCEPT ![c] = @ \/ CaughtUp(c, p, offset)]
      /\ target' = [target EXCEPT ![c][p] = IF offset >= @ THEN 0 ELSE @]
      /\ position' = [position EXCEPT ![c][p] = offset + 1]
      /\ seen' = [seen EXCEPT ![c][p] = @ \cup {offset}]
      /\ UNCHANGED <<log, boot, existed>>
  BY DEF Read
<1>3. /\ target'[c][p] = (IF offset >= target[c][p] THEN 0 ELSE target[c][p])
      /\ position'[c][p] = offset + 1
      /\ seen'[c][p] = seen[c][p] \cup {offset}
  BY <1>2 DEF CacheTypes
<1>4. ASSUME NEW d \in Cache, NEW q \in Partitions, d # c \/ q # p
      PROVE  target'[d][q] = target[d][q] /\ position'[d][q] = position[d][q] /\ seen'[d][q] = seen[d][q]
  <2>1. CASE d # c
    BY <2>1, <1>2 DEF CacheTypes
  <2>2. CASE d = c /\ q # p
    BY <2>2, <1>2 DEF CacheTypes
  <2> QED BY <1>4, <2>1, <2>2
<1>5. CacheTypes'
  <2>1. target' \in [Cache -> [Partitions -> Nat]]
    BY <1>1, <1>2 DEF CacheTypes
  <2>2. position' \in [Cache -> [Partitions -> Nat \ {0}]]
    BY <1>1, <1>2 DEF CacheTypes
  <2>3. seen' \in [Cache -> [Partitions -> SUBSET Nat]]
    BY <1>1, <1>2 DEF CacheTypes
  <2>4. ready' \in [Cache -> BOOLEAN]
    BY <1>2 DEF CacheTypes, CaughtUp
  <2> QED BY <1>2, <2>1, <2>2, <2>3, <2>4 DEF CacheTypes
<1>6. ASSUME NEW d \in Cache, NEW q \in Partitions
      PROVE  Replayed(d, q)'
  <2>1. CASE d # c \/ q # p
    BY <2>1, <1>2, <1>4 DEF Replayed
  <2>2. CASE d = c /\ q = p
    <3>1. 1..offset \subseteq seen'[c][p] /\ seen[c][p] \subseteq seen'[c][p]
      <4>1. 1..offset = 1..(offset - 1) \cup {offset}
        BY <1>1
      <4> HIDE DEF offset
      <4> QED BY <1>1, <1>3, <4>1 DEF Replayed, offset
    <3>2. 1..(position'[c][p] - 1) \subseteq seen'[c][p]
      BY <1>1, <1>3, <3>1
    <3>3. CASE target[c][p] = 0
      BY <1>1, <1>2, <1>3, <2>2, <3>1, <3>2, <3>3 DEF Replayed
    <3>4. CASE target[c][p] # 0 /\ offset >= target[c][p]
      <4>1. existed[c][p] = 1..target[c][p] /\ 1..target[c][p] \subseteq 1..offset
        BY <1>1, <3>4 DEF Replayed
      <4> QED BY <1>2, <1>3, <2>2, <3>1, <3>2, <3>4, <4>1 DEF Replayed
    <3>5. CASE target[c][p] # 0 /\ ~(offset >= target[c][p])
      BY <1>1, <1>2, <1>3, <2>2, <3>2, <3>5 DEF Replayed
    <3> QED BY <3>3, <3>4, <3>5
  <2> QED BY <2>1, <2>2
<1>7. PassedReady'
  <2>1. ready'[c] <=> ready[c] \/ CaughtUp(c, p, offset)
    BY <1>2 DEF CacheTypes
  <2>2. \A d \in Cache \ {c} : ready'[d] = ready[d]
    BY <1>2 DEF CacheTypes
  <2>3. ASSUME NEW d \in Cache, ready'[d], NEW q \in Partitions
        PROVE  target'[d][q] = 0
    <3>1. CASE ready[d]
      BY <1>1, <1>3, <1>4, <3>1 DEF PassedReady
    <3>2. CASE ~ready[d]
      <4>1. d = c /\ CaughtUp(c, p, offset)
        BY <2>1, <2>2, <2>3, <3>2
      <4> QED BY <1>3, <1>4, <4>1 DEF CaughtUp
    <3> QED BY <3>1, <3>2
  <2>4. \A d \in Cache : ready[d] => ready'[d]
    BY <2>1, <2>2
  <2>5. \A i \in 1..boot.passed : Caches[i] \in Cache
    BY BootOrderFacts DEF CacheTypes
  <2> QED BY <1>2, <2>3, <2>4, <2>5 DEF PassedReady
<1> QED BY <1>5, <1>6, <1>7

(* Reading again what was read before takes nothing back. *)
LEMMA RejoinStep ==
  ASSUME BootInv, NEW c \in Cache, NEW p \in Partitions, Rejoin(c, p)
  PROVE  BootInv'
<1> USE DEF BootInv
<1>1. PICK offset \in 1..(position[c][p] - 1) : position' = [position EXCEPT ![c][p] = offset]
  BY DEF Rejoin
<1>2. UNCHANGED <<log, boot, target, existed, seen, ready>>
  BY DEF Rejoin
<1>3. position[c][p] \in Nat \ {0}
  BY DEF CacheTypes
<1>4. offset \in Nat \ {0} /\ position'[c][p] = offset
  BY <1>1, <1>3 DEF CacheTypes
<1>5. CacheTypes'
  <2>1. position' \in [Cache -> [Partitions -> Nat \ {0}]]
    BY <1>1, <1>4 DEF CacheTypes
  <2> QED BY <1>2, <2>1 DEF CacheTypes
<1>6. ASSUME NEW d \in Cache, NEW q \in Partitions
      PROVE  1..(position'[d][q] - 1) \subseteq seen[d][q]
  <2>1. 1..(position[d][q] - 1) \subseteq seen[d][q]
    BY DEF Replayed
  <2>2. CASE d = c /\ q = p
    BY <1>1, <1>3, <1>4, <2>1, <2>2
  <2>3. CASE d # c \/ q # p
    <3>1. position'[d][q] = position[d][q]
      BY <1>1, <2>3 DEF CacheTypes
    <3> QED BY <2>1, <3>1
  <2> QED BY <2>2, <2>3
<1>7. (\A d \in Cache, q \in Partitions : Replayed(d, q))'
  BY <1>2, <1>6 DEF Replayed
<1>8. PassedReady'
  BY <1>2 DEF PassedReady
<1> QED BY <1>5, <1>7, <1>8

LEMMA WaitReadyStep ==
  ASSUME BootInv, WaitReady
  PROVE  BootInv'
<1> USE DEF BootInv
<1>1. boot \in [begun : 0..Len(Caches), passed : 0..Len(Caches)] /\ Len(Caches) \in Nat
  BY BootOrderFacts DEF CacheTypes
<1>2. /\ boot.begun = Len(Caches) /\ boot.passed # Len(Caches) /\ ready[Caches[boot.passed + 1]]
      /\ boot' = [boot EXCEPT !.passed = @ + 1]
      /\ UNCHANGED <<log, position, target, existed, seen, ready>>
  BY DEF WaitReady, Serving, cacheVars
<1>3. boot'.passed = boot.passed + 1 /\ boot'.begun = boot.begun
      /\ boot' \in [begun : 0..Len(Caches), passed : 0..Len(Caches)]
  BY <1>1, <1>2
<1>4. CacheTypes'
  BY <1>2, <1>3 DEF CacheTypes
<1>5. (\A c \in Cache, p \in Partitions : Replayed(c, p))'
  BY <1>2 DEF Replayed
<1>6. \A i \in 1..(boot.passed + 1) : i \in 1..boot.passed \/ i = boot.passed + 1
  BY <1>1
<1>7. PassedReady'
  BY <1>2, <1>3, <1>6 DEF PassedReady
<1> QED BY <1>4, <1>5, <1>7

(* A new process owes nothing to the one before: FreshBoot, primed. *)
LEMMA BootAgainStep ==
  ASSUME BootInv, BootAgain, UNCHANGED log
  PROVE  BootInv'
<1>1. position' = ForAll(1)
  BY DEF BootAgain, ResumeAt, ForAll
<1>2. \A c \in Cache, p \in Partitions :
        position'[c][p] = 1 /\ target'[c][p] = 0 /\ existed'[c][p] = {} /\ seen'[c][p] = {}
        /\ ~ready'[c]
  BY <1>1 DEF BootAgain, ForAll
<1>3. CacheTypes'
  <2>1. log' \in [Partitions -> Seq(UNION {Message(p) : p \in Partitions})]
    BY DEF BootInv, CacheTypes
  <2>2. boot' \in [begun : 0..Len(Caches), passed : 0..Len(Caches)]
    BY BootOrderFacts DEF BootAgain
  <2>3. position' \in [Cache -> [Partitions -> Nat \ {0}]] /\ target' \in [Cache -> [Partitions -> Nat]]
    BY <1>1 DEF BootAgain, ForAll
  <2>4. /\ existed' \in [Cache -> [Partitions -> SUBSET Nat]]
        /\ seen' \in [Cache -> [Partitions -> SUBSET Nat]] /\ ready' \in [Cache -> BOOLEAN]
    BY DEF BootAgain, ForAll
  <2> QED BY <2>1, <2>2, <2>3, <2>4 DEF CacheTypes
<1>4. (\A c \in Cache, p \in Partitions : Replayed(c, p))'
  BY <1>2 DEF Replayed
<1>5. PassedReady'
  BY <1>2 DEF BootAgain, PassedReady
<1> QED BY <1>3, <1>4, <1>5 DEF BootInv

----------------------------------------------------------------------------
(* The theorems. *)

(* The inductive invariant of the boot holds in every reachable state.     *)
THEOREM BootInvariant == Spec => []BootInv
<1>1. Init => BootInv
  <2> SUFFICES ASSUME Init PROVE BootInv
    OBVIOUS
  <2>1. log \in [Partitions -> Seq(UNION {Message(p) : p \in Partitions})]
    BY DEF Init
  <2> QED BY <2>1, FreshBoot DEF Init
<1>2. BootInv /\ [Next]_vars => BootInv'
  <2> SUFFICES ASSUME BootInv, [Next]_vars PROVE BootInv'
    OBVIOUS
  <2>1. ASSUME UNCHANGED <<log, boot, position, target, existed, seen, ready>> PROVE BootInv'
    BY <2>1 DEF BootInv, CacheTypes, Replayed, PassedReady
  <2>2. CASE UNCHANGED vars
    BY <2>1, <2>2 DEF vars, cacheVars
  <2>3. ASSUME NEW c \in Cache, ReadFails(c) PROVE BootInv'
    BY <2>1, <2>3 DEF ReadFails
  <2>4. CASE WaitTimesOut \/ Crash
    BY <2>4, BootAgainStep DEF WaitTimesOut, Crash
  <2> QED BY <2>2, <2>3, <2>4, PublishStep, StartStep, WaitReadyStep, ReadStep, RejoinStep DEF Next
<1> QED BY <1>1, <1>2, PTL DEF Spec

(* When the process accepts traffic, every cache has itself read all that  *)
(* its partitions held when it was started.                                *)
THEOREM ReplayBeforeTraffic == Spec => []ServingIsReplayed
<1>1. BootInv => ServingIsReplayed
  <2> SUFFICES ASSUME BootInv, Serving, NEW c \in Cache, NEW p \in Partitions
               PROVE  existed[c][p] \subseteq seen[c][p]
    BY DEF ServingIsReplayed
  <2>1. PICK i \in 1..Len(Caches) : Caches[i] = c
    BY BootOrderFacts
  <2>2. ready[c]
    BY <2>1 DEF Serving, BootInv, PassedReady
  <2> QED BY <2>2 DEF BootInv, PassedReady, Replayed
<1> QED BY <1>1, BootInvariant, PTL

=============================================================================
