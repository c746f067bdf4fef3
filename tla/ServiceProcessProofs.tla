------------------------ MODULE ServiceProcessProofs ------------------------
(***************************************************************************)
(* The process of cmd/order for any number of requests, messages, boot     *)
(* attempts, stops and faults: a clean stop closes nothing that is in use, *)
(* and the committed offset never runs ahead of the effects.               *)
(***************************************************************************)
EXTENDS ServiceProcess, TLAPS

----------------------------------------------------------------------------
(* The inductive invariant. *)

Covered == applied \cup dlq \cup conflicted

(* Everything the consumer has left behind is accounted for, up to the     *)
(* message it has in hand; with the message handled, that one too.         *)
Progress ==
  /\ OffsetsFollowEffects
  /\ consumer = "idle" => 1..fetched \subseteq Covered
  /\ consumer \in {"handling", "failed"} => fetched >= 1 /\ 1..(fetched - 1) \subseteq Covered
  /\ consumer = "handled" => fetched >= 1 /\ 1..fetched \subseteq Covered

NoRequests == \A r \in Requests : ~Active(r)
Quiet == NoRequests /\ relay = "stopped" /\ consumer = "stopped"

(* What run() may rely on in each phase.  Without an expired deadline and  *)
(* a failed listener the steps of drainUnderShutdown build on each other:  *)
(* no requests once the server is drained, no relay after relayDone, no    *)
(* consumer after repromiseConsumerDone.                                   *)
Phases ==
  /\ main \in {"migrate", "ping", "exited"} => Quiet
  /\ main \in {"migrate", "ping"} => asked = {}
  /\ main \in {"migrate", "ping", "serving", "shutdown"} => ~deadline
  /\ listening => main \in {"serving", "shutdown"} /\ "failed" \notin asked
  /\ open # Adapters => main \in Closing \cup {"exited"}
  /\ "failed" \notin asked /\ ~deadline =>
       /\ main \in {"awaitRelay", "awaitConsumer"} => NoRequests
       /\ main = "awaitConsumer" => relay = "stopped"
       /\ main \in Closing => Quiet

ProcessInv == TypeOK /\ Progress /\ Phases

----------------------------------------------------------------------------
(* The flags of run() are Booleans, the rest of its state is not. *)
Flags ==
  /\ ready \in BOOLEAN /\ listening \in BOOLEAN
  /\ deadline \in BOOLEAN /\ cancelled \in BOOLEAN

LEMMA FlagsTyped ==
  /\ TypeOK => Flags
  /\ Flags => {ready, listening, deadline, cancelled} \subseteq BOOLEAN
  /\ Flags' => {ready', listening', deadline', cancelled'} \subseteq BOOLEAN
  BY Zenon DEF TypeOK, Flags

(* A step that leaves the consumer's state alone leaves its progress alone. *)
LEMMA ProgressKept ==
  ASSUME Progress, UNCHANGED consumerVars
  PROVE  Progress'
  BY DEF Progress, OffsetsFollowEffects, Covered, consumerVars

(* Boot and restart begin quiet; the consumer resumes at the offset. *)
LEMMA BootStep ==
  ASSUME ProcessInv, Boot
  PROVE  ProcessInv'
<1> USE ProcessAssumption DEF ProcessInv
<1>1. CASE BootSucceeds
  <2>0. Flags'
    BY <1>1, FlagsTyped DEF Flags, BootSucceeds
  <2>1. TypeOK'
    BY <1>1, <2>0, FlagsTyped DEF TypeOK, BootSucceeds, Draining, Closing, relayVars
  <2>2. Progress'
    BY <1>1 DEF Progress, Phases, Quiet, OffsetsFollowEffects, Covered, BootSucceeds
  <2>3. Phases'
    BY <1>1 DEF Phases, Quiet, NoRequests, Active, BootSucceeds, relayVars, Closing, Draining
  <2> QED BY <2>1, <2>2, <2>3
<1>2. CASE BootFails
  <2>1. TypeOK'
    BY <1>2 DEF TypeOK, BootFails, Draining, Closing, relayVars, consumerVars, Stop
  <2>2. Progress'
    BY <1>2, ProgressKept DEF BootFails
  <2>3. Phases'
    BY <1>2 DEF Phases, Quiet, NoRequests, Active, BootFails, relayVars, consumerVars, Closing, Draining
  <2> QED BY <2>1, <2>2, <2>3
<1>3. CASE Restart
  <2>0. Flags'
    BY <1>3, FlagsTyped DEF Flags, Restart
  <2>1. TypeOK'
    BY <1>3, <2>0, FlagsTyped DEF TypeOK, Restart, Draining, Closing, relayVars, consumerVars
  <2>2. Progress'
    BY <1>3, ProgressKept DEF Restart
  <2>3. Phases'
    BY <1>3 DEF Phases, Quiet, NoRequests, Active, Restart, relayVars, consumerVars, Closing, Draining
  <2> QED BY <2>1, <2>2, <2>3
<1> QED BY <1>1, <1>2, <1>3 DEF Boot

(* A request is accepted only while the listener is open, so a drained     *)
(* server stays drained.                                                   *)
LEMMA ServeStep ==
  ASSUME ProcessInv, NEW r \in Requests, Serve(r)
  PROVE  ProcessInv'
<1> USE ProcessAssumption DEF ProcessInv
<1>1. CASE Accept(r)
  <2>1. TypeOK'
    BY <1>1 DEF TypeOK, Draining, Closing, Accept, Go, control, relayVars, consumerVars
  <2>2. Progress'
    BY <1>1, ProgressKept DEF Accept, Go, control, relayVars, consumerVars
  <2>3. Phases'
    BY <1>1 DEF TypeOK, Phases, Quiet, NoRequests, Active, Closing, Draining, Accept, Go, control, relayVars, consumerVars
  <2> QED BY <2>1, <2>2, <2>3
<1>2. CASE BeginTx(r)
  <2>1. TypeOK'
    BY <1>2 DEF TypeOK, Draining, Closing, BeginTx, Go, control, relayVars, consumerVars
  <2>2. Progress'
    BY <1>2, ProgressKept DEF BeginTx, Go, control, relayVars, consumerVars
  <2>3. Phases'
    BY <1>2 DEF TypeOK, Phases, Quiet, NoRequests, Active, Closing, Draining, BeginTx, Go, control, relayVars, consumerVars
  <2> QED BY <2>1, <2>2, <2>3
<1>3. CASE EndTx(r)
  <2>1. TypeOK'
    BY <1>3 DEF TypeOK, Draining, Closing, EndTx, Go, control, relayVars, consumerVars
  <2>2. Progress'
    BY <1>3, ProgressKept DEF EndTx, Go, control, relayVars, consumerVars
  <2>3. Phases'
    BY <1>3 DEF TypeOK, Phases, Quiet, NoRequests, Active, Closing, Draining, EndTx, Go, control, relayVars, consumerVars
  <2> QED BY <2>1, <2>2, <2>3
<1>4. CASE Respond(r)
  <2>1. TypeOK'
    BY <1>4 DEF TypeOK, Draining, Closing, Respond, Go, control, relayVars, consumerVars
  <2>2. Progress'
    BY <1>4, ProgressKept DEF Respond, Go, control, relayVars, consumerVars
  <2>3. Phases'
    BY <1>4 DEF TypeOK, Phases, Quiet, NoRequests, Active, Closing, Draining, Respond, Go, control, relayVars, consumerVars
  <2> QED BY <2>1, <2>2, <2>3
<1> QED BY <1>1, <1>2, <1>3, <1>4 DEF Serve

(* A stopped relay stays stopped until the next process. *)
LEMMA RelayStep ==
  ASSUME ProcessInv, Relay
  PROVE  ProcessInv'
<1> USE ProcessAssumption DEF ProcessInv
<1>1. CASE RelayClaim
  <2>1. TypeOK'
    BY <1>1 DEF TypeOK, Draining, Closing, RelayClaim, RelayFrame, control, relayVars, consumerVars
  <2>2. Progress'
    BY <1>1, ProgressKept DEF RelayClaim, RelayFrame, control, relayVars, consumerVars
  <2>3. Phases'
    BY <1>1 DEF TypeOK, Phases, Quiet, NoRequests, Active, Closing, Draining, RelayClaim, RelayFrame, control, relayVars, consumerVars
  <2> QED BY <2>1, <2>2, <2>3
<1>2. CASE \E e \in Requests : RelaySend(e)
  <2>1. TypeOK'
    BY <1>2 DEF TypeOK, Draining, Closing, RelaySend, RelayFrame, control, relayVars, consumerVars
  <2>2. Progress'
    BY <1>2, ProgressKept DEF RelaySend, RelayFrame, control, relayVars, consumerVars
  <2>3. Phases'
    BY <1>2 DEF TypeOK, Phases, Quiet, NoRequests, Active, Closing, Draining, RelaySend, RelayFrame, control, relayVars, consumerVars
  <2> QED BY <2>1, <2>2, <2>3
<1>3. CASE RelayCommit
  <2>1. TypeOK'
    BY <1>3 DEF TypeOK, Draining, Closing, RelayCommit, RelayFrame, Fault, control, relayVars, consumerVars
  <2>2. Progress'
    BY <1>3, ProgressKept DEF RelayCommit, RelayFrame, Fault, control, relayVars, consumerVars
  <2>3. Phases'
    BY <1>3 DEF TypeOK, Phases, Quiet, NoRequests, Active, Closing, Draining, RelayCommit, RelayFrame, Fault, control, relayVars, consumerVars
  <2> QED BY <2>1, <2>2, <2>3
<1>4. CASE RelayPassCancelled
  <2>1. TypeOK'
    BY <1>4 DEF TypeOK, Draining, Closing, RelayPassCancelled, RelayFrame, control, relayVars, consumerVars
  <2>2. Progress'
    BY <1>4, ProgressKept DEF RelayPassCancelled, RelayFrame, control, relayVars, consumerVars
  <2>3. Phases'
    BY <1>4 DEF TypeOK, Phases, Quiet, NoRequests, Active, Closing, Draining, RelayPassCancelled, RelayFrame, control, relayVars, consumerVars
  <2> QED BY <2>1, <2>2, <2>3
<1>5. CASE RelayStops
  <2>1. TypeOK'
    BY <1>5 DEF TypeOK, Draining, Closing, RelayStops, RelayFrame, control, relayVars, consumerVars
  <2>2. Progress'
    BY <1>5, ProgressKept DEF RelayStops, RelayFrame, control, relayVars, consumerVars
  <2>3. Phases'
    BY <1>5 DEF TypeOK, Phases, Quiet, NoRequests, Active, Closing, Draining, RelayStops, RelayFrame, control, relayVars, consumerVars
  <2> QED BY <2>1, <2>2, <2>3
<1> QED BY <1>1, <1>2, <1>3, <1>4, <1>5 DEF Relay

(* The consumer goes on to the next message only when the one in hand is   *)
(* accounted for, and commits only such a message.                         *)
LEMMA ConsumerStep ==
  ASSUME ProcessInv, Consumer
  PROVE  ProcessInv'
<1> USE ProcessAssumption DEF ProcessInv
<1>1. CASE Fetch
  <2>1. TypeOK'
    BY <1>1 DEF TypeOK, Draining, Closing, Fetch, ConsumerFrame, control, relayVars, consumerVars
  <2>2. Progress'
    BY <1>1 DEF TypeOK, Progress, OffsetsFollowEffects, Covered, Fetch, ConsumerFrame
  <2>3. Phases'
    BY <1>1 DEF TypeOK, Phases, Quiet, NoRequests, Active, Closing, Draining, Fetch, ConsumerFrame, control, relayVars, consumerVars
  <2> QED BY <2>1, <2>2, <2>3
<1>2. CASE Handle
  <2>0. fetched \in 1..Messages
    BY <1>2 DEF TypeOK, Progress, Handle
  <2>1. TypeOK'
    BY <1>2, <2>0 DEF TypeOK, Draining, Closing, Handle, ConsumerFrame, control, relayVars, consumerVars
  <2>2. Progress'
    BY <1>2 DEF TypeOK, Progress, OffsetsFollowEffects, Covered, Handle, ConsumerFrame
  <2>3. Phases'
    BY <1>2 DEF TypeOK, Phases, Quiet, NoRequests, Active, Closing, Draining, Handle, ConsumerFrame, control, relayVars, consumerVars
  <2> QED BY <2>1, <2>2, <2>3
<1>3. CASE HandleConflicts
  <2>0. fetched \in 1..Messages
    BY <1>3 DEF TypeOK, Progress, HandleConflicts
  <2>1. TypeOK'
    BY <1>3, <2>0 DEF TypeOK, Draining, Closing, HandleConflicts, ConsumerFrame, Fault, control, relayVars, consumerVars
  <2>2. Progress'
    BY <1>3 DEF TypeOK, Progress, OffsetsFollowEffects, Covered, HandleConflicts, ConsumerFrame, Fault
  <2>3. Phases'
    BY <1>3 DEF TypeOK, Phases, Quiet, NoRequests, Active, Closing, Draining, HandleConflicts, ConsumerFrame, Fault, control, relayVars, consumerVars
  <2> QED BY <2>1, <2>2, <2>3
<1>4. CASE HandleFails
  <2>1. TypeOK'
    BY <1>4 DEF TypeOK, Draining, Closing, HandleFails, ConsumerFrame, Fault, control, relayVars, consumerVars
  <2>2. Progress'
    BY <1>4 DEF TypeOK, Progress, OffsetsFollowEffects, Covered, HandleFails, ConsumerFrame, Fault
  <2>3. Phases'
    BY <1>4 DEF TypeOK, Phases, Quiet, NoRequests, Active, Closing, Draining, HandleFails, ConsumerFrame, Fault, control, relayVars, consumerVars
  <2> QED BY <2>1, <2>2, <2>3
<1>5. CASE DeadLetter
  <2>0. fetched \in 1..Messages
    BY <1>5 DEF TypeOK, Progress, DeadLetter
  <2>1. TypeOK'
    BY <1>5, <2>0 DEF TypeOK, Draining, Closing, DeadLetter, ConsumerFrame, control, relayVars, consumerVars
  <2>2. Progress'
    BY <1>5 DEF TypeOK, Progress, OffsetsFollowEffects, Covered, DeadLetter, ConsumerFrame
  <2>3. Phases'
    BY <1>5 DEF TypeOK, Phases, Quiet, NoRequests, Active, Closing, Draining, DeadLetter, ConsumerFrame, control, relayVars, consumerVars
  <2> QED BY <2>1, <2>2, <2>3
<1>6. CASE DeadLetterFails
  <2>0. fetched \in 1..Messages
    BY <1>6 DEF TypeOK, Progress, DeadLetterFails
  <2>1. TypeOK'
    BY <1>6, <2>0 DEF TypeOK, Draining, Closing, DeadLetterFails, ConsumerFrame, Fault, control, relayVars, consumerVars
  <2>2. Progress'
    BY <1>6 DEF TypeOK, Progress, OffsetsFollowEffects, Covered, DeadLetterFails, ConsumerFrame, Fault
  <2>3. Phases'
    BY <1>6 DEF TypeOK, Phases, Quiet, NoRequests, Active, Closing, Draining, DeadLetterFails, ConsumerFrame, Fault, control, relayVars, consumerVars
  <2> QED BY <2>1, <2>2, <2>3
<1>7. CASE CommitOffset
  <2>1. TypeOK'
    BY <1>7 DEF TypeOK, Draining, Closing, CommitOffset, ConsumerFrame, control, relayVars, consumerVars
  <2>2. Progress'
    BY <1>7 DEF TypeOK, Progress, OffsetsFollowEffects, Covered, CommitOffset, ConsumerFrame
  <2>3. Phases'
    BY <1>7 DEF TypeOK, Phases, Quiet, NoRequests, Active, Closing, Draining, CommitOffset, ConsumerFrame, control, relayVars, consumerVars
  <2> QED BY <2>1, <2>2, <2>3
<1>8. CASE CommitFails
  <2>1. TypeOK'
    BY <1>8 DEF TypeOK, Draining, Closing, CommitFails, ConsumerFrame, Fault, control, relayVars, consumerVars
  <2>2. Progress'
    BY <1>8 DEF TypeOK, Progress, OffsetsFollowEffects, Covered, CommitFails, ConsumerFrame, Fault
  <2>3. Phases'
    BY <1>8 DEF TypeOK, Phases, Quiet, NoRequests, Active, Closing, Draining, CommitFails, ConsumerFrame, Fault, control, relayVars, consumerVars
  <2> QED BY <2>1, <2>2, <2>3
<1>9. CASE ConsumerStops
  <2>1. TypeOK'
    BY <1>9 DEF TypeOK, Draining, Closing, ConsumerStops, ConsumerFrame, control, relayVars, consumerVars
  <2>2. Progress'
    BY <1>9 DEF TypeOK, Progress, OffsetsFollowEffects, Covered, ConsumerStops, ConsumerFrame
  <2>3. Phases'
    BY <1>9 DEF TypeOK, Phases, Quiet, NoRequests, Active, Closing, Draining, ConsumerStops, ConsumerFrame, control, relayVars, consumerVars
  <2> QED BY <2>1, <2>2, <2>3
<1> QED BY <1>1, <1>2, <1>3, <1>4, <1>5, <1>6, <1>7, <1>8, <1>9 DEF Consumer

(* Each step of the shutdown waits for what the next one relies on, unless *)
(* the deadline has passed.                                                *)
LEMMA DrainStep ==
  ASSUME ProcessInv, Drain \/ Signal \/ ListenFails \/ DeadlinePasses \/ Kill
  PROVE  ProcessInv'
<1> USE ProcessAssumption DEF ProcessInv
<1>1. CASE Wake
  <2>1. TypeOK'
    BY <1>1 DEF TypeOK, Draining, Closing, Wake, control, relayVars, consumerVars, WorkFrame
  <2>2. Progress'
    BY <1>1, ProgressKept DEF Wake, control, relayVars, consumerVars, WorkFrame
  <2>3. Phases'
    BY <1>1 DEF TypeOK, Phases, Quiet, NoRequests, Active, Closing, Draining, Wake, control, relayVars, consumerVars, WorkFrame
  <2> QED BY <2>1, <2>2, <2>3
<1>2. CASE Shutdown
  <2>0. Flags'
    BY <1>2, FlagsTyped DEF Flags, Shutdown
  <2>1. TypeOK'
    BY <1>2, <2>0, FlagsTyped DEF TypeOK, Draining, Closing, Shutdown, control, relayVars, consumerVars, WorkFrame
  <2>2. Progress'
    BY <1>2, ProgressKept DEF Shutdown, control, relayVars, consumerVars, WorkFrame
  <2>3. Phases'
    BY <1>2 DEF TypeOK, Phases, Quiet, NoRequests, Active, Closing, Draining, Shutdown, control, relayVars, consumerVars, WorkFrame
  <2> QED BY <2>1, <2>2, <2>3
<1>3. CASE HTTPDrained
  <2>1. TypeOK'
    BY <1>3 DEF TypeOK, Draining, Closing, HTTPDrained, control, relayVars, consumerVars, WorkFrame
  <2>2. Progress'
    BY <1>3, ProgressKept DEF HTTPDrained, control, relayVars, consumerVars, WorkFrame
  <2>3. Phases'
    BY <1>3 DEF TypeOK, Phases, Quiet, NoRequests, Active, Closing, Draining, HTTPDrained, control, relayVars, consumerVars, WorkFrame
  <2> QED BY <2>1, <2>2, <2>3
<1>4. CASE RelayAwaited
  <2>0. Flags'
    BY <1>4, FlagsTyped DEF Flags, RelayAwaited
  <2>1. TypeOK'
    BY <1>4, <2>0, FlagsTyped DEF TypeOK, Draining, Closing, RelayAwaited, control, relayVars, consumerVars, WorkFrame
  <2>2. Progress'
    BY <1>4, ProgressKept DEF RelayAwaited, control, relayVars, consumerVars, WorkFrame
  <2>3. Phases'
    BY <1>4 DEF TypeOK, Phases, Quiet, NoRequests, Active, Closing, Draining, RelayAwaited, control, relayVars, consumerVars, WorkFrame
  <2> QED BY <2>1, <2>2, <2>3
<1>5. CASE ConsumerAwaited
  <2>1. TypeOK'
    BY <1>5 DEF TypeOK, Draining, Closing, ConsumerAwaited, control, relayVars, consumerVars, WorkFrame
  <2>2. Progress'
    BY <1>5, ProgressKept DEF ConsumerAwaited, control, relayVars, consumerVars, WorkFrame
  <2>3. Phases'
    BY <1>5 DEF TypeOK, Phases, Quiet, NoRequests, Active, Closing, Draining, ConsumerAwaited, control, relayVars, consumerVars, WorkFrame
  <2> QED BY <2>1, <2>2, <2>3
<1>6. CASE CloseNext
  <2>0. Flags'
    BY <1>6, FlagsTyped DEF Flags, CloseNext
  <2>1. TypeOK'
    BY <1>6, <2>0, FlagsTyped DEF TypeOK, Draining, Closing, CloseNext, control, relayVars, consumerVars, WorkFrame
  <2>2. Progress'
    BY <1>6, ProgressKept DEF CloseNext, control, relayVars, consumerVars, WorkFrame
  <2>3. Phases'
    BY <1>6 DEF TypeOK, Phases, Quiet, NoRequests, Active, Closing, Draining, CloseNext, control, relayVars, consumerVars, WorkFrame
  <2> QED BY <2>1, <2>2, <2>3
<1>7. CASE Exit
  <2>0. Flags'
    BY <1>7, FlagsTyped DEF Flags, Exit, Die
  <2>1. TypeOK'
    BY <1>7, <2>0, FlagsTyped DEF TypeOK, Draining, Closing, Exit, Die, control, relayVars, consumerVars, WorkFrame
  <2>2. Progress'
    BY <1>7 DEF Progress, OffsetsFollowEffects, Covered, Exit, Die
  <2>3. Phases'
    BY <1>7 DEF TypeOK, Phases, Quiet, NoRequests, Active, Closing, Draining, Exit, Die, control, relayVars, consumerVars, WorkFrame
  <2> QED BY <2>1, <2>2, <2>3
<1>8. CASE Signal
  <2>1. TypeOK'
    BY <1>8 DEF TypeOK, Draining, Closing, Signal, Stop, control, relayVars, consumerVars, WorkFrame
  <2>2. Progress'
    BY <1>8, ProgressKept DEF Signal, Stop, control, relayVars, consumerVars, WorkFrame
  <2>3. Phases'
    BY <1>8 DEF TypeOK, Phases, Quiet, NoRequests, Active, Closing, Draining, Signal, Stop, control, relayVars, consumerVars, WorkFrame
  <2> QED BY <2>1, <2>2, <2>3
<1>9. CASE ListenFails
  <2>0. Flags'
    BY <1>9, FlagsTyped DEF Flags, ListenFails, Stop
  <2>1. TypeOK'
    BY <1>9, <2>0, FlagsTyped DEF TypeOK, Draining, Closing, ListenFails, Stop, control, relayVars, consumerVars, WorkFrame
  <2>2. Progress'
    BY <1>9, ProgressKept DEF ListenFails, Stop, control, relayVars, consumerVars, WorkFrame
  <2>3. Phases'
    BY <1>9 DEF TypeOK, Phases, Quiet, NoRequests, Active, Closing, Draining, ListenFails, Stop, control, relayVars, consumerVars, WorkFrame
  <2> QED BY <2>1, <2>2, <2>3
<1>10. CASE DeadlinePasses
  <2>0. Flags'
    BY <1>10, FlagsTyped DEF Flags, DeadlinePasses
  <2>1. TypeOK'
    BY <1>10, <2>0, FlagsTyped DEF TypeOK, Draining, Closing, DeadlinePasses, control, relayVars, consumerVars, WorkFrame
  <2>2. Progress'
    BY <1>10, ProgressKept DEF DeadlinePasses, control, relayVars, consumerVars, WorkFrame
  <2>3. Phases'
    BY <1>10 DEF TypeOK, Phases, Quiet, NoRequests, Active, Closing, Draining, DeadlinePasses, control, relayVars, consumerVars, WorkFrame
  <2> QED BY <2>1, <2>2, <2>3
<1>11. CASE Kill
  <2>0. Flags'
    BY <1>11, FlagsTyped DEF Flags, Kill, Die, Stop
  <2>1. TypeOK'
    BY <1>11, <2>0, FlagsTyped DEF TypeOK, Draining, Closing, Kill, Die, Stop, control, relayVars, consumerVars, WorkFrame
  <2>2. Progress'
    BY <1>11 DEF Progress, OffsetsFollowEffects, Covered, Kill, Die
  <2>3. Phases'
    BY <1>11 DEF TypeOK, Phases, Quiet, NoRequests, Active, Closing, Draining, Kill, Die, Stop, control, relayVars, consumerVars, WorkFrame
  <2> QED BY <2>1, <2>2, <2>3
<1> QED BY <1>1, <1>2, <1>3, <1>4, <1>5, <1>6, <1>7, <1>8, <1>9, <1>10, <1>11 DEF Drain

----------------------------------------------------------------------------
(* The theorems. *)

LEMMA InitProcessInv == Init => ProcessInv
<1> SUFFICES ASSUME Init PROVE ProcessInv
  OBVIOUS
<1>1. Flags
  BY DEF Init, Flags
<1>2. TypeOK
  BY <1>1, FlagsTyped, ProcessAssumption DEF Init, TypeOK
<1>3. Progress
  BY DEF Init, Progress, OffsetsFollowEffects
<1>4. Phases
  BY DEF Init, Phases, Quiet, NoRequests, Active, Closing
<1> QED BY <1>2, <1>3, <1>4 DEF ProcessInv

LEMMA NextProcessInv == ProcessInv /\ [Next]_vars => ProcessInv'
<1> SUFFICES ASSUME ProcessInv, [Next]_vars PROVE ProcessInv'
  OBVIOUS
<1>1. CASE UNCHANGED vars
  <2>1. UNCHANGED <<control, request, relayVars, consumerVars, outbox, topic, stops, faults>>
    BY <1>1 DEF vars
  <2>2. TypeOK'
    BY <2>1 DEF ProcessInv, TypeOK, control, relayVars, consumerVars
  <2>3. Progress'
    BY <2>1, ProgressKept DEF ProcessInv
  <2>4. Phases'
    BY <2>1 DEF ProcessInv, Phases, Quiet, NoRequests, Active, control, relayVars, consumerVars
  <2> QED BY <2>2, <2>3, <2>4 DEF ProcessInv
<1> QED BY <1>1, BootStep, ServeStep, RelayStep, ConsumerStep, DrainStep DEF Next

(* The inductive invariant of the process holds in every reachable state.  *)
THEOREM ProcessInvariant == Spec => []ProcessInv
  BY InitProcessInv, NextProcessInv, PTL DEF Spec

(* Every variable of the process keeps its type; the boot retry never      *)
(* makes more attempts than BootRetries.                                   *)
THEOREM TypeCorrect == Spec => []TypeOK
<1>1. ProcessInv => TypeOK
  BY DEF ProcessInv
<1> QED BY <1>1, ProcessInvariant, PTL

(* A process that stops on a signal and in time closes its adapters only   *)
(* when every request is answered and the relay and the consumer have      *)
(* returned.                                                               *)
THEOREM ClosesQuietly == Spec => []QuietBeforeClose
<1>1. ProcessInv => QuietBeforeClose
  BY DEF ProcessInv, Phases, Quiet, NoRequests, QuietBeforeClose
<1> QED BY <1>1, ProcessInvariant, PTL

(* The committed offset covers only messages whose outcome is on record,   *)
(* wherever the process is cancelled, closed or killed.                    *)
THEOREM NoMessageLost == Spec => []OffsetsFollowEffects
<1>1. ProcessInv => OffsetsFollowEffects
  BY DEF ProcessInv, Progress
<1> QED BY <1>1, ProcessInvariant, PTL

=============================================================================
