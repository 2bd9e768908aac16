--------------------------- MODULE EventListener ---------------------------
(***************************************************************************)
(* Event emission and delivery: events/events.go, for one event listener   *)
(* pool.  Emitters are goroutines calling EmitEvent.  Each start of the    *)
(* listener program registers a new EventListener value, an instance, with *)
(* a queue and a delivery goroutine (pump) of its own; run() never         *)
(* unregisters the instance of a program that has died.                    *)
(***************************************************************************)
EXTENDS Naturals, Sequences, FiniteSets

CONSTANTS
  Emitters,      \* goroutines that emit events
  Types,         \* event types
  Derives,       \* eventTypeDerives: the abstract types of each type
  Events,        \* the "events" option of the listener
  BufferSize,    \* the "buffer_size" option
  MaxEvents,     \* bound: events created
  MaxInstances,  \* bound: starts of the listener program
  MaxPoolSerial  \* bound: pool serials taken

ASSUME DerivesAssumption == \A t \in Types : t \in DOMAIN Derives
ASSUME BufferSizeAssumption == BufferSize \in Nat
ASSUME MaxEventsAssumption == MaxEvents \in Nat
ASSUME MaxInstancesAssumption == MaxInstances \in Nat
ASSUME MaxPoolSerialAssumption == MaxPoolSerial \in Nat

VARIABLES
  eventSerial,  \* serial of the last event created
  poolSerial,   \* eventPoolSerial's next serial for the pool
  started,      \* instances created so far
  registered,   \* instances in the manager's maps
  stopped,      \* instances on which stop() was called
  alive,        \* instances whose program still runs
  queue,        \* el.events: encoded events
  pump,         \* control point of the delivery goroutine
  inFlight,     \* the event whose result the pump waits for
  acked,        \* events removed after RESULT OK, in order
  emitter,      \* control point of EmitEvent
  event,        \* serial of the event being emitted, or 0
  todo,         \* instances the loop over the map has not reached
  encoded,      \* the event encoded for an instance, not yet queued
  crashed       \* the runtime aborted on a concurrent map access

emitVars == <<eventSerial, poolSerial, emitter, event, todo, encoded>>
mapVars  == <<started, registered, stopped, alive>>
pumpVars == <<queue, pump, inFlight, acked>>
vars == <<emitVars, mapVars, pumpVars, crashed>>

Instances == 1..MaxInstances
\* What encodeEvent puts in the header.
Encoded == [serial : 1..MaxEvents, poolserial : 1..MaxPoolSerial]
NoEvent == [serial |-> 0, poolserial |-> 0]
NoTarget == [to |-> 0, header |-> NoEvent]

Init ==
  /\ eventSerial = 0 /\ poolSerial = 1
  /\ started = 0 /\ registered = {} /\ stopped = {} /\ alive = {}
  /\ queue = [i \in Instances |-> <<>>]
  /\ pump = [i \in Instances |-> "none"]
  /\ inFlight = [i \in Instances |-> NoEvent]
  /\ acked = [i \in Instances |-> <<>>]
  /\ emitter = [e \in Emitters |-> "idle"]
  /\ event = [e \in Emitters |-> 0]
  /\ todo = [e \in Emitters |-> {}]
  /\ encoded = [e \in Emitters |-> NoTarget]
  /\ crashed = FALSE

-----------------------------------------------------------------------------
\* The manager's maps.

\* registerEventListener: a type is subscribed if it or one of its abstract
\* types is listed.
Subscribed(t) == \E e \in Events : e = t \/ e \in Derives[t]

\* The maps have no lock: the loop of an emitter may or may not come across
\* what is added or deleted meanwhile, or the runtime may abort on the race.
Iterating == {e \in Emitters : todo[e] # {}}

\* A newly started listener program: the last one has died.
CanRegister(i) == i = started + 1 /\ alive = {}
\* Only the instance the pool's name stands for, the last one, is unregistered.
CanUnregister(i) == i = started /\ i \in registered

\* setLog: NewEventListener and its goroutine, then the maps.
Register(i) ==
  /\ CanRegister(i)
  /\ started' = i /\ alive' = {i}
  /\ registered' = registered \cup {i}
  /\ pump' = [pump EXCEPT ![i] = "ready"]
  /\ \E seen \in SUBSET Iterating :
       todo' = [e \in Emitters |-> IF e \in seen THEN todo[e] \cup {i} ELSE todo[e]]
  /\ UNCHANGED <<eventSerial, poolSerial, emitter, event, encoded, stopped, queue, inFlight, acked, crashed>>

\* cond.Signal wakes the pump if it waits.
Signalled_Lost(i) == pump
Signalled(i) == IF pump[i] = "waiting" THEN [pump EXCEPT ![i] = "get"] ELSE pump

\* unregisterEventListener, then stop().  An emitter about to queue for i does so.
Unregister(i) ==
  /\ CanUnregister(i)
  /\ registered' = registered \ {i}
  /\ stopped' = stopped \cup {i}
  /\ pump' = Signalled(i)
  /\ \E seen \in SUBSET {e \in Iterating : emitter[e] = "next" /\ todo[e] # {i}} :
       todo' = [e \in Emitters |-> IF e \in seen THEN todo[e] \ {i} ELSE todo[e]]
  /\ UNCHANGED <<eventSerial, poolSerial, emitter, event, encoded, started, alive, queue, inFlight, acked, crashed>>

MapRaceCrashes(i) ==
  /\ CanRegister(i) \/ CanUnregister(i)
  /\ Iterating # {}
  /\ crashed' = TRUE
  /\ UNCHANGED <<emitVars, mapVars, pumpVars>>

-----------------------------------------------------------------------------
\* Emitters.

\* NewXxxEvent takes the serial; EmitEvent looks up the type's listeners.
Emit(e, t) ==
  /\ emitter[e] = "idle" /\ eventSerial < MaxEvents
  /\ eventSerial' = eventSerial + 1
  /\ LET listeners == IF Subscribed(t) THEN registered ELSE {} IN
     /\ todo' = [todo EXCEPT ![e] = listeners]
     /\ emitter' = [emitter EXCEPT ![e] = IF listeners = {} THEN "idle" ELSE "next"]
     /\ event' = [event EXCEPT ![e] = IF listeners = {} THEN 0 ELSE eventSerial + 1]
  /\ UNCHANGED <<poolSerial, encoded, mapVars, pumpVars, crashed>>

\* nextSerial: the counter is read and incremented under a lock of its own; without
\* it an emitter could read what another one has just taken.
NextSerial_Unlocked == IF \E e \in Emitters : emitter[e] = "queue" THEN poolSerial - 1 ELSE poolSerial
NextSerial == poolSerial

\* HandleEvent: encodeEvent takes the pool serial, before the queue's lock.
Encode(e, i) ==
  /\ emitter[e] = "next" /\ i \in todo[e] /\ poolSerial <= MaxPoolSerial
  /\ encoded' = [encoded EXCEPT ![e] = [to |-> i, header |-> [serial |-> event[e], poolserial |-> NextSerial]]]
  /\ poolSerial' = poolSerial + 1
  /\ emitter' = [emitter EXCEPT ![e] = "queue"]
  /\ UNCHANGED <<eventSerial, event, todo, mapVars, pumpVars, crashed>>

\* HandleEvent: the test lets the queue grow to BufferSize + 1.
HasRoom_Unbounded(i) == TRUE
HasRoom(i) == Len(queue[i]) <= BufferSize

Enqueue(e) ==
  LET i == encoded[e].to IN
  /\ emitter[e] = "queue"
  /\ queue' = IF HasRoom(i) THEN [queue EXCEPT ![i] = Append(@, encoded[e].header)] ELSE queue
  /\ pump' = IF HasRoom(i) THEN Signalled(i) ELSE pump
  /\ encoded' = [encoded EXCEPT ![e] = NoTarget]
  /\ todo' = [todo EXCEPT ![e] = @ \ {i}]
  /\ emitter' = [emitter EXCEPT ![e] = IF todo[e] = {i} THEN "idle" ELSE "next"]
  /\ event' = [event EXCEPT ![e] = IF todo[e] = {i} THEN 0 ELSE @]
  /\ UNCHANGED <<eventSerial, poolSerial, mapVars, inFlight, acked, crashed>>

-----------------------------------------------------------------------------
\* The delivery goroutine of an instance.

PumpAt(i, from, to) == pump[i] = from /\ pump' = [pump EXCEPT ![i] = to]

\* waitForReady: lines other than READY are skipped; the end of the program's
\* output ends the goroutine.
Ready(i) ==
  /\ i \in alive
  /\ PumpAt(i, "ready", "get")
  /\ UNCHANGED <<emitVars, mapVars, queue, inFlight, acked, crashed>>

Ended(i) ==
  /\ i \notin alive
  /\ PumpAt(i, "ready", "ended")
  /\ UNCHANGED <<emitVars, mapVars, queue, inFlight, acked, crashed>>

\* getFirstEvent: wait for an event or for stop(); stop() goes first.
Wait(i) ==
  /\ queue[i] = <<>> /\ i \notin stopped
  /\ PumpAt(i, "get", "waiting")
  /\ UNCHANGED <<emitVars, mapVars, queue, inFlight, acked, crashed>>

Quit(i) ==
  /\ i \in stopped
  /\ PumpAt(i, "get", "ended")
  /\ UNCHANGED <<emitVars, mapVars, queue, inFlight, acked, crashed>>

\* Write the first event; it stays in the queue.
Write_Pops(i) ==
  /\ queue[i] # <<>> /\ i \notin stopped
  /\ PumpAt(i, "get", "result")
  /\ inFlight' = [inFlight EXCEPT ![i] = Head(queue[i])]
  /\ queue' = [queue EXCEPT ![i] = Tail(@)]
  /\ UNCHANGED <<emitVars, mapVars, acked, crashed>>
Write(i) ==
  /\ queue[i] # <<>> /\ i \notin stopped
  /\ PumpAt(i, "get", "result")
  /\ inFlight' = [inFlight EXCEPT ![i] = Head(queue[i])]
  /\ UNCHANGED <<emitVars, mapVars, queue, acked, crashed>>

WriteFails(i) ==
  /\ queue[i] # <<>> /\ i \notin stopped /\ i \notin alive
  /\ PumpAt(i, "get", "ready")
  /\ UNCHANGED <<emitVars, mapVars, queue, inFlight, acked, crashed>>

\* RESULT OK: removeFirstEvent.
ResultOK(i) ==
  /\ i \in alive
  /\ PumpAt(i, "result", "ready")
  /\ queue' = [queue EXCEPT ![i] = Tail(@)]
  /\ acked' = [acked EXCEPT ![i] = Append(@, Head(queue[i]))]
  /\ inFlight' = [inFlight EXCEPT ![i] = NoEvent]
  /\ UNCHANGED <<emitVars, mapVars, crashed>>

\* RESULT FAIL, a malformed result or the end of the program's output.
ResultFails_Drops(i) ==
  /\ PumpAt(i, "result", "ready")
  /\ inFlight' = [inFlight EXCEPT ![i] = NoEvent]
  /\ queue' = [queue EXCEPT ![i] = Tail(@)]
  /\ UNCHANGED <<emitVars, mapVars, acked, crashed>>
ResultFails(i) ==
  /\ PumpAt(i, "result", "ready")
  /\ inFlight' = [inFlight EXCEPT ![i] = NoEvent]
  /\ UNCHANGED <<emitVars, mapVars, queue, acked, crashed>>

\* Any other well-formed result: the event is sent again without waiting for READY.
ResultUnknown(i) ==
  /\ i \in alive
  /\ PumpAt(i, "result", "get")
  /\ inFlight' = [inFlight EXCEPT ![i] = NoEvent]
  /\ UNCHANGED <<emitVars, mapVars, queue, acked, crashed>>

\* The listener program dies.
Dies(i) ==
  /\ i \in alive
  /\ alive' = alive \ {i}
  /\ UNCHANGED <<emitVars, started, registered, stopped, pumpVars, crashed>>

Pump(i) == Wait(i) \/ Quit(i) \/ Write(i) \/ WriteFails(i) \/ Ended(i)
Program(i) == Ready(i) \/ ResultOK(i) \/ ResultFails(i) \/ ResultUnknown(i) \/ Dies(i)
Manager(i) == Register(i) \/ Unregister(i) \/ MapRaceCrashes(i)
Emitter(e) == (\E t \in Types : Emit(e, t)) \/ (\E i \in Instances : Encode(e, i)) \/ Enqueue(e)

Next ==
  /\ ~crashed
  /\ \/ \E i \in Instances : Manager(i) \/ Pump(i) \/ Program(i)
     \/ \E e \in Emitters : Emitter(e)

Spec == Init /\ [][Next]_vars

(* Goroutines proceed.  A listener program that lives follows the protocol:   *)
(* it says READY, answers, and does not refuse every time.                    *)
Fairness ==
  /\ \A e \in Emitters : WF_vars(~crashed /\ ((\E i \in Instances : Encode(e, i)) \/ Enqueue(e)))
  /\ \A i \in Instances :
       /\ WF_vars(~crashed /\ Pump(i))
       /\ WF_vars(~crashed /\ Ready(i))
       /\ SF_vars(~crashed /\ ResultOK(i))
       /\ WF_vars(~crashed /\ i \notin alive /\ ResultFails(i))

FairSpec == Spec /\ Fairness

-----------------------------------------------------------------------------

TypeOK ==
  /\ eventSerial \in 0..MaxEvents /\ poolSerial \in 1..(MaxPoolSerial + 1) /\ started \in 0..MaxInstances
  /\ registered \subseteq Instances /\ stopped \subseteq Instances /\ alive \subseteq Instances
  /\ queue \in [Instances -> Seq(Encoded)] /\ acked \in [Instances -> Seq(Encoded)]
  /\ pump \in [Instances -> {"none", "ready", "get", "waiting", "result", "ended"}]
  /\ inFlight \in [Instances -> Encoded \cup {NoEvent}]
  /\ emitter \in [Emitters -> {"idle", "next", "queue"}]
  /\ event \in [Emitters -> 0..MaxEvents]
  /\ todo \in [Emitters -> SUBSET Instances]
  /\ encoded \in [Emitters -> [to : Instances, header : Encoded] \cup {NoTarget}]
  /\ crashed \in BOOLEAN

\* A queue never holds more than buffer_size + 1 events, also that of a dead
\* program, which nobody empties.
QueueBounded == \A i \in Instances : Len(queue[i]) <= BufferSize + 1

\* RESULT OK removes the event that was sent: while the pump waits for the
\* result, what it sent is the first event of the queue, whatever emitters
\* and unregistering do meanwhile.
HeadIsInFlight ==
  \A i \in Instances : pump[i] = "result" => queue[i] # <<>> /\ Head(queue[i]) = inFlight[i]

\* What an instance was given so far, in order: HandleEvent's appends.
Given(i) == acked[i] \o queue[i]

\* No two events a pool's instances were given carry the same pool serial, over
\* restarts too, and no instance is given an event twice: although the serials
\* are taken outside the queue's lock, and an emitter's loop over the map may
\* come across instances registered and unregistered meanwhile.
SerialsDistinct ==
  /\ \A i, j \in Instances : \A m \in 1..Len(Given(i)), n \in 1..Len(Given(j)) :
       Given(i)[m].poolserial = Given(j)[n].poolserial => i = j /\ m = n
  /\ \A i \in Instances : \A m, n \in 1..Len(Given(i)) :
       Given(i)[m].serial = Given(i)[n].serial => m = n

\* A pump waits on the condition variable only while there is nothing to do:
\* no wake-up is lost.
NoLostWakeup == \A i \in Instances : pump[i] = "waiting" => queue[i] = <<>> /\ i \notin stopped

Fifo == INSTANCE BoundedFifo WITH Buffers <- Instances, Capacity <- BufferSize + 1,
                                  Value <- Encoded, pending <- queue, done <- acked

\* What the queues promise: events leave an instance's bounded queue only in
\* the order they entered it, each once, and only after RESULT OK; a program
\* that fails, answers nonsense or dies loses none of them.
QueuesAreFifo == Fifo!Spec

\* An event queued for a program that lives on and answers is acknowledged.
EventsAreAcknowledged ==
  \A i \in Instances : \A n \in 0..(MaxEvents - 1) :
    (Len(acked[i]) = n /\ queue[i] # <<>>) ~>
      (Len(acked[i]) > n \/ i \notin alive \/ i \in stopped \/ crashed)

\* stop() ends the delivery goroutine of a program that follows the protocol.
StoppedPumpEnds == \A i \in Instances : i \in stopped ~> (pump[i] = "ended" \/ crashed)
=============================================================================
